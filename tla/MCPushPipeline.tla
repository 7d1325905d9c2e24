--------------------------- MODULE MCPushPipeline ---------------------------
(* Model-checking instances of PushPipeline.                               *)
EXTENDS PushPipeline, TLC

CONSTANTS gcm, e1, e2

\* e1 and e2 are two registrations of one device, which moved to e2.
MovedTo == (e1 :> e2) @@ (e2 :> e2)
Interchangeable == Permutations(Workers)
=============================================================================
