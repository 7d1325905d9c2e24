--------------------------- MODULE MCChangesFeed ---------------------------
(* A model-checking instance of ChangesFeed: a keynote, and a later session *)
(* that nobody surveys.  Reminders come in every combination: the keynote  *)
(* soon, starting, surveyed; the other starting before, with or after it.  *)
EXTENDS ChangesFeed, TLC

CONSTANTS keynote, talk

TheSessions == {keynote, talk}
TheStart == (keynote :> 9) @@ (talk :> 12)
Interchangeable == Permutations(Clocks) \cup Permutations(Handlers)
=============================================================================
