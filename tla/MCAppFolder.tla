---------------------------- MODULE MCAppFolder ----------------------------
(* A model-checking instance of AppFolder: two requests of one user.       *)
EXTENDS AppFolder, TLC

\* Requests differ in name only; the run identifies them.
Interchangeable == Permutations(Requests)

\* The file as the web app creates it for somebody with no bookmark yet.
FirstFile == {[bks |-> Default, survey |-> {}, ext |-> FALSE]}
=============================================================================
