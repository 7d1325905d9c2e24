--------------------------- MODULE MCOfflineQueue ---------------------------
(***************************************************************************)
(* OfflineQueue on small sets of users and sessions, for TLC.              *)
(***************************************************************************)
EXTENDS OfflineQueue, TLC

\* Users and sessions are interchangeable.
Symmetry == Permutations(Users) \union Permutations(Sessions)

=============================================================================
