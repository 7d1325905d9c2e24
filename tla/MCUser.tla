------------------------------- MODULE MCUser -------------------------------
(***************************************************************************)
(* What is kept for one user, on both sides: the file in Drive under       *)
(* concurrent requests, and in the browser the SW token with the push      *)
(* subscription, and the bookmarks on display.  They keep their state to   *)
(* themselves, so a behaviour chooses one part, which takes the steps of   *)
(* its own specification, and the others stay in an initial state.         *)
(***************************************************************************)
EXTENDS AppFolder, SWToken, CacheThenNetwork, TLC

VARIABLE part

\* Requests differ in name only, and so do users: they have the same names.
Interchangeable == Permutations(Requests)

\* The file as the web app creates it for somebody with no bookmark yet.
FirstFile == {[bks |-> Default, survey |-> {}, ext |-> FALSE]}

\* A part that takes no steps has one initial state.
Pinned ==
    /\ part # "folder" => meta.fid = NoId
    /\ part # "token" => notify = {}

UserInit ==
    /\ part \in {"folder", "token", "display"}
    /\ Init /\ SWTokenInit /\ CacheThenNetworkInit /\ Pinned

UserNext ==
    /\ UNCHANGED part
    /\ \/ part = "folder" /\ Next /\ UNCHANGED <<swVars, ctnVars>>
       \/ part = "token" /\ SWTokenNext /\ UNCHANGED <<vars, ctnVars>>
       \/ part = "display" /\ CacheThenNetworkNext /\ UNCHANGED <<vars, swVars>>
       \/ part # "folder" /\ UNCHANGED <<vars, swVars, ctnVars>>     \* nobody does anything

UserSpec == UserInit /\ [][UserNext]_<<vars, swVars, ctnVars, part>>
=============================================================================
