----------------------------- MODULE MCBackend -----------------------------
(***************************************************************************)
(* What the backend owes under fairness: EventSync catches up, the         *)
(* handlers of AppFolder answer a user who has no user_data.json yet, and  *)
(* Credentials that are lost are got again.  The three keep their state to *)
(* themselves, so a behaviour chooses one part, which takes the steps of   *)
(* its own specification, and the others stay in an initial state.         *)
(***************************************************************************)
EXTENDS EventSync, Credentials

CONSTANTS Requests, Sessions, Default, App, NoId, MaxEdits

VARIABLES part, drive, stamp, meta, task, handler, fresh, data, status, applied, pinged

\* The user has no bookmark yet; one session can be added.
FirstFile == {[bks |-> Default, survey |-> {}, ext |-> FALSE]}

Folder == INSTANCE AppFolder WITH
    pc <- handler, Batches <- {Sessions}, Contents <- FirstFile, Provisioned <- FALSE

folder == <<drive, stamp, meta, task, handler, fresh, data, status, applied, pinged>>

BackendInit ==
    part \in {"sync", "folder", "credentials"} /\ Init /\ Folder!Init /\ CredentialsInit

BackendNext ==
    \/ part = "sync" /\ Next /\ UNCHANGED <<folder, credVars, part>>
    \/ part = "folder" /\ Folder!Next /\ UNCHANGED <<vars, credVars, part>>
    \/ part = "credentials" /\ CredentialsNext /\ UNCHANGED <<vars, folder, part>>

\* The fairness of the part that takes steps, as its module states it.
BackendFairness ==
    /\ \A s \in Syncs : WF_vars(part = "sync" /\ Enter(s)) /\ WF_vars(part = "sync" /\ Sync(s))
    /\ \A r \in Requests : WF_folder(part = "folder" /\ Folder!Handler(r))
    /\ \A s \in SignIns : WF_credVars(part = "credentials" /\ SignIn(s))
    /\ \A u \in Uses : WF_credVars(part = "credentials" /\ Serve(u))
    /\ WF_credVars(part = "credentials" /\ ExpireToken)

BackendSpec == BackendInit /\ [][BackendNext]_<<vars, folder, credVars, part>> /\ BackendFairness

\* CatchesUp of EventSync, where it takes steps: what was published gets stored, unless a
\* sync was cut off.
SyncCatchesUp == part = "sync" => CatchesUp

\* EveryRequestAnswered of AppFolder, where it takes steps: every handler that started
\* answers, though the file has to be created and another writer may do so first.
FirstFileAnswered == part = "folder" => Folder!EveryRequestAnswered

\* CredentialsHeal of Credentials, where it takes steps: a user who signs in as long as
\* the backend cannot act for her, and goes on using the page, is not locked out.
NobodyLockedOut == part = "credentials" => CredentialsHeal
=============================================================================
