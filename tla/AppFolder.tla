----------------------------- MODULE AppFolder -----------------------------
(***************************************************************************)
(* User data of one user: the file user_data.json in the application       *)
(* folder of the user's Google Drive (backend/gdrive.go), the file ID and  *)
(* etag the backend remembers for it in the datastore, and the request     *)
(* handlers that read, modify and upload it (backend/schedule.go and       *)
(* backend/survey.go).                                                     *)
(*                                                                         *)
(* Every request is a process: requests of one user run concurrently, on   *)
(* any instance, and are cut off anywhere.  The only synchronisation is    *)
(* the If-Match header of the upload.  The etag comes from the datastore   *)
(* on the first attempt and from Drive on the second, always BEFORE the    *)
(* content is fetched.                                                     *)
(*                                                                         *)
(* Drive is external: it checks If-Match and writes in one step, stamps    *)
(* every write with a new etag and a later modifiedDate (one counter       *)
(* here), and names a new file after the request that created it.  The     *)
(* state of one user is independent of that of others, so one suffices.    *)
(***************************************************************************)
EXTENDS Naturals

CONSTANTS Requests, Sessions, Batches, Default,   \* as in UserDoc
          Contents,     \* documents the file may hold before the first request
          App,          \* the Android app, the other writer of the file
          NoId,         \* the zero file ID
          Provisioned,  \* TRUE: the file exists before the first request
          MaxEdits      \* bound on the stamps up to which the app edits

UD == INSTANCE UserDoc WITH doc <- 0, task <- 0, phase <- 0, applied <- 0, answer <- 0

FileIds == Requests \cup {App}

Docs == [bks : SUBSET Sessions, survey : SUBSET Sessions, ext : BOOLEAN]

ASSUME ConstantsAssumption ==
    /\ Default \subseteq Sessions
    /\ Batches \subseteq SUBSET Sessions
    /\ Contents \subseteq Docs
    /\ App \notin Requests
    /\ NoId \notin FileIds
    /\ Provisioned \in BOOLEAN
    /\ MaxEdits \in Nat

VARIABLES
    drive,    \* file -> [etag, doc]; etag 0 is a file that does not exist
    stamp,    \* number of writes Drive has seen
    meta,     \* the AppFolder entity: [fid, etag]; fid = NoId is no entity
    task,     \* what each request asks for
    pc,       \* where its handler is
    fresh,    \* its loop variable: FALSE on the first attempt, then TRUE
    data,     \* its appFolderData: [fid, etag, doc]
    status,   \* its answer: "none", "ok", "bad" (400) or "error" (500)
    applied,  \* history: requests whose upload or create reached the file
    pinged    \* requests that scheduled a /task/ping-ext

vars == <<drive, stamp, meta, task, pc, fresh, data, status, applied, pinged>>

PCs == {"idle", "meta", "content", "store", "record", "ping", "done"}

NoDoc == [bks |-> {}, survey |-> {}, ext |-> FALSE]

TypeOK ==
    /\ drive \in [FileIds -> [etag : Nat, doc : Docs]]
    /\ stamp \in Nat
    /\ meta \in [fid : FileIds \cup {NoId}, etag : Nat]
    /\ task \in [Requests -> UD!Tasks \cup {UD!NoTask}]
    /\ pc \in [Requests -> PCs]
    /\ fresh \in [Requests -> BOOLEAN]
    /\ data \in [Requests -> [fid : FileIds \cup {NoId}, etag : Nat, doc : Docs]]
    /\ status \in [Requests -> {"none", "ok", "bad", "error"}]
    /\ applied \in SUBSET Requests
    /\ pinged \in SUBSET Requests

-----------------------------------------------------------------------------
(* Drive                                                                   *)

Files == {f \in FileIds : drive[f].etag > 0}

\* The most recently modified file named user_data.json.
Newest == CHOOSE f \in Files : \A g \in Files : drive[g].etag =< drive[f].etag

\* What the user's document is: the content of the newest file.
UserDocument == IF Files = {} THEN UD!DefaultDoc ELSE drive[Newest].doc

\* Mutated form of IfMatch: the upload carries no If-Match header.
NoPrecondition(r) == TRUE

\* Mutated form of IfMatch: the second attempt forces the upload.
ForceRetry(r) == fresh[r] \/ data[r].etag = drive[data[r].fid].etag

\* Drive's precondition on an upload: the If-Match etag is the file's etag.
IfMatch(r) == data[r].etag = drive[data[r].fid].etag

-----------------------------------------------------------------------------
Init ==
    /\ \E d \in Contents :
          drive = [f \in FileIds |->
                      IF Provisioned /\ f = App THEN [etag |-> 1, doc |-> d]
                                                ELSE [etag |-> 0, doc |-> NoDoc]]
    /\ stamp = 1
    /\ meta \in {[fid |-> NoId, etag |-> 0]}
                  \cup (IF Provisioned THEN {[fid |-> App, etag |-> e] : e \in {0, 1}}
                                       ELSE {})
    /\ task = [r \in Requests |-> UD!NoTask]
    /\ pc = [r \in Requests |-> "idle"]
    /\ fresh = [r \in Requests |-> FALSE]
    /\ data = [r \in Requests |-> [fid |-> NoId, etag |-> 0, doc |-> NoDoc]]
    /\ status = [r \in Requests |-> "none"]
    /\ applied = {}
    /\ pinged = {}

Goto(r, l) == pc' = [pc EXCEPT ![r] = l]

Answer(r, s) == Goto(r, "done") /\ status' = [status EXCEPT ![r] = s]

\* An authenticated request with valid session IDs enters the loop
\* `for _, fresh := range []bool{false, true}`.
Begin(r) ==
    /\ pc[r] = "idle"
    /\ task' \in {[task EXCEPT ![r] = t] : t \in UD!Tasks}
    /\ Goto(r, "meta")
    /\ UNCHANGED <<drive, stamp, meta, fresh, data, status, applied, pinged>>

\* getLocalAppFolderMeta: file ID and etag as this backend last saw them.
ReadLocalMeta(r) ==
    /\ pc[r] = "meta"
    /\ ~fresh[r]
    /\ meta.fid # NoId
    /\ data' = [data EXCEPT ![r] = [fid |-> meta.fid, etag |-> meta.etag, doc |-> NoDoc]]
    /\ Goto(r, "content")
    /\ UNCHANGED <<drive, stamp, meta, task, fresh, status, applied, pinged>>

\* Mutated form of Use: only the first attempt looks for an earlier rating.
UseUnchecked(r, fid, etag, d) ==
    /\ data' = [data EXCEPT ![r] = [fid |-> fid, etag |-> etag,
                                    doc |-> UD!Effect(task[r], d)]]
    /\ CASE task[r].op = "get" -> Answer(r, "ok")
         [] UD!Refused(task[r], d) /\ ~fresh[r] -> Answer(r, "bad")
         [] OTHER -> Goto(r, "store") /\ UNCHANGED status

\* What a handler does with content d of its file: a listing answers with
\* it, a second rating is refused, anything else is changed and stored.
Use(r, fid, etag, d) ==
    /\ data' = [data EXCEPT ![r] = [fid |-> fid, etag |-> etag,
                                    doc |-> UD!Effect(task[r], d)]]
    /\ CASE task[r].op = "get"      -> Answer(r, "ok")
         [] UD!Refused(task[r], d)  -> Answer(r, "bad")
         [] OTHER                   -> Goto(r, "store") /\ UNCHANGED status

\* fetchAppFolderMeta, when the datastore has no entity, cannot be read or
\* is not to be trusted.  Without a file the default document is used.
ListFiles(r) ==
    /\ pc[r] = "meta"
    /\ IF Files = {}
       THEN Use(r, NoId, 0, UD!DefaultDoc)
       ELSE /\ data' = [data EXCEPT ![r] = [fid |-> Newest, etag |-> drive[Newest].etag,
                                            doc |-> NoDoc]]
            /\ Goto(r, "content")
            /\ UNCHANGED status
    /\ UNCHANGED <<drive, stamp, meta, task, fresh, applied, pinged>>

\* GET ...?alt=media: whatever the file contains by now.
FetchContent(r) ==
    /\ pc[r] = "content"
    /\ Use(r, data[r].fid, data[r].etag, drive[data[r].fid].doc)
    /\ UNCHANGED <<drive, stamp, meta, task, fresh, applied, pinged>>

\* Drive stores data[r].doc in file f.  If the answer gets lost the handler
\* reports an error, although the file has changed.
Write(r, f) ==
    /\ drive' = [drive EXCEPT ![f] = [etag |-> stamp + 1, doc |-> data[r].doc]]
    /\ stamp' = stamp + 1
    /\ applied' = applied \cup {r}
    /\ \/ /\ data' = [data EXCEPT ![r] = [fid |-> f, etag |-> stamp + 1, doc |-> @.doc]]
          /\ Goto(r, "record")
          /\ UNCHANGED status
       \/ Answer(r, "error") /\ UNCHANGED data

\* Mutated form of RetryOnConflict: the loop variable is not passed on, so
\* the second attempt trusts the datastore again.
RetryWithStaleMeta(r) == Goto(r, "meta") /\ UNCHANGED <<fresh, status>>

\* Mutated form of RetryOnConflict: the second conflict leaks out as is.
LeakConflict(r) ==
    IF fresh[r] THEN Answer(r, "conflict") /\ UNCHANGED fresh
                ELSE fresh' = [fresh EXCEPT ![r] = TRUE] /\ Goto(r, "meta") /\ UNCHANGED status

\* errConflict ends the first attempt and fails the second.
RetryOnConflict(r) ==
    IF fresh[r] THEN Answer(r, "error") /\ UNCHANGED fresh
                ELSE /\ fresh' = [fresh EXCEPT ![r] = TRUE]
                     /\ Goto(r, "meta")
                     /\ UNCHANGED status

\* updateAppFolderData: conditional upload of an existing file.
Update(r) ==
    /\ pc[r] = "store"
    /\ data[r].fid # NoId
    /\ \/ IfMatch(r) /\ Write(r, data[r].fid) /\ UNCHANGED fresh
       \/ /\ ~IfMatch(r)
          /\ RetryOnConflict(r)
          /\ UNCHANGED <<drive, stamp, applied, data>>
    /\ UNCHANGED <<meta, task, pinged>>

\* createAppFolderData: unconditional, Drive allows many files of a name.
Create(r) ==
    /\ pc[r] = "store"
    /\ data[r].fid = NoId
    /\ Write(r, r)
    /\ UNCHANGED <<meta, task, fresh, pinged>>

\* storeLocalAppFolderMeta; a failure is logged and ignored.
RecordMeta(r) ==
    /\ pc[r] = "record"
    /\ meta' \in {meta, [fid |-> data[r].fid, etag |-> data[r].etag]}
    /\ Goto(r, "ping")
    /\ UNCHANGED <<drive, stamp, task, fresh, data, status, applied, pinged>>

\* pingExtPartyAsync when the document has the app's key (a failure is
\* logged and ignored), then 200 OK with the new list.
PingExtParty(r) ==
    /\ pc[r] = "ping"
    /\ pinged' \in {pinged} \cup (IF data[r].doc.ext THEN {pinged \cup {r}} ELSE {})
    /\ Answer(r, "ok")
    /\ UNCHANGED <<drive, stamp, meta, task, fresh, data, applied>>

\* A remote call fails without effect and the handler returns the error,
\* or the instance dies: the client sees no success either way.
Fail(r) ==
    /\ pc[r] \notin {"idle", "done"}
    /\ Answer(r, "error")
    /\ UNCHANGED <<drive, stamp, meta, task, fresh, data, applied, pinged>>

\* The Android app edits the newest file or creates one.
AppEdit ==
    /\ stamp < MaxEdits
    /\ LET f == IF Files = {} THEN App ELSE Newest
       IN  drive' \in {[drive EXCEPT ![f] = [etag |-> stamp + 1, doc |-> d]] :
                          d \in UD!ExternalDocs(UserDocument)}
    /\ stamp' = stamp + 1
    /\ UNCHANGED <<meta, task, pc, fresh, data, status, applied, pinged>>

Handler(r) ==
    \/ ReadLocalMeta(r) \/ ListFiles(r) \/ FetchContent(r)
    \/ Update(r) \/ Create(r) \/ RecordMeta(r) \/ PingExtParty(r)

\* All requests are answered: nothing more is asked of the system.
Quiescent == (\A r \in Requests : pc[r] = "done") /\ UNCHANGED vars

Next ==
    \/ \E r \in Requests : Begin(r) \/ Handler(r) \/ Fail(r)
    \/ AppEdit
    \/ Quiescent

Spec == Init /\ [][Next]_vars

\* A handler that has started runs on: every remote call it makes has a
\* deadline (10 seconds, transport.go) after which it fails or returns.
FairSpec == Spec /\ \A r \in Requests : WF_vars(Handler(r))
-----------------------------------------------------------------------------
(* Safety                                                                  *)

\* A request that is about to upload, and whose upload Drive would accept,
\* uploads its change applied to what the file contains now: the etag taken
\* before the download is never newer than the content (getAppFolderData).
SnapshotCurrent ==
    \A r \in Requests :
        (pc[r] = "store" /\ data[r].fid # NoId /\ IfMatch(r))
            => data[r].doc = UD!Effect(task[r], drive[data[r].fid].doc)

\* A session is rated at most once however many submissions race or are
\* repeated after an error ("prevent double submission", survey.go).
SurveyOnce ==
    \A q, r \in applied :
        (q # r /\ task[q].op = "survey" /\ task[r].op = "survey")
            => task[q].ids # task[r].ids

\* Nothing is lost: the user's document changes only by the effect of one
\* request on the document as it is at that instant, or by the app.
SerialStep ==
    \/ UserDocument' = UserDocument
    \/ \E r \in Requests : /\ pc[r] = "store"
                           /\ UserDocument' = UD!Effect(task[r], UserDocument)
    \/ pc' = pc /\ UserDocument' \in UD!ExternalDocs(UserDocument)
DocSerial == [][SerialStep]_vars

\* The handlers and the file in Drive implement the abstract UserDoc.
Impl == INSTANCE UserDoc WITH
    doc    <- UserDocument,
    phase  <- [r \in Requests |-> CASE pc[r] = "idle" -> "new"
                                    [] pc[r] = "done" -> status[r]
                                    [] OTHER          -> "open"],
    answer <- [r \in Requests |-> IF r \in applied \/ status[r] = "ok"
                                  THEN data[r].doc.bks ELSE {}]

\* Every behaviour of the handlers is one of UserDoc: each answered request
\* took effect once, at one instant, on the document of that instant, and
\* its answer is the list the document had then.
ImplementsUserDoc == Impl!Spec

\* The answer of a request that changes bookmarks is "the altered bookmarks
\* list" (docs/API.md): when every request added bookmarks, the app did
\* nothing and all were answered 200 OK, the document has them all.
AcknowledgedKept ==
    (\A r \in Requests : task[r].op = "put" /\ status[r] = "ok")
        => \A r \in Requests : task[r].ids \subseteq UserDocument.bks

-----------------------------------------------------------------------------
(* Liveness                                                                *)

\* Every handler that started answers: the retry loop ends after its second
\* attempt, whatever the app does to the file meanwhile.
EveryRequestAnswered ==
    \A r \in Requests : (pc[r] # "idle") ~> (pc[r] = "done")
=============================================================================
