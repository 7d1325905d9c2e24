-------------------------- MODULE AppFolderProofs --------------------------
(***************************************************************************)
(* Theorems about AppFolder, for any number of requests, any sessions and  *)
(* any number of edits by the Android app.                                 *)
(***************************************************************************)
EXTENDS AppFolder, TLAPS

\* What a handler at a given place has established.
Control ==
    \A r \in Requests :
        /\ pc[r] # "idle" => task[r] \in UD!Tasks
        /\ pc[r] = "content" => data[r].fid \in FileIds
        /\ pc[r] \in {"store", "record"} => task[r].op # "get"

\* Drive's counter is ahead of every etag anybody holds: an etag that a
\* write makes is new to all of them.
Stamps ==
    /\ \A f \in FileIds : drive[f].etag =< stamp
    /\ \A r \in Requests : data[r].etag =< stamp
    /\ meta.etag =< stamp

\* There is a newest file as soon as there is one.
HasNewest ==
    Files # {} => \E f \in Files : \A g \in Files : drive[g].etag =< drive[f].etag

\* The inductive invariant.
IInv == TypeOK /\ Control /\ Stamps /\ HasNewest /\ SnapshotCurrent

-----------------------------------------------------------------------------
(* Lemmas on the operators                                                 *)

\* A modified document is a document.
LEMMA EffectIsDoc ==
    ASSUME NEW t \in UD!Tasks, NEW d \in Docs
    PROVE  UD!Effect(t, d) \in Docs
<1>1. t.ids \in SUBSET Sessions
  BY ConstantsAssumption DEF UD!Tasks
<1>2. CASE t.op = "put"
  BY <1>1, <1>2 DEF UD!Effect, Docs
<1>3. CASE t.op = "delete"
  BY <1>1, <1>3 DEF UD!Effect, Docs
<1>4. CASE t.op = "survey"
  BY <1>1, <1>4 DEF UD!Effect, Docs
<1>5. CASE t.op \notin {"put", "delete", "survey"}
  BY <1>5 DEF UD!Effect, Docs
<1>6. QED
  BY <1>2, <1>3, <1>4, <1>5

\* The app's edits are documents, and so is the default one.
LEMMA OtherDocs ==
    /\ UD!DefaultDoc \in Docs
    /\ NoDoc \in Docs
    /\ \A d \in Docs : UD!ExternalDocs(d) \subseteq Docs
<1>1. UD!DefaultDoc \in Docs
  BY ConstantsAssumption DEF UD!DefaultDoc, Docs
<1>2. NoDoc \in Docs
  BY DEF NoDoc, Docs
<1>3. ASSUME NEW d \in Docs, NEW e \in UD!ExternalDocs(d)
      PROVE  e \in Docs
  <2>1. PICK b \in SUBSET Sessions : e = [d EXCEPT !.bks = b, !.ext = TRUE]
    BY <1>3 DEF UD!ExternalDocs
  <2>2. QED
    BY <2>1 DEF Docs
<1>4. QED
  BY <1>1, <1>2, <1>3

\* The newest file is a file, at least as new as any other.
LEMMA NewestIsFile ==
    ASSUME HasNewest, Files # {}
    PROVE  Newest \in Files /\ \A g \in Files : drive[g].etag =< drive[Newest].etag
BY DEF HasNewest, Newest

\* What the user's document is, is a document.
LEMMA UserDocumentIsDoc ==
    ASSUME TypeOK, HasNewest
    PROVE  UserDocument \in Docs
<1>1. CASE Files = {}
  BY <1>1, OtherDocs DEF UserDocument
<1>2. CASE Files # {}
  <2>1. Newest \in FileIds
    BY <1>2, NewestIsFile DEF Files
  <2>2. QED
    BY <1>2, <2>1 DEF UserDocument, TypeOK
<1>3. QED
  BY <1>1, <1>2

\* Whoever stores a document d in file f under the next etag keeps Drive's
\* counter ahead and makes f the newest file.
LEMMA StoreMakesNewest ==
    ASSUME TypeOK, Stamps, NEW f \in FileIds, NEW d \in Docs,
           drive' = [drive EXCEPT ![f] = [etag |-> stamp + 1, doc |-> d]],
           stamp' = stamp + 1
    PROVE  /\ drive' \in [FileIds -> [etag : Nat, doc : Docs]]
           /\ stamp' \in Nat
           /\ \A g \in FileIds : drive'[g].etag =< stamp'
           /\ HasNewest'
           /\ Files' = Files \cup {f}
           /\ Newest' = f
           /\ UserDocument' = d
<1>1. stamp \in Nat /\ drive \in [FileIds -> [etag : Nat, doc : Docs]]
  BY DEF TypeOK
<1>2. drive' \in [FileIds -> [etag : Nat, doc : Docs]] /\ stamp' \in Nat
  BY <1>1
<1>3. drive'[f].etag = stamp + 1 /\ drive'[f].doc = d
  BY <1>1
<1>4. \A g \in FileIds : g # f => drive'[g] = drive[g] /\ drive'[g].etag < stamp + 1
  BY <1>1 DEF Stamps
<1>5. \A g \in FileIds : drive'[g].etag =< stamp'
  BY <1>1, <1>2, <1>3, <1>4
<1>6. Files' = Files \cup {f}
  BY <1>1, <1>2, <1>3, <1>4 DEF Files
<1>7. \A g \in Files' : g # f => drive'[g].etag < drive'[f].etag
  BY <1>3, <1>4 DEF Files
<1>8. f \in Files' /\ \A g \in Files' : drive'[g].etag =< drive'[f].etag
  BY <1>1, <1>3, <1>5, <1>6 DEF Files
<1>9. Newest' = f
  <2>1. \A h \in Files' : (\A g \in Files' : drive'[g].etag =< drive'[h].etag) => h = f
    <3>1. SUFFICES ASSUME NEW h \in Files', h # f
                   PROVE  ~(drive'[f].etag =< drive'[h].etag)
      BY <1>8
    <3>2. drive'[h].etag \in Nat /\ drive'[f].etag \in Nat
      BY <1>2, <3>1 DEF Files
    <3>3. QED
      BY <1>7, <3>1, <3>2
  <2>2. QED
    BY <1>8, <2>1 DEF Newest
<1>10. UserDocument' = d
  BY <1>3, <1>8, <1>9 DEF UserDocument
<1>11. HasNewest'
  BY <1>8 DEF HasNewest
<1>12. QED
  BY <1>2, <1>5, <1>6, <1>9, <1>10, <1>11

\* A store that leaves pc and data of every other request alone keeps the
\* snapshots of these requests current: they lost their precondition.
LEMMA StoreKeepsSnapshots ==
    ASSUME TypeOK, Stamps, SnapshotCurrent,
           NEW f \in FileIds, NEW d \in Docs, NEW q \in Requests,
           drive' = [drive EXCEPT ![f] = [etag |-> stamp + 1, doc |-> d]],
           pc'[q] = pc[q], data'[q] = data[q], task'[q] = task[q],
           pc'[q] = "store", data'[q].fid # NoId, IfMatch(q)'
    PROVE  data'[q].doc = UD!Effect(task'[q], drive'[data'[q].fid].doc)
<1>1. /\ stamp \in Nat /\ drive \in [FileIds -> [etag : Nat, doc : Docs]]
      /\ data[q].fid \in FileIds /\ data[q].etag \in Nat /\ data[q].etag =< stamp
  BY DEF TypeOK, Stamps
<1>2. data[q].fid # f
  <2>1. SUFFICES ASSUME data[q].fid = f PROVE FALSE
    OBVIOUS
  <2>2. drive'[f].etag = stamp + 1
    BY <1>1
  <2>3. data[q].etag = stamp + 1
    BY <2>1, <2>2 DEF IfMatch
  <2>4. QED
    BY <1>1, <2>3
<1>3. drive'[data[q].fid] = drive[data[q].fid]
  BY <1>1, <1>2
<1>4. IfMatch(q)
  BY <1>3 DEF IfMatch
<1>5. QED
  BY <1>3, <1>4 DEF SnapshotCurrent

-----------------------------------------------------------------------------
(* The invariant, action by action                                         *)

LEMMA InitIInv == Init => IInv
<1> SUFFICES ASSUME Init PROVE IInv
  OBVIOUS
<1> USE ConstantsAssumption
<1>1. PICK d \in Contents :
        drive = [f \in FileIds |-> IF Provisioned /\ f = App
                                   THEN [etag |-> 1, doc |-> d]
                                   ELSE [etag |-> 0, doc |-> NoDoc]]
  BY DEF Init
<1>2. d \in Docs /\ NoDoc \in Docs
  BY OtherDocs
<1>3. meta \in [fid : FileIds \cup {NoId}, etag : Nat] /\ meta.etag =< 1
  BY DEF Init, FileIds
<1>4. TypeOK
  BY <1>1, <1>2, <1>3 DEF Init, TypeOK, PCs, UD!NoTask
<1>5. Control
  BY DEF Init, Control
<1>6. Stamps
  BY <1>1, <1>3 DEF Init, Stamps
<1>7. HasNewest
  <2>1. \A f, g \in Files : f = App /\ g = App
    BY <1>1 DEF Files
  <2>2. \A f \in Files : drive[f].etag = 1
    BY <1>1 DEF Files
  <2>3. QED
    BY <2>1, <2>2 DEF HasNewest
<1>8. SnapshotCurrent
  BY DEF Init, SnapshotCurrent
<1>9. QED
  BY <1>4, <1>5, <1>6, <1>7, <1>8 DEF IInv

\* A step that leaves Drive alone keeps the invariant if it types, keeps
\* what is known of each place, and takes no newer etag than Drive's.
LEMMA DriveUntouched ==
    ASSUME IInv, TypeOK', Control', UNCHANGED <<drive, stamp>>,
           \A q \in Requests : data'[q].etag =< stamp,
           meta'.etag =< stamp,
           SnapshotCurrent'
    PROVE  IInv'
BY DEF IInv, Stamps, HasNewest, Files

LEMMA UseStep ==
    ASSUME IInv, NEW r \in Requests, NEW fid \in FileIds \cup {NoId}, NEW etag \in Nat,
           NEW d \in Docs, pc[r] \in {"meta", "content"}, etag =< stamp,
           fid # NoId => d = drive[fid].doc,
           Use(r, fid, etag, d),
           UNCHANGED <<drive, stamp, meta, task, fresh, applied, pinged>>
    PROVE  IInv'
<1>1. /\ task[r] \in UD!Tasks
      /\ TypeOK
  BY DEF IInv, Control
<1>2. UD!Effect(task[r], d) \in Docs
  BY <1>1, EffectIsDoc
<1>3. /\ data' = [data EXCEPT ![r] = [fid |-> fid, etag |-> etag,
                                      doc |-> UD!Effect(task[r], d)]]
      /\ data' \in [Requests -> [fid : FileIds \cup {NoId}, etag : Nat, doc : Docs]]
  BY <1>1, <1>2 DEF Use, TypeOK
<1>4. \/ task[r].op = "get" /\ Answer(r, "ok")
      \/ Answer(r, "bad")
      \/ task[r].op # "get" /\ Goto(r, "store") /\ UNCHANGED status
  BY DEF Use
<1>5. /\ pc' \in [Requests -> PCs]
      /\ status' \in [Requests -> {"none", "ok", "bad", "error"}]
      /\ pc'[r] \in {"done", "store"}
      /\ pc'[r] = "store" => task[r].op # "get"
      /\ \A q \in Requests : q # r => pc'[q] = pc[q]
  BY <1>1, <1>4 DEF Answer, Goto, TypeOK, PCs
<1>6. TypeOK'
  BY <1>1, <1>3, <1>5 DEF TypeOK
<1>7. Control'
  BY <1>1, <1>3, <1>5 DEF IInv, Control, TypeOK
<1>8. \A q \in Requests : data'[q].etag =< stamp
  BY <1>1, <1>3 DEF IInv, Stamps, TypeOK
<1>9. SnapshotCurrent'
  <2>1. SUFFICES ASSUME NEW q \in Requests,
                        pc'[q] = "store", data'[q].fid # NoId, IfMatch(q)'
                 PROVE  data'[q].doc = UD!Effect(task'[q], drive'[data'[q].fid].doc)
    BY DEF SnapshotCurrent
  <2>2. CASE q = r
    BY <2>1, <2>2, <1>1, <1>3 DEF TypeOK
  <2>3. CASE q # r
    BY <2>1, <2>3, <1>1, <1>3, <1>5 DEF TypeOK, IInv, SnapshotCurrent, IfMatch
  <2>4. QED
    BY <2>2, <2>3
<1>10. QED
  BY <1>6, <1>7, <1>8, <1>9, DriveUntouched DEF IInv, Stamps

LEMMA BeginStep ==
    ASSUME IInv, NEW r \in Requests, Begin(r)
    PROVE  IInv'
<1>1. TypeOK
  BY DEF IInv
<1>2. PICK t \in UD!Tasks : task' = [task EXCEPT ![r] = t]
  BY DEF Begin
<1>3. pc' = [pc EXCEPT ![r] = "meta"]
  BY DEF Begin, Goto
<1>4. TypeOK'
  BY <1>1, <1>2, <1>3 DEF Begin, TypeOK, PCs
<1>5. Control'
  BY <1>1, <1>2, <1>3 DEF Begin, IInv, Control, TypeOK
<1>6. SnapshotCurrent'
  BY <1>1, <1>2, <1>3 DEF Begin, IInv, SnapshotCurrent, TypeOK, IfMatch
<1>7. QED
  BY <1>4, <1>5, <1>6, DriveUntouched DEF IInv, Stamps, Begin

LEMMA ReadLocalMetaStep ==
    ASSUME IInv, NEW r \in Requests, ReadLocalMeta(r)
    PROVE  IInv'
<1>1. TypeOK
  BY DEF IInv
<1>2. /\ data' = [data EXCEPT ![r] = [fid |-> meta.fid, etag |-> meta.etag, doc |-> NoDoc]]
      /\ meta.fid \in FileIds /\ meta.etag \in Nat /\ meta.etag =< stamp
  BY <1>1 DEF ReadLocalMeta, TypeOK, IInv, Stamps
<1>3. pc[r] = "meta" /\ pc' = [pc EXCEPT ![r] = "content"]
  BY DEF ReadLocalMeta, Goto
<1>4. TypeOK'
  BY <1>1, <1>2, <1>3, OtherDocs DEF ReadLocalMeta, TypeOK, PCs
<1>5. Control'
  BY <1>1, <1>2, <1>3 DEF ReadLocalMeta, IInv, Control, TypeOK
<1>6. SnapshotCurrent'
  BY <1>1, <1>2, <1>3 DEF ReadLocalMeta, IInv, SnapshotCurrent, TypeOK, IfMatch
<1>7. \A q \in Requests : data'[q].etag =< stamp
  BY <1>1, <1>2 DEF IInv, Stamps, TypeOK
<1>8. QED
  BY <1>4, <1>5, <1>6, <1>7, DriveUntouched DEF IInv, Stamps, ReadLocalMeta

LEMMA ListFilesStep ==
    ASSUME IInv, NEW r \in Requests, ListFiles(r)
    PROVE  IInv'
<1>1. TypeOK
  BY DEF IInv
<1>2. pc[r] = "meta" /\ UNCHANGED <<drive, stamp, meta, task, fresh, applied, pinged>>
  BY DEF ListFiles
<1>3. CASE Files = {}
  <2>1. Use(r, NoId, 0, UD!DefaultDoc)
    BY <1>3 DEF ListFiles
  <2>2. 0 =< stamp
    BY <1>1 DEF TypeOK
  <2>3. QED
    BY <1>2, <2>1, <2>2, OtherDocs, UseStep
<1>4. CASE Files # {}
  <2>1. Newest \in FileIds /\ drive[Newest].etag \in Nat /\ drive[Newest].etag =< stamp
    BY <1>1, <1>4, NewestIsFile DEF IInv, Files, TypeOK, Stamps
  <2>2. /\ data' = [data EXCEPT ![r] = [fid |-> Newest, etag |-> drive[Newest].etag,
                                        doc |-> NoDoc]]
        /\ pc' = [pc EXCEPT ![r] = "content"]
        /\ status' = status
    BY <1>4 DEF ListFiles, Goto
  <2>3. TypeOK'
    BY <1>1, <1>2, <2>1, <2>2, OtherDocs DEF TypeOK, PCs
  <2>4. Control'
    BY <1>1, <1>2, <2>1, <2>2 DEF IInv, Control, TypeOK
  <2>5. SnapshotCurrent'
    BY <1>1, <1>2, <2>2 DEF IInv, SnapshotCurrent, TypeOK, IfMatch
  <2>6. \A q \in Requests : data'[q].etag =< stamp
    BY <1>1, <2>1, <2>2 DEF IInv, Stamps, TypeOK
  <2>7. QED
    BY <1>2, <2>3, <2>4, <2>5, <2>6, DriveUntouched DEF IInv, Stamps
<1>5. QED
  BY <1>3, <1>4

LEMMA FetchContentStep ==
    ASSUME IInv, NEW r \in Requests, FetchContent(r)
    PROVE  IInv'
<1>1. data[r].fid \in FileIds /\ data[r].etag \in Nat /\ data[r].etag =< stamp
  BY DEF IInv, Control, FetchContent, TypeOK, Stamps
<1>2. drive[data[r].fid].doc \in Docs
  BY <1>1 DEF IInv, TypeOK
<1>3. QED
  BY <1>1, <1>2, UseStep DEF FetchContent

LEMMA WriteStep ==
    ASSUME IInv, NEW r \in Requests, NEW f \in FileIds, pc[r] = "store",
           Write(r, f), UNCHANGED <<meta, task, fresh, pinged>>
    PROVE  IInv'
<1> DEFINE d == data[r].doc
<1>1. TypeOK /\ Stamps /\ SnapshotCurrent
  BY DEF IInv
<1>2. /\ d \in Docs /\ stamp \in Nat
      /\ drive' = [drive EXCEPT ![f] = [etag |-> stamp + 1, doc |-> d]]
      /\ stamp' = stamp + 1
      /\ applied' = applied \cup {r}
  BY <1>1 DEF Write, TypeOK
<1>3. /\ drive' \in [FileIds -> [etag : Nat, doc : Docs]]
      /\ stamp' \in Nat
      /\ \A g \in FileIds : drive'[g].etag =< stamp'
      /\ HasNewest'
  BY <1>1, <1>2, StoreMakesNewest
<1>4. /\ data' \in [Requests -> [fid : FileIds \cup {NoId}, etag : Nat, doc : Docs]]
      /\ data'[r].etag =< stamp'
      /\ \A q \in Requests : q # r => data'[q] = data[q]
  <2>1. CASE data' = [data EXCEPT ![r] = [fid |-> f, etag |-> stamp + 1, doc |-> @.doc]]
    <3>1. [fid |-> f, etag |-> stamp + 1, doc |-> data[r].doc]
            \in [fid : FileIds \cup {NoId}, etag : Nat, doc : Docs]
      BY <1>2
    <3>2. data \in [Requests -> [fid : FileIds \cup {NoId}, etag : Nat, doc : Docs]]
      BY <1>1 DEF TypeOK
    <3>3. QED
      BY <1>2, <2>1, <3>1, <3>2
  <2>2. CASE UNCHANGED data
    BY <1>1, <1>2, <2>2 DEF TypeOK, Stamps
  <2>3. QED
    BY <2>1, <2>2 DEF Write
<1>5. /\ pc' \in [Requests -> PCs] /\ pc'[r] \in {"record", "done"}
      /\ \A q \in Requests : q # r => pc'[q] = pc[q]
      /\ status' \in [Requests -> {"none", "ok", "bad", "error"}]
  BY <1>1 DEF Write, Goto, Answer, TypeOK, PCs
<1>6. TypeOK'
  BY <1>1, <1>2, <1>3, <1>4, <1>5 DEF TypeOK
<1>7. Control'
  BY <1>1, <1>4, <1>5 DEF IInv, Control, TypeOK
<1>8. Stamps'
  <2>1. \A q \in Requests : data'[q].etag =< stamp'
    BY <1>1, <1>2, <1>4 DEF TypeOK, Stamps
  <2>2. meta'.etag =< stamp'
    BY <1>1, <1>2 DEF TypeOK, Stamps
  <2>3. QED
    BY <1>3, <2>1, <2>2 DEF Stamps
<1>9. SnapshotCurrent'
  <2>1. SUFFICES ASSUME NEW q \in Requests,
                        pc'[q] = "store", data'[q].fid # NoId, IfMatch(q)'
                 PROVE  data'[q].doc = UD!Effect(task'[q], drive'[data'[q].fid].doc)
    BY DEF SnapshotCurrent
  <2>2. q # r
    BY <1>5, <2>1
  <2>3. QED
    BY <1>1, <1>2, <1>4, <1>5, <2>1, <2>2, StoreKeepsSnapshots
<1>10. QED
  BY <1>3, <1>6, <1>7, <1>8, <1>9 DEF IInv

LEMMA UpdateStep ==
    ASSUME IInv, NEW r \in Requests, Update(r)
    PROVE  IInv'
<1>1. TypeOK /\ pc[r] = "store" /\ data[r].fid \in FileIds
  BY DEF Update, IInv, TypeOK
<1>2. CASE Write(r, data[r].fid) /\ UNCHANGED fresh
  BY <1>1, <1>2, WriteStep DEF Update
<1>3. CASE RetryOnConflict(r) /\ UNCHANGED <<drive, stamp, applied, data>>
  <2>1. /\ pc' \in [Requests -> PCs] /\ pc'[r] \in {"meta", "done"}
        /\ \A q \in Requests : q # r => pc'[q] = pc[q]
        /\ status' \in [Requests -> {"none", "ok", "bad", "error"}]
        /\ fresh' \in [Requests -> BOOLEAN]
    <3>1. CASE fresh[r]
      BY <1>1, <1>3, <3>1 DEF RetryOnConflict, Answer, Goto, TypeOK, PCs
    <3>2. CASE ~fresh[r]
      BY <1>1, <1>3, <3>2 DEF RetryOnConflict, Goto, TypeOK, PCs
    <3>3. QED
      BY <3>1, <3>2
  <2>2. TypeOK'
    BY <1>1, <1>3, <2>1 DEF TypeOK, Update
  <2>3. Control'
    BY <1>1, <1>3, <2>1 DEF IInv, Control, TypeOK, Update
  <2>4. SnapshotCurrent'
    BY <1>1, <1>3, <2>1 DEF IInv, SnapshotCurrent, IfMatch, Update
  <2>5. QED
    BY <1>3, <2>2, <2>3, <2>4, DriveUntouched DEF IInv, Stamps, Update
<1>4. QED
  BY <1>2, <1>3 DEF Update

LEMMA CreateStep ==
    ASSUME IInv, NEW r \in Requests, Create(r)
    PROVE  IInv'
BY WriteStep DEF Create, FileIds

\* The steps that touch neither Drive nor data: RecordMeta, PingExtParty
\* and Fail.
LEMMA AfterUploadStep ==
    ASSUME IInv, NEW r \in Requests,
           RecordMeta(r) \/ PingExtParty(r) \/ Fail(r)
    PROVE  IInv'
<1>1. TypeOK /\ UNCHANGED <<drive, stamp, task, fresh, data, applied>>
  BY DEF IInv, RecordMeta, PingExtParty, Fail
<1>2. pc[r] # "idle" /\ pc'[r] \in {"ping", "done"}
      /\ pc' \in [Requests -> PCs] /\ \A q \in Requests : q # r => pc'[q] = pc[q]
  BY <1>1 DEF RecordMeta, PingExtParty, Fail, Answer, Goto, TypeOK, PCs
<1>3. status' \in [Requests -> {"none", "ok", "bad", "error"}]
  BY <1>1 DEF RecordMeta, PingExtParty, Fail, Answer, TypeOK
<1>4. pinged' \in SUBSET Requests
  BY <1>1 DEF RecordMeta, PingExtParty, Fail, TypeOK
<1>5. meta' \in [fid : FileIds \cup {NoId}, etag : Nat] /\ meta'.etag =< stamp
  BY <1>1 DEF IInv, Stamps, RecordMeta, PingExtParty, Fail, TypeOK
<1>6. TypeOK'
  BY <1>1, <1>2, <1>3, <1>4, <1>5 DEF TypeOK
<1>7. Control'
  BY <1>1, <1>2 DEF IInv, Control
<1>8. SnapshotCurrent'
  BY <1>1, <1>2 DEF IInv, SnapshotCurrent, IfMatch
<1>9. QED
  BY <1>1, <1>5, <1>6, <1>7, <1>8, DriveUntouched DEF IInv, Stamps

LEMMA AppEditStep ==
    ASSUME IInv, AppEdit
    PROVE  IInv'
<1>1. TypeOK /\ Stamps /\ SnapshotCurrent /\ HasNewest
  BY DEF IInv
<1> DEFINE f == IF Files = {} THEN App ELSE Newest
<1>2. f \in FileIds
  BY <1>1, NewestIsFile DEF Files, FileIds
<1>3. PICK d \in UD!ExternalDocs(UserDocument) :
        drive' = [drive EXCEPT ![f] = [etag |-> stamp + 1, doc |-> d]]
  BY DEF AppEdit
<1>4. d \in Docs
  BY <1>1, UserDocumentIsDoc, OtherDocs
<1>5. stamp' = stamp + 1 /\ UNCHANGED <<meta, task, pc, fresh, data, status, applied, pinged>>
  BY DEF AppEdit
<1>6. /\ drive' \in [FileIds -> [etag : Nat, doc : Docs]]
      /\ stamp' \in Nat
      /\ \A g \in FileIds : drive'[g].etag =< stamp'
      /\ HasNewest'
  BY <1>1, <1>2, <1>3, <1>4, <1>5, StoreMakesNewest
<1>7. TypeOK'
  BY <1>1, <1>5, <1>6 DEF TypeOK
<1>8. Control'
  BY <1>5 DEF IInv, Control
<1>9. Stamps'
  BY <1>1, <1>5, <1>6 DEF Stamps, TypeOK
<1>10. SnapshotCurrent'
  BY <1>1, <1>2, <1>3, <1>4, <1>5, StoreKeepsSnapshots DEF SnapshotCurrent
<1>11. QED
  BY <1>6, <1>7, <1>8, <1>9, <1>10 DEF IInv

-----------------------------------------------------------------------------
LEMMA InductiveStep == IInv /\ [Next]_vars => IInv'
<1> SUFFICES ASSUME IInv, [Next]_vars PROVE IInv'
  OBVIOUS
<1>1. ASSUME NEW r \in Requests, Begin(r) PROVE IInv'
  BY <1>1, BeginStep
<1>2. ASSUME NEW r \in Requests, Handler(r) PROVE IInv'
  BY <1>2, ReadLocalMetaStep, ListFilesStep, FetchContentStep, UpdateStep,
     CreateStep, AfterUploadStep DEF Handler
<1>3. ASSUME NEW r \in Requests, Fail(r) PROVE IInv'
  BY <1>3, AfterUploadStep
<1>4. CASE AppEdit
  BY <1>4, AppEditStep
<1>5. CASE UNCHANGED vars
  BY <1>5 DEF vars, IInv, TypeOK, Control, Stamps, HasNewest, Files,
     SnapshotCurrent, IfMatch
<1>6. QED
  BY <1>1, <1>2, <1>3, <1>4, <1>5 DEF Next, Quiescent

\* IInv is inductive: the design keeps it whatever happens.
THEOREM Invariance == Spec => []IInv
BY InitIInv, InductiveStep, PTL DEF Spec

\* Every variable keeps its type.
THEOREM TypeCorrect == Spec => []TypeOK
BY Invariance, PTL DEF IInv

\* What getAppFolderData returns is never older than its etag claims: an
\* upload that Drive accepts was computed from the file's present content.
THEOREM SnapshotsAreCurrent == Spec => []SnapshotCurrent
BY Invariance, PTL DEF IInv

-----------------------------------------------------------------------------
(* A user who has a file: one file, one order of updates                   *)

\* All requests work on the one file, and none creates another.
OneFile ==
    /\ Files = {App}
    /\ meta.fid \in {NoId, App}
    /\ \A r \in Requests : pc[r] \in {"content", "store", "record"} => data[r].fid = App

\* How far a request came, and what its rating has to do with the file.
Progress ==
    \A r \in Requests :
        /\ pc[r] # "done" => status[r] = "none"
        /\ pc[r] \in {"idle", "meta", "content", "store"} => r \notin applied
        /\ pc[r] \in {"record", "ping"} => r \in applied
        /\ (pc[r] = "store" /\ IfMatch(r)) => ~UD!Refused(task[r], drive[App].doc)
        /\ (r \in applied /\ task[r].op = "survey")
              => task[r].ids \subseteq drive[App].doc.survey

\* The invariant for a user who has a file.
FInv == IInv /\ OneFile /\ Progress

LEMMA InitFInv ==
    ASSUME Provisioned
    PROVE  Init => FInv
<1> SUFFICES ASSUME Init PROVE FInv
  OBVIOUS
<1>1. IInv
  BY InitIInv
<1>2. PICK d \in Contents :
        drive = [f \in FileIds |-> IF Provisioned /\ f = App
                                   THEN [etag |-> 1, doc |-> d]
                                   ELSE [etag |-> 0, doc |-> NoDoc]]
  BY DEF Init
<1>3. Files = {App}
  <2>1. App \in FileIds
    BY DEF FileIds
  <2>2. \A f \in FileIds : drive[f].etag = IF f = App THEN 1 ELSE 0
    BY <1>2
  <2>3. QED
    BY <2>1, <2>2 DEF Files
<1>4. QED
  BY <1>1, <1>3 DEF Init, FInv, OneFile, Progress

\* With the file there, the newest file is that file.
LEMMA TheFile ==
    ASSUME FInv
    PROVE  Newest = App /\ App \in FileIds /\ UserDocument = drive[App].doc
<1>1. Files = {App} /\ HasNewest
  BY DEF FInv, OneFile, IInv
<1>2. Newest = App
  BY <1>1, NewestIsFile
<1>3. App \in FileIds /\ Files # {}
  BY <1>1 DEF FileIds
<1>4. QED
  BY <1>2, <1>3 DEF UserDocument

\* Ratings are never taken back, neither by a request nor by the app.
LEMMA RatingsGrow ==
    ASSUME NEW t \in UD!Tasks, NEW d \in Docs
    PROVE  /\ d.survey \subseteq UD!Effect(t, d).survey
           /\ t.op = "survey" => t.ids \subseteq UD!Effect(t, d).survey
           /\ \A e \in UD!ExternalDocs(d) : e.survey = d.survey
<1>1. d.survey \subseteq UD!Effect(t, d).survey
  BY DEF UD!Effect, Docs
<1>2. t.op = "survey" => t.ids \subseteq UD!Effect(t, d).survey
  BY DEF UD!Effect, Docs
<1>3. ASSUME NEW e \in UD!ExternalDocs(d) PROVE e.survey = d.survey
  BY <1>3 DEF UD!ExternalDocs, Docs
<1>4. QED
  BY <1>1, <1>2, <1>3

\* The step that matters: an upload is the effect of the request on the
\* document of that instant, and a rating it adds was not there.
LEMMA UploadIsSerial ==
    ASSUME FInv, NEW r \in Requests, pc[r] = "store", IfMatch(r), Write(r, data[r].fid)
    PROVE  /\ data[r].fid = App
           /\ data[r].doc = UD!Effect(task[r], UserDocument)
           /\ data[r].doc \in Docs
           /\ UserDocument' = data[r].doc
           /\ drive' = [drive EXCEPT ![App] = [etag |-> stamp + 1, doc |-> data[r].doc]]
           /\ Files' = {App}
           /\ drive'[App].doc = data[r].doc
           /\ drive'[App].etag = stamp + 1
<1>1. TypeOK /\ Stamps /\ SnapshotCurrent /\ ConstantsAssumption
  BY ConstantsAssumption DEF FInv, IInv
<1>2. data[r].fid = App /\ App # NoId /\ App \in FileIds
  BY <1>1 DEF FInv, OneFile, ConstantsAssumption, FileIds
<1>3. data[r].doc = UD!Effect(task[r], UserDocument)
  BY <1>1, <1>2, TheFile DEF SnapshotCurrent
<1>4. /\ data[r].doc \in Docs
      /\ drive' = [drive EXCEPT ![App] = [etag |-> stamp + 1, doc |-> data[r].doc]]
      /\ stamp' = stamp + 1
  BY <1>1, <1>2 DEF Write, TypeOK
<1>5. UserDocument' = data[r].doc /\ Files' = Files \cup {App}
  BY <1>1, <1>2, <1>4, StoreMakesNewest
<1>6. drive'[App] = [etag |-> stamp + 1, doc |-> data[r].doc]
  BY <1>1, <1>2, <1>4 DEF TypeOK
<1>7. QED
  BY <1>2, <1>3, <1>4, <1>5, <1>6 DEF FInv, OneFile

\* An edit by the app replaces the same file and keeps the ratings.
LEMMA EditIsSerial ==
    ASSUME FInv, AppEdit
    PROVE  /\ UserDocument' \in UD!ExternalDocs(UserDocument)
           /\ UserDocument' \in Docs
           /\ drive'[App].doc = UserDocument'
           /\ drive'[App].etag = stamp + 1
           /\ drive'[App].doc.survey = drive[App].doc.survey
           /\ Files' = {App}
<1>1. TypeOK /\ Stamps /\ HasNewest
  BY DEF FInv, IInv
<1>2. Newest = App /\ App \in FileIds /\ UserDocument = drive[App].doc /\ Files = {App}
  BY TheFile DEF FInv, OneFile
<1>3. PICK d \in UD!ExternalDocs(UserDocument) :
        drive' = [drive EXCEPT ![App] = [etag |-> stamp + 1, doc |-> d]]
  BY <1>2 DEF AppEdit
<1>4. UserDocument \in Docs /\ d \in Docs
  BY <1>1, <1>3, UserDocumentIsDoc, OtherDocs
<1>5. UserDocument' = d /\ Files' = Files \cup {App}
  BY <1>1, <1>2, <1>3, <1>4, StoreMakesNewest DEF AppEdit
<1>6. drive'[App] = [etag |-> stamp + 1, doc |-> d]
  BY <1>1, <1>2, <1>3 DEF TypeOK
<1>7. d.survey = UserDocument.survey
  <2>1. PICK b \in SUBSET Sessions : d = [UserDocument EXCEPT !.bks = b, !.ext = TRUE]
    BY <1>3 DEF UD!ExternalDocs
  <2>2. QED
    BY <1>4, <2>1 DEF Docs
<1>8. QED
  BY <1>2, <1>3, <1>4, <1>5, <1>6, <1>7

LEMMA OneFileStep ==
    ASSUME FInv, [Next]_vars
    PROVE  OneFile'
<1>1. /\ TypeOK /\ IInv /\ App # NoId
      /\ Files = {App} /\ meta.fid \in {NoId, App}
      /\ \A r \in Requests : pc[r] \in {"content", "store", "record"} => data[r].fid = App
  BY ConstantsAssumption DEF FInv, IInv, OneFile, FileIds
<1>2. ASSUME NEW r \in Requests, Begin(r) PROVE OneFile'
  BY <1>1, <1>2 DEF Begin, Goto, OneFile, Files, TypeOK
<1>3. ASSUME NEW r \in Requests, ReadLocalMeta(r) PROVE OneFile'
  BY <1>1, <1>3 DEF ReadLocalMeta, Goto, OneFile, Files, TypeOK
<1>4. ASSUME NEW r \in Requests, ListFiles(r) PROVE OneFile'
  <2>1. /\ data' = [data EXCEPT ![r] = [fid |-> App, etag |-> drive[Newest].etag, doc |-> NoDoc]]
        /\ Goto(r, "content") /\ UNCHANGED <<drive, meta>>
    BY <1>1, <1>4, TheFile DEF ListFiles
  <2>2. QED
    BY <1>1, <2>1 DEF Goto, OneFile, Files, TypeOK
<1>5. ASSUME NEW r \in Requests, FetchContent(r) PROVE OneFile'
  <2>1. data[r].fid = App /\ data'[r].fid = App /\ UNCHANGED <<drive, meta>>
        /\ \A q \in Requests : q # r => data'[q] = data[q]
    BY <1>1, <1>5 DEF FetchContent, Use, TypeOK
  <2>2. \A q \in Requests : q # r => pc'[q] = pc[q]
    BY <1>1, <1>5 DEF FetchContent, Use, Answer, Goto, TypeOK
  <2>3. QED
    BY <1>1, <2>1, <2>2 DEF OneFile, Files
<1>6. ASSUME NEW r \in Requests, Update(r) PROVE OneFile'
  <2>1. meta' = meta /\ pc[r] = "store"
    BY <1>6 DEF Update
  <2>2. Files' = {App}
    BY <1>1, <1>6, UploadIsSerial DEF Update, Files
  <2>3. pc'[r] \in {"meta", "done"} \/ (pc'[r] = "record" /\ data'[r].fid = App)
    <3>1. CASE Write(r, data[r].fid)
      BY <1>1, <2>1, <3>1 DEF Write, Answer, Goto, TypeOK
    <3>2. CASE RetryOnConflict(r)
      BY <1>1, <3>2 DEF RetryOnConflict, Answer, Goto, TypeOK
    <3>3. QED
      BY <1>6, <3>1, <3>2 DEF Update
  <2>4. \A q \in Requests : q # r => pc'[q] = pc[q] /\ data'[q] = data[q]
    BY <1>1, <1>6 DEF Update, Write, RetryOnConflict, Answer, Goto, TypeOK
  <2>5. QED
    BY <1>1, <2>1, <2>2, <2>3, <2>4 DEF OneFile
<1>7. ASSUME NEW r \in Requests PROVE ~Create(r)
  BY <1>1 DEF Create
<1>8. ASSUME NEW r \in Requests, RecordMeta(r) PROVE OneFile'
  <2>1. meta'.fid \in {NoId, App}
    BY <1>1, <1>8 DEF RecordMeta
  <2>2. QED
    BY <1>1, <1>8, <2>1 DEF RecordMeta, Goto, OneFile, Files, TypeOK
<1>9. ASSUME NEW r \in Requests, PingExtParty(r) \/ Fail(r) PROVE OneFile'
  BY <1>1, <1>9 DEF PingExtParty, Fail, Answer, Goto, OneFile, Files, TypeOK
<1>10. CASE AppEdit
  BY <1>1, <1>10, EditIsSerial DEF AppEdit, OneFile
<1>11. CASE UNCHANGED vars
  BY <1>1, <1>11 DEF vars, OneFile, Files
<1>12. QED
  BY <1>2, <1>3, <1>4, <1>5, <1>6, <1>7, <1>8, <1>9, <1>10, <1>11
     DEF Next, Handler, Quiescent

\* Progress of one request, to argue request by request.
ProgressOf(q) ==
    /\ pc[q] # "done" => status[q] = "none"
    /\ pc[q] \in {"idle", "meta", "content", "store"} => q \notin applied
    /\ pc[q] \in {"record", "ping"} => q \in applied
    /\ (pc[q] = "store" /\ IfMatch(q)) => ~UD!Refused(task[q], drive[App].doc)
    /\ (q \in applied /\ task[q].op = "survey")
          => task[q].ids \subseteq drive[App].doc.survey

\* A request that takes no step keeps its progress when the file stays.
LEMMA BystanderFileStays ==
    ASSUME NEW q \in Requests, ProgressOf(q), UNCHANGED <<drive, task[q], pc[q], status[q]>>,
           data'[q] = data[q], q \in applied' <=> q \in applied
    PROVE  ProgressOf(q)'
BY DEF ProgressOf, IfMatch

\* It keeps it, too, when the file gets a new etag and loses no rating.
LEMMA BystanderFileWritten ==
    ASSUME FInv, NEW q \in Requests, UNCHANGED <<task[q], pc[q], status[q]>>,
           data'[q] = data[q], q \in applied' <=> q \in applied,
           drive'[App].etag = stamp + 1,
           drive[App].doc.survey \subseteq drive'[App].doc.survey
    PROVE  ProgressOf(q)'
<1>1. ProgressOf(q)
  BY DEF FInv, Progress, ProgressOf
<1>2. ~(pc'[q] = "store" /\ IfMatch(q)')
  <2>1. SUFFICES ASSUME pc[q] = "store", data[q].etag = drive'[data[q].fid].etag
                 PROVE  FALSE
    BY DEF IfMatch
  <2>2. data[q].fid = App /\ data[q].etag \in Nat /\ stamp \in Nat /\ data[q].etag =< stamp
    BY <2>1 DEF FInv, OneFile, IInv, TypeOK, Stamps
  <2>3. QED
    BY <2>1, <2>2
<1>3. QED
  BY <1>1, <1>2 DEF ProgressOf

LEMMA ProgressStep ==
    ASSUME FInv, [Next]_vars
    PROVE  Progress'
<1>1. TypeOK /\ Control /\ \A q \in Requests : ProgressOf(q)
  BY DEF FInv, IInv, Progress, ProgressOf
<1>2. SUFFICES ASSUME NEW q \in Requests PROVE ProgressOf(q)'
  BY DEF Progress, ProgressOf
<1>3. ASSUME NEW r \in Requests, Begin(r) \/ ReadLocalMeta(r) PROVE ProgressOf(q)'
  <2>1. /\ UNCHANGED <<drive, status, applied>>
        /\ pc[r] \in {"idle", "meta"} /\ pc'[r] \in {"meta", "content"}
        /\ q # r => UNCHANGED <<task[q], pc[q], data[q]>>
    BY <1>1, <1>3 DEF Begin, ReadLocalMeta, Goto, TypeOK
  <2>2. CASE q = r
    BY <1>1, <2>1, <2>2 DEF ProgressOf
  <2>3. CASE q # r
    BY <1>1, <2>1, <2>3, BystanderFileStays
  <2>4. QED
    BY <2>2, <2>3
<1>4. ASSUME NEW r \in Requests, ListFiles(r) PROVE ProgressOf(q)'
  <2>1. /\ UNCHANGED <<drive, status, applied, task>>
        /\ pc[r] = "meta" /\ pc'[r] = "content"
        /\ q # r => UNCHANGED <<pc[q], data[q]>>
    BY <1>1, <1>4 DEF ListFiles, Goto, TypeOK, FInv, OneFile
  <2>2. CASE q = r
    BY <1>1, <2>1, <2>2 DEF ProgressOf
  <2>3. CASE q # r
    BY <1>1, <2>1, <2>3, BystanderFileStays
  <2>4. QED
    BY <2>2, <2>3
<1>5. ASSUME NEW r \in Requests, FetchContent(r) PROVE ProgressOf(q)'
  <2>1. /\ UNCHANGED <<drive, applied, task>>
        /\ pc[r] = "content" /\ data[r].fid = App
        /\ q # r => UNCHANGED <<pc[q], data[q], status[q]>>
    BY <1>1, <1>5 DEF FetchContent, Use, Answer, Goto, TypeOK, FInv, OneFile
  <2>2. \/ pc'[r] = "done"
        \/ /\ pc'[r] = "store" /\ status' = status
           /\ ~UD!Refused(task[r], drive[App].doc)
    BY <1>1, <1>5, <2>1 DEF FetchContent, Use, Answer, Goto, TypeOK
  <2>3. CASE q = r
    BY <1>1, <2>1, <2>2, <2>3 DEF ProgressOf
  <2>4. CASE q # r
    BY <1>1, <2>1, <2>4, BystanderFileStays
  <2>5. QED
    BY <2>3, <2>4
<1>6. ASSUME NEW r \in Requests, Update(r) PROVE ProgressOf(q)'
  <2>1. task' = task /\ pc[r] = "store" /\ (q # r => UNCHANGED <<pc[q], data[q], status[q]>>)
    BY <1>1, <1>6 DEF Update, Write, RetryOnConflict, Answer, Goto, TypeOK
  <2>2. CASE IfMatch(r) /\ Write(r, data[r].fid)
    <3>1. /\ data[r].doc = UD!Effect(task[r], UserDocument)
          /\ drive'[App].doc = data[r].doc
          /\ drive'[App].etag = stamp + 1
          /\ UserDocument = drive[App].doc /\ UserDocument \in Docs
          /\ task[r] \in UD!Tasks
      BY <1>1, <2>1, <2>2, UploadIsSerial, TheFile, UserDocumentIsDoc
         DEF Control, FInv, IInv
    <3>2. /\ drive[App].doc.survey \subseteq drive'[App].doc.survey
          /\ task[r].op = "survey" => task[r].ids \subseteq drive'[App].doc.survey
      BY <3>1, RatingsGrow
    <3>3. applied' = applied \cup {r}
          /\ (pc'[r] = "done" \/ (pc'[r] = "record" /\ status' = status))
      BY <1>1, <2>2 DEF Write, Answer, Goto, TypeOK
    <3>4. CASE q = r
      BY <1>1, <2>1, <3>2, <3>3, <3>4 DEF ProgressOf
    <3>5. CASE q # r
      BY <2>1, <3>1, <3>2, <3>3, <3>5, BystanderFileWritten
    <3>6. QED
      BY <3>4, <3>5
  <2>3. CASE RetryOnConflict(r) /\ UNCHANGED <<drive, stamp, applied, data>>
    <3>1. pc'[r] = "done" \/ (pc'[r] = "meta" /\ status' = status)
      BY <1>1, <2>3 DEF RetryOnConflict, Answer, Goto, TypeOK
    <3>2. CASE q = r
      BY <1>1, <2>1, <2>3, <3>1, <3>2 DEF ProgressOf
    <3>3. CASE q # r
      BY <1>1, <2>1, <2>3, <3>3, BystanderFileStays
    <3>4. QED
      BY <3>2, <3>3
  <2>4. QED
    BY <1>6, <2>2, <2>3 DEF Update
<1>7. ASSUME NEW r \in Requests PROVE ~Create(r)
  BY ConstantsAssumption DEF Create, FInv, OneFile, FileIds
<1>8. ASSUME NEW r \in Requests, RecordMeta(r) \/ PingExtParty(r) \/ Fail(r)
      PROVE  ProgressOf(q)'
  <2>1. /\ UNCHANGED <<drive, data, task, applied>>
        /\ (pc[r] = "record" /\ pc'[r] = "ping" /\ status' = status) \/ pc'[r] = "done"
        /\ q # r => UNCHANGED <<pc[q], status[q]>>
    BY <1>1, <1>8 DEF RecordMeta, PingExtParty, Fail, Answer, Goto, TypeOK
  <2>2. CASE q = r
    BY <1>1, <2>1, <2>2 DEF ProgressOf
  <2>3. CASE q # r
    BY <1>1, <2>1, <2>3, BystanderFileStays
  <2>4. QED
    BY <2>2, <2>3
<1>9. CASE AppEdit
  BY <1>9, EditIsSerial, BystanderFileWritten DEF AppEdit
<1>10. CASE UNCHANGED vars
  BY <1>1, <1>10, BystanderFileStays DEF vars
<1>11. QED
  BY <1>3, <1>4, <1>5, <1>6, <1>7, <1>8, <1>9, <1>10 DEF Next, Handler, Quiescent

LEMMA FInvStep == FInv /\ [Next]_vars => FInv'
<1> SUFFICES ASSUME FInv, [Next]_vars PROVE FInv'
  OBVIOUS
<1>1. IInv'
  BY InductiveStep DEF FInv
<1>2. QED
  BY <1>1, OneFileStep, ProgressStep DEF FInv

THEOREM FileInvariance == ASSUME Provisioned PROVE Spec => []FInv
BY InitFInv, FInvStep, PTL DEF Spec

\* The design loses no update of a user who has a file: every change of the
\* document is one request's effect on it, at that instant, or the app's.
THEOREM UpdatesAreSerial == ASSUME Provisioned PROVE Spec => DocSerial
<1>1. FInv /\ FInv' /\ [Next]_vars => [SerialStep]_vars
  <2> SUFFICES ASSUME FInv, FInv', [Next]_vars PROVE SerialStep \/ UNCHANGED vars
    OBVIOUS
  <2>1. UNCHANGED drive => SerialStep
    BY DEF SerialStep, UserDocument, Newest, Files
  <2>2. ASSUME NEW r \in Requests, Update(r) PROVE SerialStep
    BY <2>1, <2>2, UploadIsSerial DEF Update, SerialStep
  <2>3. ASSUME NEW r \in Requests PROVE ~Create(r)
    BY ConstantsAssumption DEF Create, FInv, OneFile, FileIds
  <2>4. CASE AppEdit
    BY <2>4, EditIsSerial DEF AppEdit, SerialStep
  <2>5. QED
    BY <2>1, <2>2, <2>3, <2>4 DEF Next, Handler, Quiescent, Begin, ReadLocalMeta,
       ListFiles, FetchContent, RecordMeta, PingExtParty, Fail
<1>2. QED
  BY FileInvariance, <1>1, PTL DEF DocSerial, Spec

\* No session is rated twice by a user who has a file.
THEOREM RatedOnce == ASSUME Provisioned PROVE Spec => []SurveyOnce
<1>1. Init => SurveyOnce
  BY DEF Init, SurveyOnce
<1>2. FInv /\ SurveyOnce /\ [Next]_vars => SurveyOnce'
  <2> SUFFICES ASSUME FInv, SurveyOnce, [Next]_vars PROVE SurveyOnce'
    OBVIOUS
  <2>1. CASE applied' = applied /\ \A q \in applied : task'[q] = task[q]
    BY <2>1 DEF SurveyOnce
  <2>2. ASSUME NEW r \in Requests, pc[r] = "store", IfMatch(r), Write(r, data[r].fid),
               task' = task
        PROVE  SurveyOnce'
    <3>1. applied' = applied \cup {r} /\ applied \subseteq Requests /\ r \notin applied
      BY <2>2 DEF Write, FInv, IInv, TypeOK, Progress
    <3>2. ASSUME NEW q \in applied, task[q].op = "survey", task[r].op = "survey"
          PROVE  task[q].ids # task[r].ids
      <4>1. task[q].ids \subseteq drive[App].doc.survey
        BY <3>1, <3>2 DEF FInv, Progress
      <4>2. ~(task[r].ids \subseteq drive[App].doc.survey)
        BY <2>2, <3>2 DEF FInv, Progress, UD!Refused
      <4>3. QED
        BY <4>1, <4>2
    <3>3. QED
      BY <2>2, <3>1, <3>2 DEF SurveyOnce
  <2>3. ASSUME NEW r \in Requests, Begin(r) PROVE SurveyOnce'
    <3>1. r \notin applied /\ applied \subseteq Requests /\ applied' = applied
      BY <2>3 DEF Begin, FInv, IInv, TypeOK, Progress
    <3>2. \A q \in applied : task'[q] = task[q]
      BY <2>3, <3>1 DEF Begin, FInv, IInv, TypeOK
    <3>3. QED
      BY <2>1, <3>1, <3>2
  <2>4. ASSUME NEW r \in Requests PROVE ~Create(r)
    BY ConstantsAssumption DEF Create, FInv, OneFile, FileIds
  <2>5. ASSUME NEW r \in Requests, Update(r) PROVE SurveyOnce'
    BY <2>1, <2>2, <2>5 DEF Update
  <2>6. QED
    BY <2>1, <2>3, <2>4, <2>5 DEF Next, Handler, Quiescent, ReadLocalMeta, ListFiles,
       FetchContent, RecordMeta, PingExtParty, Fail, AppEdit, vars
<1>3. QED
  BY FileInvariance, <1>1, <1>2, PTL DEF Spec

-----------------------------------------------------------------------------
(* The refinement                                                          *)

\* What UserDoc sees of request q: its phase and its answer.
PhaseOf(q) == CASE pc[q] = "idle" -> "new"
                [] pc[q] = "done" -> status[q]
                [] OTHER          -> "open"

AnswerOf(q) == IF q \in applied \/ status[q] = "ok" THEN data[q].doc.bks ELSE {}

Phases == [q \in Requests |-> PhaseOf(q)]

Answers == [q \in Requests |-> AnswerOf(q)]

\* Two instances of UserDoc, the one that names its operators and the one
\* the refinement maps, agree on the operators.
LEMMA SameOperators ==
    /\ UD!Tasks = Impl!Tasks /\ UD!NoTask = Impl!NoTask /\ Docs = Impl!Doc
    /\ \A t, d : UD!Effect(t, d) = Impl!Effect(t, d)
    /\ \A t, d : UD!Refused(t, d) = Impl!Refused(t, d)
    /\ \A d : UD!ExternalDocs(d) = Impl!ExternalDocs(d)
<1>1. UD!Tasks = Impl!Tasks /\ UD!NoTask = Impl!NoTask /\ Docs = Impl!Doc
  BY DEF UD!Tasks, Impl!Tasks, UD!NoTask, Impl!NoTask, Docs, Impl!Doc
<1>2. \A t, d : UD!Effect(t, d) = Impl!Effect(t, d)
  BY DEF UD!Effect, Impl!Effect
<1>3. \A t, d : UD!Refused(t, d) = Impl!Refused(t, d)
  BY DEF UD!Refused, Impl!Refused
<1>4. \A d : UD!ExternalDocs(d) = Impl!ExternalDocs(d)
  BY DEF UD!ExternalDocs, Impl!ExternalDocs
<1>5. QED
  BY <1>1, <1>2, <1>3, <1>4

LEMMA InitRefines ==
    ASSUME Provisioned
    PROVE  Init => Impl!Init
<1> SUFFICES ASSUME Init PROVE Impl!Init
  OBVIOUS
<1>1. UserDocument \in Docs
  BY InitIInv, UserDocumentIsDoc DEF IInv
<1>2. QED
  BY <1>1, SameOperators DEF Init, Impl!Init

\* A step that UserDoc does not see.
LEMMA Stutter ==
    ASSUME UNCHANGED <<UserDocument, task, applied>>, Phases' = Phases, Answers' = Answers
    PROVE  UNCHANGED Impl!vars
BY DEF Impl!vars, Phases, Answers, PhaseOf, AnswerOf

LEMMA StepRefines ==
    ASSUME FInv, [Next]_vars
    PROVE  [Impl!Next]_(Impl!vars)
<1>1. TypeOK /\ Control /\ Progress
  BY DEF FInv, IInv
<1>2. UNCHANGED drive => UNCHANGED UserDocument
  BY DEF UserDocument, Newest, Files
<1>3. ASSUME NEW r \in Requests, Begin(r) PROVE Impl!Next
  <2>1. Phases[r] = "new" /\ Phases' = [Phases EXCEPT ![r] = "open"] /\ Answers' = Answers
    BY <1>1, <1>3 DEF Begin, Goto, Phases, PhaseOf, Answers, AnswerOf, TypeOK
  <2>2. Impl!Arrive(r)
    BY <1>2, <1>3, <2>1, SameOperators
       DEF Begin, Impl!Arrive, Phases, PhaseOf, Answers, AnswerOf
  <2>3. QED
    BY <2>2 DEF Impl!Next
<1>4. ASSUME NEW r \in Requests, ReadLocalMeta(r) \/ ListFiles(r)
      PROVE  UNCHANGED Impl!vars
  <2>1. /\ UNCHANGED <<drive, task, applied, status>>
        /\ pc[r] = "meta" /\ pc' = [pc EXCEPT ![r] = "content"]
        /\ r \notin applied /\ status[r] = "none"
        /\ \A q \in Requests : q # r => data'[q] = data[q]
    BY <1>1, <1>4 DEF ReadLocalMeta, ListFiles, Goto, FInv, OneFile, TypeOK, Progress
  <2>2. Phases' = Phases
    BY <1>1, <2>1 DEF Phases, PhaseOf, TypeOK
  <2>3. Answers' = Answers
    BY <2>1 DEF Answers, AnswerOf
  <2>4. QED
    BY <1>2, <2>1, <2>2, <2>3, Stutter
<1>5. ASSUME NEW r \in Requests, FetchContent(r) PROVE Impl!Next \/ UNCHANGED Impl!vars
  <2>1. /\ UNCHANGED <<drive, task, applied>>
        /\ pc[r] = "content" /\ data[r].fid = App
        /\ r \notin applied /\ status[r] = "none" /\ task[r] \in UD!Tasks
        /\ drive[App].doc = UserDocument /\ UserDocument \in Docs
        /\ UserDocument' = UserDocument
    BY <1>1, <1>2, <1>5, TheFile, UserDocumentIsDoc
       DEF FetchContent, FInv, OneFile, IInv, Progress, Control
  <2>2. data' = [data EXCEPT ![r] = [fid |-> App, etag |-> data[r].etag,
                                     doc |-> UD!Effect(task[r], UserDocument)]]
    BY <1>5, <2>1 DEF FetchContent, Use
  <2>3. Phases[r] = "open"
    BY <2>1 DEF Phases, PhaseOf
  <2>4. CASE task[r].op = "get"
    <3>1. pc' = [pc EXCEPT ![r] = "done"] /\ status' = [status EXCEPT ![r] = "ok"]
      BY <1>5, <2>4 DEF FetchContent, Use, Answer, Goto, UD!Refused
    <3>2. UD!Effect(task[r], UserDocument) = UserDocument
      BY <2>4 DEF UD!Effect
    <3>3. Phases' = [Phases EXCEPT ![r] = "ok"]
      BY <1>1, <3>1 DEF Phases, PhaseOf, TypeOK
    <3>4. Answers' = [Answers EXCEPT ![r] = UserDocument.bks]
      BY <1>1, <2>1, <2>2, <3>1, <3>2 DEF Answers, AnswerOf, TypeOK
    <3>5. Impl!Read(r)
      BY <2>1, <2>3, <2>4, <3>3, <3>4 DEF Impl!Read, Phases, PhaseOf, Answers, AnswerOf
    <3>6. QED
      BY <3>5 DEF Impl!Next
  <2>5. CASE task[r].op # "get" /\ UD!Refused(task[r], UserDocument)
    <3>1. pc' = [pc EXCEPT ![r] = "done"] /\ status' = [status EXCEPT ![r] = "bad"]
      BY <1>5, <2>1, <2>5 DEF FetchContent, Use, Answer, Goto
    <3>2. Phases' = [Phases EXCEPT ![r] = "bad"]
      BY <1>1, <3>1 DEF Phases, PhaseOf, TypeOK
    <3>3. Answers' = Answers
      BY <1>1, <2>1, <2>2, <3>1 DEF Answers, AnswerOf, TypeOK
    <3>4. Impl!Refuse(r)
      BY <2>1, <2>3, <2>5, <3>2, <3>3, SameOperators
         DEF Impl!Refuse, Phases, PhaseOf, Answers, AnswerOf
    <3>5. QED
      BY <3>4 DEF Impl!Next
  <2>6. CASE task[r].op # "get" /\ ~UD!Refused(task[r], UserDocument)
    <3>1. pc' = [pc EXCEPT ![r] = "store"] /\ status' = status
      BY <1>5, <2>1, <2>6 DEF FetchContent, Use, Goto
    <3>2. Phases' = Phases
      BY <1>1, <2>1, <3>1 DEF Phases, PhaseOf, TypeOK
    <3>3. Answers' = Answers
      BY <1>1, <2>1, <2>2, <3>1 DEF Answers, AnswerOf, TypeOK
    <3>4. QED
      BY <2>1, <3>2, <3>3, Stutter
  <2>7. QED
    BY <2>4, <2>5, <2>6
<1>6. ASSUME NEW r \in Requests, Update(r) PROVE Impl!Next \/ UNCHANGED Impl!vars
  <2>1. /\ pc[r] = "store" /\ task' = task
        /\ r \notin applied /\ status[r] = "none" /\ task[r].op # "get"
        /\ Phases[r] = "open"
    BY <1>1, <1>6 DEF Update, Progress, Control, Phases, PhaseOf
  <2>2. CASE IfMatch(r) /\ Write(r, data[r].fid)
    <3>1. /\ UserDocument' = Impl!Effect(task[r], UserDocument)
          /\ UserDocument' = data[r].doc
          /\ UserDocument = drive[App].doc
      BY <2>1, <2>2, UploadIsSerial, TheFile, SameOperators
    <3>2. ~Impl!Refused(task[r], UserDocument)
      BY <2>1, <2>2, <3>1, SameOperators DEF FInv, Progress
    <3>3. /\ applied' = applied \cup {r}
          /\ data'[r].doc = data[r].doc
          /\ \A q \in Requests : q # r => data'[q] = data[q]
      BY <1>1, <2>2 DEF Write, TypeOK
    <3>4. \/ pc' = [pc EXCEPT ![r] = "record"] /\ status' = status
          \/ pc' = [pc EXCEPT ![r] = "done"] /\ status' = [status EXCEPT ![r] = "error"]
      BY <2>2 DEF Write, Answer, Goto
    <3>5. Phases' \in {Phases, [Phases EXCEPT ![r] = "error"]}
      <4>1. CASE pc' = [pc EXCEPT ![r] = "record"] /\ status' = status
        BY <1>1, <2>1, <4>1 DEF Phases, PhaseOf, TypeOK
      <4>2. CASE pc' = [pc EXCEPT ![r] = "done"] /\ status' = [status EXCEPT ![r] = "error"]
        BY <1>1, <2>1, <4>2 DEF Phases, PhaseOf, TypeOK
      <4>3. QED
        BY <3>4, <4>1, <4>2
    <3>6. Answers' = [Answers EXCEPT ![r] = UserDocument'.bks]
      <4>1. \A q \in Requests : q # r => AnswerOf(q)' = AnswerOf(q)
        BY <1>1, <3>3, <3>4 DEF AnswerOf, TypeOK
      <4>2. AnswerOf(r)' = UserDocument'.bks
        BY <3>1, <3>3 DEF AnswerOf
      <4>3. QED
        BY <4>1, <4>2 DEF Answers
    <3>7. Impl!Apply(r)
      BY <2>1, <3>1, <3>2, <3>3, <3>5, <3>6
         DEF Impl!Apply, Phases, PhaseOf, Answers, AnswerOf
    <3>8. QED
      BY <3>7 DEF Impl!Next
  <2>3. CASE RetryOnConflict(r) /\ UNCHANGED <<drive, stamp, applied, data>>
    <3>1. CASE fresh[r]
      <4>1. pc' = [pc EXCEPT ![r] = "done"] /\ status' = [status EXCEPT ![r] = "error"]
        BY <2>3, <3>1 DEF RetryOnConflict, Answer, Goto
      <4>2. Phases' = [Phases EXCEPT ![r] = "error"] /\ Answers' = Answers
        BY <1>1, <2>1, <2>3, <4>1 DEF Phases, PhaseOf, Answers, AnswerOf, TypeOK
      <4>3. Impl!Fail(r)
        BY <1>2, <2>1, <2>3, <4>2 DEF Impl!Fail, Phases, PhaseOf, Answers, AnswerOf
      <4>4. QED
        BY <4>3 DEF Impl!Next
    <3>2. CASE ~fresh[r]
      <4>1. pc' = [pc EXCEPT ![r] = "meta"] /\ status' = status
        BY <2>3, <3>2 DEF RetryOnConflict, Goto
      <4>2. Phases' = Phases /\ Answers' = Answers
        BY <1>1, <2>1, <2>3, <4>1 DEF Phases, PhaseOf, Answers, AnswerOf, TypeOK
      <4>3. QED
        BY <1>2, <2>1, <2>3, <4>2, Stutter
    <3>3. QED
      BY <3>1, <3>2
  <2>4. QED
    BY <1>6, <2>2, <2>3 DEF Update
<1>7. ASSUME NEW r \in Requests PROVE ~Create(r)
  BY ConstantsAssumption DEF Create, FInv, OneFile, FileIds
<1>8. ASSUME NEW r \in Requests, RecordMeta(r) PROVE UNCHANGED Impl!vars
  <2>1. Phases' = Phases /\ Answers' = Answers
    BY <1>1, <1>8 DEF RecordMeta, Goto, Phases, PhaseOf, Answers, AnswerOf, TypeOK
  <2>2. QED
    BY <1>2, <1>8, <2>1, Stutter DEF RecordMeta
<1>9. ASSUME NEW r \in Requests, PingExtParty(r) PROVE Impl!Next
  <2>1. /\ pc[r] = "ping" /\ r \in applied /\ UNCHANGED <<drive, task, data, applied>>
        /\ pc' = [pc EXCEPT ![r] = "done"] /\ status' = [status EXCEPT ![r] = "ok"]
    BY <1>1, <1>9 DEF PingExtParty, Answer, Goto, Progress
  <2>2. Phases[r] = "open" /\ Phases' = [Phases EXCEPT ![r] = "ok"] /\ Answers' = Answers
    BY <1>1, <2>1 DEF Phases, PhaseOf, Answers, AnswerOf, TypeOK
  <2>3. Impl!Acknowledge(r)
    BY <1>2, <2>1, <2>2 DEF Impl!Acknowledge, Phases, PhaseOf, Answers, AnswerOf
  <2>4. QED
    BY <2>3 DEF Impl!Next
<1>10. ASSUME NEW r \in Requests, Fail(r) PROVE Impl!Next
  <2>1. /\ pc[r] \notin {"idle", "done"} /\ UNCHANGED <<drive, task, data, applied>>
        /\ pc' = [pc EXCEPT ![r] = "done"] /\ status' = [status EXCEPT ![r] = "error"]
        /\ status[r] = "none"
    BY <1>1, <1>10 DEF Fail, Answer, Goto, Progress
  <2>2. Phases[r] = "open" /\ Phases' = [Phases EXCEPT ![r] = "error"] /\ Answers' = Answers
    BY <1>1, <2>1 DEF Phases, PhaseOf, Answers, AnswerOf, TypeOK
  <2>3. Impl!Fail(r)
    BY <1>2, <2>1, <2>2 DEF Impl!Fail, Phases, PhaseOf, Answers, AnswerOf
  <2>4. QED
    BY <2>3 DEF Impl!Next
<1>11. CASE AppEdit
  <2>1. UserDocument' \in Impl!ExternalDocs(UserDocument)
    BY <1>11, EditIsSerial, SameOperators
  <2>2. Phases' = Phases /\ Answers' = Answers
    BY <1>11 DEF AppEdit, Phases, PhaseOf, Answers, AnswerOf
  <2>3. Impl!External
    BY <1>11, <2>1, <2>2 DEF AppEdit, Impl!External, Phases, PhaseOf, Answers, AnswerOf
  <2>4. QED
    BY <2>3 DEF Impl!Next
<1>12. CASE UNCHANGED vars
  <2>1. Phases' = Phases /\ Answers' = Answers
    BY <1>12 DEF vars, Phases, PhaseOf, Answers, AnswerOf
  <2>2. QED
    BY <1>2, <1>12, <2>1, Stutter DEF vars
<1>13. QED
  BY <1>3, <1>4, <1>5, <1>6, <1>7, <1>8, <1>9, <1>10, <1>11, <1>12
     DEF Next, Handler, Quiescent

\* For a user who has a file the handlers and Drive implement UserDoc: every
\* answered request took effect exactly once, at one instant, on the
\* document of that instant, and its answer is the list of that instant.
THEOREM Refinement == ASSUME Provisioned PROVE Spec => ImplementsUserDoc
<1>1. FInv /\ [Next]_vars => [Impl!Next]_(Impl!vars)
  BY StepRefines
<1>2. QED
  BY InitRefines, FileInvariance, <1>1, PTL DEF Spec, ImplementsUserDoc, Impl!Spec
=============================================================================
