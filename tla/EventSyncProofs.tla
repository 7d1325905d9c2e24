--------------------------- MODULE EventSyncProofs ---------------------------
(***************************************************************************)
(* Theorems about EventSync, for any number of syncs, readers, shards and  *)
(* versions, errors and crashes.                                           *)
(***************************************************************************)
EXTENDS EventSync, TLAPS

\* A sync that has passed the manifest has something to store.
Fetched == \A s \in Syncs : pc[s] \in {"chunks", "put", "commit"} => new[s] \in EventData

\* What a process found, in memcache or by a query, was committed.
FoundCommitted == \A p \in Processes : old[p] = NoData \/ old[p] \in stored

\* The inductive invariant for the data.
IInv == TypeOK /\ Fetched /\ FoundCommitted /\ CacheCommitted

\* The inductive invariant for the counter, given the types: whoever works
\* has it above zero, so nobody else gets it to 1.
Working(s) == pc[s] # "idle"
LockHeld == \A s \in Syncs : Working(s) => lock > 0
LInv == LockHeld /\ OneSync

\* The inductive invariant for the recorded changes, given the one for the
\* data.  What a sync fetched is newer than its base; a sync without a base
\* found the datastore empty, and what was stored since makes its transaction
\* fail.
Ahead == \A s \in Syncs : pc[s] \in {"chunks", "put", "commit"} => new[s].mod > old[s].mod
NoBase == \A s \in Syncs :
    pc[s] \in {"fill", "manifest", "chunks", "put", "commit"} /\ old[s] = NoData =>
        txn[s] = "stale" \/ (txn[s] = "open" /\ stored = {})
HInv == Ahead /\ NoBase /\ EveryChangeLogged

-----------------------------------------------------------------------------
(* Lemmas on the operators                                                 *)

\* A query finds committed data or nothing.
LEMMA QueryFinds == \A d \in Query : (stored = {} /\ d = NoData) \/ d \in stored
BY DEF Query

LEMMA NoDataIsNone == NoData \notin EventData
BY DEF NoData, EventData, Versions

\* What a sync records goes from one version to another.
LEMMA DiffIsTyped ==
    ASSUME IInv, NEW s \in Syncs, pc[s] = "commit"
    PROVE  Diff(s) \subseteq [from : Versions, to : Versions]
<1>1. new[s] \in EventData
  BY DEF IInv, Fetched
<1>2. SUFFICES ASSUME old[s] # NoData
               PROVE  [from |-> old[s].content, to |-> new[s].content]
                        \in [from : Versions, to : Versions]
  BY DEF Diff
<1>3. old[s] \in EventData
  BY <1>2 DEF IInv, TypeOK, Processes
<1>4. old[s].content \in Versions /\ new[s].content \in Versions
  BY <1>1, <1>3 DEF EventData
<1>5. QED
  BY <1>4

-----------------------------------------------------------------------------
(* Types and committed data                                                *)

LEMMA DataInit == Init => IInv
<1> SUFFICES ASSUME Init PROVE IInv
  OBVIOUS
<1>1. TypeOK
  BY SyncAssumption DEF Init, TypeOK, Processes, PCs, Versions, EventData, MaxAttempts
<1>2. QED
  BY <1>1 DEF Init, IInv, Fetched, FoundCommitted, CacheCommitted, Processes

\* A process looks for the latest data: only committed data is found, and
\* only what was found goes to memcache.
LEMMA LatestStep ==
    ASSUME IInv, NEW p \in Processes, Latest(p)
    PROVE  IInv'
<1> USE DEF IInv, TypeOK, Goto, PCs
<1>1. CASE GetCached(p)
  <2>1. key[p] \in Keys
    OBVIOUS
  <2>2. cache[key[p]] = NoData \/ cache[key[p]] \in stored
    BY <2>1 DEF CacheCommitted
  <2>3. TypeOK' /\ CacheCommitted'
    BY <1>1, <2>1 DEF GetCached, Return, mem, db, faults, CacheCommitted
  <2>4. Fetched'
    BY <1>1 DEF GetCached, Return, Fetched, Processes
  <2>5. FoundCommitted'
    BY <1>1, <2>2 DEF GetCached, FoundCommitted, db
  <2>6. QED
    BY <2>3, <2>4, <2>5
<1>2. CASE RunQuery(p)
  <2>1. PICK d \in Query : /\ old' = [old EXCEPT ![p] = d]
                           /\ Goto(p, IF d = NoData THEN Return(p) ELSE "fill")
    BY <1>2 DEF RunQuery
  <2>2. d = NoData \/ d \in stored
    BY QueryFinds
  <2>3. d \in EventData \cup {NoData}
    BY <2>2
  <2>4. TypeOK' /\ CacheCommitted'
    BY <1>2, <2>1, <2>3 DEF RunQuery, Return, mem, db, faults, CacheCommitted
  <2>5. Fetched'
    BY <1>2, <2>1 DEF RunQuery, Return, Fetched, Processes
  <2>6. FoundCommitted'
    BY <1>2, <2>1, <2>2 DEF RunQuery, FoundCommitted, db
  <2>7. QED
    BY <2>4, <2>5, <2>6
<1>3. CASE FillCache(p)
  <2>1. TypeOK'
    BY <1>3 DEF FillCache, Return, db, faults
  <2>2. Fetched' /\ FoundCommitted'
    BY <1>3 DEF FillCache, Return, db, Fetched, FoundCommitted, Processes
  <2>3. CacheCommitted'
    BY <1>3 DEF FillCache, db, CacheCommitted, FoundCommitted
  <2>4. QED
    BY <2>1, <2>2, <2>3
<1>4. QED
  BY <1>1, <1>2, <1>3 DEF Latest

\* The sync starts over, or begins: it has found and fetched nothing.
LEMMA BeginKeeps ==
    ASSUME IInv, NEW s \in Syncs, BeginTransaction(s)
    PROVE  /\ pc' \in [Processes -> PCs]
           /\ txn' \in [Syncs -> {"none", "open", "stale"}]
           /\ new' \in [Syncs -> EventData \cup {NoData}]
           /\ old' \in [Processes -> EventData \cup {NoData}]
           /\ Fetched'
           /\ stored \subseteq stored' => FoundCommitted'
<1> USE DEF IInv, TypeOK, BeginTransaction, Goto, PCs, Processes
<1>1. Fetched'
  BY DEF Fetched
<1>2. stored \subseteq stored' => FoundCommitted'
  BY DEF FoundCommitted
<1>3. QED
  BY <1>1, <1>2

\* A sync gives up its transaction and has nothing any more.
LEMMA StopKeeps ==
    ASSUME IInv, NEW s \in Syncs, NEW l \in {"idle", "release"},
           pc' = [pc EXCEPT ![s] = l],
           txn' = [txn EXCEPT ![s] = "none"],
           old' \in {old, [old EXCEPT ![s] = NoData]},
           new' \in {new, [new EXCEPT ![s] = NoData]},
           UNCHANGED <<manifest, db, cache, key>>,
           lock' \in 0..MaxLock, tries' \in [Syncs -> 0..MaxAttempts],
           errors' \in 0..MaxErrors, crashes' \in 0..MaxCrashes
    PROVE  IInv'
<1> USE DEF IInv, TypeOK, PCs, Processes, db
<1>1. TypeOK'
  OBVIOUS
<1>2. Fetched'
  BY DEF Fetched
<1>3. FoundCommitted' /\ CacheCommitted'
  BY DEF FoundCommitted, CacheCommitted
<1>4. QED
  BY <1>1, <1>2, <1>3

LEMMA CommitStep ==
    ASSUME IInv, NEW s \in Syncs, Commit(s)
    PROVE  IInv'
<1>1. CASE txn[s] = "open" /\ Applied(s) /\ Goto(s, "release")
           /\ txn' = [t \in Syncs |-> IF t = s THEN "none"
                                      ELSE IF txn[t] = "open" THEN "stale" ELSE txn[t]]
           /\ UNCHANGED <<old, new, tries>>
  <2>1. stored' = stored \cup {new[s]} /\ new[s] \in EventData
    BY <1>1 DEF Applied, Commit, IInv, Fetched
  <2>2. log' \subseteq [from : Versions, to : Versions]
    BY <1>1, DiffIsTyped DEF Applied, Commit, IInv, TypeOK
  <2>3. txn' \in [Syncs -> {"none", "open", "stale"}]
    BY <1>1 DEF IInv, TypeOK
  <2>4. TypeOK'
    BY <1>1, <2>1, <2>2, <2>3 DEF Commit, Goto, IInv, TypeOK, PCs, Processes, mem, faults
  <2>5. Fetched' /\ FoundCommitted' /\ CacheCommitted'
    BY <1>1, <2>1 DEF Commit, Goto, IInv, TypeOK, Fetched, FoundCommitted, CacheCommitted,
                      Processes, mem
  <2>6. QED
    BY <2>4, <2>5 DEF IInv
<1>2. CASE /\ txn[s] = "stale" /\ tries[s] < MaxAttempts
           /\ BeginTransaction(s)
           /\ tries' = [tries EXCEPT ![s] = @ + 1]
           /\ UNCHANGED db
  <2>1. tries' \in [Syncs -> 0..MaxAttempts]
    BY <1>2 DEF IInv, TypeOK, MaxAttempts
  <2>2. QED
    BY <1>2, <2>1, BeginKeeps
       DEF Commit, IInv, TypeOK, FoundCommitted, CacheCommitted, mem, db, faults
<1>3. CASE /\ txn[s] = "stale" /\ tries[s] = MaxAttempts
           /\ Goto(s, "release")
           /\ txn' = [txn EXCEPT ![s] = "none"]
           /\ UNCHANGED <<db, old, new, tries>>
  BY <1>3, StopKeeps DEF Commit, Goto, IInv, TypeOK, mem, faults
<1>4. QED
  BY <1>1, <1>2, <1>3 DEF Commit

LEMMA DataStep == IInv /\ [Next]_vars => IInv'
<1> SUFFICES ASSUME IInv, [Next]_vars PROVE IInv'
  OBVIOUS
<1>1. CASE Publish
  BY <1>1, SyncAssumption
     DEF Publish, IInv, TypeOK, Versions, Fetched, FoundCommitted, CacheCommitted, db, mem, faults
<1>2. ASSUME NEW r \in Readers, Read(r) PROVE IInv'
  <2>1. TypeOK'
    BY <1>2 DEF Read, Goto, IInv, TypeOK, PCs, Processes, db, mem, faults
  <2>2. Fetched'
    BY <1>2, SyncAssumption DEF Read, Goto, IInv, TypeOK, Fetched, Processes
  <2>3. FoundCommitted' /\ CacheCommitted'
    BY <1>2 DEF Read, IInv, TypeOK, FoundCommitted, CacheCommitted, db, mem
  <2>4. QED
    BY <2>1, <2>2, <2>3 DEF IInv
<1>3. ASSUME NEW p \in Processes, Latest(p) PROVE IInv'
  BY <1>3, LatestStep
<1>4. ASSUME NEW s \in Syncs, Enter(s) PROVE IInv'
  <2>1. lock' \in 0..MaxLock /\ key' \in [Processes -> Keys]
    BY <1>4, SyncAssumption DEF Enter, IInv, TypeOK
  <2>2. CASE lock' > 1
    BY <1>4, <2>1, <2>2
       DEF Enter, IInv, TypeOK, Fetched, FoundCommitted, CacheCommitted, db, faults
  <2>3. CASE ~(lock' > 1)
    <3>1. tries' \in [Syncs -> 0..MaxAttempts]
      BY <1>4, <2>3 DEF Enter, IInv, TypeOK, MaxAttempts
    <3>2. BeginTransaction(s)
      BY <1>4, <2>3 DEF Enter
    <3>3. QED
      BY <1>4, <2>1, <3>1, <3>2, BeginKeeps
         DEF Enter, IInv, TypeOK, CacheCommitted, db, faults
  <2>4. QED
    BY <2>2, <2>3
<1>5. ASSUME NEW s \in Syncs, FetchManifest(s) PROVE IInv'
  <2>1. manifest \in Versions
    BY DEF IInv, TypeOK
  <2>2. [mod |-> manifest, content |-> manifest] \in EventData
    BY <2>1 DEF EventData
  <2>3. new' \in [Syncs -> EventData \cup {NoData}]
    BY <1>5, <2>2 DEF FetchManifest, IInv, TypeOK
  <2>4. TypeOK'
    BY <1>5, <2>3 DEF FetchManifest, Goto, IInv, TypeOK, PCs, Processes, db, mem, faults
  <2>5. Fetched'
    BY <1>5, <2>2 DEF FetchManifest, Goto, IInv, TypeOK, Fetched, Processes
  <2>6. QED
    BY <1>5, <2>4, <2>5 DEF FetchManifest, IInv, FoundCommitted, CacheCommitted, db, mem
<1>6. ASSUME NEW s \in Syncs, FetchChunks(s) PROVE IInv'
  <2>1. PICK c \in new[s].mod..manifest :
               new' = [new EXCEPT ![s] = [mod |-> new[s].mod, content |-> c]]
    BY <1>6 DEF FetchChunks
  <2>2. new[s].mod \in Versions /\ manifest \in Versions
    BY <1>6 DEF FetchChunks, IInv, TypeOK, Fetched, EventData
  <2>3. [mod |-> new[s].mod, content |-> c] \in EventData
    BY <2>2, SyncAssumption DEF EventData, Versions
  <2>4. TypeOK'
    BY <1>6, <2>1, <2>3 DEF FetchChunks, Goto, IInv, TypeOK, PCs, Processes, db, mem, faults
  <2>5. Fetched'
    BY <1>6, <2>1, <2>3 DEF FetchChunks, Goto, IInv, TypeOK, Fetched, Processes
  <2>6. QED
    BY <1>6, <2>4, <2>5 DEF FetchChunks, IInv, FoundCommitted, CacheCommitted, db, mem
<1>7. ASSUME NEW s \in Syncs, FetchFails(s) PROVE IInv'
  <2>1. errors' \in 0..MaxErrors
    BY <1>7, SyncAssumption DEF FetchFails, IInv, TypeOK
  <2>2. QED
    BY <1>7, <2>1, StopKeeps DEF FetchFails, Goto, IInv, TypeOK, mem
<1>8. ASSUME NEW s \in Syncs, PutEventData(s) PROVE IInv'
  <2>1. TypeOK'
    BY <1>8 DEF PutEventData, Goto, IInv, TypeOK, PCs, Processes, db, faults
  <2>2. Fetched' /\ FoundCommitted' /\ CacheCommitted'
    BY <1>8 DEF PutEventData, Goto, IInv, TypeOK, Fetched, FoundCommitted, CacheCommitted,
                Processes, db
  <2>3. QED
    BY <2>1, <2>2 DEF IInv
<1>9. ASSUME NEW s \in Syncs, Commit(s) PROVE IInv'
  BY <1>9, CommitStep
<1>10. ASSUME NEW s \in Syncs, Release(s) PROVE IInv'
  <2>1. lock' \in 0..MaxLock /\ tries' \in [Syncs -> 0..MaxAttempts]
    BY <1>10, SyncAssumption DEF Release, IInv, TypeOK, MaxAttempts
  <2>2. QED
    BY <1>10, <2>1, StopKeeps DEF Release, Goto, IInv, TypeOK, faults
<1>11. ASSUME NEW s \in Syncs, Crash(s) PROVE IInv'
  <2>1. crashes' \in 0..MaxCrashes /\ tries' \in [Syncs -> 0..MaxAttempts]
    BY <1>11, SyncAssumption DEF Crash, IInv, TypeOK, MaxAttempts
  <2>2. QED
    BY <1>11, <2>1, StopKeeps DEF Crash, Goto, IInv, TypeOK, mem
<1>12. ASSUME NEW k \in Keys, Expire(k) PROVE IInv'
  BY <1>12 DEF Expire, IInv, TypeOK, Fetched, FoundCommitted, CacheCommitted, db, faults
<1>13. CASE EvictLock
  BY <1>13, SyncAssumption
     DEF EvictLock, IInv, TypeOK, Fetched, FoundCommitted, CacheCommitted, db, faults
<1>14. CASE UNCHANGED vars
  BY <1>14 DEF vars, IInv, TypeOK, Fetched, FoundCommitted, CacheCommitted, db, mem, faults
<1>15. QED
  BY <1>1, <1>2, <1>3, <1>4, <1>5, <1>6, <1>7, <1>8, <1>9, <1>10, <1>11, <1>12, <1>13, <1>14
     DEF Next, Sync, Processes

(***************************************************************************)
(* Every variable of EventSync keeps its type: what is recorded as a       *)
(* change, in particular, goes from one stored version to another.         *)
(***************************************************************************)
THEOREM TypeCorrect == Spec => []TypeOK
<1>1. IInv => TypeOK
  BY DEF IInv
<1>2. QED
  BY <1>1, DataInit, DataStep, PTL DEF Spec

(***************************************************************************)
(* memcache holds nothing but committed data, although it takes no part in *)
(* transactions: storeEventData only deletes, and only cacheEventData,     *)
(* called after a query, sets.                                             *)
(***************************************************************************)
THEOREM OnlyCommittedCached == Spec => []CacheCommitted
<1>1. IInv => CacheCommitted
  BY DEF IInv
<1>2. QED
  BY <1>1, DataInit, DataStep, PTL DEF Spec

-----------------------------------------------------------------------------
(* The recorded changes                                                    *)

\* A sync's data joins what is stored, with the change from its base: the
\* base is older and stored, or nothing is.  What was oldest stays so.
LEMMA AppliedLinks ==
    ASSUME IInv, HInv, NEW s \in Syncs, pc[s] = "commit", txn[s] = "open", Applied(s)
    PROVE  EveryChangeLogged'
<1>1. new[s] \in EventData /\ new[s].mod > old[s].mod
  BY DEF IInv, Fetched, HInv, Ahead
<1>2. stored' = stored \cup {new[s]} /\ log \subseteq log' /\ Diff(s) \subseteq log'
  BY DEF Applied
<1>3. old[s] = NoData => stored = {}
  BY DEF HInv, NoBase
<1>4. old[s] # NoData => old[s] \in stored
  BY DEF IInv, FoundCommitted, Processes
<1>5. \A d \in stored' : d.mod \in Int
  BY <1>1, <1>2 DEF IInv, TypeOK, EventData, Versions
<1>6. SUFFICES ASSUME NEW d \in stored'
               PROVE  \/ \A e \in stored' : d.mod =< e.mod
                      \/ \E e \in stored' :
                            /\ e.mod < d.mod
                            /\ \/ e.content = d.content
                               \/ [from |-> e.content, to |-> d.content] \in log'
  BY DEF EveryChangeLogged
<1>7. CASE old[s] = NoData
  BY <1>2, <1>3, <1>5, <1>7
<1>8. CASE old[s] # NoData /\ d = new[s]
  <2>1. old[s].mod < d.mod /\ old[s] \in stored'
    BY <1>1, <1>2, <1>4, <1>5, <1>8
  <2>2. \/ old[s].content = d.content
        \/ [from |-> old[s].content, to |-> d.content] \in log'
    BY <1>2, <1>8 DEF Diff
  <2>3. QED
    BY <2>1, <2>2
<1>9. CASE old[s] # NoData /\ d \in stored
  <2>1. CASE \A e \in stored : d.mod =< e.mod
    <3>1. d.mod =< old[s].mod
      BY <1>4, <1>9, <2>1
    <3>2. old[s].mod \in Int /\ d.mod \in Int /\ new[s].mod \in Int
      BY <1>2, <1>4, <1>5, <1>9
    <3>3. d.mod =< new[s].mod
      BY <1>1, <3>1, <3>2
    <3>4. QED
      BY <1>2, <2>1, <3>3
  <2>2. CASE ~ \A e \in stored : d.mod =< e.mod
    <3>1. PICK e \in stored : /\ e.mod < d.mod
                              /\ \/ e.content = d.content
                                 \/ [from |-> e.content, to |-> d.content] \in log
      BY <1>9, <2>2 DEF HInv, EveryChangeLogged
    <3>2. QED
      BY <1>2, <3>1
  <2>3. QED
    BY <2>1, <2>2
<1>10. QED
  BY <1>2, <1>7, <1>8, <1>9

\* A process that is nowhere between the manifest and the commit gets no
\* nearer, or stops: the others see nothing of it.
LEMMA HistoryKept ==
    ASSUME HInv, NEW p,
           \A q \in Syncs : q # p =>
               pc'[q] = pc[q] /\ old'[q] = old[q] /\ new'[q] = new[q] /\ txn'[q] = txn[q],
           p \in Syncs => pc'[p] \notin {"fill", "manifest", "chunks", "put", "commit"},
           UNCHANGED db
    PROVE  HInv'
BY DEF HInv, Ahead, NoBase, EveryChangeLogged, db

LEMMA HistoryInit == Init => HInv
BY DEF Init, HInv, Ahead, NoBase, EveryChangeLogged, Processes

LEMMA LatestHistory ==
    ASSUME IInv, HInv, NEW p \in Processes, Latest(p)
    PROVE  HInv'
<1> USE DEF IInv, TypeOK, Goto, Processes
<1>1. UNCHANGED <<db, new>>
  BY DEF Latest, GetCached, RunQuery, FillCache
<1>2. Ahead'
  BY <1>1 DEF Latest, GetCached, RunQuery, FillCache, Return, HInv, Ahead
<1>3. NoBase'
  <2>1. CASE GetCached(p)
    BY <2>1, <1>1 DEF GetCached, Return, HInv, NoBase, db
  <2>2. CASE RunQuery(p)
    <3>1. PICK d \in Query : /\ old' = [old EXCEPT ![p] = d]
                             /\ Goto(p, IF d = NoData THEN Return(p) ELSE "fill")
      BY <2>2 DEF RunQuery
    <3>2. d = NoData => stored = {}
      BY NoDataIsNone, QueryFinds
    <3>3. p \in Syncs => txn'[p] = "open"
      BY <2>2 DEF RunQuery
    <3>4. \A q \in Syncs : q # p => txn'[q] = txn[q]
      BY <2>2 DEF RunQuery
    <3>5. QED
      BY <1>1, <3>1, <3>2, <3>3, <3>4 DEF Return, HInv, NoBase, db
  <2>3. CASE FillCache(p)
    BY <2>3, <1>1 DEF FillCache, Return, HInv, NoBase, db
  <2>4. QED
    BY <2>1, <2>2, <2>3 DEF Latest
<1>4. QED
  BY <1>1, <1>2, <1>3 DEF HInv, EveryChangeLogged, db

LEMMA CommitHistory ==
    ASSUME IInv, HInv, NEW s \in Syncs, Commit(s)
    PROVE  HInv'
<1> USE DEF IInv, TypeOK, Goto, Processes
<1>1. CASE /\ txn[s] = "open"
           /\ Applied(s)
           /\ Goto(s, "release")
           /\ txn' = [t \in Syncs |-> IF t = s THEN "none"
                                      ELSE IF txn[t] = "open" THEN "stale" ELSE txn[t]]
           /\ UNCHANGED <<old, new, tries>>
  <2>1. EveryChangeLogged'
    BY <1>1, AppliedLinks DEF Commit
  <2>2. Ahead'
    BY <1>1 DEF HInv, Ahead
  <2>3. NoBase'
    BY <1>1 DEF HInv, NoBase
  <2>4. QED
    BY <2>1, <2>2, <2>3 DEF HInv
<1>2. CASE UNCHANGED db /\ (BeginTransaction(s) \/ (/\ Goto(s, "release")
                                                  /\ txn' = [txn EXCEPT ![s] = "none"]
                                                  /\ UNCHANGED <<old, new>>))
  <2>1. pc'[s] \notin {"fill", "manifest", "chunks", "put", "commit"}
    BY <1>2 DEF BeginTransaction
  <2>2. \A q \in Syncs : q # s =>
            pc'[q] = pc[q] /\ old'[q] = old[q] /\ new'[q] = new[q] /\ txn'[q] = txn[q]
    BY <1>2 DEF BeginTransaction
  <2>3. QED
    BY <1>2, <2>1, <2>2, HistoryKept
<1>3. QED
  BY <1>1, <1>2 DEF Commit

LEMMA HistoryStep == IInv /\ HInv /\ [Next]_vars => HInv'
<1> SUFFICES ASSUME IInv, HInv, [Next]_vars PROVE HInv'
  OBVIOUS
<1> USE DEF IInv, TypeOK, Goto, Processes
<1>1. CASE Publish \/ (\E k \in Keys : Expire(k)) \/ EvictLock \/ UNCHANGED vars
  BY <1>1 DEF Publish, Expire, EvictLock, vars, HInv, Ahead, NoBase, EveryChangeLogged, db
<1>2. ASSUME NEW r \in Readers, Read(r) PROVE HInv'
  <2>1. UNCHANGED <<db, new, txn>> /\ r \notin Syncs
    BY <1>2, SyncAssumption DEF Read
  <2>2. \A q \in Syncs : q # r => pc'[q] = pc[q] /\ old'[q] = old[q]
    BY <1>2 DEF Read
  <2>3. QED
    BY <2>1, <2>2, HistoryKept
<1>3. ASSUME NEW p \in Processes, Latest(p) PROVE HInv'
  BY <1>3, LatestHistory
<1>4. ASSUME NEW s \in Syncs, Enter(s) PROVE HInv'
  <2>1. CASE UNCHANGED <<pc, old, new, txn, db>>
    BY <2>1 DEF HInv, Ahead, NoBase, EveryChangeLogged, db
  <2>2. CASE BeginTransaction(s) /\ UNCHANGED db
    <3>1. pc'[s] = "get"
      BY <2>2 DEF BeginTransaction
    <3>2. \A q \in Syncs : q # s =>
              pc'[q] = pc[q] /\ old'[q] = old[q] /\ new'[q] = new[q] /\ txn'[q] = txn[q]
      BY <2>2 DEF BeginTransaction
    <3>3. QED
      BY <2>2, <3>1, <3>2, HistoryKept
  <2>3. QED
    BY <1>4, <2>1, <2>2 DEF Enter
<1>5. ASSUME NEW s \in Syncs, FetchManifest(s) PROVE HInv'
  <2>1. EveryChangeLogged' /\ NoBase'
    BY <1>5 DEF FetchManifest, HInv, NoBase, EveryChangeLogged, db
  <2>2. Ahead'
    <3>1. CASE manifest > old[s].mod /\ new'[s].mod = manifest
      <4>1. \A q \in Syncs : q # s => pc'[q] = pc[q] /\ new'[q] = new[q]
        BY <1>5 DEF FetchManifest
      <4>2. UNCHANGED old
        BY <1>5 DEF FetchManifest
      <4>3. QED
        BY <3>1, <4>1, <4>2 DEF HInv, Ahead
    <3>2. CASE pc' = [pc EXCEPT ![s] = "release"] /\ UNCHANGED <<old, new>>
      BY <3>2 DEF HInv, Ahead
    <3>3. QED
      BY <1>5, <3>1, <3>2 DEF FetchManifest
  <2>3. QED
    BY <2>1, <2>2 DEF HInv
<1>6. ASSUME NEW s \in Syncs, FetchChunks(s) PROVE HInv'
  <2>1. EveryChangeLogged' /\ NoBase'
    BY <1>6 DEF FetchChunks, HInv, NoBase, EveryChangeLogged, db
  <2>2. new'[s].mod = new[s].mod /\ UNCHANGED old
    BY <1>6 DEF FetchChunks
  <2>3. \A q \in Syncs : q # s => pc'[q] = pc[q] /\ new'[q] = new[q]
    BY <1>6 DEF FetchChunks
  <2>4. pc[s] = "chunks"
    BY <1>6 DEF FetchChunks
  <2>5. Ahead'
    BY <2>2, <2>3, <2>4 DEF HInv, Ahead
  <2>6. QED
    BY <2>1, <2>5 DEF HInv
<1>7. ASSUME NEW s \in Syncs, PutEventData(s) PROVE HInv'
  BY <1>7 DEF PutEventData, HInv, Ahead, NoBase, EveryChangeLogged, db
<1>8. ASSUME NEW s \in Syncs, Commit(s) PROVE HInv'
  BY <1>8, CommitHistory
<1>9. ASSUME NEW s \in Syncs, FetchFails(s) \/ Release(s) \/ Crash(s) PROVE HInv'
  <2>1. UNCHANGED db /\ pc'[s] \in {"idle", "release"}
    BY <1>9 DEF FetchFails, Release, Crash
  <2>2. \A q \in Syncs : q # s =>
            pc'[q] = pc[q] /\ old'[q] = old[q] /\ new'[q] = new[q] /\ txn'[q] = txn[q]
    BY <1>9 DEF FetchFails, Release, Crash
  <2>3. QED
    BY <2>1, <2>2, HistoryKept
<1>10. QED
  BY <1>1, <1>2, <1>3, <1>4, <1>5, <1>6, <1>7, <1>8, <1>9 DEF Next, Sync

(***************************************************************************)
(* Whatever the stored schedules, the recorded changes lead to each of     *)
(* them from the oldest: a sync may diff from a stale memcache entry, run  *)
(* beside others, be refused at its commit and run again, or be cut off    *)
(* (syncEventData, getLatestEventData, storeEventData, storeChanges).      *)
(***************************************************************************)
THEOREM EveryChangeIsLogged == Spec => []EveryChangeLogged
<1>1. HInv => EveryChangeLogged
  BY DEF HInv
<1>2. QED
  BY <1>1, DataInit, DataStep, HistoryInit, HistoryStep, PTL DEF Spec

-----------------------------------------------------------------------------
(* The refinement                                                          *)

\* What a sync has fetched was published, the files with or after the
\* manifest.
Published == \A s \in Syncs : pc[s] \in {"chunks", "put", "commit"} =>
    new[s].mod =< new[s].content /\ new[s].content =< manifest

LEMMA PublishedInit == Init => Published
BY DEF Init, Published, Processes

\* Only a fetch brings in a version, and the manifest only goes up.
LEMMA PublishedKept ==
    ASSUME Published, IInv, manifest' \in Int, manifest =< manifest',
           \A s \in Syncs : pc'[s] \in {"chunks", "put", "commit"} =>
               pc[s] \in {"chunks", "put", "commit"} /\ new'[s] = new[s]
    PROVE  Published'
<1> SUFFICES ASSUME NEW s \in Syncs, pc'[s] \in {"chunks", "put", "commit"}
             PROVE  new'[s].mod =< new'[s].content /\ new'[s].content =< manifest'
  BY DEF Published
<1>1. new'[s] = new[s] /\ new[s] \in EventData
  BY DEF IInv, Fetched
<1>2. new[s].mod =< new[s].content /\ new[s].content =< manifest
  BY DEF Published
<1>3. new[s].content \in Int /\ manifest \in Int
  BY <1>1 DEF EventData, Versions, IInv, TypeOK
<1>4. QED
  BY <1>1, <1>2, <1>3

LEMMA PublishedStep == IInv /\ Published /\ [Next]_vars => Published'
<1> SUFFICES ASSUME IInv, Published, [Next]_vars PROVE Published'
  OBVIOUS
<1> USE DEF IInv, TypeOK, Goto, Processes
<1>0. manifest \in Int /\ manifest =< manifest
  BY DEF Versions
<1>1. CASE Publish
  BY <1>0, <1>1, PublishedKept DEF Publish
<1>2. CASE (\E k \in Keys : Expire(k)) \/ EvictLock \/ UNCHANGED vars
  BY <1>0, <1>2, PublishedKept DEF Expire, EvictLock, vars
<1>3. ASSUME NEW r \in Readers, Read(r) PROVE Published'
  BY <1>0, <1>3, PublishedKept, SyncAssumption DEF Read
<1>4. ASSUME NEW p \in Processes, Latest(p) PROVE Published'
  BY <1>0, <1>4, PublishedKept DEF Latest, GetCached, RunQuery, FillCache, Return
<1>5. ASSUME NEW s \in Syncs, Enter(s) PROVE Published'
  BY <1>0, <1>5, PublishedKept DEF Enter, BeginTransaction
<1>6. ASSUME NEW s \in Syncs, FetchManifest(s) PROVE Published'
  BY <1>0, <1>6 DEF FetchManifest, Published
<1>7. ASSUME NEW s \in Syncs, FetchChunks(s) PROVE Published'
  <2>1. PICK c \in new[s].mod..manifest : new' = [new EXCEPT ![s] = [mod |-> @.mod, content |-> c]]
    BY <1>7 DEF FetchChunks
  <2>2. c \in Int /\ new[s].mod =< c /\ c =< manifest
    BY <2>1
  <2>3. new'[s] = [mod |-> new[s].mod, content |-> c]
    BY <2>1
  <2>4. QED
    BY <1>7, <2>1, <2>2, <2>3 DEF FetchChunks, Published
<1>8. ASSUME NEW s \in Syncs, PutEventData(s) PROVE Published'
  BY <1>0, <1>8, PublishedKept DEF PutEventData
<1>9. ASSUME NEW s \in Syncs, Commit(s) PROVE Published'
  BY <1>0, <1>9, PublishedKept DEF Commit, BeginTransaction
<1>10. ASSUME NEW s \in Syncs, FetchFails(s) \/ Release(s) \/ Crash(s) PROVE Published'
  BY <1>0, <1>10, PublishedKept DEF FetchFails, Release, Crash
<1>11. QED
  BY <1>1, <1>2, <1>3, <1>4, <1>5, <1>6, <1>7, <1>8, <1>9, <1>10 DEF Next, Sync

LEMMA SameData ==
    /\ Impl!NoData = NoData /\ Impl!EventData = EventData
    /\ \A s \in Syncs : Diff(s) = Impl!Changes(old[s], new[s])
BY DEF Impl!NoData, NoData, Impl!EventData, EventData, Impl!Versions, Versions, Impl!Changes, Diff

\* A sync leaves the organisers, the datastore and the readers alone.
LEMMA SyncUnseen ==
    ASSUME UNCHANGED <<manifest, stored, log>>, \A r \in Readers : old'[r] = old[r]
    PROVE  UNCHANGED Impl!vars
BY DEF Impl!vars, Answered

\* A reader is answered with what it found, in memcache or by the query.
LEMMA ReaderRefines ==
    ASSUME IInv, NEW r \in Readers, Read(r) \/ Latest(r)
    PROVE  [Impl!Next]_(Impl!vars)
<1> USE DEF IInv, TypeOK, Goto, Processes
<1>1. CASE UNCHANGED old
  BY <1>1, SyncUnseen DEF Read, Latest, GetCached, RunQuery, FillCache, db
<1>2. CASE Read(r)
  <2>1. Answered' = [Answered EXCEPT ![r] = NoData]
    BY <1>2 DEF Read, Answered
  <2>2. Impl!Ask(r)
    BY <1>2, <2>1, SameData DEF Read, Impl!Ask, db
  <2>3. QED
    BY <2>2 DEF Impl!Next
<1>3. ASSUME NEW d \in Impl!Available, old' = [old EXCEPT ![r] = d], UNCHANGED <<manifest, db>>
      PROVE  Impl!Next
  <2>1. Answered' = [Answered EXCEPT ![r] = d]
    BY <1>3 DEF Answered
  <2>2. Impl!Answer(r)
    BY <1>3, <2>1 DEF Impl!Answer, db
  <2>3. QED
    BY <2>2 DEF Impl!Next
<1>4. CASE GetCached(r) /\ cache[key[r]] # NoData
  <2>1. cache[key[r]] \in stored
    BY <1>4 DEF CacheCommitted
  <2>2. QED
    BY <1>3, <1>4, <2>1 DEF GetCached, Impl!Available
<1>5. CASE RunQuery(r)
  <2>1. PICK d \in Query : old' = [old EXCEPT ![r] = d]
    BY <1>5 DEF RunQuery
  <2>2. d \in Impl!Available
    BY QueryFinds, SameData DEF Impl!Available, Query
  <2>3. QED
    BY <1>3, <1>5, <2>1, <2>2 DEF RunQuery
<1>6. QED
  BY <1>1, <1>2, <1>4, <1>5 DEF Latest, GetCached, FillCache

\* The commit is the instant at which a version is taken over.
LEMMA CommitRefines ==
    ASSUME IInv, HInv, Published, NEW s \in Syncs, Commit(s)
    PROVE  [Impl!Next]_(Impl!vars)
<1> USE DEF IInv, TypeOK, Goto, Processes
<1>1. CASE txn[s] = "open" /\ Applied(s) /\ UNCHANGED <<manifest, old>>
  <2>1. new[s] \in EventData /\ old[s].mod < new[s].mod
    <3>1. new[s] \in EventData /\ new[s].mod > old[s].mod
      BY <1>1 DEF Commit, Fetched, HInv, Ahead
    <3>2. new[s].mod \in Int /\ old[s].mod \in Int
      BY <3>1 DEF EventData, NoData, Versions
    <3>3. QED
      BY <3>1, <3>2
  <2>2. old[s] \in Impl!Available
    BY <1>1, SameData DEF Commit, Impl!Available, FoundCommitted, HInv, NoBase
  <2>3. new[s].mod =< new[s].content /\ new[s].content =< manifest
    BY DEF Commit, Published
  <2>4. Answered' = Answered
    BY <1>1 DEF Answered
  <2>5. Impl!TakeOver(old[s], new[s])
    BY <1>1, <2>1, <2>3, <2>4, SameData DEF Applied, Impl!TakeOver
  <2>6. QED
    BY <2>1, <2>2, <2>5, SameData DEF Impl!Next
<1>2. CASE UNCHANGED <<manifest, db>> /\ \A r \in Readers : old'[r] = old[r]
  BY <1>2, SyncUnseen DEF db
<1>3. QED
  <2>1. \A r \in Readers : r # s
    BY SyncAssumption
  <2>2. BeginTransaction(s) => \A r \in Readers : old'[r] = old[r]
    BY <2>1 DEF BeginTransaction
  <2>3. QED
    BY <1>1, <1>2, <2>2 DEF Commit

LEMMA StepRefines == IInv /\ HInv /\ Published /\ [Next]_vars => [Impl!Next]_(Impl!vars)
<1> SUFFICES ASSUME IInv, HInv, Published, [Next]_vars PROVE [Impl!Next]_(Impl!vars)
  OBVIOUS
<1> USE DEF IInv, TypeOK, Goto, Processes
<1>0. \A s \in Syncs : \A r \in Readers : r # s
  BY SyncAssumption
<1>1. CASE Publish
  <2>1. Impl!Publish
    BY <1>1 DEF Publish, Impl!Publish, Answered, db
  <2>2. QED
    BY <2>1 DEF Impl!Next
<1>2. CASE (\E k \in Keys : Expire(k)) \/ EvictLock \/ UNCHANGED vars
  BY <1>2, SyncUnseen DEF Expire, EvictLock, vars, db
<1>3. ASSUME NEW r \in Readers, Read(r) \/ Latest(r) PROVE [Impl!Next]_(Impl!vars)
  BY <1>3, ReaderRefines
<1>4. ASSUME NEW s \in Syncs, Commit(s) PROVE [Impl!Next]_(Impl!vars)
  BY <1>4, CommitRefines
<1>5. ASSUME NEW s \in Syncs,
             \/ Enter(s) \/ Latest(s) \/ FetchManifest(s) \/ FetchChunks(s) \/ PutEventData(s)
             \/ FetchFails(s) \/ Release(s) \/ Crash(s)
      PROVE  [Impl!Next]_(Impl!vars)
  <2>1. UNCHANGED <<manifest, db>>
    BY <1>5 DEF Enter, Latest, GetCached, RunQuery, FillCache, FetchManifest, FetchChunks,
                PutEventData, FetchFails, Release, Crash
  <2>2. old' = old \/ \E d : old' = [old EXCEPT ![s] = d]
    BY <1>5 DEF Enter, Latest, GetCached, RunQuery, FillCache, FetchManifest, FetchChunks,
                PutEventData, FetchFails, Release, Crash, BeginTransaction
  <2>3. \A r \in Readers : old'[r] = old[r]
    BY <1>0, <2>2
  <2>4. QED
    BY <2>1, <2>3, SyncUnseen DEF db
<1>6. QED
  BY <1>1, <1>2, <1>3, <1>4, <1>5 DEF Next, Sync

LEMMA InitRefines == Init => Impl!Init
BY SameData DEF Init, Impl!Init, Answered, Processes

(***************************************************************************)
(* The syncs, the datastore and memcache implement ScheduleData: a version *)
(* is taken over at the commit of a sync, with the record of what changed  *)
(* from one that was there before, and every request is answered with what *)
(* was taken over, however many syncs overlap, fail, run again or are cut  *)
(* off and whatever memcache loses or keeps (syncEventData,                *)
(* storeEventData, storeChanges, getLatestEventData).                      *)
(***************************************************************************)
THEOREM Refinement == Spec => ImplementsScheduleData
<1>1. QED
  BY InitRefines, DataInit, DataStep, HistoryInit, HistoryStep, PublishedInit, PublishedStep,
     StepRefines, PTL DEF Spec, ImplementsScheduleData, Impl!Spec

-----------------------------------------------------------------------------
(* The guard of syncEventData                                              *)

LEMMA LockInit == Init => LInv
BY DEF Init, LInv, LockHeld, OneSync, Working, Processes

\* A sync that is at work goes on or stops, with the counter left alone.
LEMMA SyncGoesOn ==
    ASSUME TypeOK, LInv, NEW s \in Syncs, Working(s), NEW l,
           pc' = [pc EXCEPT ![s] = l], lock' = lock
    PROVE  LInv'
<1>1. \A t \in Syncs : Working(t)' => Working(t)
  BY DEF TypeOK, Working, Processes
<1>2. QED
  BY <1>1 DEF LInv, LockHeld, OneSync, Working

\* A reader takes a step: no sync moves.
LEMMA ReaderMoves ==
    ASSUME TypeOK, LInv, NEW r \in Readers, NEW l,
           pc' = [pc EXCEPT ![r] = l], lock' = lock
    PROVE  LInv'
<1>1. \A t \in Syncs : pc'[t] = pc[t]
  BY SyncAssumption DEF TypeOK, Processes
<1>2. QED
  BY <1>1 DEF LInv, LockHeld, OneSync, Working

LEMMA LockStep == ~Evictions /\ TypeOK /\ LInv /\ [Next]_vars => LInv'
<1> SUFFICES ASSUME ~Evictions, TypeOK, LInv, [Next]_vars PROVE LInv'
  OBVIOUS
<1>1. CASE Publish \/ (\E k \in Keys : Expire(k)) \/ UNCHANGED vars
  BY <1>1 DEF Publish, Expire, vars, mem, LInv, LockHeld, OneSync, Working
<1>2. ASSUME NEW r \in Readers, Read(r) \/ Latest(r) PROVE LInv'
  <2>1. lock' = lock /\ \E l : pc' = [pc EXCEPT ![r] = l]
    BY <1>2 DEF Read, Latest, GetCached, RunQuery, FillCache, Goto, mem
  <2>2. QED
    BY <2>1, ReaderMoves
<1>3. ASSUME NEW s \in Syncs, Enter(s) PROVE LInv'
  <2>1. lock \in Nat /\ lock' \in Nat /\ lock' > 0
    BY <1>3, SyncAssumption DEF Enter, TypeOK
  <2>2. CASE lock' > 1
    BY <1>3, <2>1, <2>2 DEF Enter, LInv, LockHeld, OneSync, Working
  <2>3. CASE ~(lock' > 1)
    <3>1. lock = 0
      BY <1>3, <2>1, <2>3, SyncAssumption DEF Enter
    <3>2. \A t \in Syncs : pc[t] = "idle"
      BY <3>1 DEF LInv, LockHeld, Working
    <3>3. pc' = [pc EXCEPT ![s] = "get"]
      BY <1>3, <2>3 DEF Enter, BeginTransaction, Goto
    <3>4. \A t \in Syncs : t # s => pc'[t] = "idle"
      BY <3>2, <3>3 DEF TypeOK, Processes
    <3>5. QED
      BY <2>1, <3>4 DEF LInv, LockHeld, OneSync, Working
  <2>4. QED
    BY <2>2, <2>3
<1>4. ASSUME NEW s \in Syncs,
             \/ Latest(s) \/ FetchManifest(s) \/ FetchChunks(s) \/ PutEventData(s)
             \/ Commit(s) \/ FetchFails(s) \/ Crash(s)
      PROVE  LInv'
  <2>1. Working(s)
    BY <1>4 DEF Latest, GetCached, RunQuery, FillCache, FetchManifest, FetchChunks,
                PutEventData, Commit, FetchFails, Crash, Working
  <2>2. lock' = lock
    BY <1>4 DEF Latest, GetCached, RunQuery, FillCache, FetchManifest, FetchChunks,
                PutEventData, Commit, FetchFails, Crash, mem
  <2>3. \E l : pc' = [pc EXCEPT ![s] = l]
    BY <1>4 DEF Latest, GetCached, RunQuery, FillCache, FetchManifest, FetchChunks,
                PutEventData, Commit, FetchFails, Crash, BeginTransaction, Goto
  <2>4. QED
    BY <2>1, <2>2, <2>3, SyncGoesOn
<1>5. ASSUME NEW s \in Syncs, Release(s) PROVE LInv'
  <2>1. pc' = [pc EXCEPT ![s] = "idle"] /\ pc[s] = "release"
    BY <1>5 DEF Release, Goto
  <2>2. \A t \in Syncs : pc'[t] = "idle"
    BY <2>1 DEF TypeOK, LInv, OneSync, Processes
  <2>3. QED
    BY <2>2 DEF LInv, LockHeld, OneSync, Working
<1>6. CASE EvictLock
  BY <1>6 DEF EvictLock
<1>7. QED
  BY <1>1, <1>2, <1>3, <1>4, <1>5, <1>6 DEF Next, Sync

(***************************************************************************)
(* As long as memcache keeps the counter, no two syncs are at work at the  *)
(* same time, whatever fails or ends midway (syncEventData).               *)
(***************************************************************************)
THEOREM OneSyncAtATime == ASSUME ~Evictions PROVE Spec => []OneSync
<1>1. LInv => OneSync
  BY DEF LInv
<1>2. TypeOK /\ LInv /\ [Next]_vars => LInv'
  BY LockStep
<1>3. QED
  BY <1>1, <1>2, LockInit, TypeCorrect, PTL DEF Spec

=============================================================================
