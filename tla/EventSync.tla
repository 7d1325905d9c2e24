----------------------------- MODULE EventSync -----------------------------
(***************************************************************************)
(* The schedule data of the backend: syncEventData (handler.go) copies the *)
(* organisers' files from Cloud Storage into the datastore, records what   *)
(* changed and announces it; getLatestEventData (db_gae.go) serves the     *)
(* copy through memcache.                                                  *)
(*                                                                         *)
(* Syncs are started by cron, by Cloud Storage and by the task queue, so   *)
(* several may run; a memcache counter is to keep all but one out.  A sync *)
(* is one datastore transaction: what it puts (the new data, the changes,  *)
(* and the task that announces them) appears at its commit, and only if no *)
(* other transaction changed the entity group since this one first used    *)
(* it.  memcache takes no part in the transaction: its entries change at   *)
(* once, may disappear at any time, and are filled by whoever missed.      *)
(*                                                                         *)
(* The organisers publish versions 1, 2, ... of the files; the number is   *)
(* also the manifest's modification time.  The content of one session      *)
(* stands for all data: it differs from version to version.                *)
(***************************************************************************)
EXTENDS Integers

CONSTANTS Syncs,        \* processes running syncEventData, again and again
          Readers,      \* requests that call getLatestEventData
          Keys,         \* memcache keys of the event data, one per shard
          MaxVersion,   \* bound on the versions published
          MaxErrors,    \* bound on failing fetches
          MaxCrashes,   \* bound on syncs cut off by their instance's end
          MaxLock,      \* where the model's memcache counter stops counting
          ReleaseBy,    \* what ends a sync takes off the counter: 1000
          Evictions     \* TRUE: memcache may lose the counter

ASSUME SyncAssumption ==
    /\ Syncs \cap Readers = {}
    /\ MaxVersion \in Nat \ {0} /\ MaxErrors \in Nat /\ MaxCrashes \in Nat
    /\ MaxLock \in Nat /\ MaxLock > 1 /\ ReleaseBy \in Nat
    /\ Evictions \in BOOLEAN

Versions == 1..MaxVersion

\* An EventData entity: manifest time and content of the files read with it.
EventData == [mod : Versions, content : Versions]

NoData == [mod |-> 0, content |-> 0]

MaxAttempts == 3    \* datastore.RunInTransaction

VARIABLES
    manifest,   \* version the organisers published last
    stored,     \* EventData entities, committed
    log,        \* committed Changes entities, each with its announcement
    cache,      \* memcache: key -> EventData, NoData when it has none
    lock,       \* memcache: the sync:gcs counter
    pc,         \* where each process is
    key,        \* shard key of the instance a process runs on
    old,        \* what its getLatestEventData returned
    new,        \* what a sync fetched
    tries,      \* attempts a sync's transaction made
    txn,        \* its transaction: "none", "open" or "stale", see Commit
    errors, crashes

mem == <<cache, lock>>
db == <<stored, log>>
faults == <<errors, crashes>>
vars == <<manifest, db, mem, pc, key, old, new, tries, txn, faults>>

Processes == Syncs \cup Readers

PCs == {"idle", "get", "query", "fill", "manifest", "chunks", "put", "commit",
        "release"}

TypeOK ==
    /\ manifest \in Versions
    /\ stored \subseteq EventData
    /\ log \subseteq [from : Versions, to : Versions]
    /\ cache \in [Keys -> EventData \cup {NoData}]
    /\ lock \in 0..MaxLock
    /\ pc \in [Processes -> PCs]
    /\ key \in [Processes -> Keys]
    /\ old \in [Processes -> EventData \cup {NoData}]
    /\ new \in [Syncs -> EventData \cup {NoData}]
    /\ tries \in [Syncs -> 0..MaxAttempts]
    /\ txn \in [Syncs -> {"none", "open", "stale"}]
    /\ errors \in 0..MaxErrors /\ crashes \in 0..MaxCrashes

\* The entity that the query of getLatestEventData finds: the newest one.
\* Several of one modification time are equally good to it.
Newest(d) == \A e \in stored : e.mod =< d.mod
Query == IF stored = {} THEN {NoData} ELSE {d \in stored : Newest(d)}
LatestMod == IF stored = {} THEN 0 ELSE (CHOOSE d \in stored : Newest(d)).mod

-----------------------------------------------------------------------------
Init ==
    /\ manifest = 1
    /\ stored = {} /\ log = {}
    /\ cache = [k \in Keys |-> NoData] /\ lock = 0
    /\ pc = [p \in Processes |-> "idle"]
    /\ key \in [Processes -> Keys]
    /\ old = [p \in Processes |-> NoData]
    /\ new = [s \in Syncs |-> NoData]
    /\ tries = [s \in Syncs |-> 0]
    /\ txn = [s \in Syncs |-> "none"]
    /\ errors = 0 /\ crashes = 0

Goto(p, l) == pc' = [pc EXCEPT ![p] = l]

\* The organisers upload new files, then a manifest.
Publish ==
    /\ manifest < MaxVersion
    /\ manifest' = manifest + 1
    /\ UNCHANGED <<db, mem, pc, key, old, new, tries, txn, faults>>

-----------------------------------------------------------------------------
(* getLatestEventData, in and out of a transaction                         *)

\* Where a process goes on with the data.
Return(p) == IF p \in Syncs THEN "manifest" ELSE "idle"

\* getCachedEventData: a hit is returned, whatever it is.
GetCached(p) ==
    /\ pc[p] = "get"
    /\ IF cache[key[p]] # NoData
       THEN old' = [old EXCEPT ![p] = cache[key[p]]] /\ Goto(p, Return(p))
       ELSE Goto(p, "query") /\ UNCHANGED old
    /\ UNCHANGED <<manifest, db, mem, key, new, tries, txn, faults>>

\* The ancestor query.  In a transaction it is the first use of the group.
RunQuery(p) ==
    /\ pc[p] = "query"
    /\ \E d \in Query :
          /\ old' = [old EXCEPT ![p] = d]
          /\ Goto(p, IF d = NoData THEN Return(p) ELSE "fill")
    /\ txn' = IF p \in Syncs THEN [txn EXCEPT ![p] = "open"] ELSE txn
    /\ UNCHANGED <<manifest, db, mem, key, new, tries, faults>>

\* cacheEventData: the entry is set to what the query found.
FillCache(p) ==
    /\ pc[p] = "fill"
    /\ cache' = [cache EXCEPT ![key[p]] = old[p]]
    /\ Goto(p, Return(p))
    /\ UNCHANGED <<manifest, db, lock, key, old, new, tries, txn, faults>>

\* A request for the schedule arrives at some instance.
Read(r) ==
    /\ pc[r] = "idle"
    /\ Goto(r, "get")
    /\ key' \in {[key EXCEPT ![r] = k] : k \in Keys}
    /\ old' = [old EXCEPT ![r] = NoData]
    /\ UNCHANGED <<manifest, db, mem, new, tries, txn, faults>>

-----------------------------------------------------------------------------
(* syncEventData                                                           *)

BeginTransaction(s) ==
    /\ Goto(s, "get")
    /\ txn' = [txn EXCEPT ![s] = "none"]
    /\ new' = [new EXCEPT ![s] = NoData]
    /\ old' = [old EXCEPT ![s] = NoData]

\* Mutated form of Enter: one sync too many is let in.
EnterTwo(s) ==
    /\ pc[s] = "idle"
    /\ lock' = IF lock < MaxLock THEN lock + 1 ELSE lock
    /\ key' \in {[key EXCEPT ![s] = k] : k \in Keys}
    /\ IF lock' > 2 THEN UNCHANGED <<pc, old, new, txn, tries>>
                    ELSE BeginTransaction(s) /\ tries' = [tries EXCEPT ![s] = 1]
    /\ UNCHANGED <<manifest, db, cache, faults>>

\* A request to sync increments the counter: only who makes it 1 goes on.
Enter(s) ==
    /\ pc[s] = "idle"
    /\ lock' = IF lock < MaxLock THEN lock + 1 ELSE lock
    /\ key' \in {[key EXCEPT ![s] = k] : k \in Keys}
    /\ IF lock' > 1 THEN UNCHANGED <<pc, old, new, txn, tries>>
                    ELSE BeginTransaction(s) /\ tries' = [tries EXCEPT ![s] = 1]
    /\ UNCHANGED <<manifest, db, cache, faults>>

\* fetchEventManifest with If-Modified-Since: nothing to do on 304.
FetchManifest(s) ==
    /\ pc[s] = "manifest"
    /\ IF manifest > old[s].mod
       THEN /\ new' = [new EXCEPT ![s] = [mod |-> manifest, content |-> manifest]]
            /\ Goto(s, "chunks")
       ELSE Goto(s, "release") /\ UNCHANGED new
    /\ UNCHANGED <<manifest, db, mem, key, old, tries, txn, faults>>

\* slurpEventDataChunk: the files, which may have been replaced since.
FetchChunks(s) ==
    /\ pc[s] = "chunks"
    /\ \E c \in new[s].mod..manifest :
          new' = [new EXCEPT ![s] = [mod |-> @.mod, content |-> c]]
    /\ Goto(s, "put")
    /\ UNCHANGED <<manifest, db, mem, key, old, tries, txn, faults>>

\* Mutated form of FetchFails: the error is returned before the release.
FailKeepsLock(s) ==
    /\ pc[s] \in {"get", "query", "manifest", "chunks", "put"}
    /\ errors < MaxErrors
    /\ errors' = errors + 1
    /\ Goto(s, "idle")
    /\ txn' = [txn EXCEPT ![s] = "none"]
    /\ UNCHANGED <<manifest, db, mem, key, old, new, tries, crashes>>

\* A remote or datastore call fails: the transaction ends, nothing changes.
FetchFails(s) ==
    /\ pc[s] \in {"get", "query", "manifest", "chunks", "put"}
    /\ errors < MaxErrors
    /\ errors' = errors + 1
    /\ Goto(s, "release")
    /\ txn' = [txn EXCEPT ![s] = "none"]
    /\ UNCHANGED <<manifest, db, mem, key, old, new, tries, crashes>>

\* Mutated form of PutEventData: the new data goes to memcache right away.
PutCachesToo(s) ==
    /\ pc[s] = "put"
    /\ cache' = [cache EXCEPT ![key[s]] = new[s]]
    /\ txn' = [txn EXCEPT ![s] = IF @ = "none" THEN "open" ELSE @]
    /\ Goto(s, "commit")
    /\ UNCHANGED <<manifest, db, lock, key, old, new, tries, faults>>

\* storeEventData: the put waits for the commit, but every shard's memcache
\* entry is deleted now.  diffEventData, storeChanges and the task follow.
PutEventData(s) ==
    /\ pc[s] = "put"
    /\ cache' = [k \in Keys |-> NoData]
    /\ txn' = [txn EXCEPT ![s] = IF @ = "none" THEN "open" ELSE @]
    /\ Goto(s, "commit")
    /\ UNCHANGED <<manifest, db, lock, key, old, new, tries, faults>>

\* Mutated form of Diff: the first data of all counts as a change.
DiffFromNothing(s) ==
    IF old[s].content = new[s].content THEN {}
    ELSE {[from |-> old[s].content, to |-> new[s].content]}

\* diffEventData: nothing when there was no data, or the session is equal.
Diff(s) ==
    IF old[s] = NoData \/ old[s].content = new[s].content THEN {}
    ELSE {[from |-> old[s].content, to |-> new[s].content]}

\* Mutated form of Applied: the changes are stored apart from the data.
AppliedInPart(s) ==
    /\ stored' = stored \cup {new[s]}
    /\ log' \in {log, log \cup Diff(s)}

\* What a committed sync leaves behind, all of it or nothing.
Applied(s) ==
    /\ stored' = stored \cup {new[s]}
    /\ log' = log \cup Diff(s)

\* The commit succeeds unless the group changed; a conflict runs the whole
\* function again, at most MaxAttempts times.
Commit(s) ==
    /\ pc[s] = "commit"
    /\ \/ /\ txn[s] = "open"
          /\ Applied(s)
          /\ Goto(s, "release")
          /\ txn' = [t \in Syncs |-> IF t = s THEN "none"
                                     ELSE IF txn[t] = "open" THEN "stale" ELSE txn[t]]
          /\ UNCHANGED <<old, new, tries>>
       \/ /\ txn[s] = "stale" /\ tries[s] < MaxAttempts
          /\ BeginTransaction(s)
          /\ tries' = [tries EXCEPT ![s] = @ + 1]
          /\ UNCHANGED db
       \/ /\ txn[s] = "stale" /\ tries[s] = MaxAttempts
          /\ Goto(s, "release")
          /\ txn' = [txn EXCEPT ![s] = "none"]
          /\ UNCHANGED <<db, old, new, tries>>
    /\ UNCHANGED <<manifest, mem, key, faults>>

\* The counter goes down by 1000, which memcache caps at 0.
Release(s) ==
    /\ pc[s] = "release"
    /\ lock' = IF lock > ReleaseBy THEN lock - ReleaseBy ELSE 0
    /\ Goto(s, "idle")
    /\ txn' = [txn EXCEPT ![s] = "none"]
    /\ old' = [old EXCEPT ![s] = NoData]
    /\ new' = [new EXCEPT ![s] = NoData]
    /\ tries' = [tries EXCEPT ![s] = 0]
    /\ UNCHANGED <<manifest, db, cache, key, faults>>

-----------------------------------------------------------------------------
\* The instance ends in the middle of a sync: nothing is released.
Crash(s) ==
    /\ pc[s] # "idle"
    /\ crashes < MaxCrashes
    /\ crashes' = crashes + 1
    /\ Goto(s, "idle")
    /\ txn' = [txn EXCEPT ![s] = "none"]
    /\ old' = [old EXCEPT ![s] = NoData]
    /\ new' = [new EXCEPT ![s] = NoData]
    /\ tries' = [tries EXCEPT ![s] = 0]
    /\ UNCHANGED <<manifest, db, mem, key, errors>>

\* memcache drops an entry: its hour is over, or there is no room.
Expire(k) ==
    /\ cache[k] # NoData
    /\ cache' = [cache EXCEPT ![k] = NoData]
    /\ UNCHANGED <<manifest, db, lock, pc, key, old, new, tries, txn, faults>>

EvictLock ==
    /\ Evictions
    /\ lock > 0
    /\ lock' = 0
    /\ UNCHANGED <<manifest, db, cache, pc, key, old, new, tries, txn, faults>>

Latest(p) == GetCached(p) \/ RunQuery(p) \/ FillCache(p)

Sync(s) ==
    \/ Latest(s) \/ FetchManifest(s) \/ FetchChunks(s) \/ PutEventData(s)
    \/ Commit(s) \/ Release(s)

Next ==
    \/ Publish
    \/ \E r \in Readers : Read(r) \/ Latest(r)
    \/ \E s \in Syncs : Enter(s) \/ Sync(s) \/ FetchFails(s) \/ Crash(s)
    \/ \E k \in Keys : Expire(k)
    \/ EvictLock

Spec == Init /\ [][Next]_vars

\* cron starts a sync every 30 minutes (cron.yaml.template), and one that
\* runs takes its next step: every call it makes returns or fails.
FairSpec == Spec /\ \A s \in Syncs : WF_vars(Enter(s)) /\ WF_vars(Sync(s))

-----------------------------------------------------------------------------
(* Properties                                                              *)

\* While memcache keeps the counter, at most one sync is at work, crashes
\* included (the guard in syncEventData).
OneSync == \A s, t \in Syncs : pc[s] # "idle" /\ pc[t] # "idle" => s = t

\* memcache never holds data that was not committed: a reader, or the next
\* sync, cannot act on a transaction that was rolled back.
CacheCommitted == \A k \in Keys : cache[k] = NoData \/ cache[k] \in stored

\* No change of the schedule goes by unannounced: whatever is stored, but for
\* the oldest manifest's, was reached from something older that is stored, by
\* a Changes entity unless their content is equal.  So the recorded changes
\* lead from the first schedule to each later one, overlapping syncs, stale
\* memcache entries and retried transactions included.
EveryChangeLogged ==
    \A d \in stored :
        \/ \A e \in stored : d.mod =< e.mod
        \/ \E e \in stored :
              /\ e.mod < d.mod
              /\ \/ e.content = d.content
                 \/ [from |-> e.content, to |-> d.content] \in log

\* What was published gets stored: failed and refused syncs, conflicts and
\* stale memcache entries only delay it.  Nothing is promised once a sync has
\* been cut off: its counter has no expiration and keeps all others out.
CatchesUp == \A v \in Versions : (manifest >= v) ~> (LatestMod >= v \/ crashes > 0)

\* What the readers were answered.
Answered == [r \in Readers |-> old[r]]

\* The syncs, the datastore and memcache implement the abstract ScheduleData.
Impl == INSTANCE ScheduleData WITH answer <- Answered

\* A sync takes a version over at one instant, its commit, together with the
\* record of what changes from an older one that was committed, and no
\* request is answered with what was not: overlapping, failing, repeated and
\* interrupted syncs and what they leave in memcache do not show
\* (syncEventData, storeEventData, getLatestEventData).
ImplementsScheduleData == Impl!Spec
=============================================================================
