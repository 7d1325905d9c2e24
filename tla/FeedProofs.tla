------------------------------ MODULE FeedProofs ------------------------------
(***************************************************************************)
(* The theorems about ChangesFeed and EventSync hold of the parts that     *)
(* MCFeed composes, whatever its constants: each part takes the steps of   *)
(* its own specification and keeps that one's inductive invariant.  What   *)
(* each part needs of the constants is the assumption of its module.       *)
(***************************************************************************)
EXTENDS MCFeed, ChangesFeedProofs

P == INSTANCE ChangesFeedProofs WITH
    Start <- ShortDay, Bookmarks <- {talk}, TimeoutSoon <- 7, TimeoutSurvey <- 2, Limit <- 2,
    Clocks <- OtherClocks, Handlers <- OtherHandlers,
    MaxTime <- 11, MaxEdits <- 1, MaxDrops <- 0

D == INSTANCE EventSyncProofs WITH Readers <- {}, Evictions <- TRUE

-----------------------------------------------------------------------------
(* P and D have the definitions of Day and Data by other names             *)

LEMMA SameDay == (Day!Init => P!Init) /\ (Day!Next => P!Next)
<1>1. Day!Init => P!Init
  BY DEF Day!Init, P!Init, Day!IdleClock, P!IdleClock, Day!NoToken,
         P!NoToken, Day!IdleHandler, P!IdleHandler
<1>2. Day!Tick => P!Tick
  BY DEF Day!Tick, P!Tick, Day!backend, P!backend, Day!device,
         P!device
<1>3. \A s \in Sessions : Day!Publish(s) => P!Publish(s)
  BY DEF Day!Publish, P!Publish, Day!Truncated, P!Truncated,
         Day!device, P!device
<1>4. Day!Sync => P!Sync
  BY DEF Day!Sync, P!Sync, Day!Record, P!Record, Day!device, P!device,
         Day!Cardinality, P!Cardinality
<1>5. \A c \in OtherClocks : Day!BeginClock(c) => P!BeginClock(c)
  BY DEF Day!BeginClock, P!BeginClock, Day!UpcomingSessions,
         P!UpcomingSessions, Day!UpcomingSurveys, P!UpcomingSurveys,
         Day!device, P!device
<1>6. \A c \in OtherClocks : Day!FilterNext(c) => P!FilterNext(c)
  BY DEF Day!FilterNext, P!FilterNext, Day!device, P!device
<1>7. \A c \in OtherClocks : Day!CommitClock(c) => P!CommitClock(c)
  BY DEF Day!CommitClock, P!CommitClock, Day!Unchanged, P!Unchanged,
         Day!IdleClock, P!IdleClock, Day!Record, P!Record, Day!device,
         P!device, Day!Cardinality, P!Cardinality
<1>8. \A c \in OtherClocks : Day!FailClock(c) => P!FailClock(c)
  BY DEF Day!FailClock, P!FailClock, Day!IdleClock, P!IdleClock,
         Day!device, P!device
<1>9. Day!SignIn => P!SignIn
  BY DEF Day!SignIn, P!SignIn, Day!NoToken, P!NoToken, Day!Truncated,
         P!Truncated, Day!backend, P!backend
<1>10. \A h \in OtherHandlers : Day!LoadToken(h) => P!LoadToken(h)
  BY DEF Day!LoadToken, P!LoadToken, Day!NoToken, P!NoToken,
         Day!backend, P!backend
<1>11. \A h \in OtherHandlers : Day!FetchUpdates(h) => P!FetchUpdates(h)
  BY DEF Day!FetchUpdates, P!FetchUpdates, Day!ChangesSince,
         P!ChangesSince, Day!NextToken, P!NextToken, Day!Filtered,
         P!Filtered, Day!Merged, P!Merged, Day!backend, P!backend,
         Day!Later, P!Later, Day!Truncated, P!Truncated, Day!Updated,
         P!Updated, Day!Concerns, P!Concerns, Day!Cardinality,
         P!Cardinality
<1>12. \A h \in OtherHandlers : Day!ShowNotifications(h) => P!ShowNotifications(h)
  BY DEF Day!ShowNotifications, P!ShowNotifications, Day!IdleHandler,
         P!IdleHandler, Day!backend, P!backend, Day!NoToken,
         P!NoToken
<1>13. \A h \in OtherHandlers : Day!SaveToken(h) => P!SaveToken(h)
  BY DEF Day!SaveToken, P!SaveToken, Day!IdleHandler, P!IdleHandler,
         Day!backend, P!backend, Day!NoToken, P!NoToken
<1>14. \A h \in OtherHandlers : Day!DropEvent(h) => P!DropEvent(h)
  BY DEF Day!DropEvent, P!DropEvent, Day!IdleHandler, P!IdleHandler,
         Day!backend, P!backend, Day!NoToken, P!NoToken
<1> QED
  BY <1>1, <1>2, <1>3, <1>4, <1>5, <1>6, <1>7, <1>8, <1>9, <1>10, <1>11, <1>12, <1>13, <1>14 DEF Day!Next, P!Next, Day!Push, P!Push

LEMMA SameSyncs == (Data!Init => D!Init) /\ (Data!Next => D!Next)
<1>1. Data!Init => D!Init
  BY DEF Data!Init, D!Init, Data!NoData, D!NoData, Data!Processes,
         D!Processes
<1>2. Data!Publish => D!Publish
  BY DEF Data!Publish, D!Publish, Data!db, D!db, Data!mem, D!mem,
         Data!faults, D!faults
<1>3. \A s \in Syncs : Data!Enter(s) => D!Enter(s)
  BY DEF Data!Enter, D!Enter, Data!BeginTransaction,
         D!BeginTransaction, Data!db, D!db, Data!faults, D!faults,
         Data!Goto, D!Goto, Data!NoData, D!NoData
<1>4. \A s \in Syncs : Data!Latest(s) => D!Latest(s)
  BY DEF Data!Latest, D!Latest, Data!GetCached, D!GetCached,
         Data!RunQuery, D!RunQuery, Data!FillCache, D!FillCache,
         Data!NoData, D!NoData, Data!Goto, D!Goto, Data!Return,
         D!Return, Data!db, D!db, Data!mem, D!mem, Data!faults,
         D!faults, Data!Query, D!Query, Data!Newest, D!Newest
<1>5. \A s \in Syncs : Data!FetchManifest(s) => D!FetchManifest(s)
  BY DEF Data!FetchManifest, D!FetchManifest, Data!Goto, D!Goto,
         Data!db, D!db, Data!mem, D!mem, Data!faults, D!faults
<1>6. \A s \in Syncs : Data!FetchChunks(s) => D!FetchChunks(s)
  BY DEF Data!FetchChunks, D!FetchChunks, Data!Goto, D!Goto, Data!db,
         D!db, Data!mem, D!mem, Data!faults, D!faults
<1>7. \A s \in Syncs : Data!PutEventData(s) => D!PutEventData(s)
  BY DEF Data!PutEventData, D!PutEventData, Data!NoData, D!NoData,
         Data!Goto, D!Goto, Data!db, D!db, Data!faults, D!faults
<1>8. \A s \in Syncs : Data!Commit(s) => D!Commit(s)
  BY DEF Data!Commit, D!Commit, Data!Applied, D!Applied, Data!Goto,
         D!Goto, Data!MaxAttempts, D!MaxAttempts,
         Data!BeginTransaction, D!BeginTransaction, Data!db, D!db,
         Data!mem, D!mem, Data!faults, D!faults, Data!Diff, D!Diff,
         Data!NoData, D!NoData
<1>9. \A s \in Syncs : Data!Release(s) => D!Release(s)
  BY DEF Data!Release, D!Release, Data!Goto, D!Goto, Data!NoData,
         D!NoData, Data!db, D!db, Data!faults, D!faults
<1>10. \A s \in Syncs : Data!FetchFails(s) => D!FetchFails(s)
  BY DEF Data!FetchFails, D!FetchFails, Data!Goto, D!Goto, Data!db,
         D!db, Data!mem, D!mem
<1>11. \A s \in Syncs : Data!Crash(s) => D!Crash(s)
  BY DEF Data!Crash, D!Crash, Data!Goto, D!Goto, Data!NoData,
         D!NoData, Data!db, D!db, Data!mem, D!mem
<1>12. \A k \in Keys : Data!Expire(k) => D!Expire(k)
  BY DEF Data!Expire, D!Expire, Data!NoData, D!NoData, Data!db, D!db,
         Data!faults, D!faults
<1>13. Data!EvictLock => D!EvictLock
  BY DEF Data!EvictLock, D!EvictLock, Data!db, D!db, Data!faults,
         D!faults
<1> QED
  BY <1>1, <1>2, <1>3, <1>4, <1>5, <1>6, <1>7, <1>8, <1>9, <1>10, <1>11, <1>12, <1>13 DEF Data!Next, D!Next, Data!Sync, D!Sync

-----------------------------------------------------------------------------
(* The parts                                                               *)

LEMMA PartsAre ==
    /\ P!FeedAssumption /\ P!OneAtATime /\ StoredInOrder
    /\ D!SyncAssumption
<1>1. ShortDay \in [Sessions -> Nat]
  BY PartsAssumption DEF ShortDay, TheSessions
<1>2. talk \in Sessions
  BY PartsAssumption DEF TheSessions
<1>3. P!FeedAssumption
  BY <1>1, <1>2, PartsAssumption, FeedAssumption
<1>4. P!OneAtATime /\ StoredInOrder
  BY PartsAssumption DEF P!OneAtATime, StoredInOrder
<1>5. D!SyncAssumption
  BY PartsAssumption
<1> QED  BY <1>3, <1>4, <1>5

\* A step of the composition is one of the part that was chosen.
LEMMA PartSteps ==
    /\ FeedInit => /\ part = "day" => P!Init
                   /\ part = "events" => Init
                   /\ part = "data" => D!Init
    /\ [FeedNext]_<<vars, dataVars, part>> =>
          /\ part' = part
          /\ part = "day" => [P!Next]_(P!vars)
          /\ part = "events" => [Next]_vars
          /\ part = "data" => [D!Next]_(D!vars)
<1>1. UNCHANGED vars => UNCHANGED P!vars
  BY DEF vars, backend, device, P!vars, P!backend, P!device
<1>2. UNCHANGED dataVars => UNCHANGED D!vars
  BY DEF dataVars, D!vars, D!db, D!mem, D!faults
<1> QED  BY <1>1, <1>2, SameDay, SameSyncs DEF FeedInit, FeedNext

DayInv == part = "day" => P!IInv /\ P!TInv /\ P!OInv
EventsInv == part = "events" => TInv /\ SInv
DataInv == part = "data" => D!IInv /\ D!HInv

(***************************************************************************)
(* RemindersOnce: where clock runs overlap and one push event is handled   *)
(* at a time, each reminder is recorded once and shown once (handleClock,  *)
(* getChangesSince and the push listener).                                 *)
(***************************************************************************)
THEOREM RemindersOnceHolds == FeedSpec => []RemindersOnce
<1>1. FeedInit => DayInv
  BY PartSteps, PartsAre, P!InitIInv, P!InitTInv, P!InitOInv DEF DayInv
<1>2. DayInv /\ [FeedNext]_<<vars, dataVars, part>> => DayInv'
  BY PartSteps, PartsAre, P!NextIInv, P!NextTInv, P!NextOInv DEF DayInv
<1>3. DayInv => RemindersOnce
  <2>1. P!IInv => Day!RemindedOnce
    BY DEF P!IInv, P!RemindedOnce, Day!RemindedOnce
  <2>2. P!OInv => Day!ShownOnce
    BY DEF P!OInv, Day!ShownOnce
  <2> QED  BY <2>1, <2>2 DEF DayInv, RemindersOnce
<1> QED  BY <1>1, <1>2, <1>3, PTL DEF FeedSpec

(***************************************************************************)
(* NothingHidden: where push events overlap and are cut off and answers    *)
(* are limited, reminders, which are stored in the order of their          *)
(* timestamps, are not skipped, nor would those to come be.                *)
(***************************************************************************)
THEOREM NothingHiddenHolds == FeedSpec => []NothingHidden
<1>1. FeedInit => EventsInv
  BY PartSteps, InitTInv, InitSInv DEF EventsInv
<1>2. EventsInv /\ [FeedNext]_<<vars, dataVars, part>> => EventsInv'
  BY PartSteps, PartsAre, NextTInv, NextSInv DEF EventsInv
<1>3. EventsInv => NothingHidden
  BY DEF EventsInv, NothingHidden, TInv, SInv, SafeTokens, Safe, Covered, NothingSkipped
<1> QED  BY <1>1, <1>2, <1>3, PTL DEF FeedSpec

(***************************************************************************)
(* OverlapsLogged: while syncs overlap because memcache has lost the       *)
(* counter, whatever becomes stored is recorded and announced with it,     *)
(* from the version before (syncEventData).                                *)
(***************************************************************************)
THEOREM OverlapsLoggedHolds == FeedSpec => []OverlapsLogged
<1>1. FeedInit => DataInv
  BY PartSteps, PartsAre, D!DataInit, D!HistoryInit DEF DataInv
<1>2. DataInv /\ [FeedNext]_<<vars, dataVars, part>> => DataInv'
  BY PartSteps, PartsAre, D!DataStep, D!HistoryStep DEF DataInv
<1>3. DataInv => OverlapsLogged
  <2>1. D!HInv => Data!EveryChangeLogged
    BY DEF D!HInv, D!EveryChangeLogged, Data!EveryChangeLogged
  <2> QED  BY <2>1 DEF DataInv, OverlapsLogged
<1> QED  BY <1>1, <1>2, <1>3, PTL DEF FeedSpec
=============================================================================
