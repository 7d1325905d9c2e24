-------------------------- MODULE ChangesFeedProofs --------------------------
(***************************************************************************)
(* What ChangesFeed promises, for all sessions, timeouts, periods of cron, *)
(* limits on an answer, failures, and any number of clock runs and of push *)
(* events at a time, unless a theorem says otherwise.                      *)
(*                                                                         *)
(* Four inductive invariants:                                              *)
(*   IInv  the Next entities hold exactly the reminders in the Changes     *)
(*         entities, and a run that is about to commit has nothing to      *)
(*         record that was there when it read them;                        *)
(*   TInv  the types, and nothing is ahead of the servers' clock by more   *)
(*         than the second that is added to a token;                       *)
(*   OInv  what was shown is behind the token, what is about to be shown   *)
(*         ahead of it, while one push event is handled at a time;         *)
(*   SInv  timestamps are a minute apart, so the second added to a token   *)
(*         reaches no change but the last of the answer, and the next      *)
(*         change is stored after every token in use.                      *)
(***************************************************************************)
EXTENDS ChangesFeed, FiniteSetTheorems, WellFoundedInduction, TLAPS

-----------------------------------------------------------------------------
(* Reminders are recorded once                                             *)

Reminder(i) == i.update # "details"

\* Next and Changes are stored in one transaction, so neither is ahead.
StoredTogether ==
    /\ \A r \in changes : \A i \in r.items : Reminder(i) => i \in next
    /\ \A i \in next : \E r \in changes : i \in r.items

FilteredOut ==
    \A c \in Clocks : clock[c].pc = "commit" => clock[c].items \intersect clock[c].seen = {}

ClockType ==
    [pc : {"idle", "filter", "commit"}, at : Times, items : SUBSET Item, seen : SUBSET Item]

Types == now \in Times /\ next \subseteq Item /\ clock \in [Clocks -> ClockType]

IInv == Types /\ StoredTogether /\ FilteredOut /\ RemindedOnce

-----------------------------------------------------------------------------
LEMMA IdleIsClock == ASSUME 0 \in Times PROVE IdleClock \in ClockType /\ IdleClock.pc = "idle"
  BY DEF IdleClock, ClockType

LEMMA InitIInv == Init => IInv
<1> SUFFICES ASSUME Init PROVE IInv
  OBVIOUS
<1>1. 0 \in Times /\ Second \in Times
  BY FeedAssumption DEF Times
<1>2. Types /\ FilteredOut
  BY <1>1, IdleIsClock DEF Init, Types, FilteredOut
<1> QED
  BY <1>2 DEF Init, IInv, StoredTogether, RemindedOnce

\* A run of handleClock takes a step that stores nothing.
LEMMA ClockMoves ==
  ASSUME IInv, NEW c \in Clocks, NEW x \in ClockType,
         x.pc = "commit" => x.items \intersect x.seen = {},
         clock' = [clock EXCEPT ![c] = x],
         UNCHANGED <<now, changes, next>>
  PROVE  IInv'
<1>1. Types' /\ FilteredOut'
  BY DEF IInv, Types, FilteredOut
<1> QED  BY <1>1 DEF IInv, StoredTogether, RemindedOnce, Reminder

LEMMA UpcomingAreItems ==
  ASSUME NEW t PROVE UpcomingSessions(t) \union UpcomingSurveys(t) \subseteq Item
  BY FeedAssumption DEF UpcomingSessions, UpcomingSurveys, Item, Kinds

\* A sync records edits, which are no reminders.
LEMMA SyncKeeps == ASSUME IInv, Sync PROVE IInv'
<1> DEFINE items == {[sid |-> s, update |-> "details"] : s \in edited}
           r0 == [ts |-> mtime, id |-> Cardinality(changes), items |-> items]
<1>1. \A i \in items : ~Reminder(i)
  BY DEF Reminder
<1>2. r0.items = items /\ changes' = changes \union {r0} /\ UNCHANGED <<now, next, clock>>
  BY DEF Sync, Record
<1> HIDE DEF items, r0
<1>3. StoredTogether'
  BY <1>1, <1>2 DEF IInv, StoredTogether
<1>4. RemindedOnce'
  BY <1>1, <1>2 DEF IInv, RemindedOnce, Reminder
<1> QED  BY <1>2, <1>3, <1>4 DEF IInv, Types, FilteredOut

(***************************************************************************)
(* A run commits only if Next is what it filtered by, so that nothing it   *)
(* records was recorded before.                                            *)
(***************************************************************************)
LEMMA CommitKeeps == ASSUME IInv, NEW c \in Clocks, CommitClock(c) PROVE IInv'
<1> DEFINE items == clock[c].items
           r0 == [ts |-> clock[c].at, id |-> Cardinality(changes), items |-> items]
           x == [clock[c] EXCEPT !.pc = "filter"]
<1>1. clock[c] \in ClockType /\ 0 \in Times /\ UNCHANGED now
  BY FeedAssumption DEF IInv, Types, Times, CommitClock
<1>2. x \in ClockType /\ x.pc = "filter" /\ r0.items = items
  BY <1>1 DEF ClockType
<1>3. \/ /\ Unchanged(c) /\ clock' = [clock EXCEPT ![c] = IdleClock]
         /\ next' = next \union items
         /\ (items = {} /\ UNCHANGED changes) \/ changes' = changes \union {r0}
      \/ clock' = [clock EXCEPT ![c] = x] /\ UNCHANGED <<changes, next>>
  <2>1. [clock EXCEPT ![c].pc = "filter"] = [clock EXCEPT ![c] = x]
    BY DEF IInv, Types
  <2> QED  BY <2>1 DEF CommitClock, Record
<1> HIDE DEF r0, x
<1>4. CASE clock' = [clock EXCEPT ![c] = x] /\ UNCHANGED <<changes, next>>
  BY <1>1, <1>2, <1>4, ClockMoves
<1>5. CASE Unchanged(c) /\ clock' = [clock EXCEPT ![c] = IdleClock] /\ items = {}
           /\ next' = next \union items /\ UNCHANGED changes
  <2>1. UNCHANGED next
    BY <1>5
  <2> QED  BY <1>1, <1>5, <2>1, IdleIsClock, ClockMoves
<1>6. CASE Unchanged(c) /\ clock' = [clock EXCEPT ![c] = IdleClock]
           /\ next' = next \union items /\ changes' = changes \union {r0}
  <2>1. items \intersect next = {} /\ items \subseteq Item
    BY <1>1, <1>6 DEF CommitClock, Unchanged, IInv, FilteredOut, ClockType
  <2>2. Types' /\ FilteredOut'
    BY <1>1, <1>6, <2>1, IdleIsClock DEF IInv, Types, FilteredOut
  <2> HIDE DEF items
  <2>3. StoredTogether'
    BY <1>2, <1>6 DEF IInv, StoredTogether
  <2>4. ASSUME NEW r \in changes, NEW i \in r.items, i \in items, Reminder(i) PROVE FALSE
    BY <2>1, <2>4 DEF IInv, StoredTogether
  <2>5. RemindedOnce'
    BY <1>2, <1>6, <2>4 DEF IInv, RemindedOnce, Reminder
  <2> QED  BY <2>2, <2>3, <2>5 DEF IInv
<1> QED  BY <1>3, <1>4, <1>5, <1>6

LEMMA NextIInv == ASSUME IInv, [Next]_vars PROVE IInv'
<1>1. ASSUME UNCHANGED <<now, changes, next, clock>> PROVE IInv'
  BY <1>1 DEF IInv, Types, StoredTogether, FilteredOut, RemindedOnce, Reminder
<1>2. CASE UNCHANGED vars
  BY <1>1, <1>2 DEF vars, backend
<1>3. CASE Tick
  <2>1. now' \in Times /\ UNCHANGED <<changes, next, clock>>
    BY <1>3, FeedAssumption DEF Tick, backend, IInv, Types, Times
  <2> QED
    BY <2>1 DEF IInv, Types, StoredTogether, FilteredOut, RemindedOnce, Reminder
<1>4. CASE (\E s \in Sessions : Publish(s)) \/ SignIn
  BY <1>1, <1>4 DEF Publish, SignIn, backend
<1>5. ASSUME NEW h \in Handlers, Push(h) PROVE IInv'
  BY <1>1, <1>5 DEF Push, LoadToken, FetchUpdates, ShowNotifications, SaveToken, DropEvent, backend
<1>6. ASSUME NEW c \in Clocks, BeginClock(c) PROVE IInv'
  <2> DEFINE x == [pc |-> "filter", at |-> now, seen |-> {},
                   items |-> UpcomingSessions(now) \union UpcomingSurveys(now)]
  <2>1. x \in ClockType /\ x.pc = "filter"
    BY UpcomingAreItems DEF ClockType, IInv, Types
  <2>2. clock' = [clock EXCEPT ![c] = x] /\ UNCHANGED <<now, changes, next>>
    BY <1>6 DEF BeginClock
  <2> HIDE DEF x
  <2> QED  BY <2>1, <2>2, ClockMoves
<1>7. ASSUME NEW c \in Clocks, FilterNext(c) PROVE IInv'
  <2> DEFINE x == [clock[c] EXCEPT !.pc = "commit", !.seen = next, !.items = clock[c].items \ next]
  <2>1. clock[c] \in ClockType /\ next \subseteq Item
    BY DEF IInv, Types
  <2>2. x \in ClockType /\ x.seen = next /\ x.items = clock[c].items \ next
    BY <2>1 DEF ClockType
  <2>3. clock' = [clock EXCEPT ![c] = x] /\ UNCHANGED <<now, changes, next>>
    BY <1>7, <2>1 DEF FilterNext, IInv, Types, ClockType
  <2> HIDE DEF x
  <2> QED  BY <2>2, <2>3, ClockMoves
<1>8. ASSUME NEW c \in Clocks, FailClock(c) PROVE IInv'
  <2>1. 0 \in Times
    BY FeedAssumption DEF Times
  <2> QED  BY <1>8, <2>1, IdleIsClock, ClockMoves DEF FailClock
<1> QED
  BY <1>2, <1>3, <1>4, <1>5, <1>6, <1>7, <1>8, SyncKeeps, CommitKeeps DEF Next

-----------------------------------------------------------------------------
(***************************************************************************)
(* RemindedOnce: every reminder is recorded, and so announced, once,       *)
(* however runs of handleClock overlap, fail or are retried                *)
(* (storeNextSessions, filterNextSessions).                                *)
(***************************************************************************)
THEOREM RemindersAreOnce == Spec => []RemindedOnce
<1>1. IInv /\ [Next]_vars => IInv'
  BY NextIInv
<1>2. IInv => RemindedOnce
  BY DEF IInv
<1> QED  BY InitIInv, <1>1, <1>2, PTL DEF Spec

(***************************************************************************)
(* A reminder counts as given if and only if a change records it: a run    *)
(* that fails neither uses it up nor leaves it to be given again           *)
(* (handleClock stores both in one transaction).                           *)
(***************************************************************************)
THEOREM RemindersAreStored == Spec => []StoredTogether
<1>1. IInv /\ [Next]_vars => IInv'
  BY NextIInv
<1>2. IInv => StoredTogether
  BY DEF IInv
<1> QED  BY InitIInv, <1>1, <1>2, PTL DEF Spec

-----------------------------------------------------------------------------
(* Lemmas on the operators of serveUserUpdates                             *)

LEMMA LaterIsOrder ==
  ASSUME NEW p \in Change, NEW q \in Change, NEW r \in Change
  PROVE  /\ ~Later(r, r)
         /\ Later(p, q) /\ Later(q, r) => Later(p, r)
         /\ Later(q, r) => q.ts >= r.ts
         /\ Times \subseteq Nat
BY FeedAssumption DEF Later, Change, Times

\* Of the changes found there is a last one: of the sets of those after one
\* of them, one is smallest.
LEMMA LastExists ==
  ASSUME NEW found, found \subseteq Change, IsFiniteSet(found), found # {}
  PROVE  \E r \in found : \A q \in found : ~Later(q, r)
<1> DEFINE After(r) == {q \in found : Later(q, r)}
           Afters == {After(r) : r \in found}
<1>1. Afters \subseteq FiniteSubsetsOf(found) /\ Afters # {}
  <2>1. FiniteSubsetsOf(found) = SUBSET found
    BY FS_FiniteSubsetsOfFinite
  <2>2. \A M \in Afters : M \in SUBSET found
    OBVIOUS
  <2>3. Afters # {}
    OBVIOUS
  <2> HIDE DEF Afters
  <2> QED  BY <2>1, <2>2, <2>3
<1>2. PICK M \in Afters : \A N \in Afters : <<N, M>> \notin StrictSubsetOrdering(found)
  <2> HIDE DEF Afters
  <2> QED  BY <1>1, WFMin, FS_StrictSubsetOrderingWellFounded
<1>3. PICK r \in found : M = After(r)
  OBVIOUS
<1>4. ASSUME NEW q \in found, Later(q, r) PROVE FALSE
  <2>1. After(q) \subseteq After(r) /\ q \in After(r) /\ q \notin After(q)
    BY <1>4, LaterIsOrder
  <2>2. After(q) \in Afters /\ After(q) \in SUBSET found /\ After(r) \in SUBSET found
    OBVIOUS
  <2>3. <<After(q), After(r)>> \in StrictSubsetOrdering(found)
    BY <2>1, <2>2 DEF StrictSubsetOrdering
  <2> QED  BY <1>2, <1>3, <2>2, <2>3
<1> QED  BY <1>4

\* A time in full seconds is less than a second behind.
LEMMA TruncatedIs ==
  ASSUME NEW t \in Nat
  PROVE  Truncated(t) \in Nat /\ Truncated(t) =< t /\ t < Truncated(t) + Second
<1>1. Second \in Nat /\ Second > 0
  BY FeedAssumption
<1>2. t % Second \in 0..(Second - 1) /\ t % Second =< t
  BY <1>1
<1> QED  BY <1>1, <1>2 DEF Truncated

LEMMA FoundAreChanges ==
  ASSUME NEW t \in Nat, changes \subseteq Change, IsFiniteSet(changes)
  PROVE  /\ ChangesSince(t) \subseteq changes /\ IsFiniteSet(ChangesSince(t))
         /\ \A r \in ChangesSince(t) : r.ts > t
<1>1. ChangesSince(t) \subseteq changes
  BY DEF ChangesSince
<1> QED  BY <1>1, FS_Subset DEF ChangesSince

\* The token of an answer is past its last change, by a second at most.
LEMMA NextTokenIs ==
  ASSUME NEW t \in Nat, NEW found, found \subseteq Change, IsFiniteSet(found), found # {}
  PROVE  \E last \in found :
            /\ \A q \in found : ~Later(q, last) /\ q.ts =< last.ts
            /\ NextToken(found, t) \in Nat
            /\ last.ts < NextToken(found, t) /\ NextToken(found, t) =< last.ts + Second
<1> DEFINE last == CHOOSE r \in found : \A q \in found : ~Later(q, r)
<1>1. last \in found /\ \A q \in found : ~Later(q, last)
  BY LastExists
<1> HIDE DEF last
<1>2. \A q \in found : q.ts =< last.ts
  BY <1>1, FeedAssumption DEF Later, Change, Times
<1>3. NextToken(found, t) = Truncated(last.ts + Second)
  BY DEF NextToken, Updated, last
<1>4. last.ts + Second \in Nat /\ last.ts \in Nat /\ Second \in Nat
  BY <1>1, FeedAssumption DEF Change, Times
<1> QED  BY <1>1, <1>2, <1>3, <1>4, TruncatedIs

LEMMA NextTokenOfNone ==
  ASSUME NEW t \in Nat
  PROVE  NextToken({}, t) \in Nat /\ NextToken({}, t) > t /\ NextToken({}, t) =< t + Second
<1>1. t + Second \in Nat /\ Second \in Nat
  BY FeedAssumption
<1> QED  BY <1>1, TruncatedIs DEF NextToken, Updated

\* What mergeChanges leaves out, a later change of the session replaces.
LEMMA MergedIs ==
  ASSUME NEW found, found \subseteq Change
  PROVE  /\ Merged(found) \subseteq Notice
         /\ \A n \in Merged(found) : \E r \in found : n.ts = r.ts
         /\ \A r \in found : \A i \in r.items :
               \/ [ts |-> r.ts, id |-> r.id, item |-> i] \in Merged(found)
               \/ \E q \in found : Later(q, r) /\ \E j \in q.items : j.sid = i.sid
BY DEF Merged, Change, Notice

-----------------------------------------------------------------------------
(* Types, and how far ahead a token may be                                 *)

HandlerType ==
    [pc : {"idle", "fetch", "show", "save"}, token : 0..(MaxTime + 2 * Second),
     notices : SUBSET Notice]

\* A handler has a token that it may save.
Carries(h) == \/ handler[h].pc \in {"fetch", "save"}
              \/ handler[h].pc = "show" /\ handler[h].notices # {}

InTime ==
    /\ Second =< now /\ mtime =< now
    /\ \A c \in Clocks : clock[c].at =< now
    /\ \A r \in changes : r.ts =< now
    /\ \A h \in Handlers : Carries(h) =>
           handler[h].token =< now + Second /\ handler[h].token # NoToken

TInv == TypeOK /\ IsFiniteSet(changes) /\ InTime /\ TokenNotAhead

LEMMA TInvTypes ==
  ASSUME TInv
  PROVE  /\ changes \subseteq Change /\ clock \in [Clocks -> ClockType]
         /\ handler \in [Handlers -> HandlerType] /\ now \in Times
         /\ Times \subseteq Nat /\ 0 \in Times /\ Second \in Nat \ {0} /\ token \in Nat
BY FeedAssumption DEF TInv, TypeOK, ClockType, HandlerType, Times

LEMMA IdleIsHandler == IdleHandler \in HandlerType /\ IdleHandler.pc = "idle"
BY FeedAssumption DEF IdleHandler, HandlerType, NoToken

\* What the steps of a push event come to, where its handler goes on as x.
Rests(h, x) ==
    /\ x.pc = "idle" /\ UNCHANGED <<token, shown, again>>
    /\ drops < MaxDrops \/ (handler[h].pc = "show" /\ handler[h].notices = {})
Loads(h, x) ==
    /\ handler[h].pc = "idle" /\ token # NoToken
    /\ x.pc = "fetch" /\ x.token = token /\ UNCHANGED <<token, shown, again>>
Fetches(h, x) ==
    /\ handler[h].pc = "fetch" /\ x.pc = "show" /\ UNCHANGED <<token, shown, again>>
    /\ x.token = NextToken(ChangesSince(handler[h].token), handler[h].token)
    /\ x.notices = Filtered(Merged(ChangesSince(handler[h].token)))
Shows(h, x) ==
    /\ handler[h].pc = "show" /\ handler[h].notices # {} /\ UNCHANGED token
    /\ x.pc = "save" /\ x.token = handler[h].token
    /\ shown' = shown \union handler[h].notices
    /\ again' = again \union (handler[h].notices \intersect shown)
Saves(h, x) ==
    /\ handler[h].pc = "save" /\ x.pc = "idle"
    /\ token' = handler[h].token /\ UNCHANGED <<shown, again>>

LEMMA PushSteps ==
  ASSUME TInv, NEW h \in Handlers, Push(h)
  PROVE  /\ UNCHANGED <<now, backend, first>>
         /\ drops' \in 0..MaxDrops
         /\ \E x \in HandlerType :
               /\ handler' = [handler EXCEPT ![h] = x]
               /\ Rests(h, x) \/ Loads(h, x) \/ Fetches(h, x) \/ Shows(h, x) \/ Saves(h, x)
<1>1. handler[h] \in HandlerType /\ drops \in 0..MaxDrops /\ MaxDrops \in Nat
  BY TInvTypes, FeedAssumption DEF TInv, TypeOK
<1>2. CASE LoadToken(h)
  <2> DEFINE x == [pc |-> "fetch", token |-> token, notices |-> {}]
  <2>1. x \in HandlerType
    BY FeedAssumption DEF HandlerType, TInv, TypeOK
  <2>2. handler' = [handler EXCEPT ![h] = x] /\ handler[h].pc = "idle" /\ token # NoToken
        /\ UNCHANGED <<now, backend, first, drops, token, shown, again>>
    BY <1>2 DEF LoadToken
  <2>3. x.pc = "fetch" /\ x.token = token
    OBVIOUS
  <2> HIDE DEF x
  <2> QED  BY <1>1, <2>1, <2>2, <2>3 DEF Loads
<1>3. CASE FetchUpdates(h)
  <2> DEFINE t == handler[h].token
             found == ChangesSince(t)
             x == [pc |-> "show", token |-> NextToken(found, t), notices |-> Filtered(Merged(found))]
  <2>1. handler[h].pc = "fetch" /\ t \in Nat /\ t =< now + Second
    BY <1>1, <1>3, FeedAssumption DEF FetchUpdates, TInv, InTime, Carries, HandlerType
  <2>2. found \subseteq Change /\ IsFiniteSet(found) /\ \A r \in found : r.ts =< now
    BY <2>1, FoundAreChanges, TInvTypes DEF TInv, InTime
  <2> HIDE DEF found
  <2>3. NextToken(found, t) \in 0..(MaxTime + 2 * Second)
    <3>1. now \in Nat /\ now =< MaxTime /\ Second \in Nat /\ MaxTime \in Nat
      BY FeedAssumption, TInvTypes DEF Times
    <3>2. CASE found = {}
      BY <2>1, <3>1, <3>2, NextTokenOfNone
    <3>3. CASE found # {}
      <4>1. PICK last \in found : NextToken(found, t) \in Nat /\ NextToken(found, t) =< last.ts + Second
        BY <2>1, <2>2, <3>3, NextTokenIs
      <4>2. last.ts \in Nat /\ last.ts =< now
        BY <2>2, <4>1, TInvTypes DEF Change
      <4> QED  BY <3>1, <4>1, <4>2
    <3> QED  BY <3>2, <3>3
  <2>4. Filtered(Merged(found)) \subseteq Notice
    BY <2>2, MergedIs DEF Filtered
  <2>5. x \in HandlerType
    BY <2>3, <2>4 DEF HandlerType
  <2>6. handler' = [handler EXCEPT ![h] = x] /\ UNCHANGED <<now, backend, token, first, shown, again, drops>>
    BY <1>3, TInvTypes DEF FetchUpdates, found
  <2>7. x.pc = "show" /\ x.token = NextToken(found, t) /\ x.notices = Filtered(Merged(found))
    OBVIOUS
  <2> HIDE DEF x
  <2> QED  BY <1>1, <2>1, <2>5, <2>6, <2>7 DEF found, Fetches
<1>4. CASE ShowNotifications(h) /\ handler[h].notices = {}
  <2>1. handler' = [handler EXCEPT ![h] = IdleHandler] /\ handler[h].pc = "show"
    BY <1>4, TInvTypes DEF ShowNotifications
  <2>2. shown' = shown /\ again' = again /\ UNCHANGED <<now, backend, token, first, drops>>
    BY <1>4 DEF ShowNotifications
  <2> QED  BY <1>1, <1>4, <2>1, <2>2, IdleIsHandler DEF Rests
<1>5. CASE ShowNotifications(h) /\ handler[h].notices # {}
  <2> DEFINE x == [handler[h] EXCEPT !.pc = "save"]
  <2>1. x \in HandlerType /\ x.pc = "save" /\ x.token = handler[h].token
    BY <1>1 DEF HandlerType
  <2>2. handler' = [handler EXCEPT ![h] = x] /\ handler[h].pc = "show"
    BY <1>5, TInvTypes DEF ShowNotifications
  <2>3. /\ shown' = shown \union handler[h].notices
        /\ again' = again \union (handler[h].notices \intersect shown)
        /\ UNCHANGED <<now, backend, token, first, drops>>
    BY <1>5 DEF ShowNotifications
  <2> HIDE DEF x
  <2> QED  BY <1>1, <1>5, <2>1, <2>2, <2>3 DEF Shows
<1>6. CASE SaveToken(h)
  BY <1>1, <1>6, IdleIsHandler DEF SaveToken, Saves
<1>7. CASE DropEvent(h)
  <2>1. handler' = [handler EXCEPT ![h] = IdleHandler] /\ drops < MaxDrops
        /\ UNCHANGED <<now, backend, token, first, shown, again>>
    BY <1>7 DEF DropEvent
  <2>2. drops' \in 0..MaxDrops
    BY <1>1, <1>7 DEF DropEvent
  <2> QED  BY <2>1, <2>2, IdleIsHandler DEF Rests
<1> QED  BY <1>2, <1>3, <1>4, <1>5, <1>6, <1>7 DEF Push

-----------------------------------------------------------------------------
LEMMA InitTInv == Init => TInv
<1> SUFFICES ASSUME Init PROVE TInv
  OBVIOUS
<1>1. 0 \in Times /\ Second \in Times /\ Times \subseteq Nat /\ Second \in Nat
      /\ MaxEdits \in Nat /\ MaxDrops \in Nat /\ MaxTime \in Nat
  BY FeedAssumption DEF Times
<1>2. TypeOK
  <2>1. clock \in [Clocks -> ClockType]
    BY <1>1, IdleIsClock DEF Init
  <2>2. handler \in [Handlers -> HandlerType]
    BY IdleIsHandler DEF Init
  <2> QED  BY <1>1, <2>1, <2>2 DEF Init, TypeOK, NoToken, ClockType, HandlerType
<1>3. IsFiniteSet(changes)
  BY FS_EmptySet DEF Init
<1>4. InTime /\ TokenNotAhead
  BY <1>1 DEF Init, InTime, TokenNotAhead, IdleClock, IdleHandler, Carries, NoToken
<1> QED  BY <1>2, <1>3, <1>4 DEF TInv

\* A change is stored for a time that has come.
LEMMA RecordTyped ==
  ASSUME TInv, NEW ts \in Times, ts =< now, NEW items \in SUBSET Item, Record(ts, items)
  PROVE  /\ changes' \subseteq Change /\ IsFiniteSet(changes')
         /\ \A r \in changes' : r \in changes \/ (r.ts = ts /\ r.items = items)
<1> DEFINE r0 == [ts |-> ts, id |-> Cardinality(changes), items |-> items]
<1>1. Cardinality(changes) \in Nat
  BY FS_CardinalityType DEF TInv
<1>2. r0 \in Change /\ r0.ts = ts /\ r0.items = items
  BY <1>1 DEF Change
<1>3. changes' = changes \union {r0}
  BY DEF Record
<1> HIDE DEF r0
<1> QED  BY <1>2, <1>3, FS_AddElement DEF TInv, TypeOK

\* Steps of the servers, and what they leave of the types.
LEMMA BackendTInv ==
  ASSUME TInv,
         mtime' \in Times, mtime' =< now, synced' \in Times, lastRun' \in Times,
         edited' \subseteq Sessions, edits' \in 0..MaxEdits, next' \subseteq Item,
         drops' \in 0..MaxDrops,
         clock' \in [Clocks -> ClockType], \A c \in Clocks : clock'[c].at =< now,
         changes' \subseteq Change, IsFiniteSet(changes'), \A r \in changes' : r.ts =< now,
         UNCHANGED <<now, device>>
  PROVE  TInv'
<1>1. TypeOK'
  BY DEF TInv, TypeOK, device, ClockType
<1>2. InTime' /\ TokenNotAhead'
  BY DEF TInv, InTime, TokenNotAhead, device, Carries
<1> QED  BY <1>1, <1>2 DEF TInv

\* A run of handleClock takes a step that stores nothing.
LEMMA ClockTInv ==
  ASSUME TInv, NEW c \in Clocks, NEW x \in ClockType, x.at =< now,
         clock' = [clock EXCEPT ![c] = x], lastRun' \in {lastRun, now}, drops' \in 0..MaxDrops,
         UNCHANGED <<now, mtime, edited, synced, edits, changes, next, device>>
  PROVE  TInv'
<1>1. /\ clock' \in [Clocks -> ClockType] /\ lastRun' \in Times
      /\ \A b \in Clocks : clock'[b].at =< now
  BY TInvTypes DEF TInv, TypeOK, InTime
<1> QED  BY <1>1, BackendTInv DEF TInv, TypeOK, InTime

LEMMA CommitTInv == ASSUME TInv, NEW c \in Clocks, CommitClock(c) PROVE TInv'
<1>1. clock[c] \in ClockType /\ clock[c].at =< now /\ drops \in 0..MaxDrops
      /\ clock[c].at \in Times /\ clock[c].items \subseteq Item /\ next \subseteq Item
  BY TInvTypes DEF TInv, TypeOK, InTime, ClockType
<1>2. IdleClock \in ClockType /\ IdleClock.at =< now
  BY TInvTypes, IdleIsClock DEF IdleClock, Times
<1>3. UNCHANGED <<now, mtime, edited, synced, edits, lastRun, device, drops>>
  BY DEF CommitClock
<1>4. CASE Unchanged(c) /\ clock' = [clock EXCEPT ![c] = IdleClock]
           /\ next' = next \union clock[c].items
           /\ IF clock[c].items = {} THEN UNCHANGED changes ELSE Record(clock[c].at, clock[c].items)
  <2>1. /\ clock' \in [Clocks -> ClockType] /\ next' \subseteq Item
        /\ \A b \in Clocks : clock'[b].at =< now
    BY <1>1, <1>2, <1>4, TInvTypes DEF TInv, TypeOK, InTime
  <2>2. changes' \subseteq Change /\ IsFiniteSet(changes') /\ \A r \in changes' : r.ts =< now
    <3>1. CASE UNCHANGED changes
      BY <3>1 DEF TInv, TypeOK, InTime
    <3>2. CASE Record(clock[c].at, clock[c].items)
      BY <1>1, <3>2, RecordTyped DEF TInv, InTime
    <3> QED  BY <1>4, <3>1, <3>2
  <2> QED  BY <1>1, <1>3, <2>1, <2>2, BackendTInv DEF TInv, TypeOK, InTime
<1>5. CASE clock' = [clock EXCEPT ![c].pc = "filter"] /\ UNCHANGED <<changes, next>>
  <2> DEFINE x == [clock[c] EXCEPT !.pc = "filter"]
  <2>1. x \in ClockType /\ x.at =< now
    BY <1>1 DEF ClockType
  <2>2. clock' = [clock EXCEPT ![c] = x]
    BY <1>5, TInvTypes
  <2> HIDE DEF x
  <2> QED  BY <1>1, <1>3, <1>5, <2>1, <2>2, ClockTInv
<1> QED  BY <1>4, <1>5 DEF CommitClock

LEMMA SyncTInv == ASSUME TInv, Sync PROVE TInv'
<1> DEFINE items == {[sid |-> s, update |-> "details"] : s \in edited}
<1>1. items \in SUBSET Item /\ mtime \in Times /\ mtime =< now /\ mtime' = mtime
  BY DEF TInv, TypeOK, InTime, Item, Kinds, Sync
<1>2. Record(mtime, items)
  BY DEF Sync
<1> HIDE DEF items
<1>3. changes' \subseteq Change /\ IsFiniteSet(changes') /\ \A r \in changes' : r.ts =< now
  BY <1>1, <1>2, RecordTyped DEF TInv, InTime
<1> QED  BY <1>1, <1>3, BackendTInv, TInvTypes DEF TInv, TypeOK, InTime, Sync

LEMMA PushTInv == ASSUME TInv, NEW h \in Handlers, Push(h) PROVE TInv'
<1>1. UNCHANGED <<now, backend, first>> /\ drops' \in 0..MaxDrops
  BY PushSteps
<1>2. PICK x \in HandlerType :
         /\ handler' = [handler EXCEPT ![h] = x]
         /\ Rests(h, x) \/ Loads(h, x) \/ Fetches(h, x) \/ Shows(h, x) \/ Saves(h, x)
  BY PushSteps
<1>3. handler[h] \in HandlerType
  BY TInvTypes
<1>4. /\ token' \in Nat /\ token' =< now + Second
      /\ x.pc \in {"fetch", "save"} \/ (x.pc = "show" /\ x.notices # {}) =>
            x.token =< now + Second /\ x.token # NoToken
  <2>1. CASE Rests(h, x) \/ Loads(h, x)
    BY <2>1, TInvTypes DEF Rests, Loads, TInv, TokenNotAhead
  <2>2. CASE Shows(h, x) \/ Saves(h, x)
    BY <1>3, <2>2, TInvTypes DEF Shows, Saves, TInv, TokenNotAhead, InTime, Carries, HandlerType
  <2>3. CASE Fetches(h, x)
    <3> DEFINE t == handler[h].token
               found == ChangesSince(t)
    <3>1. t \in Nat
      BY <1>3, FeedAssumption DEF HandlerType
    <3>2. found \subseteq Change /\ IsFiniteSet(found) /\ \A r \in found : r.ts =< now
      BY <3>1, FoundAreChanges, TInvTypes DEF TInv, InTime
    <3>3. x.token = NextToken(found, t) /\ x.notices = Filtered(Merged(found)) /\ x.pc = "show"
      BY <2>3 DEF Fetches
    <3> HIDE DEF found, t
    <3>4. ASSUME x.notices # {} PROVE x.token =< now + Second /\ x.token # NoToken
      <4>1. found # {}
        BY <3>3, <3>4 DEF Filtered, Merged
      <4>2. PICK last \in found :
               /\ NextToken(found, t) \in Nat
               /\ last.ts < NextToken(found, t) /\ NextToken(found, t) =< last.ts + Second
        BY <3>1, <3>2, <4>1, NextTokenIs
      <4>3. last.ts \in Nat /\ last.ts =< now
        BY <3>2, TInvTypes DEF Change
      <4> QED  BY <3>3, <4>2, <4>3, TInvTypes DEF NoToken
    <3> QED  BY <2>3, <3>3, <3>4, TInvTypes DEF Fetches, TInv, TokenNotAhead
  <2> QED  BY <1>2, <2>1, <2>2, <2>3
<1>5. shown' \subseteq Notice /\ again' \subseteq shown'
  BY <1>2, <1>3 DEF Rests, Loads, Fetches, Shows, Saves, TInv, TypeOK, HandlerType
<1>6. handler' \in [Handlers -> HandlerType]
  BY <1>2, TInvTypes
<1>7. TypeOK'
  <2>1. token' \in 0..(MaxTime + Second)
    BY <1>4, TInvTypes, FeedAssumption DEF Times
  <2> QED  BY <1>1, <1>5, <1>6, <2>1 DEF TInv, TypeOK, HandlerType, backend
<1>8. InTime'
  <2>1. \A g \in Handlers : handler'[g] = IF g = h THEN x ELSE handler[g]
    BY <1>2, TInvTypes
  <2> QED  BY <1>1, <1>4, <2>1 DEF TInv, InTime, Carries, backend
<1> QED  BY <1>1, <1>4, <1>7, <1>8 DEF TInv, TokenNotAhead, backend

LEMMA NextTInv == ASSUME TInv, [Next]_vars PROVE TInv'
<1>1. CASE UNCHANGED vars
  BY <1>1 DEF vars, backend, device, TInv, TypeOK, InTime, TokenNotAhead, Carries
<1>2. CASE Tick
  <2>1. now' \in Times /\ now' = now + 1 /\ UNCHANGED <<backend, device, drops>>
    BY <1>2, TInvTypes, FeedAssumption DEF Tick, Times
  <2>2. TypeOK'
    BY <2>1 DEF TInv, TypeOK, backend, device
  <2>3. InTime' /\ TokenNotAhead'
    <3>1. \A r \in changes : r.ts \in Nat
      BY TInvTypes DEF Change
    <3>2. \A c \in Clocks : clock[c].at \in Nat
      BY TInvTypes DEF ClockType
    <3>3. \A h \in Handlers : handler[h].token \in Nat
      BY TInvTypes, FeedAssumption DEF HandlerType
    <3>4. now \in Nat /\ Second \in Nat /\ mtime \in Nat /\ token \in Nat
      BY TInvTypes DEF TInv, TypeOK
    <3> QED  BY <2>1, <3>1, <3>2, <3>3, <3>4 DEF TInv, InTime, TokenNotAhead, backend, device, Carries
  <2> QED  BY <2>1, <2>2, <2>3 DEF TInv, backend
<1>3. ASSUME NEW s \in Sessions, Publish(s) PROVE TInv'
  <2>1. mtime' \in Times /\ mtime' =< now
    BY <1>3, TruncatedIs, TInvTypes, FeedAssumption DEF Publish, Times
  <2>2. edits' \in 0..MaxEdits
    BY <1>3, FeedAssumption DEF Publish, TInv, TypeOK
  <2> QED  BY <1>3, <2>1, <2>2, BackendTInv, TInvTypes DEF Publish, TInv, TypeOK, InTime
<1>4. ASSUME NEW c \in Clocks, BeginClock(c) PROVE TInv'
  <2> DEFINE x == [pc |-> "filter", at |-> now, seen |-> {},
                   items |-> UpcomingSessions(now) \union UpcomingSurveys(now)]
  <2>1. x \in ClockType /\ x.at =< now
    BY UpcomingAreItems, TInvTypes DEF ClockType
  <2>2. clock' = [clock EXCEPT ![c] = x] /\ lastRun' = now
        /\ UNCHANGED <<now, mtime, edited, synced, edits, changes, next, device, drops>>
    BY <1>4 DEF BeginClock
  <2> HIDE DEF x
  <2> QED  BY <2>1, <2>2, ClockTInv DEF TInv, TypeOK
<1>5. ASSUME NEW c \in Clocks, FilterNext(c) PROVE TInv'
  <2> DEFINE x == [clock[c] EXCEPT !.pc = "commit", !.seen = next, !.items = clock[c].items \ next]
  <2>1. clock[c] \in ClockType /\ next \subseteq Item /\ clock[c].at =< now
    BY TInvTypes DEF TInv, TypeOK, InTime
  <2>2. x \in ClockType /\ x.at =< now
    BY <2>1 DEF ClockType
  <2>3. clock' = [clock EXCEPT ![c] = x]
        /\ UNCHANGED <<now, mtime, edited, synced, edits, changes, next, lastRun, device, drops>>
    BY <1>5, <2>1, TInvTypes DEF FilterNext, ClockType
  <2> HIDE DEF x
  <2> QED  BY <2>2, <2>3, ClockTInv DEF TInv, TypeOK
<1>6. ASSUME NEW c \in Clocks, FailClock(c) PROVE TInv'
  <2>1. IdleClock \in ClockType /\ IdleClock.at =< now
    BY TInvTypes, IdleIsClock DEF IdleClock, Times
  <2>2. clock' = [clock EXCEPT ![c] = IdleClock] /\ drops < MaxDrops /\ drops' = drops + 1
        /\ UNCHANGED <<now, mtime, edited, synced, edits, changes, next, lastRun, device>>
    BY <1>6 DEF FailClock
  <2>3. drops' \in 0..MaxDrops
    BY <2>2, FeedAssumption DEF TInv, TypeOK
  <2> QED  BY <2>1, <2>2, <2>3, ClockTInv
<1>7. CASE SignIn
  <2>1. Truncated(now) \in Times /\ Truncated(now) =< now
    BY TruncatedIs, TInvTypes, FeedAssumption DEF Times
  <2>2. TypeOK'
    <3>1. Truncated(now) \in 0..(MaxTime + Second)
      BY <2>1, FeedAssumption DEF Times
    <3> QED  BY <1>7, <2>1, <3>1 DEF SignIn, TInv, TypeOK, backend
  <2>3. TokenNotAhead'
    BY <1>7, <2>1, TInvTypes DEF SignIn, TokenNotAhead, Times
  <2> QED  BY <1>7, <2>2, <2>3 DEF SignIn, TInv, InTime, backend, Carries
<1> QED
  BY <1>1, <1>2, <1>3, <1>4, <1>5, <1>6, <1>7, SyncTInv, CommitTInv, PushTInv DEF Next

-----------------------------------------------------------------------------
(* A change is shown once                                                  *)

OneAtATime == MaxDrops = 0 /\ \A g, h \in Handlers : g = h

\* What was shown is behind the token of the device, or of the handler that
\* is about to save its own; what a handler is about to show is ahead.
OInv ==
    /\ again = {}
    /\ token = NoToken => shown = {} /\ \A h \in Handlers : handler[h].pc = "idle"
    /\ \A n \in shown : \/ n.ts =< token
                        \/ \E h \in Handlers : handler[h].pc = "save" /\ n.ts =< handler[h].token
    /\ \A h \in Handlers :
          /\ handler[h].pc = "fetch" => handler[h].token = token
          /\ handler[h].pc = "show" =>
                \A n \in handler[h].notices : token < n.ts /\ n.ts =< handler[h].token
          /\ handler[h].pc = "save" => token =< handler[h].token

LEMMA InitOInv == Init => OInv
BY DEF Init, OInv, IdleHandler

\* The notices of an answer are of changes after the token asked with, and
\* before the token it comes with.
LEMMA FetchedAhead ==
  ASSUME TInv, NEW h \in Handlers, NEW x \in HandlerType, Fetches(h, x), NEW n \in x.notices
  PROVE  handler[h].token < n.ts /\ n.ts < x.token
<1> DEFINE t == handler[h].token
           found == ChangesSince(t)
<1>1. t \in Nat /\ x.notices \subseteq Merged(found) /\ x.token = NextToken(found, t)
  BY TInvTypes, FeedAssumption DEF Fetches, Filtered, HandlerType
<1>2. found \subseteq Change /\ IsFiniteSet(found) /\ \A r \in found : r.ts > t
  BY <1>1, FoundAreChanges, TInvTypes DEF TInv
<1> HIDE DEF found
<1>3. PICK r \in found : n.ts = r.ts
  BY <1>1, <1>2, MergedIs
<1>4. PICK last \in found : NextToken(found, t) \in Nat /\ last.ts < NextToken(found, t)
                            /\ \A q \in found : q.ts =< last.ts
  BY <1>1, <1>2, <1>3, NextTokenIs
<1>5. r.ts \in Nat /\ last.ts \in Nat
  BY <1>2, TInvTypes DEF Change
<1> QED  BY <1>1, <1>2, <1>3, <1>4, <1>5

LEMMA PushOInv == ASSUME OneAtATime, TInv, OInv, NEW h \in Handlers, Push(h) PROVE OInv'
<1>1. PICK x \in HandlerType :
         /\ handler' = [handler EXCEPT ![h] = x]
         /\ Rests(h, x) \/ Loads(h, x) \/ Fetches(h, x) \/ Shows(h, x) \/ Saves(h, x)
  BY PushSteps
<1>2. handler[h] \in HandlerType /\ handler'[h] = x /\ \A g \in Handlers : g = h
  BY <1>1, TInvTypes DEF OneAtATime
<1>3. token \in Nat /\ handler[h].token \in Nat /\ x.token \in Nat /\ shown \subseteq Notice
      /\ \A n \in Notice : n.ts \in Nat
  BY <1>2, TInvTypes, FeedAssumption DEF HandlerType, Notice, TInv, TypeOK
<1>4. CASE Rests(h, x)
  <2>1. handler[h].pc = "show" /\ handler[h].notices = {}
    BY <1>4, FeedAssumption DEF Rests, OneAtATime, TInv, TypeOK
  <2> QED  BY <1>2, <1>4, <2>1 DEF Rests, OInv
<1>5. CASE Loads(h, x)
  BY <1>2, <1>5 DEF Loads, OInv
<1>6. CASE Fetches(h, x)
  <2>1. handler[h].pc = "fetch" /\ handler[h].token = token
    BY <1>6 DEF Fetches, OInv
  <2>2. \A n \in x.notices : token < n.ts /\ n.ts =< x.token
    <3> SUFFICES ASSUME NEW n \in x.notices PROVE token < n.ts /\ n.ts =< x.token
      OBVIOUS
    <3>1. n.ts \in Nat
      BY <1>3 DEF HandlerType
    <3> QED  BY <1>3, <1>6, <2>1, <3>1, FetchedAhead
  <2> QED  BY <1>2, <1>6, <2>1, <2>2 DEF Fetches, OInv
<1>7. CASE Shows(h, x)
  <2>1. handler[h].pc = "show" /\ handler'[h].pc = "save" /\ token' = token /\ token # NoToken
    BY <1>2, <1>7 DEF Shows, OInv
  <2>2. \A n \in handler[h].notices : n.ts \in Nat /\ token < n.ts /\ n.ts =< x.token
    BY <1>2, <1>3, <1>7, <2>1 DEF Shows, OInv, HandlerType
  <2>3. \A n \in shown : n.ts =< token
    BY <1>2, <2>1 DEF OInv
  <2>4. handler[h].notices \intersect shown = {}
    BY <1>3, <2>2, <2>3
  <2>5. token =< x.token
    BY <1>3, <1>7, <2>2 DEF Shows
  <2>6. \A n \in shown' : n.ts =< token' \/ n.ts =< x.token
    BY <1>7, <2>1, <2>2, <2>3 DEF Shows
  <2> QED  BY <1>2, <1>7, <2>1, <2>4, <2>5, <2>6 DEF Shows, OInv
<1>8. CASE Saves(h, x)
  <2>1. token' = handler[h].token /\ token =< token' /\ token' # NoToken /\ handler'[h].pc = "idle"
    BY <1>2, <1>8 DEF Saves, OInv, TInv, InTime, Carries
  <2>2. \A n \in shown : n.ts =< token'
    BY <1>2, <1>3, <1>8, <2>1 DEF Saves, OInv
  <2> QED  BY <1>2, <1>8, <2>1, <2>2 DEF Saves, OInv
<1> QED  BY <1>1, <1>4, <1>5, <1>6, <1>7, <1>8

LEMMA NextOInv == ASSUME OneAtATime, TInv, OInv, [Next]_vars PROVE OInv'
<1>1. ASSUME UNCHANGED device PROVE OInv'
  BY <1>1 DEF device, OInv
<1>2. CASE SignIn
  <2>1. Truncated(now) \in Nat /\ Truncated(now) # NoToken
    <3>1. now \in Nat /\ Second \in Nat /\ Second =< now /\ Second > 0
      BY TInvTypes DEF TInv, InTime
    <3> QED  BY <3>1, TruncatedIs DEF NoToken
  <2> QED  BY <1>2, <2>1 DEF SignIn, OInv
<1>3. CASE Tick \/ (\E s \in Sessions : Publish(s)) \/ Sync
           \/ \E c \in Clocks : BeginClock(c) \/ FilterNext(c) \/ CommitClock(c) \/ FailClock(c)
  BY <1>1, <1>3 DEF Tick, Publish, Sync, BeginClock, FilterNext, CommitClock, FailClock
<1> QED  BY <1>1, <1>2, <1>3, PushOInv DEF Next, vars

(***************************************************************************)
(* ShownOnce: a user is told of a change once, when one push event is      *)
(* handled at a time and none is cut off (the listener of the push event   *)
(* saves the token of the answer it has shown, and serveUserUpdates has    *)
(* added a second to the last change's).                                   *)
(***************************************************************************)
THEOREM ChangesAreShownOnce == OneAtATime => (Spec => []ShownOnce)
<1> SUFFICES ASSUME OneAtATime PROVE Spec => []ShownOnce
  OBVIOUS
<1>1. Init => TInv /\ OInv
  BY InitTInv, InitOInv
<1>2. TInv /\ OInv /\ [Next]_vars => (TInv /\ OInv)'
  BY NextTInv, NextOInv
<1>3. OInv => ShownOnce
  BY DEF OInv, ShownOnce
<1> QED  BY <1>1, <1>2, <1>3, PTL DEF Spec

-----------------------------------------------------------------------------
(* No change is skipped                                                    *)

StoredInOrder == MaxEdits = 0 /\ \A b, c \in Clocks : b = c

\* Of what is stored, what is after from and up to T is in S, or a later
\* change of the session up to T took its place; and T is not far from it.
Covered(T, S, stored, from) ==
    \A r \in stored : \A i \in r.items :
        r.ts > from /\ r.ts =< T /\ Concerns(i) =>
            \/ [ts |-> r.ts, id |-> r.id, item |-> i] \in S
            \/ \E q \in stored : /\ Later(q, r) /\ q.ts =< T
                                 /\ \E j \in q.items : j.sid = i.sid
Within(T, stored, from) == T =< from \/ \E r \in stored : T =< r.ts + Second
Safe(T, S, stored, from) == Covered(T, S, stored, from) /\ Within(T, stored, from)

\* What has been shown to the user by the time handler h saves its token.
ShownBy(h) == IF handler[h].pc = "show" THEN shown \union handler[h].notices ELSE shown

Spaced == \A q, r \in changes : q = r \/ q.ts + Minute =< r.ts \/ r.ts + Minute =< q.ts

\* A run of handleClock is later than what is stored, by a minute.
RunsAfter ==
    /\ lastRun =< now
    /\ \A r \in changes : r.ts =< lastRun
    /\ \A c \in Clocks : clock[c].pc # "idle" =>
          clock[c].at = lastRun /\ \A r \in changes : r.ts + Minute =< lastRun

NoEdits == mtime = 0 /\ synced = 0

SafeTokens ==
    /\ token = NoToken => first = 0
    /\ Safe(token, shown, changes, first)
    /\ \A h \in Handlers : Carries(h) => Safe(handler[h].token, ShownBy(h), changes, first)

SInv == NoEdits /\ Spaced /\ RunsAfter /\ SafeTokens

-----------------------------------------------------------------------------
LEMMA InitSInv == Init => SInv
<1> SUFFICES ASSUME Init PROVE SInv
  OBVIOUS
<1>1. Second \in Nat
  BY FeedAssumption
<1>2. \A T, U : T = 0 => Safe(T, U, changes, first)
  BY DEF Init, Safe, Covered, Within
<1>3. SafeTokens
  BY <1>2 DEF Init, SafeTokens, Carries, IdleHandler, NoToken
<1> QED  BY <1>1, <1>3 DEF Init, SInv, NoEdits, Spaced, RunsAfter, IdleClock

\* A token stays safe while more is stored, if it is later by a minute, more
\* is shown, or the user begins with a later one.
LEMMA SafeStays ==
  ASSUME NEW A \in SUBSET Change, NEW B \in SUBSET Change, NEW T \in Nat, NEW U, NEW V,
         NEW f \in Nat, NEW g \in Nat, f =< g, U \subseteq V, A \subseteq B, Safe(T, U, A, f),
         \A r \in B : r \in A \/ \A q \in A : q.ts + Minute =< r.ts
  PROVE  Safe(T, V, B, g)
<1>1. \A r \in B : r.ts \in Nat
  BY FeedAssumption DEF Change, Times
<1>2. Second \in Nat /\ Minute \in Nat /\ Second < Minute
  BY FeedAssumption
<1>3. Within(T, B, g)
  BY <1>1 DEF Safe, Within
<1>4. ASSUME NEW r \in B, r \notin A, r.ts > g, r.ts =< T PROVE FALSE
  <2>1. T > f
    BY <1>1, <1>4
  <2>2. PICK q \in A : T =< q.ts + Second
    BY <2>1 DEF Safe, Within
  <2>3. q.ts + Minute =< r.ts /\ q.ts \in Nat
    BY <1>1, <1>4
  <2> QED  BY <1>1, <1>2, <1>4, <2>2, <2>3
<1>5. ASSUME NEW r \in B, NEW i \in r.items, r.ts > g, r.ts =< T, Concerns(i)
      PROVE  \/ [ts |-> r.ts, id |-> r.id, item |-> i] \in V
             \/ \E q \in B : Later(q, r) /\ q.ts =< T /\ \E j \in q.items : j.sid = i.sid
  <2>1. r \in A /\ r.ts > f
    BY <1>1, <1>4, <1>5
  <2> QED  BY <1>5, <2>1 DEF Safe, Covered
<1> QED  BY <1>3, <1>5 DEF Safe, Covered

\* A step that leaves the device alone.
LEMMA BackendSInv ==
  ASSUME TInv, TInv', SInv, UNCHANGED device, changes \subseteq changes',
         \A r \in changes' : r \in changes \/ \A q \in changes : q.ts + Minute =< r.ts
  PROVE  SafeTokens'
<1>1. /\ changes \in SUBSET Change /\ changes' \in SUBSET Change /\ token \in Nat /\ first \in Nat
      /\ \A h \in Handlers : handler[h].token \in Nat
  BY TInvTypes, FeedAssumption DEF TInv, TypeOK, HandlerType, Times
<1>2. token' = token /\ first' = first /\ shown' = shown /\ handler' = handler
  BY DEF device
<1>3. \A T \in Nat : \A U : Safe(T, U, changes, first) => Safe(T, U, changes', first)
  BY <1>1, SafeStays
<1>4. \A h \in Handlers : ShownBy(h)' = ShownBy(h) /\ Carries(h)' = Carries(h)
  BY <1>2 DEF ShownBy, Carries
<1> QED  BY <1>1, <1>2, <1>3, <1>4 DEF SInv, SafeTokens

LEMMA ClockSInv ==
  ASSUME StoredInOrder, TInv, TInv', SInv, NEW c \in Clocks,
         BeginClock(c) \/ FilterNext(c) \/ CommitClock(c) \/ FailClock(c)
  PROVE  SInv'
<1>1. \A b \in Clocks : b = c
  BY DEF StoredInOrder
<1>2. clock[c] \in ClockType /\ clock \in [Clocks -> ClockType] /\ now \in Nat /\ lastRun \in Nat
      /\ Minute \in Nat /\ \A r \in changes : r.ts \in Nat
  BY TInvTypes, FeedAssumption DEF TInv, TypeOK, Change
<1>3. UNCHANGED <<now, mtime, synced, device>>
  BY DEF BeginClock, FilterNext, CommitClock, FailClock
<1>4. CASE BeginClock(c)
  <2>1. lastRun' = now /\ lastRun + Minute =< now /\ changes' = changes /\ clock'[c].at = now
    BY <1>2, <1>4 DEF BeginClock
  <2>2. RunsAfter'
    BY <1>1, <1>2, <1>3, <2>1 DEF SInv, RunsAfter
  <2> QED  BY <1>3, <2>1, <2>2, BackendSInv DEF SInv, NoEdits, Spaced
<1>5. ASSUME UNCHANGED <<changes, lastRun>>, clock[c].pc # "idle",
             clock'[c].pc = "idle" \/ clock'[c].at = clock[c].at
      PROVE  SInv'
  <2>1. RunsAfter'
    BY <1>1, <1>3, <1>5 DEF SInv, RunsAfter
  <2> QED  BY <1>3, <1>5, <2>1, BackendSInv DEF SInv, NoEdits, Spaced
<1>6. CASE FilterNext(c) \/ FailClock(c) \/ (CommitClock(c) /\ UNCHANGED changes)
  BY <1>2, <1>5, <1>6 DEF FilterNext, FailClock, CommitClock, IdleClock, ClockType
<1>7. CASE CommitClock(c) /\ changes' # changes
  <2> DEFINE at == clock[c].at
             r0 == [ts |-> at, id |-> Cardinality(changes), items |-> clock[c].items]
  <2>1. changes' = changes \union {r0} /\ r0.ts = at /\ lastRun' = lastRun
        /\ clock'[c].pc = "idle" /\ clock[c].pc # "idle"
    BY <1>2, <1>7 DEF CommitClock, Record, IdleClock
  <2>2. at = lastRun /\ \A q \in changes : q.ts + Minute =< at
    BY <2>1 DEF SInv, RunsAfter
  <2> HIDE DEF r0
  <2>3. Spaced'
    BY <2>1, <2>2 DEF SInv, Spaced
  <2>4. RunsAfter'
    BY <1>1, <1>2, <1>3, <2>1, <2>2 DEF SInv, RunsAfter
  <2>5. SafeTokens'
    BY <1>3, <2>1, <2>2, BackendSInv
  <2> QED  BY <1>3, <2>3, <2>4, <2>5 DEF SInv, NoEdits
<1> QED  BY <1>4, <1>6, <1>7

\* An answer holds every change after the token asked with and up to the one
\* it comes with: timestamps are a minute apart, so the second added to the
\* last one reaches no other.
LEMMA AnswerIsWhole ==
  ASSUME TInv, Spaced, NEW t \in Nat, ChangesSince(t) # {}
  PROVE  LET found == ChangesSince(t)
             T == NextToken(found, t)
         IN  /\ T \in Nat /\ t < T
             /\ \E r \in changes : T =< r.ts + Second
             /\ \A r \in changes : r.ts > t /\ r.ts =< T => r \in found
             /\ \A r \in found : r.ts =< T
<1> DEFINE since == {r \in changes : r.ts > t}
           found == ChangesSince(t)
           T == NextToken(found, t)
           Before(r) == {q \in since : Later(r, q)}
<1>1. /\ changes \subseteq Change /\ \A r \in changes : r.ts \in Nat
      /\ Second \in Nat /\ Minute \in Nat /\ Second < Minute /\ Limit \in Nat
  BY TInvTypes, FeedAssumption DEF Change
<1>2. found \subseteq changes /\ IsFiniteSet(found) /\ IsFiniteSet(since)
      /\ \A r \in found : r.ts > t
  BY <1>1, FoundAreChanges, FS_Subset DEF TInv
<1>3. found = {r \in since : Cardinality(Before(r)) < Limit}
  BY DEF ChangesSince
<1>4. PICK last \in found :
         /\ \A q \in found : q.ts =< last.ts
         /\ T \in Nat /\ last.ts < T /\ T =< last.ts + Second
  BY <1>1, <1>2, NextTokenIs
<1>5. ASSUME NEW r \in changes, r.ts > t, r.ts =< T PROVE r \in found
  <2>1. r = last \/ r.ts < last.ts
    BY <1>1, <1>2, <1>4, <1>5 DEF Spaced
  <2>2. CASE r.ts < last.ts
    <3>1. Before(r) \subseteq Before(last)
      BY <1>1, <1>2, <2>2 DEF Later
    <3>2. IsFiniteSet(Before(last))
      BY <1>2, FS_Subset
    <3>3. Cardinality(Before(r)) =< Cardinality(Before(last))
          /\ Cardinality(Before(r)) \in Nat /\ Cardinality(Before(last)) \in Nat
      BY <3>1, <3>2, FS_Subset, FS_CardinalityType
    <3>4. Cardinality(Before(last)) < Limit /\ r \in since
      BY <1>3, <1>5
    <3> QED  BY <1>1, <1>3, <3>3, <3>4
  <2> QED  BY <2>1, <2>2
<1> QED
  <2> HIDE DEF found, T
  <2>1. t < T /\ \E r \in changes : T =< r.ts + Second
    BY <1>1, <1>2, <1>4
  <2>2. \A r \in found : r.ts =< T
    BY <1>1, <1>2, <1>4
  <2> QED  BY <1>4, <1>5, <2>1, <2>2 DEF found, T

\* What is merged from the answer covers up to the token it comes with.
LEMMA FetchIsSafe ==
  ASSUME TInv, SInv, NEW h \in Handlers, NEW x \in HandlerType, Fetches(h, x), x.notices # {}
  PROVE  Safe(x.token, shown \union x.notices, changes, first)
<1> DEFINE t == handler[h].token
           found == ChangesSince(t)
           T == x.token
           S == shown \union x.notices
<1>1. t \in Nat /\ T = NextToken(found, t) /\ x.notices = Filtered(Merged(found))
      /\ handler[h].pc = "fetch"
  BY TInvTypes, FeedAssumption DEF Fetches, HandlerType
<1>2. found \subseteq changes /\ found \subseteq Change
  BY <1>1, FoundAreChanges, TInvTypes DEF TInv
<1>3. found # {}
  BY <1>1 DEF Filtered, Merged
<1>4. /\ T \in Nat /\ t < T
      /\ \E r \in changes : T =< r.ts + Second
      /\ \A r \in changes : r.ts > t /\ r.ts =< T => r \in found
      /\ \A r \in found : r.ts =< T
  BY <1>1, <1>3, AnswerIsWhole DEF SInv
<1>5. Safe(t, shown, changes, first)
  BY <1>1 DEF SInv, SafeTokens, Carries, ShownBy
<1> HIDE DEF found
<1>6. ASSUME NEW r \in changes, NEW i \in r.items, r.ts > first, r.ts =< T, Concerns(i)
      PROVE  \/ [ts |-> r.ts, id |-> r.id, item |-> i] \in S
             \/ \E q \in changes : Later(q, r) /\ q.ts =< T /\ \E j \in q.items : j.sid = i.sid
  <2>1. CASE r.ts =< t
    <3>1. \/ [ts |-> r.ts, id |-> r.id, item |-> i] \in shown
          \/ \E q \in changes : Later(q, r) /\ q.ts =< t /\ \E j \in q.items : j.sid = i.sid
      BY <1>5, <1>6, <2>1 DEF Safe, Covered
    <3>2. \A q \in changes : q.ts \in Nat
      BY TInvTypes DEF Change
    <3> QED  BY <1>1, <1>4, <3>1, <3>2
  <2>2. CASE r.ts > t
    <3> DEFINE n == [ts |-> r.ts, id |-> r.id, item |-> i]
    <3>1. r \in found
      BY <1>4, <1>6, <2>2
    <3>2. n \in Merged(found) \/ \E q \in found : Later(q, r) /\ \E j \in q.items : j.sid = i.sid
      BY <1>2, <3>1, MergedIs
    <3>3. n \in Merged(found) => n \in x.notices
      BY <1>1, <1>6 DEF Filtered
    <3> HIDE DEF n
    <3>4. n \in S \/ \E q \in changes : Later(q, r) /\ q.ts =< T /\ \E j \in q.items : j.sid = i.sid
      BY <1>2, <1>4, <3>2, <3>3
    <3> QED  BY <3>4 DEF n
  <2>3. r.ts \in Nat
    BY TInvTypes DEF Change
  <2> QED  BY <1>1, <2>1, <2>2, <2>3
<1> QED  BY <1>4, <1>6 DEF Safe, Covered, Within

LEMMA PushSInv == ASSUME TInv, SInv, NEW h \in Handlers, Push(h) PROVE SInv'
<1>1. UNCHANGED <<now, mtime, synced, changes, lastRun, clock, first>>
  BY PushSteps DEF backend
<1>2. PICK x \in HandlerType :
         /\ handler' = [handler EXCEPT ![h] = x]
         /\ Rests(h, x) \/ Loads(h, x) \/ Fetches(h, x) \/ Shows(h, x) \/ Saves(h, x)
  BY PushSteps
<1>3. \A g \in Handlers : handler'[g] = IF g = h THEN x ELSE handler[g]
  BY <1>2, TInvTypes
<1>4. token \in Nat /\ first \in Nat /\ changes \in SUBSET Change
      /\ \A g \in Handlers : handler[g].token \in Nat
  BY TInvTypes, FeedAssumption DEF TInv, TypeOK, HandlerType, Times
<1>5. /\ token = NoToken => first = 0
      /\ Safe(token, shown, changes, first)
      /\ \A g \in Handlers : Carries(g) => Safe(handler[g].token, ShownBy(g), changes, first)
  BY DEF SInv, SafeTokens
<1>6. \A T \in Nat : \A U, V : U \subseteq V /\ Safe(T, U, changes, first) => Safe(T, V, changes, first)
  BY <1>4, SafeStays
<1>7. ASSUME shown \subseteq shown', token' = NoToken => first = 0,
             Safe(token', shown', changes, first),
             Carries(h)' => Safe(x.token, ShownBy(h)', changes, first)
      PROVE  SInv'
  <2>1. \A g \in Handlers : g # h => Carries(g)' = Carries(g) /\ ShownBy(g) \subseteq ShownBy(g)'
    BY <1>3, <1>7 DEF Carries, ShownBy
  <2>2. ASSUME NEW g \in Handlers, Carries(g)'
        PROVE  Safe(handler'[g].token, ShownBy(g)', changes, first)
    <3>1. CASE g = h
      BY <1>3, <1>7, <2>2, <3>1
    <3>2. CASE g # h
      BY <1>3, <1>4, <1>5, <1>6, <2>1, <2>2, <3>2
    <3> QED  BY <3>1, <3>2
  <2>3. SafeTokens'
    BY <1>1, <1>7, <2>2 DEF SafeTokens
  <2> QED  BY <1>1, <2>3 DEF SInv, NoEdits, Spaced, RunsAfter
<1>8. CASE Rests(h, x)
  BY <1>3, <1>5, <1>7, <1>8 DEF Rests, Carries
<1>9. CASE Loads(h, x)
  BY <1>3, <1>5, <1>7, <1>9 DEF Loads, Carries, ShownBy
<1>10. CASE Fetches(h, x)
  <2>1. x.notices # {} => Safe(x.token, shown \union x.notices, changes, first)
    BY <1>10, FetchIsSafe
  <2>2. x.pc = "show" /\ token' = token /\ shown' = shown
    BY <1>10 DEF Fetches
  <2> QED  BY <1>3, <1>5, <1>7, <2>1, <2>2 DEF Carries, ShownBy
<1>11. CASE Shows(h, x)
  <2>1. /\ x.pc = "save" /\ x.token = handler[h].token /\ token' = token
        /\ shown' = shown \union handler[h].notices
        /\ handler[h].pc = "show" /\ handler[h].notices # {}
    BY <1>11 DEF Shows
  <2>2. Safe(handler[h].token, shown', changes, first)
    BY <1>5, <2>1 DEF Carries, ShownBy
  <2>3. Safe(token', shown', changes, first)
    BY <1>4, <1>5, <1>6, <2>1
  <2> QED  BY <1>3, <1>5, <1>7, <2>1, <2>2, <2>3 DEF ShownBy
<1>12. CASE Saves(h, x)
  <2>1. token' = handler[h].token /\ shown' = shown /\ handler[h].pc = "save" /\ x.pc = "idle"
    BY <1>12 DEF Saves
  <2>2. token' # NoToken /\ Safe(token', shown', changes, first)
    BY <1>5, <2>1 DEF TInv, InTime, Carries, ShownBy
  <2> QED  BY <1>3, <1>7, <2>1, <2>2 DEF Carries
<1> QED  BY <1>2, <1>8, <1>9, <1>10, <1>11, <1>12

LEMMA NextSInv == ASSUME StoredInOrder, TInv, TInv', SInv, [Next]_vars PROVE SInv'
<1>1. CASE UNCHANGED vars
  BY <1>1 DEF vars, backend, device, SInv, NoEdits, Spaced, RunsAfter, SafeTokens, Carries, ShownBy
<1>2. CASE Tick
  <2>1. now' = now + 1 /\ UNCHANGED <<mtime, synced, changes, lastRun, clock, device>>
    BY <1>2 DEF Tick, backend
  <2>2. now \in Nat /\ lastRun \in Nat
    BY TInvTypes DEF TInv, TypeOK
  <2>3. SafeTokens'
    BY <2>1, BackendSInv
  <2> QED  BY <2>1, <2>2, <2>3 DEF SInv, NoEdits, Spaced, RunsAfter
<1>3. ASSUME NEW s \in Sessions, Publish(s) PROVE FALSE
  BY <1>3 DEF Publish, StoredInOrder, TInv, TypeOK
<1>4. ASSUME Sync PROVE FALSE
  BY <1>4 DEF Sync, SInv, NoEdits
<1>5. CASE SignIn
  <2>1. /\ token' = Truncated(now) /\ first' = Truncated(now) /\ Truncated(now) \in Nat
        /\ UNCHANGED <<now, mtime, synced, changes, lastRun, clock, shown, handler>>
        /\ token = NoToken
    BY <1>5, TruncatedIs, TInvTypes DEF SignIn, backend
  <2>2. /\ first = 0 /\ Truncated(now) # NoToken
        /\ \A h \in Handlers : Carries(h) => Safe(handler[h].token, ShownBy(h), changes, first)
    <3>1. now \in Nat /\ Second \in Nat /\ Second =< now /\ Second > 0
      BY TInvTypes DEF TInv, InTime
    <3> QED  BY <2>1, <3>1, TruncatedIs DEF SInv, SafeTokens, NoToken
  <2>3. changes \in SUBSET Change /\ \A h \in Handlers : handler[h].token \in Nat
    BY TInvTypes, FeedAssumption DEF HandlerType
  <2>4. \A h \in Handlers : Carries(h) => Safe(handler[h].token, ShownBy(h), changes, first')
    <3>1. \A T \in Nat : \A U : Safe(T, U, changes, 0) => Safe(T, U, changes, first')
      BY <2>1, <2>3, SafeStays
    <3> QED  BY <2>2, <2>3, <3>1
  <2>5. Safe(token', shown', changes, first')
    BY <2>1, <2>3 DEF Safe, Covered, Within, Change, Times
  <2>6. \A h \in Handlers : Carries(h)' = Carries(h) /\ ShownBy(h)' = ShownBy(h)
    BY <2>1 DEF Carries, ShownBy
  <2>7. SafeTokens'
    BY <2>1, <2>2, <2>4, <2>5, <2>6 DEF SafeTokens
  <2> QED  BY <2>1, <2>7 DEF SInv, NoEdits, Spaced, RunsAfter
<1> QED
  BY <1>1, <1>2, <1>3, <1>4, <1>5, ClockSInv, PushSInv DEF Next

(***************************************************************************)
(* NothingSkipped and TokenNotAhead: when changes are stored in the order  *)
(* of their timestamps, as a clock run at a time does, no token hides one  *)
(* that the user has not seen, nor one to come, however push events        *)
(* overlap and are cut off and whatever the limit on an answer             *)
(* (serveUserUpdates, getChangesSince, mergeChanges).                      *)
(***************************************************************************)
THEOREM NothingIsSkipped == StoredInOrder => (Spec => [](NothingSkipped /\ TokenNotAhead))
<1> SUFFICES ASSUME StoredInOrder PROVE Spec => [](NothingSkipped /\ TokenNotAhead)
  OBVIOUS
<1>1. Init => TInv /\ SInv
  BY InitTInv, InitSInv
<1>2. TInv /\ SInv /\ [Next]_vars => (TInv /\ SInv)'
  BY NextTInv, NextSInv
<1>3. TInv /\ SInv => NothingSkipped /\ TokenNotAhead
  BY DEF TInv, SInv, SafeTokens, Safe, Covered, NothingSkipped
<1> QED  BY <1>1, <1>2, <1>3, PTL DEF Spec

(***************************************************************************)
(* TokenNotAhead also when edits are stored late and clock runs overlap:   *)
(* the token of the device is never ahead of the servers' clock by more    *)
(* than the second serveUserUpdates adds; and every variable has its type. *)
(***************************************************************************)
THEOREM TokenStaysInTime == Spec => [](TypeOK /\ TokenNotAhead)
<1>1. TInv /\ [Next]_vars => TInv'
  BY NextTInv
<1>2. TInv => TypeOK /\ TokenNotAhead
  BY DEF TInv
<1> QED  BY InitTInv, <1>1, <1>2, PTL DEF Spec
=============================================================================
