---------------------------- MODULE ChangesFeed ----------------------------
(***************************************************************************)
(* How a change of the schedule becomes a notification on a device.        *)
(*                                                                         *)
(* Writers: handleClock, run by cron every minute, records reminders of    *)
(* the sessions that start soon and of the survey; syncEventData (module   *)
(* EventSync) records edited sessions.  Each stores a Changes entity with  *)
(* a timestamp: the clock the time its run began, the sync the time the    *)
(* organisers' manifest was modified.                                      *)
(*                                                                         *)
(* Reader: the service worker of a device.  A push message carries no      *)
(* data, so its handler asks serveUserUpdates for the changes after the    *)
(* time in its token, shows them, and saves the token of the answer.       *)
(* Tokens hold Unix seconds; timestamps are finer.                         *)
(*                                                                         *)
(* Time is counted in ticks, Second of them to a second.                   *)
(***************************************************************************)
EXTENDS Integers, FiniteSets

CONSTANTS
    Sessions,       \* ids of the sessions
    Start,          \* when each starts
    Soon,           \* soonSessionIDs: those also announced long before
    Surveyed,       \* surveySessionIDs: those followed by a survey
    Bookmarks,      \* those the user bookmarked
    TimeoutStart, TimeoutSoon, TimeoutSurvey,
    Second,         \* ticks in a second
    Minute,         \* ticks between two cron requests
    Limit,          \* changes getChangesSince returns at most, 1000
    Clocks,         \* instances of handleClock that may run at a time
    Handlers,       \* push events the service worker handles at a time
    MaxTime,        \* bound on the time
    MaxEdits,       \* bound on what the organisers publish
    MaxDrops        \* bound on clock runs and push events that fail

ASSUME FeedAssumption ==
    /\ Start \in [Sessions -> Nat]
    /\ Soon \subseteq Sessions /\ Surveyed \subseteq Sessions
    /\ Bookmarks \subseteq Sessions
    /\ TimeoutStart \in Nat /\ TimeoutSoon \in Nat /\ TimeoutSurvey \in Nat
    /\ Second \in Nat \ {0} /\ Minute \in Nat /\ Minute > Second
    /\ Limit \in Nat \ {0}
    /\ MaxTime \in Nat /\ MaxTime >= Second /\ MaxEdits \in Nat /\ MaxDrops \in Nat

VARIABLES
    now,        \* the servers' clock
    mtime,      \* modification time of the last manifest, full seconds
    edited,     \* sessions changed since the manifest synced last
    synced,     \* modification time of that manifest
    edits,      \* manifests published
    changes,    \* Changes entities
    next,       \* Next entities: reminders already recorded
    lastRun,    \* time of the last cron request
    clock,      \* the runs of handleClock
    token,      \* SW token in IndexedDB
    first,      \* history: the token the user began with
    handler,    \* the push events being handled
    shown,      \* history: changes shown to the user
    again,      \* history: changes shown more than once
    drops

backend == <<mtime, edited, synced, edits, changes, next, lastRun, clock>>
device == <<token, first, handler, shown, again>>
vars == <<now, backend, device, drops>>

NoToken == 0
Times == 0..MaxTime
Kinds == {"start", "soon", "survey", "details"}

\* One session's part of a change: session.update says why it is there.
Item == [sid : Sessions, update : Kinds]

\* A Changes entity.  Of two with one timestamp the key decides the order;
\* id stands for the key.
Change == [ts : Times, id : Nat, items : SUBSET Item]

\* What the user sees of a change.
Notice == [ts : Times, id : Nat, item : Item]

IdleClock == [pc |-> "idle", at |-> 0, items |-> {}, seen |-> {}]
IdleHandler == [pc |-> "idle", token |-> NoToken, notices |-> {}]

TypeOK ==
    /\ now \in Times /\ mtime \in Times /\ synced \in Times /\ lastRun \in Times
    /\ edited \subseteq Sessions
    /\ changes \subseteq Change
    /\ next \subseteq Item
    /\ clock \in [Clocks -> [pc : {"idle", "filter", "commit"}, at : Times,
                             items : SUBSET Item, seen : SUBSET Item]]
    /\ token \in 0..(MaxTime + Second) /\ first \in Times
    /\ handler \in [Handlers -> [pc : {"idle", "fetch", "show", "save"},
                                 token : 0..(MaxTime + 2 * Second), notices : SUBSET Notice]]
    /\ shown \subseteq Notice /\ again \subseteq shown
    /\ edits \in 0..MaxEdits /\ drops \in 0..MaxDrops

Init ==
    /\ now = Second /\ mtime = 0 /\ edited = {} /\ synced = 0 /\ edits = 0 /\ lastRun = 0
    /\ changes = {} /\ next = {}
    /\ clock = [c \in Clocks |-> IdleClock]
    /\ token = NoToken /\ first = 0
    /\ handler = [h \in Handlers |-> IdleHandler]
    /\ shown = {} /\ again = {}
    /\ drops = 0

Tick ==
    /\ now < MaxTime
    /\ now' = now + 1
    /\ UNCHANGED <<backend, device, drops>>

\* time.Unix() of t, as a time: what a token and an HTTP date can express.
Truncated(t) == t - (t % Second)

-----------------------------------------------------------------------------
(* Writers                                                                 *)

Record(ts, items) ==
    changes' = changes \cup {[ts |-> ts, id |-> Cardinality(changes), items |-> items]}

\* The organisers edit a session and upload the manifest.
Publish(s) ==
    /\ edits < MaxEdits
    /\ edits' = edits + 1
    /\ edited' = edited \cup {s}
    /\ mtime' = Truncated(now)
    /\ UNCHANGED <<now, synced, changes, next, lastRun, clock, device, drops>>

\* syncEventData commits.  Updated is the manifest's Last-Modified, however
\* long ago that was.
Sync ==
    /\ mtime > synced
    /\ Record(mtime, {[sid |-> s, update |-> "details"] : s \in edited})
    /\ synced' = mtime
    /\ edited' = {}
    /\ UNCHANGED <<now, mtime, edits, next, lastRun, clock, device, drops>>

\* upcomingSessions
UpcomingSessions(t) ==
    {[sid |-> s, update |-> "start"] : s \in {r \in Sessions :
        0 < Start[r] - t /\ Start[r] - t < TimeoutStart}}
    \cup
    {[sid |-> s, update |-> "soon"] : s \in {r \in Soon :
        TimeoutStart =< Start[r] - t /\ Start[r] - t < TimeoutSoon /\ 0 < Start[r] - t}}

\* upcomingSurveys
UpcomingSurveys(t) ==
    {[sid |-> s, update |-> "survey"] : s \in {r \in Surveyed :
        Start[r] =< t /\ Start[r] - t =< -TimeoutSurvey}}

\* cron calls handleClock, which computes what is due from the time it began.
BeginClock(c) ==
    /\ clock[c].pc = "idle"
    /\ now >= lastRun + Minute
    /\ lastRun' = now
    /\ clock' = [clock EXCEPT ![c] =
          [pc |-> "filter", at |-> now, seen |-> {},
           items |-> UpcomingSessions(now) \cup UpcomingSurveys(now)]]
    /\ UNCHANGED <<now, mtime, edited, synced, edits, changes, next, device, drops>>

\* filterNextSessions, in the transaction: what is recorded already goes.
\* allsess is assigned outside the closure, so a retry starts from less.
FilterNext(c) ==
    /\ clock[c].pc = "filter"
    /\ clock' = [clock EXCEPT ![c].pc = "commit", ![c].seen = next,
                              ![c].items = @ \ next]
    /\ UNCHANGED <<now, mtime, edited, synced, edits, changes, next, lastRun, device, drops>>

\* The transaction can only commit if Next is what it read.
Unchanged(c) == clock[c].seen = next

CommitClock(c) ==
    /\ clock[c].pc = "commit"
    /\ \/ /\ Unchanged(c)
          /\ clock' = [clock EXCEPT ![c] = IdleClock]
          /\ next' = next \cup clock[c].items
          /\ IF clock[c].items = {} THEN UNCHANGED changes
             ELSE Record(clock[c].at, clock[c].items)
       \/ /\ ~Unchanged(c)
          /\ clock' = [clock EXCEPT ![c].pc = "filter"]
          /\ UNCHANGED <<changes, next>>
    /\ UNCHANGED <<now, mtime, edited, synced, edits, lastRun, device, drops>>

\* A run fails: nothing was stored, and it is not retried.
FailClock(c) ==
    /\ clock[c].pc # "idle"
    /\ drops < MaxDrops
    /\ drops' = drops + 1
    /\ clock' = [clock EXCEPT ![c] = IdleClock]
    /\ UNCHANGED <<now, mtime, edited, synced, edits, changes, next, lastRun, device>>

-----------------------------------------------------------------------------
(* serveSWToken and serveUserUpdates                                       *)

\* The user signs in: ensureSWToken_ gets a token for the present time.
SignIn ==
    /\ token = NoToken
    /\ token' = Truncated(now)
    /\ first' = Truncated(now)
    /\ UNCHANGED <<now, backend, handler, shown, again, drops>>

Later(q, r) == q.ts > r.ts \/ (q.ts = r.ts /\ q.id > r.id)

\* Mutated form of ChangesSince: whichever Limit changes come last.
LastChangesSince(t) ==
    LET since == {r \in changes : r.ts > t}
    IN {r \in since : Cardinality({q \in since : Later(q, r)}) < Limit}

\* getChangesSince: the first Limit changes after t.
ChangesSince(t) ==
    LET since == {r \in changes : r.ts > t}
    IN {r \in since : Cardinality({q \in since : Later(r, q)}) < Limit}

\* mergeChanges: a session is reported as the last of them has it.
Merged(found) ==
    LET Lasting(r) == {i \in r.items : \A q \in found : Later(q, r) =>
                                          \A j \in q.items : j.sid # i.sid}
    IN  UNION {{[ts |-> r.ts, id |-> r.id, item |-> i] : i \in Lasting(r)} : r \in found}

\* filterUserChanges
Concerns(i) == i.update = "survey" \/ i.sid \in Bookmarks
Filtered(notices) == {n \in notices : Concerns(n.item)}

\* Updated of the merged changes, or the time asked about when there are none.
Updated(found, t) ==
    IF found = {} THEN t
    ELSE (CHOOSE r \in found : \A q \in found : ~Later(q, r)).ts

\* Mutated form of NextToken: the time of the last change, to the second.
TokenOfLast(found, t) == Truncated(Updated(found, t))

\* encodeSWToken of the time to ask about next.
NextToken(found, t) == Truncated(Updated(found, t) + Second)

-----------------------------------------------------------------------------
(* The push event handler of the service worker                            *)

LoadToken(h) ==
    /\ handler[h].pc = "idle"
    /\ token # NoToken
    /\ handler' = [handler EXCEPT ![h] =
                      [pc |-> "fetch", token |-> token, notices |-> {}]]
    /\ UNCHANGED <<now, backend, token, first, shown, again, drops>>

FetchUpdates(h) ==
    /\ handler[h].pc = "fetch"
    /\ LET found == ChangesSince(handler[h].token)
       IN handler' = [handler EXCEPT ![h] =
             [pc |-> "show", token |-> NextToken(found, @.token),
              notices |-> Filtered(Merged(found))]]
    /\ UNCHANGED <<now, backend, token, first, shown, again, drops>>

\* processResponse: with nothing to show it throws, and a general message is
\* shown instead.  A message replaces an earlier one of the same kind.
ShowNotifications(h) ==
    /\ handler[h].pc = "show"
    /\ shown' = shown \cup handler[h].notices
    /\ again' = again \cup (handler[h].notices \cap shown)
    /\ handler' = [handler EXCEPT ![h] =
          IF @.notices = {} THEN IdleHandler ELSE [@ EXCEPT !.pc = "save"]]
    /\ UNCHANGED <<now, backend, token, first, drops>>

SaveToken(h) ==
    /\ handler[h].pc = "save"
    /\ token' = handler[h].token
    /\ handler' = [handler EXCEPT ![h] = IdleHandler]
    /\ UNCHANGED <<now, backend, first, shown, again, drops>>

\* The request fails, or the browser ends the service worker.
DropEvent(h) ==
    /\ handler[h].pc # "idle"
    /\ drops < MaxDrops
    /\ drops' = drops + 1
    /\ handler' = [handler EXCEPT ![h] = IdleHandler]
    /\ UNCHANGED <<now, backend, token, first, shown, again>>

Push(h) ==
    LoadToken(h) \/ FetchUpdates(h) \/ ShowNotifications(h) \/ SaveToken(h) \/ DropEvent(h)

Next ==
    \/ Tick
    \/ \E s \in Sessions : Publish(s)
    \/ Sync
    \/ \E c \in Clocks : BeginClock(c) \/ FilterNext(c) \/ CommitClock(c) \/ FailClock(c)
    \/ SignIn
    \/ \E h \in Handlers : Push(h)

Spec == Init /\ [][Next]_vars

-----------------------------------------------------------------------------
(* Properties                                                              *)

\* Every reminder is recorded, and so announced, once: however runs of
\* handleClock overlap, fail or are retried (storeNextSessions).
RemindedOnce ==
    \A q, r \in changes : \A i \in q.items \cap r.items :
        i.update # "details" => q = r

\* No token skips a change: what is older than the token of the device and
\* newer than the one the user began with was shown, unless it does not
\* concern the user or a later change of that session took its place
\* (serveUserUpdates).
NothingSkipped ==
    \A r \in changes : \A i \in r.items :
        r.ts > first /\ r.ts =< token /\ Concerns(i) =>
            \/ [ts |-> r.ts, id |-> r.id, item |-> i] \in shown
            \/ \E q \in changes : /\ Later(q, r) /\ q.ts =< token
                                  /\ \E j \in q.items : j.sid = i.sid

\* A user is told of a change once, as long as one push event is handled at
\* a time and none is cut off (the second added in serveUserUpdates).
ShownOnce == again = {}

\* The token of the device does not run ahead of time: it would hide what
\* happens meanwhile.
TokenNotAhead == token =< now + Second
=============================================================================
