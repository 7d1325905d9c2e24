---------------------------- MODULE PushPipeline ----------------------------
(***************************************************************************)
(* From a change of the schedule to the push messages for one user: the    *)
(* tasks /task/notify-subscribers, /task/ping-user and /task/ping-device   *)
(* (handler.go), run by App Engine's task queue, and the user's UserPush   *)
(* entity (db_gae.go), which they change together with the user's own      *)
(* requests to /user/notify.                                               *)
(*                                                                         *)
(* The queue delivers a task until a handler answers with success, so a    *)
(* task may run more than once and several run at a time.  Every change of *)
(* the entity is a transaction: it reads, and its commit takes effect only *)
(* if the entity is still what it read; otherwise it runs again.           *)
(*                                                                         *)
(* The order of UserPush.Endpoints matters to nobody: the list is modelled *)
(* by how often it holds each endpoint.                                    *)
(***************************************************************************)
EXTENDS Integers, FiniteSets

CONSTANTS
    Endpoints,      \* endpoint URLs
    Bare,           \* the GCM endpoint without a registration, in old entities
    Canonical,      \* the endpoint a push service moves each one to
    Legacy,         \* Subscribers of the old entity, as endpoints; {}: a new one
    Matches,        \* TRUE: the change concerns a bookmark of the user
    Workers,        \* requests the backend serves at a time
    MaxTaskRetry,   \* 10
    ScheduleTries,  \* attempts of handlePingUser to schedule pings: 6
    TotalFailures,  \* TRUE: scheduling may fail for all tasks with one error
    MaxChanges,     \* bound on the changes of the schedule
    MaxRequests,    \* bound on the user's requests
    MaxMoves,       \* bound on what happens to endpoints
    MaxFaults       \* bound on failing calls and tasks run again

ASSUME PipelineAssumption ==
    /\ IsFiniteSet(Endpoints) /\ Bare \in Endpoints
    /\ Canonical \in [Endpoints \ {Bare} -> Endpoints \ {Bare}]
    /\ Legacy \subseteq Endpoints \ {Bare}
    /\ Matches \in BOOLEAN /\ TotalFailures \in BOOLEAN
    /\ MaxTaskRetry \in Nat /\ ScheduleTries \in Nat \ {0}
    /\ MaxChanges \in Nat /\ MaxRequests \in Nat /\ MaxMoves \in Nat /\ MaxFaults \in Nat

VARIABLES
    push,       \* the UserPush entity
    listed,     \* TRUE: the index of enabled users has the user
    tasks,      \* the task queue
    worker,     \* the requests being served
    service,    \* what the push services know of each endpoint
    acked,      \* history: endpoints the user was told are registered
    dead,       \* history: endpoints a push service reported as invalid
    pinged,     \* history: endpoints a message was delivered to
    owed,       \* history: endpoints a change is to be sent to, until the
                \* user turns notifications off or the task is given up
    used        \* how much of each bound is used up

history == <<acked, dead, pinged, owed>>
vars == <<push, listed, tasks, worker, service, history, used>>

NoEndpoint == Bare    \* the endpoint field of tasks that have none

\* A task; n counts how often it was started.
Task == [kind : {"notify", "user", "device"}, ep : Endpoints, n : 0..(MaxTaskRetry + 3)]

UserPush == [enabled : BOOLEAN, count : [Endpoints -> 0..(1 + Cardinality(Endpoints))],
             subs : SUBSET Endpoints]

\* A request: the task it serves, or the endpoint the user registers; what
\* its transaction read; what is still to be scheduled, and how often it
\* tried.
Idle == [pc |-> "idle", task |-> [kind |-> "notify", ep |-> NoEndpoint, n |-> 0],
         read |-> [enabled |-> FALSE, count |-> [e \in Endpoints |-> 0], subs |-> {}],
         todo |-> {}, tries |-> 0]

PCs == {"idle", "task", "upgrade", "match", "schedule", "replace", "delete",
        "resched", "patch", "disable"}

TypeOK ==
    /\ push \in UserPush /\ listed \in BOOLEAN
    /\ tasks \subseteq Task
    /\ worker \in [Workers -> [pc : PCs, task : Task, read : UserPush,
                               todo : SUBSET Endpoints, tries : 0..ScheduleTries]]
    /\ \A w \in Workers : worker[w].pc # "task" => worker[w].task.n =< MaxTaskRetry + 2
    /\ service \in [Endpoints -> {"live", "moved", "gone", "barred"}]
    /\ acked \subseteq Endpoints /\ dead \subseteq Endpoints
    /\ pinged \subseteq Endpoints /\ owed \subseteq Endpoints
    /\ used \in [changes : 0..MaxChanges, requests : 0..MaxRequests,
                 moves : 0..MaxMoves, faults : 0..MaxFaults]

Has(p, e) == p.count[e] > 0

\* An old entity holds the bare endpoint once for every subscriber.
Init ==
    /\ push = [enabled |-> Legacy # {},
               count |-> [e \in Endpoints |-> IF e = Bare THEN Cardinality(Legacy) ELSE 0],
               subs |-> Legacy]
    /\ listed = push.enabled
    /\ tasks = {}
    /\ worker = [w \in Workers |-> Idle]
    /\ service = [e \in Endpoints |-> IF e = Bare THEN "gone" ELSE "live"]
    /\ acked = Legacy /\ dead = {} /\ pinged = {} /\ owed = {}
    /\ used = [changes |-> 0, requests |-> 0, moves |-> 0, faults |-> 0]

-----------------------------------------------------------------------------
(* The surroundings                                                        *)

\* notifySubscribersAsync, called by syncEventData and handleClock.
Change ==
    /\ used.changes < MaxChanges
    /\ used' = [used EXCEPT !.changes = @ + 1]
    /\ tasks' = tasks \cup {[kind |-> "notify", ep |-> NoEndpoint, n |-> 0]}
    /\ UNCHANGED <<push, listed, worker, service, history>>

\* The index that listUsersWithPush queries follows the entity in time.
Index ==
    /\ listed # push.enabled
    /\ listed' = push.enabled
    /\ UNCHANGED <<push, tasks, worker, service, history, used>>

\* A device unsubscribes, gets a new registration, or its push service
\* begins to refuse this server's messages.
Move(e) ==
    /\ used.moves < MaxMoves
    /\ service[e] = "live"
    /\ used' = [used EXCEPT !.moves = @ + 1]
    /\ \E s \in {"moved", "gone", "barred"} : service' = [service EXCEPT ![e] = s]
    /\ UNCHANGED <<push, listed, tasks, worker, history>>

Fault ==
    /\ used.faults < MaxFaults
    /\ used' = [used EXCEPT !.faults = @ + 1]

\* A handler answers with success, and its task is over.
Done(w) == worker' = [worker EXCEPT ![w] = Idle]

\* The queue starts a task.
Take(w, t) ==
    /\ worker[w].pc = "idle"
    /\ t \in tasks
    /\ tasks' = tasks \ {t}
    /\ worker' = [worker EXCEPT ![w] = [Idle EXCEPT !.pc = "task", !.task = [t EXCEPT !.n = @ + 1]]]
    /\ UNCHANGED <<push, listed, service, history, used>>

\* taskRetryCount is one less than the number of earlier executions.
GivenUp(w) == worker[w].task.n - 2 > MaxTaskRetry

Serves(w, kind) == worker[w].pc = "task" /\ worker[w].task.kind = kind

\* The handler answers with success to end the retries.
GiveUp(w) ==
    /\ worker[w].pc = "task"
    /\ GivenUp(w)
    /\ Done(w)
    /\ owed' = CASE worker[w].task.kind = "device" -> owed \ {worker[w].task.ep}
                 [] worker[w].task.kind = "user"   -> {}
                 [] OTHER                          -> owed
    /\ UNCHANGED <<push, listed, tasks, service, acked, dead, pinged, used>>

\* A handler answers with an error, or its instance ends, or the queue does
\* not hear of its success: the task will be started again.
Again(w) ==
    /\ worker[w].pc \notin {"idle", "patch", "disable"} /\ ~GivenUp(w)
    /\ Fault
    /\ tasks' = tasks \cup {worker[w].task}
    /\ Done(w) \/ UNCHANGED worker
    /\ UNCHANGED <<push, listed, service, history>>

-----------------------------------------------------------------------------
(* Transactions on the UserPush entity                                     *)

\* Read the entity and go on to the commit at l.
Begin(w, l) == worker' = [worker EXCEPT ![w].pc = l, ![w].read = push]

\* Mutated form of Current: the handlers do not run in a transaction.
NotTransactional(w) == TRUE

\* The commit succeeds.
Current(w) == worker[w].read = push

\* The transaction runs again, or fails for good (below).
Conflict(w) ==
    /\ worker[w].pc \in {"upgrade", "replace", "delete", "patch", "disable"}
    /\ ~Current(w)
    /\ worker' = [worker EXCEPT ![w].read = push]
    /\ UNCHANGED <<push, listed, tasks, service, history, used>>

\* updatePushEndpoint and deletePushEndpoint: errors are only logged.
GivesUpChange(w) ==
    /\ worker[w].pc \in {"replace", "delete"}
    /\ Fault
    /\ Done(w)
    /\ UNCHANGED <<push, listed, tasks, service, history>>

-----------------------------------------------------------------------------
(* /task/notify-subscribers                                                *)

\* One ping-user task for every user in the index.
NotifySubscribers(w) ==
    /\ Serves(w, "notify") /\ ~GivenUp(w)
    /\ tasks' = IF listed THEN tasks \cup {[kind |-> "user", ep |-> NoEndpoint, n |-> 0]}
                ELSE tasks
    /\ Done(w)
    /\ UNCHANGED <<push, listed, service, history, used>>

-----------------------------------------------------------------------------
(* /task/ping-user                                                         *)

BeginPingUser(w) ==
    /\ Serves(w, "user") /\ ~GivenUp(w)
    /\ Begin(w, "upgrade")
    /\ UNCHANGED <<push, listed, tasks, service, history, used>>

\* upgradeSubscribers: each registration becomes an endpoint URL, one of the
\* bare endpoints is dropped, and duplicates are.
Upgraded(p) ==
    [p EXCEPT !.subs = {},
              !.count = [e \in Endpoints |->
                  IF e = Bare THEN (IF p.count[e] > 1 THEN 1 ELSE 0)
                  ELSE IF p.count[e] > 0 \/ e \in p.subs THEN 1 ELSE 0]]

UpgradePush(w) ==
    /\ worker[w].pc = "upgrade"
    /\ Current(w)
    /\ LET p == worker[w].read IN push' = IF p.subs = {} THEN p ELSE Upgraded(p)
    /\ worker' = IF push'.enabled
                 THEN [worker EXCEPT ![w].pc = "match", ![w].read = push']
                 ELSE [worker EXCEPT ![w] = Idle]
    /\ UNCHANGED <<listed, tasks, service, history, used>>

\* userSchedule: no bookmark matches, or no credentials are left, and the
\* task is over.
MatchBookmarks(w) ==
    /\ worker[w].pc = "match"
    /\ IF Matches
       THEN LET eps == {e \in Endpoints : Has(worker[w].read, e)}
            IN /\ worker' = [worker EXCEPT ![w].pc = "schedule", ![w].todo = eps]
               /\ owed' = IF push.enabled THEN owed \cup eps ELSE owed
       ELSE Done(w) /\ UNCHANGED owed
    /\ UNCHANGED <<push, listed, tasks, service, acked, dead, pinged, used>>

PingTasks(eps) == {[kind |-> "device", ep |-> e, n |-> 0] : e \in eps}

\* Mutated form of SchedulePings: the first failure ends the loop.
ScheduleOnce(w) ==
    /\ worker[w].pc = "schedule"
    /\ \/ /\ tasks' = tasks \cup PingTasks(worker[w].todo)
          /\ Done(w)
          /\ UNCHANGED used
       \/ /\ Fault
          /\ \E failed \in SUBSET worker[w].todo \ {{}} :
                tasks' = tasks \cup PingTasks(worker[w].todo \ failed)
          /\ Done(w)
    /\ UNCHANGED <<push, listed, service, history>>

\* What pingDevicesAsync returns of the endpoints it failed to schedule: all
\* of them, or none when AddMulti failed with one error for the whole call.
Returned(failed) == IF TotalFailures THEN {failed, {}} ELSE {failed}

\* The loop around pingDevicesAsync: what it returns is tried again,
\* ScheduleTries times at most, and a round with nothing to do is the last.
SchedulePings(w) ==
    /\ worker[w].pc = "schedule"
    /\ \/ /\ tasks' = tasks \cup PingTasks(worker[w].todo)
          /\ Done(w)
          /\ UNCHANGED used
       \/ /\ Fault
          /\ \E failed \in SUBSET worker[w].todo \ {{}} :
                /\ tasks' = tasks \cup PingTasks(worker[w].todo \ failed)
                /\ \E rest \in Returned(failed) :
                      worker' = IF rest = {} \/ worker[w].tries + 1 = ScheduleTries
                                THEN [worker EXCEPT ![w] = Idle]
                                ELSE [worker EXCEPT ![w].todo = rest, ![w].tries = @ + 1]
    /\ UNCHANGED <<push, listed, service, history>>

-----------------------------------------------------------------------------
(* /task/ping-device                                                       *)

\* pingDevice, pingGCM: what the push service answers.
PingDevice(w) ==
    /\ Serves(w, "device") /\ ~GivenUp(w)
    /\ LET e == worker[w].task.ep
       IN \/ /\ service[e] = "live"
             /\ pinged' = pinged \cup {e}
             /\ Done(w)
             /\ UNCHANGED <<dead, used>>
          \/ /\ service[e] = "moved"
             /\ pinged' = pinged \cup {e}
             /\ dead' = dead \cup {e}
             /\ Begin(w, "replace")
             /\ UNCHANGED used
          \/ /\ service[e] = "gone"
             /\ dead' = dead \cup {e}
             /\ Begin(w, "delete")
             /\ UNCHANGED <<pinged, used>>
          \/ /\ service[e] = "barred"
             /\ Done(w)
             /\ UNCHANGED <<pinged, dead, used>>
          \/ /\ Fault
             /\ worker' = [worker EXCEPT ![w].pc = "resched"]
             /\ UNCHANGED <<pinged, dead>>
    /\ UNCHANGED <<push, listed, tasks, service, acked, owed>>

\* updatePushEndpoint
ReplaceEndpoint(w) ==
    /\ worker[w].pc = "replace"
    /\ Current(w)
    /\ LET e == worker[w].task.ep
           p == worker[w].read
           less == [p.count EXCEPT ![e] = @ - 1]
       IN push' = IF Has(p, e)
                  THEN [p EXCEPT !.count = [less EXCEPT ![Canonical[e]] = @ + 1]]
                  ELSE p
    /\ Done(w)
    /\ UNCHANGED <<listed, tasks, service, history, used>>

\* deletePushEndpoint
DeleteEndpoint(w) ==
    /\ worker[w].pc = "delete"
    /\ Current(w)
    /\ LET e == worker[w].task.ep
           p == worker[w].read
       IN push' = IF Has(p, e) THEN [p EXCEPT !.count[e] = @ - 1] ELSE p
    /\ Done(w)
    /\ UNCHANGED <<listed, tasks, service, history, used>>

\* The push service is unavailable: a new task after Retry-After.
Reschedule(w) ==
    /\ worker[w].pc = "resched"
    /\ tasks' = tasks \cup PingTasks({worker[w].task.ep})
    /\ Done(w)
    /\ UNCHANGED <<push, listed, service, history, used>>

-----------------------------------------------------------------------------
(* PUT /user/notify: patchUserNotifySettings                               *)

\* The user turns notifications on from a device, or off.
Request(w) ==
    /\ worker[w].pc = "idle"
    /\ used.requests < MaxRequests
    /\ used' = [used EXCEPT !.requests = @ + 1]
    /\ \/ \E e \in Endpoints \ {Bare} :
             /\ service[e] = "live"
             /\ worker' = [worker EXCEPT ![w].pc = "patch", ![w].read = push,
                                         ![w].task = [@ EXCEPT !.ep = e]]
       \/ worker' = [worker EXCEPT ![w].pc = "disable", ![w].read = push]
    /\ UNCHANGED <<push, listed, tasks, service, history>>

\* The endpoint is added unless it is there; what the payload does not
\* mention stays.
Patch(w) ==
    /\ Current(w)
    /\ LET e == worker[w].task.ep
           p == worker[w].read
       IN \/ /\ worker[w].pc = "patch"
             /\ push' = [p EXCEPT !.enabled = TRUE,
                            !.count[e] = IF Has(p, e) THEN @ ELSE @ + 1]
             /\ acked' = acked \cup {e}
             /\ UNCHANGED owed
          \/ /\ worker[w].pc = "disable"
             /\ push' = [p EXCEPT !.enabled = FALSE]
             /\ owed' = {}
             /\ UNCHANGED acked
    /\ Done(w)
    /\ UNCHANGED <<listed, tasks, service, dead, pinged, used>>

-----------------------------------------------------------------------------
Serve(w) ==
    \/ GiveUp(w) \/ Conflict(w)
    \/ NotifySubscribers(w)
    \/ BeginPingUser(w) \/ UpgradePush(w) \/ MatchBookmarks(w) \/ SchedulePings(w)
    \/ PingDevice(w) \/ ReplaceEndpoint(w) \/ DeleteEndpoint(w) \/ Reschedule(w)
    \/ Patch(w)

Start(w) == \E t \in tasks : Take(w, t)

Quiescent ==
    /\ tasks = {} /\ \A w \in Workers : worker[w].pc = "idle"
    /\ listed = push.enabled
    /\ UNCHANGED vars

Next ==
    \/ Change \/ Index
    \/ \E e \in Endpoints : Move(e)
    \/ \E w \in Workers : Start(w) \/ Serve(w) \/ Again(w) \/ GivesUpChange(w) \/ Request(w)
    \/ Quiescent

Spec == Init /\ [][Next]_vars

\* The queue starts every task, and a handler takes its next step: calls
\* return or fail within their deadlines.
FairSpec ==
    /\ Spec
    /\ \A w \in Workers : WF_vars(Serve(w)) /\ WF_vars(Start(w))

-----------------------------------------------------------------------------
(* Properties                                                              *)

\* An endpoint the user registered stays registered until a push service
\* says it is invalid: no task, running late or twice, writes back an older
\* list (the transactions around updatePushEndpoint, deletePushEndpoint,
\* upgradeSubscribers and patchUserNotifySettings).
RegistrationKept ==
    \A e \in acked \ dead : Has(push, e) \/ e \in push.subs

\* A device that a change is to be sent to gets its message, unless its
\* push service no longer takes messages for it, the user turned them off or
\* its task failed MaxTaskRetry times: unavailable services, tasks that run
\* again and partly failing calls included (handlePingUser,
\* handlePingDevice).
EveryDevicePinged ==
    \A e \in Endpoints :
        (e \in owed) ~> (e \in pinged \/ service[e] # "live" \/ e \notin owed)

\* The devices the entity holds, upgraded or not.
Registered == {e \in Endpoints \ {Bare} : Has(push, e) \/ e \in push.subs}

\* The devices that tasks in ts are to ping.
Queued(ts) == {e \in Endpoints : \E t \in ts : t.kind = "device" /\ t.ep = e}

\* What request h may yet lead to a ping of: its own device, those it
\* schedules, or those it read and has not matched.
Reaching(h) ==
    {e \in Endpoints :
        \/ /\ h.pc \notin {"idle", "patch", "disable"}
           /\ h.task.kind = "device" /\ h.task.ep = e
        \/ h.pc = "schedule" /\ e \in h.todo
        \/ h.pc = "match" /\ Has(h.read, e)}

\* The devices a message is on its way to.
Due == {e \in Endpoints \ {Bare} :
           e \in Queued(tasks) \/ \E w \in Workers : e \in Reaching(worker[w])}

\* The tasks, the transactions and the push services implement the abstract
\* PushRegistrations.
Impl == INSTANCE PushRegistrations WITH
    Devices    <- Endpoints \ {Bare},
    Known      <- Legacy,
    enabled    <- push.enabled,
    registered <- Registered,
    dead       <- dead \ {Bare},
    due        <- Due,
    pinged     <- pinged \ {Bare}

\* An announcement concerns, at one instant, exactly the devices registered
\* then, and only while notifications are on; no message goes anywhere else,
\* and no device is taken off that was not reported.  Tasks that run late,
\* twice or at the same time, and old entities that are upgraded on the way,
\* do not show (handlePingUser, handlePingDevice, patchUserNotifySettings).
ImplementsPushRegistrations == Impl!Spec
=============================================================================
