------------------------- MODULE PushPipelineProofs -------------------------
(***************************************************************************)
(* A registration that the user was told of stays in the UserPush entity   *)
(* until a push service calls it invalid: for every number of endpoints,   *)
(* workers, tasks, retries and faults, and whatever tasks are delivered    *)
(* again or run at the same time.                                          *)
(*                                                                         *)
(* RegistrationKept is not inductive alone.  A commit takes effect only if *)
(* the entity is what was read, so the entity a step starts from is the    *)
(* one the invariant speaks of; besides, one must know that the two steps  *)
(* that remove an endpoint serve one that a push service has reported, and *)
(* that nobody is ever told that the bare endpoint is registered, which    *)
(* the upgrade of an old entity drops.                                     *)
(***************************************************************************)
EXTENDS PushPipeline, FiniteSetTheorems, TLAPS

Kinds == {"notify", "user", "device"}
Entities == [enabled : BOOLEAN, count : [Endpoints -> Nat], subs : SUBSET Endpoints]
TaskRecords == [kind : Kinds, ep : Endpoints, n : Nat]
Handlers == [pc : PCs, task : TaskRecords, read : Entities, todo : SUBSET Endpoints, tries : Nat]

\* The shape of the state, without the bounds of TypeOK.
Shape ==
    /\ push \in Entities
    /\ tasks \subseteq TaskRecords
    /\ worker \in [Workers -> Handlers]

\* What a step that removes an endpoint removes was reported.
RemovesReported ==
    \A w \in Workers : worker[w].pc \in {"replace", "delete"} => worker[w].task.ep \in dead

\* Nobody registers the bare endpoint.
BareUnknown ==
    /\ acked \subseteq Endpoints \ {Bare}
    /\ \A w \in Workers : worker[w].pc = "patch" => worker[w].task.ep # Bare

IInv == Shape /\ RemovesReported /\ BareUnknown /\ RegistrationKept

-----------------------------------------------------------------------------
(* A handler that is idle has the shape of one. *)
LEMMA IdleShape == Idle \in Handlers
BY PipelineAssumption DEF Idle, Handlers, PCs, TaskRecords, Kinds, Entities, NoEndpoint

(* The tasks that ping devices are tasks. *)
LEMMA PingTasksShape ==
  ASSUME NEW eps \in SUBSET Endpoints
  PROVE  PingTasks(eps) \subseteq TaskRecords
BY DEF PingTasks, TaskRecords, Kinds

(* Initially the registrations of an old entity are among its subscribers. *)
LEMMA InitInv == Init => IInv
<1> SUFFICES ASSUME Init PROVE IInv
  OBVIOUS
<1> USE PipelineAssumption
<1>1. Cardinality(Legacy) \in Nat
  <2>1. IsFiniteSet(Legacy)
    BY FS_Subset
  <2> QED BY <2>1, FS_CardinalityType
<1>2. push \in Entities
  BY <1>1 DEF Init, Entities
<1>3. Shape
  BY <1>2, IdleShape DEF Init, Shape
<1>4. RemovesReported /\ BareUnknown /\ RegistrationKept
  BY DEF Init, Idle, RemovesReported, BareUnknown, RegistrationKept
<1> QED BY <1>3, <1>4 DEF IInv

-----------------------------------------------------------------------------
(* What an upgrade writes holds every registration that the entity held. *)
LEMMA UpgradeKeeps ==
  ASSUME NEW p \in Entities, NEW e \in Endpoints \ {Bare}, Has(p, e) \/ e \in p.subs
  PROVE  Upgraded(p) \in Entities /\ Has(Upgraded(p), e)
<1> DEFINE count == [x \in Endpoints |->
                       IF x = Bare THEN (IF p.count[x] > 1 THEN 1 ELSE 0)
                       ELSE IF p.count[x] > 0 \/ x \in p.subs THEN 1 ELSE 0]
<1>1. Upgraded(p) = [p EXCEPT !.subs = {}, !.count = count]
  BY DEF Upgraded
<1>2. count \in [Endpoints -> Nat] /\ count[e] = 1
  BY DEF Has
<1> HIDE DEF count
<1>3. Upgraded(p) \in Entities
  BY <1>1, <1>2 DEF Entities
<1>4. Upgraded(p).count = count
  BY <1>1 DEF Entities
<1> QED BY <1>2, <1>3, <1>4 DEF Has

(* Nor does it lose its shape when it held none. *)
LEMMA UpgradeShape == ASSUME NEW p \in Entities PROVE Upgraded(p) \in Entities
<1> DEFINE count == [x \in Endpoints |->
                       IF x = Bare THEN (IF p.count[x] > 1 THEN 1 ELSE 0)
                       ELSE IF p.count[x] > 0 \/ x \in p.subs THEN 1 ELSE 0]
<1>1. Upgraded(p) = [p EXCEPT !.subs = {}, !.count = count]
  BY DEF Upgraded
<1>2. count \in [Endpoints -> Nat]
  OBVIOUS
<1> HIDE DEF count
<1> QED BY <1>1, <1>2 DEF Entities

(***************************************************************************)
(* What the steps that leave the entity alone have in common: a handler    *)
(* changes, and neither forgets what a push service said nor takes on what *)
(* it did not say.                                                         *)
(***************************************************************************)
LEMMA EntityUntouched ==
  ASSUME IInv, UNCHANGED <<push, acked>>, dead \subseteq dead', tasks' \subseteq TaskRecords,
         worker' \in [Workers -> Handlers],
         \A w \in Workers : \/ worker'[w].pc \notin {"replace", "delete", "patch"}
                            \/ worker'[w].pc = worker[w].pc /\ worker'[w].task = worker[w].task
                            \/ worker'[w].pc \in {"replace", "delete"} /\ worker'[w].task.ep \in dead'
                            \/ worker'[w].pc = "patch" /\ worker'[w].task.ep # Bare
  PROVE  IInv'
<1>1. Shape'
  BY DEF IInv, Shape
<1>2. RemovesReported'
  BY DEF IInv, RemovesReported
<1>3. BareUnknown'
  BY DEF IInv, BareUnknown
<1>4. RegistrationKept'
  BY DEF IInv, RegistrationKept, Has
<1> QED BY <1>1, <1>2, <1>3, <1>4 DEF IInv

(* The common case: one handler changes, and the tasks stay tasks. *)
LEMMA OneHandler ==
  ASSUME IInv, NEW w \in Workers, NEW r \in Handlers, worker' = [worker EXCEPT ![w] = r],
         UNCHANGED <<push, acked>>, dead \subseteq dead', tasks' \subseteq TaskRecords,
         \/ r.pc \notin {"replace", "delete", "patch"}
         \/ r.pc = worker[w].pc /\ r.task = worker[w].task
         \/ r.pc \in {"replace", "delete"} /\ r.task.ep \in dead'
         \/ r.pc = "patch" /\ r.task.ep # Bare
  PROVE  IInv'
<1>1. worker \in [Workers -> Handlers]
  BY DEF IInv, Shape
<1>2. worker' \in [Workers -> Handlers] /\ worker'[w] = r
  BY <1>1
<1>3. \A v \in Workers \ {w} : worker'[v] = worker[v]
  BY <1>1
<1> QED BY <1>2, <1>3, EntityUntouched

(* Steps that change neither a handler nor the entity. *)
LEMMA NoHandler ==
  ASSUME IInv, UNCHANGED <<push, acked, worker>>, dead \subseteq dead', tasks' \subseteq TaskRecords
  PROVE  IInv'
BY EntityUntouched DEF IInv, Shape

(* A commit: the entity becomes another one that keeps the registrations. *)
LEMMA Committed ==
  ASSUME IInv, NEW w \in Workers, NEW r \in Handlers, worker' = [worker EXCEPT ![w] = r],
         r.pc \notin {"replace", "delete", "patch"}, UNCHANGED <<tasks, dead>>,
         push' \in Entities, acked' \subseteq Endpoints \ {Bare}, RegistrationKept'
  PROVE  IInv'
<1>1. worker \in [Workers -> Handlers]
  BY DEF IInv, Shape
<1>2. worker' \in [Workers -> Handlers] /\ worker'[w] = r
  BY <1>1
<1>3. \A v \in Workers \ {w} : worker'[v] = worker[v]
  BY <1>1
<1>4. Shape'
  BY <1>2 DEF IInv, Shape
<1>5. RemovesReported'
  BY <1>2, <1>3 DEF IInv, RemovesReported
<1>6. BareUnknown'
  BY <1>2, <1>3 DEF IInv, BareUnknown
<1> QED BY <1>4, <1>5, <1>6 DEF IInv

-----------------------------------------------------------------------------
(* The tasks that schedule and start others. *)
LEMMA TaskStep ==
  ASSUME IInv, NEW w \in Workers,
         \/ Start(w) \/ GiveUp(w) \/ Again(w) \/ GivesUpChange(w) \/ NotifySubscribers(w)
         \/ BeginPingUser(w) \/ MatchBookmarks(w) \/ SchedulePings(w) \/ Reschedule(w)
  PROVE  IInv'
<1> USE IdleShape, PipelineAssumption
<1>0. worker[w] \in Handlers /\ push \in Entities /\ tasks \subseteq TaskRecords
  BY DEF IInv, Shape
<1>1. CASE Start(w)
  <2>1. PICK t \in tasks : Take(w, t)
    BY <1>1 DEF Start
  <2> DEFINE r == [Idle EXCEPT !.pc = "task", !.task = [t EXCEPT !.n = @ + 1]]
  <2>2. t \in TaskRecords /\ [t EXCEPT !.n = @ + 1] \in TaskRecords
    BY <1>0, <2>1 DEF TaskRecords
  <2>3. r \in Handlers /\ r.pc = "task"
    BY <2>2 DEF Handlers, PCs
  <2>4. worker' = [worker EXCEPT ![w] = r]
    BY <2>1 DEF Take
  <2> HIDE DEF r
  <2> QED BY <1>0, <2>1, <2>3, <2>4, OneHandler DEF Take, history
<1>2. CASE GiveUp(w)
  <2>1. Idle.pc = "idle"
    BY DEF Idle
  <2> QED BY <1>0, <1>2, <2>1, OneHandler DEF GiveUp, Done
<1>3. CASE Again(w)
  <2>1. tasks' \subseteq TaskRecords
    BY <1>0, <1>3 DEF Again, Handlers
  <2>2. CASE Done(w)
    <3>1. Idle.pc = "idle"
      BY DEF Idle
    <3> QED BY <1>3, <2>1, <2>2, <3>1, OneHandler DEF Again, Done, history
  <2>3. CASE UNCHANGED worker
    BY <1>3, <2>1, <2>3, NoHandler DEF Again, history
  <2> QED BY <1>3, <2>2, <2>3 DEF Again
<1>4. CASE GivesUpChange(w)
  <2>1. Idle.pc = "idle"
    BY DEF Idle
  <2> QED BY <1>0, <1>4, <2>1, OneHandler DEF GivesUpChange, Done, history
<1>5. CASE NotifySubscribers(w)
  <2>1. Idle.pc = "idle"
    BY DEF Idle
  <2>2. tasks' \subseteq TaskRecords
    BY <1>0, <1>5 DEF NotifySubscribers, TaskRecords, Kinds, NoEndpoint
  <2> QED BY <1>5, <2>1, <2>2, OneHandler DEF NotifySubscribers, Done, history
<1>6. CASE BeginPingUser(w)
  <2> DEFINE r == [worker[w] EXCEPT !.pc = "upgrade", !.read = push]
  <2>1. r \in Handlers /\ r.pc = "upgrade"
    BY <1>0 DEF Handlers, PCs
  <2>2. worker' = [worker EXCEPT ![w] = r]
    BY <1>6 DEF BeginPingUser, Begin, IInv, Shape
  <2> HIDE DEF r
  <2> QED BY <1>0, <1>6, <2>1, <2>2, OneHandler DEF BeginPingUser, history
<1>7. CASE MatchBookmarks(w)
  <2> DEFINE eps == {e \in Endpoints : Has(worker[w].read, e)}
             r == [worker[w] EXCEPT !.pc = "schedule", !.todo = eps]
  <2>1. r \in Handlers /\ r.pc = "schedule"
    BY <1>0 DEF Handlers, PCs
  <2>2. worker' = [worker EXCEPT ![w] = r] \/ Done(w)
    BY <1>7 DEF MatchBookmarks, IInv, Shape
  <2>3. Idle.pc = "idle"
    BY DEF Idle
  <2> HIDE DEF r
  <2> QED BY <1>0, <1>7, <2>1, <2>2, <2>3, OneHandler DEF MatchBookmarks, Done
<1>8. CASE SchedulePings(w)
  <2>1. tasks' \subseteq TaskRecords
    <3>1. worker[w].todo \subseteq Endpoints
      BY <1>0 DEF Handlers
    <3> QED BY <1>0, <1>8, <3>1, PingTasksShape DEF SchedulePings
  <2>2. CASE Done(w)
    <3>1. Idle.pc = "idle"
      BY DEF Idle
    <3> QED BY <1>8, <2>1, <2>2, <3>1, OneHandler DEF SchedulePings, Done, history
  <2>3. ASSUME ~Done(w) PROVE IInv'
    <3>0. PICK failed \in SUBSET worker[w].todo : \E rest \in Returned(failed) :
             worker' = [worker EXCEPT ![w].todo = rest, ![w].tries = @ + 1]
      BY <1>8, <2>3 DEF SchedulePings, Done
    <3>1. PICK rest \in Returned(failed) :
             worker' = [worker EXCEPT ![w].todo = rest, ![w].tries = @ + 1]
      BY <3>0
    <3> DEFINE r == [worker[w] EXCEPT !.todo = rest, !.tries = @ + 1]
    <3>2. rest \subseteq Endpoints
      BY <1>0, <3>1 DEF Returned, Handlers
    <3>3. r \in Handlers /\ r.pc = worker[w].pc /\ r.task = worker[w].task
      <4>1. worker[w].tries + 1 \in Nat
        BY <1>0 DEF Handlers
      <4>2. r \in Handlers
        BY <1>0, <3>2, <4>1 DEF Handlers
      <4>3. r.pc = worker[w].pc /\ r.task = worker[w].task
        BY <1>0 DEF Handlers
      <4> QED BY <4>2, <4>3
    <3>4. worker' = [worker EXCEPT ![w] = r]
      BY <3>1 DEF IInv, Shape
    <3> HIDE DEF r
    <3> QED BY <1>8, <2>1, <3>3, <3>4, OneHandler DEF SchedulePings, history
  <2> QED BY <2>2, <2>3
<1>9. CASE Reschedule(w)
  <2>1. Idle.pc = "idle"
    BY DEF Idle
  <2>2. {worker[w].task.ep} \subseteq Endpoints
    BY <1>0 DEF Handlers, TaskRecords
  <2>3. tasks' \subseteq TaskRecords
    BY <1>0, <1>9, <2>2, PingTasksShape DEF Reschedule
  <2> QED BY <1>9, <2>1, <2>3, OneHandler DEF Reschedule, Done, history
<1> QED BY <1>1, <1>2, <1>3, <1>4, <1>5, <1>6, <1>7, <1>8, <1>9

(***************************************************************************)
(* What a push service answers.  A message that was refused for good names *)
(* the endpoint that is replaced or deleted then.                          *)
(***************************************************************************)
LEMMA DeviceStep == ASSUME IInv, NEW w \in Workers, PingDevice(w) PROVE IInv'
<1>0. worker[w] \in Handlers /\ push \in Entities /\ tasks' \subseteq TaskRecords
  BY DEF IInv, Shape, PingDevice
<1> DEFINE e == worker[w].task.ep
           begun(l) == [worker[w] EXCEPT !.pc = l, !.read = push]
           over == [worker[w] EXCEPT !.pc = "resched"]
<1>1. \A l \in {"replace", "delete"} :
        begun(l) \in Handlers /\ begun(l).pc = l /\ begun(l).task = worker[w].task
  BY <1>0 DEF Handlers, PCs
<1>2. \A l \in {"replace", "delete"} : Begin(w, l) => worker' = [worker EXCEPT ![w] = begun(l)]
  BY DEF Begin, IInv, Shape
<1>3. over \in Handlers /\ over.pc = "resched"
  BY <1>0 DEF Handlers, PCs
<1>4. [worker EXCEPT ![w].pc = "resched"] = [worker EXCEPT ![w] = over]
  BY DEF IInv, Shape
<1>5. UNCHANGED <<push, acked>> /\ dead \subseteq dead'
  BY DEF PingDevice, Fault
<1> HIDE DEF over
<1>6. CASE \E l \in {"replace", "delete"} : Begin(w, l) /\ dead' = dead \cup {e}
  <2>1. PICK l \in {"replace", "delete"} : Begin(w, l) /\ dead' = dead \cup {e}
    BY <1>6
  <2>2. begun(l).task.ep \in dead'
    BY <1>1, <2>1
  <2>3. worker' = [worker EXCEPT ![w] = begun(l)] /\ begun(l) \in Handlers /\ begun(l).pc = l
    BY <1>1, <1>2, <2>1
  <2> HIDE DEF begun
  <2> QED BY <1>0, <1>5, <2>2, <2>3, OneHandler
<1>7. CASE Done(w)
  <2>1. Idle.pc = "idle"
    BY DEF Idle
  <2> QED BY <1>0, <1>5, <1>7, <2>1, IdleShape, OneHandler DEF Done
<1>8. CASE worker' = [worker EXCEPT ![w].pc = "resched"]
  BY <1>0, <1>3, <1>4, <1>5, <1>8, OneHandler
<1> QED BY <1>6, <1>7, <1>8 DEF PingDevice

(* A transaction that conflicts reads again, and serves what it served. *)
LEMMA ConflictStep == ASSUME IInv, NEW w \in Workers, Conflict(w) PROVE IInv'
<1>0. worker[w] \in Handlers /\ push \in Entities /\ tasks' \subseteq TaskRecords
  BY DEF IInv, Shape, Conflict
<1> DEFINE r == [worker[w] EXCEPT !.read = push]
<1>1. r \in Handlers /\ r.pc = worker[w].pc /\ r.task = worker[w].task
  BY <1>0 DEF Handlers
<1>2. worker' = [worker EXCEPT ![w] = r]
  BY DEF Conflict, IInv, Shape
<1> HIDE DEF r
<1> QED BY <1>0, <1>1, <1>2, OneHandler DEF Conflict, history

(* The user's request begins: a device registers under its own endpoint. *)
LEMMA RequestStep == ASSUME IInv, NEW w \in Workers, Request(w) PROVE IInv'
<1>0. worker[w] \in Handlers /\ push \in Entities /\ tasks' \subseteq TaskRecords
  BY DEF IInv, Shape, Request
<1>1. ASSUME NEW e \in Endpoints \ {Bare},
             worker' = [worker EXCEPT ![w].pc = "patch", ![w].read = push, ![w].task = [@ EXCEPT !.ep = e]]
      PROVE  IInv'
  <2> DEFINE t == [worker[w].task EXCEPT !.ep = e]
             r == [worker[w] EXCEPT !.pc = "patch", !.read = push, !.task = t]
  <2>1. t \in TaskRecords /\ t.ep # Bare
    BY <1>0 DEF Handlers, TaskRecords
  <2>2. worker' = [worker EXCEPT ![w] = r]
    BY <1>1 DEF IInv, Shape, Handlers
  <2> HIDE DEF t
  <2>3. r \in Handlers /\ r.pc = "patch" /\ r.task.ep # Bare
    BY <1>0, <2>1 DEF Handlers, PCs
  <2> HIDE DEF r
  <2> QED BY <1>0, <2>2, <2>3, OneHandler DEF Request, history
<1>2. CASE worker' = [worker EXCEPT ![w].pc = "disable", ![w].read = push]
  <2> DEFINE r == [worker[w] EXCEPT !.pc = "disable", !.read = push]
  <2>1. r \in Handlers /\ r.pc = "disable"
    BY <1>0 DEF Handlers, PCs
  <2>2. worker' = [worker EXCEPT ![w] = r]
    BY <1>2 DEF IInv, Shape
  <2> HIDE DEF r
  <2> QED BY <1>0, <2>1, <2>2, OneHandler DEF Request, history
<1> QED BY <1>1, <1>2 DEF Request

-----------------------------------------------------------------------------
(* The upgrade of an old entity loses the bare endpoint only. *)
LEMMA UpgradeStep == ASSUME IInv, NEW w \in Workers, UpgradePush(w) PROVE IInv'
<1>0. worker[w] \in Handlers /\ push \in Entities /\ worker[w].read = push
  BY DEF IInv, Shape, UpgradePush, Current
<1>1. push' = push \/ push' = Upgraded(push)
  BY <1>0 DEF UpgradePush
<1>2. push' \in Entities
  BY <1>0, <1>1, UpgradeShape
<1>3. RegistrationKept'
  <2> SUFFICES ASSUME NEW e \in acked \ dead PROVE Has(push', e) \/ e \in push'.subs
    BY DEF UpgradePush, history, RegistrationKept, Has
  <2>1. e \in Endpoints \ {Bare} /\ (Has(push, e) \/ e \in push.subs)
    BY DEF IInv, BareUnknown, RegistrationKept
  <2> QED BY <1>0, <1>1, <2>1, UpgradeKeeps
<1>4. acked' \subseteq Endpoints \ {Bare} /\ UNCHANGED <<tasks, dead>>
  BY DEF UpgradePush, history, IInv, BareUnknown
<1> DEFINE r == [worker[w] EXCEPT !.pc = "match", !.read = push']
<1>5. r \in Handlers /\ r.pc = "match"
  BY <1>0, <1>2 DEF Handlers, PCs
<1>6. worker' = [worker EXCEPT ![w] = r] \/ worker' = [worker EXCEPT ![w] = Idle]
  BY DEF UpgradePush, IInv, Shape
<1>7. Idle.pc = "idle"
  BY DEF Idle
<1> HIDE DEF r
<1> QED BY <1>2, <1>3, <1>4, <1>5, <1>6, <1>7, IdleShape, Committed

(* One occurrence of a reported endpoint goes; nothing else becomes less. *)
LEMMA RemovalStep ==
  ASSUME IInv, NEW w \in Workers, ReplaceEndpoint(w) \/ DeleteEndpoint(w)
  PROVE  IInv'
<1> DEFINE e == worker[w].task.ep
<1>0. worker[w] \in Handlers /\ push \in Entities /\ worker[w].read = push /\ e \in dead
  BY DEF IInv, Shape, RemovesReported, ReplaceEndpoint, DeleteEndpoint, Current
<1>1. e \in Endpoints /\ push.count \in [Endpoints -> Nat]
  BY <1>0 DEF Handlers, TaskRecords, Entities
<1>2. Idle.pc = "idle" /\ worker' = [worker EXCEPT ![w] = Idle] /\ UNCHANGED <<tasks, dead, acked>>
  BY DEF Idle, Done, ReplaceEndpoint, DeleteEndpoint, history
<1>3. ASSUME NEW count \in [Endpoints -> Nat], push' = [push EXCEPT !.count = count],
             \A x \in Endpoints \ {e} : count[x] >= push.count[x]
      PROVE  IInv'
  <2>1. push' \in Entities /\ push'.count = count /\ push'.subs = push.subs
    BY <1>0, <1>3 DEF Entities
  <2>2. RegistrationKept'
    <3> SUFFICES ASSUME NEW x \in acked \ dead PROVE Has(push', x) \/ x \in push'.subs
      BY <1>2 DEF RegistrationKept, Has
    <3>1. x \in Endpoints \ {e} /\ (Has(push, x) \/ x \in push.subs)
      BY <1>0 DEF IInv, BareUnknown, RegistrationKept
    <3>2. count[x] >= push.count[x] /\ count[x] \in Nat /\ push.count[x] \in Nat
      BY <1>1, <1>3, <3>1
    <3> QED BY <2>1, <3>1, <3>2 DEF Has
  <2>3. acked' \subseteq Endpoints \ {Bare}
    BY <1>2 DEF IInv, BareUnknown
  <2> QED BY <1>2, <2>1, <2>2, <2>3, IdleShape, Committed
<1>4. CASE push' = push
  BY <1>0, <1>1, <1>3, <1>4 DEF Entities
<1>5. CASE DeleteEndpoint(w) /\ Has(push, e)
  <2> DEFINE count == [push.count EXCEPT ![e] = @ - 1]
  <2>1. count \in [Endpoints -> Nat] /\ \A x \in Endpoints \ {e} : count[x] >= push.count[x]
    BY <1>1, <1>5 DEF Has
  <2>2. push' = [push EXCEPT !.count = count]
    BY <1>0, <1>5 DEF DeleteEndpoint, Entities
  <2> HIDE DEF count
  <2> QED BY <1>3, <2>1, <2>2
<1>6. CASE ReplaceEndpoint(w) /\ Has(push, e)
  <2> DEFINE c == Canonical[e]
             less == [push.count EXCEPT ![e] = @ - 1]
             count == [less EXCEPT ![c] = @ + 1]
  <2>1. less \in [Endpoints -> Nat] /\ \A x \in Endpoints \ {e} : less[x] = push.count[x]
    BY <1>1, <1>6 DEF Has
  <2>2. push' = [push EXCEPT !.count = count]
    BY <1>0, <1>6 DEF ReplaceEndpoint
  <2> HIDE DEF less, c
  <2>3. count \in [Endpoints -> Nat] /\ \A x \in Endpoints \ {e} : count[x] >= push.count[x]
    <3>1. \A x \in Endpoints : count[x] = IF x = c THEN less[x] + 1 ELSE less[x]
      BY <2>1
    <3>2. count \in [Endpoints -> Nat]
      <4>1. count = [x \in Endpoints |-> IF x = c THEN less[x] + 1 ELSE less[x]]
        BY <2>1
      <4>2. \A x \in Endpoints : less[x] \in Nat
        BY <2>1
      <4> HIDE DEF count
      <4> QED BY <4>1, <4>2
    <3> QED BY <1>1, <2>1, <3>1, <3>2
  <2> HIDE DEF count
  <2> QED BY <1>3, <2>2, <2>3
<1> QED BY <1>0, <1>4, <1>5, <1>6 DEF ReplaceEndpoint, DeleteEndpoint

(* The user's change: an endpoint is added unless it is there. *)
LEMMA PatchStep == ASSUME IInv, NEW w \in Workers, Patch(w) PROVE IInv'
<1> DEFINE e == worker[w].task.ep
<1>0. worker[w] \in Handlers /\ push \in Entities /\ worker[w].read = push
  BY DEF IInv, Shape, Patch, Current
<1>1. e \in Endpoints /\ push.count \in [Endpoints -> Nat]
  BY <1>0 DEF Handlers, TaskRecords, Entities
<1>2. Idle.pc = "idle" /\ worker' = [worker EXCEPT ![w] = Idle] /\ UNCHANGED <<tasks, dead>>
  BY DEF Idle, Done, Patch
<1>3. CASE worker[w].pc = "patch"
  <2> DEFINE count == [push.count EXCEPT ![e] = IF Has(push, e) THEN @ ELSE @ + 1]
  <2>1. count \in [Endpoints -> Nat] /\ count[e] > 0
        /\ \A x \in Endpoints : count[x] >= push.count[x]
    BY <1>1 DEF Has
  <2>2. push' = [push EXCEPT !.enabled = TRUE, !.count = count] /\ acked' = acked \cup {e}
    BY <1>0, <1>3 DEF Patch, Entities
  <2> HIDE DEF count
  <2>3. push' \in Entities /\ push'.count = count /\ push'.subs = push.subs
    BY <1>0, <2>1, <2>2 DEF Entities
  <2>4. acked' \subseteq Endpoints \ {Bare}
    BY <1>1, <1>3, <2>2 DEF IInv, BareUnknown
  <2>5. RegistrationKept'
    <3> SUFFICES ASSUME NEW x \in acked' \ dead' PROVE Has(push', x) \/ x \in push'.subs
      BY DEF RegistrationKept, Has
    <3>1. CASE x = e
      BY <2>1, <2>3, <3>1 DEF Has
    <3>2. CASE x # e
      <4>1. x \in acked \ dead /\ x \in Endpoints
        BY <1>2, <2>2, <2>4, <3>2
      <4>2. count[x] >= push.count[x] /\ count[x] \in Nat /\ push.count[x] \in Nat
        BY <1>1, <2>1, <4>1
      <4> QED BY <2>3, <4>1, <4>2 DEF IInv, RegistrationKept, Has
    <3> QED BY <3>1, <3>2
  <2> QED BY <1>2, <2>3, <2>4, <2>5, IdleShape, Committed
<1>4. CASE worker[w].pc = "disable"
  <2>1. push' = [push EXCEPT !.enabled = FALSE] /\ acked' = acked
    BY <1>0, <1>4 DEF Patch
  <2>2. push' \in Entities /\ push'.count = push.count /\ push'.subs = push.subs
    BY <1>0, <2>1 DEF Entities
  <2>3. RegistrationKept' /\ acked' \subseteq Endpoints \ {Bare}
    BY <1>2, <2>1, <2>2 DEF IInv, BareUnknown, RegistrationKept, Has
  <2> QED BY <1>2, <2>2, <2>3, IdleShape, Committed
<1> QED BY <1>3, <1>4 DEF Patch

-----------------------------------------------------------------------------
(* Every step keeps the invariant. *)
LEMMA NextInv == IInv /\ [Next]_vars => IInv'
<1> SUFFICES ASSUME IInv, [Next]_vars PROVE IInv'
  OBVIOUS
<1>0. tasks \subseteq TaskRecords
  BY DEF IInv, Shape
<1>1. CASE Change
  <2>1. tasks' \subseteq TaskRecords
    BY <1>0, <1>1, PipelineAssumption DEF Change, TaskRecords, Kinds, NoEndpoint
  <2> QED BY <1>1, <2>1, NoHandler DEF Change, history
<1>2. CASE Index
  BY <1>0, <1>2, NoHandler DEF Index, history
<1>3. ASSUME NEW e \in Endpoints, Move(e) PROVE IInv'
  BY <1>0, <1>3, NoHandler DEF Move, history
<1>4. ASSUME NEW w \in Workers, Start(w) \/ Serve(w) \/ Again(w) \/ GivesUpChange(w) \/ Request(w)
      PROVE  IInv'
  BY <1>4, TaskStep, DeviceStep, ConflictStep, RequestStep, UpgradeStep, RemovalStep, PatchStep
     DEF Serve
<1>5. CASE UNCHANGED vars
  BY <1>0, <1>5, NoHandler DEF vars, history
<1> QED BY <1>1, <1>2, <1>3, <1>4, <1>5 DEF Next, Quiescent

(***************************************************************************)
(* No late or repeated task, and no request that overlaps another, removes *)
(* a registration that the user was told of and that no push service has   *)
(* called invalid.                                                         *)
(***************************************************************************)
THEOREM RegistrationsAreKept == Spec => []RegistrationKept
<1>1. IInv => RegistrationKept
  BY DEF IInv
<1> QED BY <1>1, InitInv, NextInv, PTL DEF Spec

-----------------------------------------------------------------------------
(* The refinement                                                          *)

(***************************************************************************)
(* Two more facts are needed: the bare endpoint, which belongs to no       *)
(* device, is never replaced by a device's, since to the push service it   *)
(* is invalid from the beginning; and only a ping is scheduled again.      *)
(***************************************************************************)
Services ==
    /\ service \in [Endpoints -> {"live", "moved", "gone", "barred"}]
    /\ service[Bare] = "gone"

ReplacesDevices ==
    \A w \in Workers : /\ worker[w].pc = "replace" => worker[w].task.ep # Bare
                       /\ worker[w].pc = "resched" => worker[w].task.kind = "device"

RInv == IInv /\ Services /\ ReplacesDevices

(* A handler goes elsewhere, or goes on with its task. *)
LEMMA ReplacesKept ==
  ASSUME RInv, NEW w \in Workers, NEW r \in Handlers, worker' = [worker EXCEPT ![w] = r],
         UNCHANGED service,
         \/ r.pc \notin {"replace", "resched"}
         \/ r.pc = worker[w].pc /\ r.task = worker[w].task
         \/ r.pc = "replace" /\ r.task.ep # Bare
         \/ r.pc = "resched" /\ r.task.kind = "device"
  PROVE  (Services /\ ReplacesDevices)'
<1>1. worker \in [Workers -> Handlers]
  BY DEF RInv, IInv, Shape
<1>2. worker'[w] = r /\ \A v \in Workers \ {w} : worker'[v] = worker[v]
  BY <1>1
<1>3. Services'
  BY DEF RInv, Services
<1>4. ReplacesDevices'
  BY <1>2 DEF RInv, ReplacesDevices
<1> QED BY <1>3, <1>4

-----------------------------------------------------------------------------
(* What the parts of Due are.                                              *)

LEMMA QueuedUnion == \A A, B : Queued(A \cup B) = Queued(A) \cup Queued(B)
BY DEF Queued

LEMMA QueuedLess == \A A, B : A \subseteq B => Queued(A) \subseteq Queued(B)
BY DEF Queued

LEMMA QueuedPings == \A eps \in SUBSET Endpoints : Queued(PingTasks(eps)) = eps
<1> SUFFICES ASSUME NEW eps \in SUBSET Endpoints PROVE Queued(PingTasks(eps)) = eps
  OBVIOUS
<1>1. ASSUME NEW t \in PingTasks(eps) PROVE t.ep \in eps
  BY DEF PingTasks
<1>2. ASSUME NEW e \in eps PROVE \E t \in PingTasks(eps) : t.kind = "device" /\ t.ep = e
  <2>1. [kind |-> "device", ep |-> e, n |-> 0] \in PingTasks(eps)
    BY DEF PingTasks
  <2> QED BY <2>1
<1> QED BY <1>1, <1>2 DEF Queued

LEMMA QueuedOthers == \A t : t.kind # "device" => Queued({t}) = {}
BY DEF Queued

LEMMA IdleReaches == Reaching(Idle) = {}
BY DEF Reaching, Idle

\* What the other requests may lead to.
OthersReach(w) == {e \in Endpoints : \E v \in Workers \ {w} : e \in Reaching(worker[v])}

LEMMA DueBefore ==
  ASSUME NEW w \in Workers
  PROVE  Due = (Queued(tasks) \cup Reaching(worker[w]) \cup OthersReach(w)) \ {Bare}
<1>1. ASSUME NEW e \in Endpoints
      PROVE  (\E v \in Workers : e \in Reaching(worker[v]))
                <=> (e \in Reaching(worker[w]) \/ e \in OthersReach(w))
  BY DEF OthersReach
<1>2. Reaching(worker[w]) \subseteq Endpoints /\ Queued(tasks) \subseteq Endpoints
  BY DEF Reaching, Queued
<1>3. OthersReach(w) \subseteq Endpoints
  BY DEF OthersReach
<1> QED BY <1>1, <1>2, <1>3 DEF Due

LEMMA DueAfter ==
  ASSUME Shape, NEW w \in Workers, NEW r, worker' = [worker EXCEPT ![w] = r]
  PROVE  Due' = (Queued(tasks') \cup Reaching(r) \cup OthersReach(w)) \ {Bare}
<1>1. worker'[w] = r /\ \A v \in Workers \ {w} : worker'[v] = worker[v]
  BY DEF Shape
<1>2. ASSUME NEW e \in Endpoints
      PROVE  (\E v \in Workers : e \in Reaching(worker'[v]))
                <=> (e \in Reaching(r) \/ e \in OthersReach(w))
  BY <1>1 DEF OthersReach
<1>3. Reaching(r) \subseteq Endpoints /\ Queued(tasks') \subseteq Endpoints
  BY DEF Reaching, Queued
<1>4. OthersReach(w) \subseteq Endpoints
  BY DEF OthersReach
<1>5. Due' = {e \in Endpoints \ {Bare} :
                 e \in Queued(tasks') \/ \E v \in Workers : e \in Reaching(worker'[v])}
  BY DEF Due, Queued, Reaching, Has
<1> QED BY <1>2, <1>3, <1>4, <1>5

(* Nothing but fewer devices to reach: the abstract pipeline settles. *)
LEMMA Settles ==
  ASSUME UNCHANGED <<push, acked, dead, pinged>>, Due' \subseteq Due
  PROVE  Impl!Next
<1>1. Registered' = Registered
  BY DEF Registered, Has
<1> QED BY <1>1 DEF Impl!Next, Impl!Settle

(* The common case: one handler changes, and what it or the tasks may     *)
(* reach was to be reached before.                                        *)
LEMMA HandlerSettles ==
  ASSUME RInv, NEW w \in Workers, NEW r, worker' = [worker EXCEPT ![w] = r],
         UNCHANGED <<push, acked, dead, pinged>>,
         Queued(tasks') \subseteq Queued(tasks) \cup Reaching(worker[w]),
         Reaching(r) \subseteq Queued(tasks) \cup Reaching(worker[w])
  PROVE  Impl!Next
<1>1. Shape
  BY DEF RInv, IInv
<1>2. Due = (Queued(tasks) \cup Reaching(worker[w]) \cup OthersReach(w)) \ {Bare}
  BY DueBefore
<1>3. Due' = (Queued(tasks') \cup Reaching(r) \cup OthersReach(w)) \ {Bare}
  BY <1>1, DueAfter
<1>4. Due' \subseteq Due
  BY <1>2, <1>3
<1> QED BY <1>4, Settles

(* Both: the step is one of the abstract pipeline, and keeps the facts.   *)
LEMMA HandlerRefines ==
  ASSUME RInv, NEW w \in Workers, NEW r \in Handlers, worker' = [worker EXCEPT ![w] = r],
         UNCHANGED <<push, acked, dead, pinged, service>>,
         \/ r.pc \notin {"replace", "resched"}
         \/ r.pc = worker[w].pc /\ r.task = worker[w].task,
         Queued(tasks') \subseteq Queued(tasks) \cup Reaching(worker[w]),
         Reaching(r) \subseteq Queued(tasks) \cup Reaching(worker[w])
  PROVE  Impl!Next /\ (Services /\ ReplacesDevices)'
BY HandlerSettles, ReplacesKept

LEMMA DoneRefines ==
  ASSUME RInv, NEW w \in Workers, Done(w), UNCHANGED <<push, acked, dead, pinged, service>>,
         Queued(tasks') \subseteq Queued(tasks) \cup Reaching(worker[w])
  PROVE  Impl!Next /\ (Services /\ ReplacesDevices)'
<1>1. Idle.pc = "idle"
  BY DEF Idle
<1> QED BY <1>1, IdleShape, IdleReaches, HandlerRefines DEF Done

(* The tasks that schedule and start others reach nobody new. *)
LEMMA TaskRefines ==
  ASSUME RInv, NEW w \in Workers,
         \/ Start(w) \/ GiveUp(w) \/ Again(w) \/ GivesUpChange(w) \/ NotifySubscribers(w)
         \/ BeginPingUser(w) \/ MatchBookmarks(w) \/ SchedulePings(w) \/ Reschedule(w)
  PROVE  Impl!Next /\ (Services /\ ReplacesDevices)'
<1> USE IdleShape, PipelineAssumption
<1>0. /\ worker[w] \in Handlers /\ push \in Entities /\ tasks \subseteq TaskRecords
      /\ worker \in [Workers -> Handlers]
  BY DEF RInv, IInv, Shape
<1>1. CASE Start(w)
  <2>1. PICK t \in tasks : Take(w, t)
    BY <1>1 DEF Start
  <2> DEFINE u == [t EXCEPT !.n = @ + 1]
             r == [Idle EXCEPT !.pc = "task", !.task = u]
  <2>2. u \in TaskRecords /\ u.kind = t.kind /\ u.ep = t.ep
    BY <1>0, <2>1 DEF TaskRecords
  <2>3. worker' = [worker EXCEPT ![w] = r]
    BY <2>1 DEF Take
  <2> HIDE DEF u
  <2>4. r \in Handlers /\ r.pc = "task" /\ r.task = u
    BY <2>2 DEF Handlers, PCs, Idle
  <2> HIDE DEF r
  <2>5. Reaching(r) \subseteq Queued(tasks)
    BY <2>1, <2>2, <2>4 DEF Reaching, Queued
  <2>6. Queued(tasks') \subseteq Queued(tasks)
    BY <2>1, QueuedLess DEF Take
  <2> QED BY <2>1, <2>3, <2>4, <2>5, <2>6, HandlerRefines DEF Take, history
<1>2. CASE GiveUp(w)
  BY <1>2, DoneRefines DEF GiveUp
<1>3. CASE Again(w)
  <2>1. Queued({worker[w].task}) \subseteq Reaching(worker[w])
    BY <1>3 DEF Again, Queued, Reaching
  <2>2. Queued(tasks') \subseteq Queued(tasks) \cup Reaching(worker[w])
    BY <1>3, <2>1, QueuedUnion DEF Again
  <2>3. CASE Done(w)
    BY <1>3, <2>2, <2>3, DoneRefines DEF Again, history
  <2>4. CASE UNCHANGED worker
    BY <1>0, <1>3, <2>2, <2>4, HandlerRefines DEF Again, history
  <2> QED BY <1>3, <2>3, <2>4 DEF Again
<1>4. CASE GivesUpChange(w)
  BY <1>4, DoneRefines DEF GivesUpChange, history
<1>5. CASE NotifySubscribers(w)
  <2>1. Queued({[kind |-> "user", ep |-> NoEndpoint, n |-> 0]}) = {}
    BY QueuedOthers
  <2>2. Queued(tasks') \subseteq Queued(tasks)
    BY <1>5, <2>1, QueuedUnion DEF NotifySubscribers
  <2> QED BY <1>5, <2>2, DoneRefines DEF NotifySubscribers, history
<1>6. CASE BeginPingUser(w)
  <2> DEFINE r == [worker[w] EXCEPT !.pc = "upgrade", !.read = push]
  <2>1. r \in Handlers /\ r.pc = "upgrade" /\ r.task = worker[w].task
    BY <1>0 DEF Handlers, PCs
  <2>2. worker' = [worker EXCEPT ![w] = r]
    BY <1>0, <1>6 DEF BeginPingUser, Begin
  <2> HIDE DEF r
  <2>3. Reaching(r) \subseteq Reaching(worker[w])
    BY <1>6, <2>1 DEF BeginPingUser, Serves, Reaching
  <2> QED BY <1>6, <2>1, <2>2, <2>3, HandlerRefines DEF BeginPingUser, history
<1>7. CASE MatchBookmarks(w)
  <2>1. CASE Done(w)
    BY <1>7, <2>1, DoneRefines DEF MatchBookmarks
  <2>2. CASE ~Done(w)
    <3> DEFINE eps == {e \in Endpoints : Has(worker[w].read, e)}
               r == [worker[w] EXCEPT !.pc = "schedule", !.todo = eps]
    <3>1. r \in Handlers /\ r.pc = "schedule" /\ r.task = worker[w].task /\ r.todo = eps
      BY <1>0 DEF Handlers, PCs
    <3>2. worker' = [worker EXCEPT ![w] = r]
      BY <1>0, <1>7, <2>2 DEF MatchBookmarks
    <3> HIDE DEF r
    <3>3. Reaching(r) \subseteq Reaching(worker[w])
      BY <1>7, <3>1 DEF MatchBookmarks, Reaching
    <3> QED BY <1>7, <3>1, <3>2, <3>3, HandlerRefines DEF MatchBookmarks
  <2> QED BY <2>1, <2>2
<1>8. CASE SchedulePings(w)
  <2>0. worker[w].todo \subseteq Endpoints /\ worker[w].todo \subseteq Reaching(worker[w])
    BY <1>0, <1>8 DEF SchedulePings, Handlers, Reaching
  <2>1. \A eps \in SUBSET worker[w].todo :
           Queued(tasks \cup PingTasks(eps)) \subseteq Queued(tasks) \cup Reaching(worker[w])
    BY <2>0, QueuedUnion, QueuedPings
  <2>2. Queued(tasks') \subseteq Queued(tasks) \cup Reaching(worker[w])
    BY <1>8, <2>1 DEF SchedulePings
  <2>3. CASE Done(w)
    BY <1>8, <2>2, <2>3, DoneRefines DEF SchedulePings, history
  <2>4. CASE ~Done(w)
    <3>0. PICK failed \in SUBSET worker[w].todo : \E rest \in Returned(failed) :
             worker' = [worker EXCEPT ![w].todo = rest, ![w].tries = @ + 1]
      BY <1>8, <2>4 DEF SchedulePings, Done
    <3>1. PICK rest \in Returned(failed) :
             worker' = [worker EXCEPT ![w].todo = rest, ![w].tries = @ + 1]
      BY <3>0
    <3> DEFINE r == [worker[w] EXCEPT !.todo = rest, !.tries = @ + 1]
    <3>2. rest \subseteq worker[w].todo /\ worker[w].tries + 1 \in Nat
      BY <1>0, <3>1 DEF Returned, Handlers
    <3>3. r \in Handlers
      BY <1>0, <3>2, <2>0 DEF Handlers
    <3>4. r.pc = worker[w].pc /\ r.task = worker[w].task /\ r.todo = rest /\ r.read = worker[w].read
      BY <1>0 DEF Handlers
    <3>5. worker' = [worker EXCEPT ![w] = r]
      BY <1>0, <3>1
    <3> HIDE DEF r
    <3>6. Reaching(r) \subseteq Reaching(worker[w])
      BY <3>2, <3>4 DEF Reaching
    <3> QED BY <1>8, <2>2, <3>3, <3>4, <3>5, <3>6, HandlerRefines DEF SchedulePings, history
  <2> QED BY <2>3, <2>4
<1>9. CASE Reschedule(w)
  <2>1. worker[w].task.ep \in Endpoints /\ worker[w].task.kind = "device"
    BY <1>0, <1>9 DEF Handlers, TaskRecords, Reschedule, RInv, ReplacesDevices
  <2>2. {worker[w].task.ep} \subseteq Reaching(worker[w])
    BY <1>9, <2>1 DEF Reschedule, Reaching
  <2>3. Queued(tasks') \subseteq Queued(tasks) \cup Reaching(worker[w])
    BY <1>9, <2>1, <2>2, QueuedUnion, QueuedPings DEF Reschedule
  <2> QED BY <1>9, <2>3, DoneRefines DEF Reschedule, history
<1> QED BY <1>1, <1>2, <1>3, <1>4, <1>5, <1>6, <1>7, <1>8, <1>9

(* A transaction that conflicts reads again; a request of the user begins. *)
LEMMA ReadRefines ==
  ASSUME RInv, NEW w \in Workers, Conflict(w) \/ Request(w)
  PROVE  Impl!Next /\ (Services /\ ReplacesDevices)'
<1>0. /\ worker[w] \in Handlers /\ push \in Entities
      /\ worker \in [Workers -> Handlers]
  BY DEF RInv, IInv, Shape
<1>1. ASSUME NEW r \in Handlers, worker' = [worker EXCEPT ![w] = r], r.pc \notin {"match", "schedule"},
             \/ r.pc = worker[w].pc /\ r.task = worker[w].task
             \/ r.pc \in {"patch", "disable"}
      PROVE  Impl!Next /\ (Services /\ ReplacesDevices)'
  <2>1. Reaching(r) \subseteq Reaching(worker[w])
    BY <1>1 DEF Reaching
  <2> QED BY <1>1, <2>1, HandlerRefines DEF Conflict, Request, history
<1>2. CASE Conflict(w)
  <2> DEFINE r == [worker[w] EXCEPT !.read = push]
  <2>1. r \in Handlers /\ r.pc = worker[w].pc /\ r.task = worker[w].task
    BY <1>0 DEF Handlers
  <2>2. worker' = [worker EXCEPT ![w] = r]
    BY <1>0, <1>2 DEF Conflict
  <2> HIDE DEF r
  <2> QED BY <1>1, <1>2, <2>1, <2>2 DEF Conflict
<1>3. ASSUME NEW e \in Endpoints \ {Bare},
             worker' = [worker EXCEPT ![w].pc = "patch", ![w].read = push, ![w].task = [@ EXCEPT !.ep = e]]
      PROVE  Impl!Next /\ (Services /\ ReplacesDevices)'
  <2> DEFINE t == [worker[w].task EXCEPT !.ep = e]
             r == [worker[w] EXCEPT !.pc = "patch", !.read = push, !.task = t]
  <2>1. t \in TaskRecords
    BY <1>0 DEF Handlers, TaskRecords
  <2>2. worker' = [worker EXCEPT ![w] = r]
    BY <1>0, <1>3 DEF Handlers
  <2> HIDE DEF t
  <2>3. r \in Handlers /\ r.pc = "patch"
    BY <1>0, <2>1 DEF Handlers, PCs
  <2> HIDE DEF r
  <2> QED BY <1>1, <2>2, <2>3
<1>4. CASE worker' = [worker EXCEPT ![w].pc = "disable", ![w].read = push]
  <2> DEFINE r == [worker[w] EXCEPT !.pc = "disable", !.read = push]
  <2>1. r \in Handlers /\ r.pc = "disable"
    BY <1>0 DEF Handlers, PCs
  <2>2. worker' = [worker EXCEPT ![w] = r]
    BY <1>0, <1>4
  <2> HIDE DEF r
  <2> QED BY <1>1, <2>1, <2>2
<1> QED BY <1>2, <1>3, <1>4 DEF Request

(* A message is handed to a push service, which answers. *)
LEMMA DeviceRefines ==
  ASSUME RInv, NEW w \in Workers, PingDevice(w)
  PROVE  Impl!Next /\ (Services /\ ReplacesDevices)'
<1> DEFINE e == worker[w].task.ep
           begun(l) == [worker[w] EXCEPT !.pc = l, !.read = push]
           over == [worker[w] EXCEPT !.pc = "resched"]
<1>0. /\ worker[w] \in Handlers /\ push \in Entities /\ e \in Endpoints
      /\ worker \in [Workers -> Handlers] /\ Shape
  BY DEF RInv, IInv, Shape, Handlers, TaskRecords
<1>1. worker[w].pc = "task" /\ worker[w].task.kind = "device"
  BY DEF PingDevice, Serves
<1>2. Reaching(worker[w]) = {e}
  BY <1>0, <1>1 DEF Reaching
<1>3. UNCHANGED <<push, tasks, acked, service>> /\ pinged' \in {pinged, pinged \cup {e}}
      /\ dead' \in {dead, dead \cup {e}}
  BY DEF PingDevice, Fault
<1>4. ASSUME NEW r \in Handlers, worker' = [worker EXCEPT ![w] = r], Reaching(r) \in {{}, {e}},
             \/ r.pc \notin {"replace", "resched"}
             \/ r.pc = "replace" /\ r.task.ep # Bare
             \/ r.pc = "resched" /\ r.task.kind = "device"
      PROVE  Impl!Next /\ (Services /\ ReplacesDevices)'
  <2>1. (Services /\ ReplacesDevices)'
    BY <1>3, <1>4, ReplacesKept
  <2>2. Registered' = Registered
    BY <1>3 DEF Registered, Has
  <2>3. Due = (Queued(tasks) \cup {e} \cup OthersReach(w)) \ {Bare}
    BY <1>2, DueBefore
  <2>4. Due' = (Queued(tasks) \cup Reaching(r) \cup OthersReach(w)) \ {Bare}
    BY <1>0, <1>3, <1>4, DueAfter
  <2>5. Due' \in {Due, Due \ {e}}
    <3>1. CASE Reaching(r) = {e}
      BY <2>3, <2>4, <3>1
    <3>2. CASE Reaching(r) = {}
      BY <2>3, <2>4, <3>2
    <3> QED BY <1>4, <3>1, <3>2
  <2>6. CASE e = Bare
    <3>1. dead' \ {Bare} = dead \ {Bare} /\ pinged' \ {Bare} = pinged \ {Bare} /\ Due' \subseteq Due
      BY <1>3, <2>5, <2>6
    <3> QED BY <1>3, <2>1, <2>2, <3>1 DEF Impl!Next, Impl!Settle
  <2>7. CASE e # Bare
    <3>1. e \in Due
      BY <1>0, <2>3, <2>7
    <3>2. (dead' \ {Bare}) \in {dead \ {Bare}, (dead \ {Bare}) \cup {e}}
      BY <1>3, <2>7
    <3>3. (pinged' \ {Bare}) \in {pinged \ {Bare}, (pinged \ {Bare}) \cup {e}}
      BY <1>3, <2>7
    <3>4. Impl!Ping(e)
      BY <1>3, <2>2, <2>5, <3>1, <3>2, <3>3 DEF Impl!Ping
    <3> QED BY <1>0, <2>1, <2>7, <3>4 DEF Impl!Next
  <2> QED BY <2>6, <2>7
<1>5. CASE Done(w)
  <2>1. Idle.pc = "idle"
    BY DEF Idle
  <2> QED BY <1>4, <1>5, <2>1, IdleShape, IdleReaches DEF Done
<1>6. ASSUME NEW l \in {"replace", "delete"}, Begin(w, l), l = "replace" => e # Bare
      PROVE  Impl!Next /\ (Services /\ ReplacesDevices)'
  <2> DEFINE r == begun(l)
  <2>1. r \in Handlers /\ r.pc = l /\ r.task = worker[w].task
    BY <1>0 DEF Handlers, PCs
  <2>2. worker' = [worker EXCEPT ![w] = r]
    BY <1>0, <1>6 DEF Begin
  <2> HIDE DEF begun, r
  <2>3. Reaching(r) = {e}
    BY <1>0, <1>1, <2>1 DEF Reaching
  <2> QED BY <1>4, <1>6, <2>1, <2>2, <2>3
<1>7. CASE worker' = [worker EXCEPT ![w].pc = "resched"]
  <2>1. over \in Handlers /\ over.pc = "resched" /\ over.task = worker[w].task
    BY <1>0 DEF Handlers, PCs
  <2>2. worker' = [worker EXCEPT ![w] = over]
    BY <1>0, <1>7
  <2> HIDE DEF over
  <2>3. Reaching(over) = {e}
    BY <1>0, <1>1, <2>1 DEF Reaching
  <2> QED BY <1>1, <1>4, <2>1, <2>2, <2>3
<1>8. service[e] = "moved" => e # Bare
  BY DEF RInv, Services
<1> QED BY <1>5, <1>6, <1>7, <1>8 DEF PingDevice

(* The commit of the upgrade is the instant of the announcement. *)
LEMMA UpgradeRefines ==
  ASSUME RInv, NEW w \in Workers, UpgradePush(w)
  PROVE  Impl!Next /\ (Services /\ ReplacesDevices)'
<1>0. /\ worker[w] \in Handlers /\ push \in Entities /\ worker[w].read = push
      /\ worker \in [Workers -> Handlers] /\ Shape
  BY DEF RInv, IInv, Shape, UpgradePush, Current
<1>1. push' = IF push.subs = {} THEN push ELSE Upgraded(push)
  BY <1>0 DEF UpgradePush
<1>2. push' \in Entities
  BY <1>0, <1>1, UpgradeShape
<1>3. /\ push'.enabled = push.enabled /\ push'.subs = {}
      /\ \A x \in Endpoints \ {Bare} : Has(push', x) <=> (Has(push, x) \/ x \in push.subs)
  <2>1. CASE push.subs = {}
    BY <1>1, <2>1 DEF Has
  <2>2. CASE push.subs # {}
    <3> DEFINE count == [x \in Endpoints |->
                           IF x = Bare THEN (IF push.count[x] > 1 THEN 1 ELSE 0)
                           ELSE IF push.count[x] > 0 \/ x \in push.subs THEN 1 ELSE 0]
    <3>1. push' = [push EXCEPT !.subs = {}, !.count = count]
      BY <1>1, <2>2 DEF Upgraded
    <3>2. \A x \in Endpoints \ {Bare} : count[x] > 0 <=> (push.count[x] > 0 \/ x \in push.subs)
      OBVIOUS
    <3> HIDE DEF count
    <3>3. push'.enabled = push.enabled /\ push'.subs = {} /\ push'.count = count
      BY <1>0, <3>1 DEF Entities
    <3> QED BY <3>2, <3>3 DEF Has
  <2> QED BY <2>1, <2>2
<1>4. Registered' = Registered
  BY <1>3 DEF Registered, Has
<1>5. UNCHANGED <<tasks, service, acked, dead, pinged>> /\ worker[w].pc = "upgrade"
  BY DEF UpgradePush, history
<1>6. CASE push'.enabled
  <2> DEFINE r == [worker[w] EXCEPT !.pc = "match", !.read = push']
  <2>1. r \in Handlers /\ r.pc = "match" /\ r.task = worker[w].task /\ r.read = push'
    BY <1>0, <1>2 DEF Handlers, PCs
  <2>2. worker' = [worker EXCEPT ![w] = r]
    BY <1>0, <1>6 DEF UpgradePush
  <2> HIDE DEF r
  <2>3. \A x \in Endpoints \ {Bare} :
           x \in Reaching(r) <=> (x \in Reaching(worker[w]) \/ x \in Registered)
    BY <1>3, <1>5, <2>1 DEF Reaching, Registered
  <2>4. Due' = (Queued(tasks') \cup Reaching(r) \cup OthersReach(w)) \ {Bare}
    BY <1>0, <2>2, DueAfter
  <2>5. Due = (Queued(tasks) \cup Reaching(worker[w]) \cup OthersReach(w)) \ {Bare}
    BY DueBefore
  <2>6. Registered \subseteq Endpoints \ {Bare} /\ Reaching(r) \subseteq Endpoints
        /\ Reaching(worker[w]) \subseteq Endpoints
    BY DEF Registered, Reaching
  <2>7. Due' = Due \cup Registered
    BY <1>5, <2>3, <2>4, <2>5, <2>6
  <2>8. Impl!Announce
    BY <1>3, <1>4, <1>5, <1>6, <2>7 DEF Impl!Announce
  <2>9. (Services /\ ReplacesDevices)'
    BY <1>5, <2>1, <2>2, ReplacesKept
  <2> QED BY <2>8, <2>9 DEF Impl!Next
<1>7. CASE ~push'.enabled
  <2>1. worker' = [worker EXCEPT ![w] = Idle] /\ Idle.pc = "idle"
    BY <1>7 DEF UpgradePush, Idle
  <2>2. Due' = (Queued(tasks') \cup Reaching(Idle) \cup OthersReach(w)) \ {Bare}
    BY <1>0, <2>1, DueAfter
  <2>3. Due = (Queued(tasks) \cup Reaching(worker[w]) \cup OthersReach(w)) \ {Bare}
    BY DueBefore
  <2>4. Due' \subseteq Due
    BY <1>5, <2>2, <2>3, IdleReaches
  <2>5. (Services /\ ReplacesDevices)'
    BY <1>5, <2>1, IdleShape, ReplacesKept
  <2> QED BY <1>3, <1>4, <1>5, <2>4, <2>5 DEF Impl!Next, Impl!Settle
<1> QED BY <1>6, <1>7

(* A device that was reported is taken off, or becomes another one. *)
LEMMA RemovalRefines ==
  ASSUME RInv, NEW w \in Workers, ReplaceEndpoint(w) \/ DeleteEndpoint(w)
  PROVE  Impl!Next /\ (Services /\ ReplacesDevices)'
<1> DEFINE e == worker[w].task.ep
<1>0. /\ worker[w] \in Handlers /\ push \in Entities /\ worker[w].read = push /\ e \in dead
      /\ worker \in [Workers -> Handlers] /\ Shape
  BY DEF RInv, IInv, Shape, RemovesReported, ReplaceEndpoint, DeleteEndpoint, Current
<1>1. e \in Endpoints /\ push.count \in [Endpoints -> Nat]
  BY <1>0 DEF Handlers, TaskRecords, Entities
<1>2. /\ Idle.pc = "idle" /\ worker' = [worker EXCEPT ![w] = Idle]
      /\ UNCHANGED <<tasks, service, dead, acked, pinged>>
      /\ worker[w].pc \in {"replace", "delete"}
  BY DEF Idle, Done, ReplaceEndpoint, DeleteEndpoint, history
<1>3. (Services /\ ReplacesDevices)'
  BY <1>2, IdleShape, ReplacesKept
<1>4. Due' \in {Due, Due \ {e}}
  <2>1. Due' = (Queued(tasks') \cup Reaching(Idle) \cup OthersReach(w)) \ {Bare}
    BY <1>0, <1>2, DueAfter
  <2>2. Due = (Queued(tasks) \cup Reaching(worker[w]) \cup OthersReach(w)) \ {Bare}
    BY DueBefore
  <2>3. Reaching(worker[w]) \subseteq {e}
    BY <1>2 DEF Reaching
  <2>4. Due' \subseteq Due /\ Due \ {e} \subseteq Due'
    BY <1>2, <2>1, <2>2, <2>3, IdleReaches
  <2> QED BY <2>4
<1>5. ASSUME push'.enabled = push.enabled, Registered' = Registered PROVE Impl!Next
  BY <1>2, <1>4, <1>5 DEF Impl!Next, Impl!Settle
<1>6. CASE push' = push
  BY <1>3, <1>5, <1>6 DEF Registered, Has
<1>7. ASSUME Has(push, e), e # Bare, push'.enabled = push.enabled,
             \/ Registered' = Registered \ {e}
             \/ Registered' \in {s \cup {Canonical[e]} : s \in {Registered, Registered \ {e}}}
      PROVE  Impl!Next
  <2>1. e \in Registered \cap (dead \ {Bare})
    BY <1>0, <1>1, <1>7 DEF Registered
  <2>2. Impl!TakeOff(e)
    BY <1>2, <1>4, <1>7, <2>1 DEF Impl!TakeOff
  <2> QED BY <1>1, <1>7, <2>2 DEF Impl!Next
<1>8. CASE DeleteEndpoint(w) /\ Has(push, e)
  <2> DEFINE count == [push.count EXCEPT ![e] = @ - 1]
  <2>1. \A x \in Endpoints : count[x] = IF x = e THEN push.count[x] - 1 ELSE push.count[x]
    BY <1>1
  <2>2. push' = [push EXCEPT !.count = count]
    BY <1>0, <1>8 DEF DeleteEndpoint, Entities
  <2> HIDE DEF count
  <2>3. push'.enabled = push.enabled /\ push'.subs = push.subs /\ push'.count = count
    BY <1>0, <2>2 DEF Entities
  <2>4. \A x \in Endpoints \ {e} : Has(push', x) <=> Has(push, x)
    BY <2>1, <2>3 DEF Has
  <2>5. Registered' \in {Registered, Registered \ {e}}
    <3>1. Registered' = {x \in Endpoints \ {Bare} : Has(push', x) \/ x \in push.subs}
      BY <2>3 DEF Registered, Has
    <3>2. \A x \in Endpoints \ {Bare} : x # e => (x \in Registered' <=> x \in Registered)
      BY <2>4, <3>1 DEF Registered
    <3>3. Registered' \subseteq Registered
      BY <1>8, <3>1, <3>2 DEF Registered
    <3> QED BY <3>1, <3>2, <3>3 DEF Registered
  <2>6. e = Bare => Registered' = Registered
    BY <2>5 DEF Registered
  <2> QED BY <1>3, <1>5, <1>7, <1>8, <2>3, <2>5, <2>6
<1>9. CASE ReplaceEndpoint(w) /\ Has(push, e)
  <2>0. e # Bare
    BY <1>9 DEF ReplaceEndpoint, RInv, ReplacesDevices
  <2> DEFINE c == Canonical[e]
             less == [push.count EXCEPT ![e] = @ - 1]
             count == [less EXCEPT ![c] = @ + 1]
  <2>1. c \in Endpoints \ {Bare}
    BY <1>1, <2>0, PipelineAssumption
  <2>2. push' = [push EXCEPT !.count = count]
    BY <1>0, <1>9 DEF ReplaceEndpoint
  <2>3. less \in [Endpoints -> Nat] /\ \A x \in Endpoints \ {e} : less[x] = push.count[x]
    BY <1>1, <1>9 DEF Has
  <2> HIDE DEF less, c
  <2>4. \A x \in Endpoints : count[x] = IF x = c THEN less[x] + 1 ELSE less[x]
    BY <2>1, <2>3
  <2> HIDE DEF count
  <2>5. push'.enabled = push.enabled /\ push'.subs = push.subs /\ push'.count = count
    BY <1>0, <2>2 DEF Entities
  <2>6. \A x \in Endpoints \ {e, c} : Has(push', x) <=> Has(push, x)
    BY <2>3, <2>4, <2>5 DEF Has
  <2>7. Has(push', c)
    BY <2>1, <2>3, <2>4, <2>5 DEF Has
  <2>8. Registered' \in {s \cup {c} : s \in {Registered, Registered \ {e}}}
    <3>1. Registered' = {x \in Endpoints \ {Bare} : Has(push', x) \/ x \in push.subs}
      BY <2>5 DEF Registered, Has
    <3>2. c \in Registered' /\ \A x \in Endpoints \ {Bare} :
             x \notin {e, c} => (x \in Registered' <=> x \in Registered)
      BY <2>1, <2>6, <2>7, <3>1 DEF Registered
    <3>3. e \in Registered
      BY <1>1, <1>9, <2>0 DEF Registered
    <3>4. Registered' = IF e \in Registered' THEN Registered \cup {c} ELSE (Registered \ {e}) \cup {c}
      BY <2>1, <3>1, <3>2, <3>3 DEF Registered
    <3> QED BY <3>4
  <2> QED BY <1>3, <1>7, <1>9, <2>0, <2>5, <2>8 DEF c
<1> QED BY <1>0, <1>3, <1>6, <1>8, <1>9 DEF ReplaceEndpoint, DeleteEndpoint

(* The user's change takes effect at its commit. *)
LEMMA PatchRefines ==
  ASSUME RInv, NEW w \in Workers, Patch(w)
  PROVE  Impl!Next /\ (Services /\ ReplacesDevices)'
<1> DEFINE e == worker[w].task.ep
<1>0. /\ worker[w] \in Handlers /\ push \in Entities /\ worker[w].read = push
      /\ worker \in [Workers -> Handlers] /\ Shape
  BY DEF RInv, IInv, Shape, Patch, Current
<1>1. e \in Endpoints /\ push.count \in [Endpoints -> Nat]
  BY <1>0 DEF Handlers, TaskRecords, Entities
<1>2. /\ Idle.pc = "idle" /\ worker' = [worker EXCEPT ![w] = Idle]
      /\ UNCHANGED <<tasks, service, dead, pinged>> /\ worker[w].pc \in {"patch", "disable"}
  BY DEF Idle, Done, Patch
<1>3. (Services /\ ReplacesDevices)'
  BY <1>2, IdleShape, ReplacesKept
<1>4. Due' = Due
  <2>1. Due' = (Queued(tasks') \cup Reaching(Idle) \cup OthersReach(w)) \ {Bare}
    BY <1>0, <1>2, DueAfter
  <2>2. Due = (Queued(tasks) \cup Reaching(worker[w]) \cup OthersReach(w)) \ {Bare}
    BY DueBefore
  <2>3. Reaching(worker[w]) = {}
    BY <1>2 DEF Reaching
  <2> QED BY <1>2, <2>1, <2>2, <2>3, IdleReaches
<1>5. CASE worker[w].pc = "patch"
  <2> DEFINE count == [push.count EXCEPT ![e] = IF Has(push, e) THEN @ ELSE @ + 1]
  <2>1. count[e] > 0 /\ \A x \in Endpoints \ {e} : count[x] = push.count[x]
    BY <1>1 DEF Has
  <2>2. push' = [push EXCEPT !.enabled = TRUE, !.count = count] /\ acked' = acked \cup {e}
    BY <1>0, <1>5 DEF Patch, Entities
  <2> HIDE DEF count
  <2>3. push'.enabled = TRUE /\ push'.count = count /\ push'.subs = push.subs
    BY <1>0, <2>2 DEF Entities
  <2>4. e # Bare
    BY <1>5 DEF RInv, IInv, BareUnknown
  <2>5. Registered' = Registered \cup {e}
    <3>1. Registered' = {x \in Endpoints \ {Bare} : count[x] > 0 \/ x \in push.subs}
      BY <2>3 DEF Registered, Has
    <3> QED BY <1>1, <2>1, <2>4, <3>1 DEF Registered, Has
  <2>6. Impl!Register(e)
    BY <1>2, <1>4, <2>2, <2>3, <2>5 DEF Impl!Register
  <2> QED BY <1>1, <1>3, <2>4, <2>6 DEF Impl!Next
<1>6. CASE worker[w].pc = "disable"
  <2>1. push' = [push EXCEPT !.enabled = FALSE] /\ acked' = acked
    BY <1>0, <1>6 DEF Patch
  <2>2. push'.enabled = FALSE /\ push'.count = push.count /\ push'.subs = push.subs
    BY <1>0, <2>1 DEF Entities
  <2>3. Registered' = Registered
    BY <2>2 DEF Registered, Has
  <2>4. Impl!TurnOff
    BY <1>2, <1>4, <2>1, <2>2, <2>3 DEF Impl!TurnOff
  <2> QED BY <1>3, <2>4 DEF Impl!Next
<1> QED BY <1>2, <1>5, <1>6

-----------------------------------------------------------------------------
LEMMA InitRefines == Init => Impl!Init /\ Services /\ ReplacesDevices
<1> SUFFICES ASSUME Init PROVE Impl!Init /\ Services /\ ReplacesDevices
  OBVIOUS
<1> USE PipelineAssumption
<1>1. Registered = Legacy
  BY DEF Init, Registered, Has
<1>2. Queued(tasks) = {} /\ \A w \in Workers : Reaching(worker[w]) = {}
  BY IdleReaches DEF Init, Queued
<1>3. Due = {}
  BY <1>2 DEF Due
<1>4. Services /\ ReplacesDevices
  BY DEF Init, Idle, Services, ReplacesDevices
<1> QED BY <1>1, <1>3, <1>4 DEF Init, Impl!Init

(* Every step of the pipeline is a step of the abstract one, or nothing. *)
LEMMA NextRefines ==
  RInv /\ [Next]_vars => [Impl!Next]_(Impl!vars) /\ (Services /\ ReplacesDevices)'
<1> SUFFICES ASSUME RInv, [Next]_vars
             PROVE  [Impl!Next]_(Impl!vars) /\ (Services /\ ReplacesDevices)'
  OBVIOUS
<1>1. ASSUME UNCHANGED <<push, acked, dead, pinged, worker>>, Queued(tasks') = Queued(tasks)
      PROVE  Impl!Next /\ ReplacesDevices'
  <2>1. Due' = Due
    BY <1>1 DEF Due, Reaching, Has, Queued
  <2>2. ReplacesDevices'
    BY <1>1 DEF RInv, ReplacesDevices
  <2> QED BY <1>1, <2>1, <2>2, Settles
<1>2. CASE Change
  <2>1. Queued({[kind |-> "notify", ep |-> NoEndpoint, n |-> 0]}) = {}
    BY QueuedOthers
  <2>2. Queued(tasks') = Queued(tasks)
    BY <1>2, <2>1, QueuedUnion DEF Change
  <2> QED BY <1>1, <1>2, <2>2 DEF Change, history, RInv, Services
<1>3. CASE Index
  BY <1>1, <1>3 DEF Index, history, RInv, Services
<1>4. ASSUME NEW e \in Endpoints, Move(e) PROVE Impl!Next /\ (Services /\ ReplacesDevices)'
  <2>1. Services'
    BY <1>4, PipelineAssumption DEF Move, RInv, Services
  <2> QED BY <1>1, <1>4, <2>1 DEF Move, history
<1>5. ASSUME NEW w \in Workers, Start(w) \/ Serve(w) \/ Again(w) \/ GivesUpChange(w) \/ Request(w)
      PROVE  Impl!Next /\ (Services /\ ReplacesDevices)'
  BY <1>5, TaskRefines, ReadRefines, DeviceRefines, UpgradeRefines, RemovalRefines, PatchRefines
     DEF Serve
<1>6. CASE UNCHANGED vars
  BY <1>1, <1>6 DEF vars, history, RInv, Services
<1> QED BY <1>2, <1>3, <1>4, <1>5, <1>6 DEF Next, Quiescent

(***************************************************************************)
(* The task queue, the transactions and the push services implement        *)
(* PushRegistrations, for every number of endpoints, workers, retries and  *)
(* faults: an announcement concerns, at one instant, exactly the devices   *)
(* that are registered then, only while notifications are on; a message    *)
(* goes to no other device; and a device is taken off only when a push     *)
(* service has reported it (handlePingUser, handlePingDevice,              *)
(* patchUserNotifySettings, updatePushEndpoint, deletePushEndpoint).       *)
(***************************************************************************)
THEOREM Refinement == Spec => ImplementsPushRegistrations
<1> DEFINE Inv == Services /\ ReplacesDevices
<1>1. Init => IInv /\ Impl!Init /\ Inv
  BY InitInv, InitRefines
<1>2. IInv /\ Inv /\ [Next]_vars => IInv' /\ Inv' /\ [Impl!Next]_(Impl!vars)
  BY NextInv, NextRefines DEF RInv
<1> HIDE DEF Inv
<1> QED BY <1>1, <1>2, PTL DEF Spec, ImplementsPushRegistrations, Impl!Spec

=============================================================================
