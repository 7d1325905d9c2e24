---------------------------- MODULE PlaybackBus ----------------------------
(***************************************************************************)
(* The playback bus of the experiment (experiment/app/audio/               *)
(* PlaybackBus.js).  The sequencer schedules sounds and beats ahead of     *)
(* time; the bus keeps a descriptor for each of them with the time that is *)
(* left, counts it down once per animation frame, and calls the listeners  *)
(* when it is due, so that what is drawn follows what is heard.            *)
(*                                                                         *)
(* Descriptors come from two object pools (util/Pool.js).  Both pools and  *)
(* both queues are LinkedLists, so all four take their nodes from the same *)
(* stack, while tick() walks the queues with a pointer to a node.  One     *)
(* frame is several steps here, so that the listeners that tick() calls    *)
(* can schedule in the middle of the walk, as the Arpeggiator's does.      *)
(***************************************************************************)
EXTENDS LinkedList, Integers

CONSTANTS
    Sounds,     \* what can be scheduled and not yet played at one time
    Beats,      \* the same for the beats of the sequencer
    Chunk,      \* poolChunkSize: descriptors created when a pool is empty
    MaxTime,    \* bound: how far ahead something is scheduled
    MaxExtra,   \* bound: sounds that the listeners of one beat schedule
    Gap,        \* the longest frame that tick() is told about
    MaxElapsed  \* bound: the time from one frame to the next

ASSUME PlaybackBusAssumption ==
    /\ Lists = {"notes", "beats", "notePool", "beatPool"}
    /\ Sounds \intersect Beats = {} /\ Null \notin Sounds \union Beats \union Int
    /\ Chunk \in Nat \ {0} /\ MaxExtra \in 0..(Chunk - 1)
    /\ MaxNodes \in Nat /\ MaxTime \in Nat /\ Gap \in Nat \ {0} /\ MaxElapsed \in Nat

VARIABLES
    h,          \* the heap of the four lists
    time,       \* descriptor[0]: what is left, per descriptor
    what,       \* the sound or beat a descriptor stands for
    made,       \* how many descriptors were created
    walking,    \* the queue that tick() is in, or "idle"
    cursor,     \* "current" of its forEach
    firing,     \* the descriptor whose listeners run, or Null
    extra,      \* sounds that these listeners have scheduled
    delta,      \* currentDelta
    due         \* history: the true time left of what is pending, Null of what is not

busVars == <<h, time, what, made, walking, cursor, firing, extra, delta, due>>

Things == Sounds \union Beats
Descriptors == Nodes
PoolOf(q) == IF q = "notes" THEN "notePool" ELSE "beatPool"
QueueOf(x) == IF x \in Sounds THEN "notes" ELSE "beats"

\* The mark of what was due in an earlier frame and is still pending.
Overdue == -1

Pending == {x \in Things : due[x] # Null}

BusInit ==
    /\ h = EmptyHeap /\ made = 0
    /\ walking = "idle" /\ cursor = Null /\ firing = Null /\ extra = 0 /\ delta = 1
    /\ time = [d \in Descriptors |-> Null] /\ what = [d \in Descriptors |-> Null]
    /\ due = [x \in Things |-> Null]

\* Pool.preAllocate: new descriptors are pushed onto the pool's list.
PreAllocate(g, pool) ==
    LET filled[k \in 0..Chunk] ==
          IF k = 0 THEN g ELSE Push(filled[k - 1], pool, made + k)
    IN  filled[Chunk]

(***************************************************************************)
(* schedule and scheduleRawBeat: Pool.allocate takes the last descriptor   *)
(* of the pool, fills the pool first if it is empty, and the descriptor    *)
(* goes to the end of the queue.                                           *)
(***************************************************************************)
Schedule(x, t) ==
    LET pool == PoolOf(QueueOf(x))
        g == IF IsEmpty(h, pool) THEN PreAllocate(h, pool) ELSE h
        d == Last(g, pool)
    IN  /\ due[x] = Null
        /\ IsEmpty(h, pool) => made + Chunk <= MaxNodes
        /\ made' = IF IsEmpty(h, pool) THEN made + Chunk ELSE made
        /\ h' = Push(Pop(g, pool), QueueOf(x), d)
        /\ time' = [time EXCEPT ![d] = t]
        /\ what' = [what EXCEPT ![d] = x]
        /\ due' = [due EXCEPT ![x] = t]
        /\ UNCHANGED <<walking, cursor, firing, delta>>

\* The sequencer schedules between two frames.
Sequencer(x, t) == walking = "idle" /\ Schedule(x, t) /\ UNCHANGED extra

\* A listener of BEAT plays sounds: they are scheduled while tick() walks the beats.
Listener(x, t) ==
    /\ walking = "beats" /\ firing # Null /\ x \in Sounds /\ extra < MaxExtra
    /\ extra' = extra + 1
    /\ Schedule(x, t)

\* Mutant: a frame that took too long counts for nothing.
TickSkipsLong(elapsed) ==
    /\ walking = "idle"
    /\ delta' = IF elapsed > Gap THEN 0 ELSE elapsed
    /\ walking' = "notes" /\ cursor' = h.head["notes"]
    /\ UNCHANGED <<h, time, what, made, firing, extra, due>>

(***************************************************************************)
(* A frame: tick(delta) is told how long the last one took, unless that    *)
(* was too long, and starts to walk the notes.                             *)
(***************************************************************************)
Tick(elapsed) ==
    /\ walking = "idle"
    /\ delta' = IF elapsed > Gap THEN 1 ELSE elapsed
    /\ walking' = "notes" /\ cursor' = h.head["notes"]
    /\ due' = [x \in Things |-> IF x \notin Pending THEN Null
                                ELSE IF due[x] \in {0, Overdue} THEN Overdue
                                ELSE IF due[x] > elapsed THEN due[x] - elapsed ELSE 0]
    /\ UNCHANGED <<h, time, what, made, firing, extra>>

\* No number is greater than or equal to undefined, or to NaN.
IsDue(d) == time[d] # Null /\ delta >= time[d]

(***************************************************************************)
(* A descriptor that is not due is counted down, and forEach goes on to    *)
(* the next node.  A descriptor that was never prepared has no time: what  *)
(* is subtracted from it leaves NaN, for which Null stands as well.        *)
(***************************************************************************)
CountDown ==
    LET d == h.obj[cursor] IN
    /\ walking # "idle" /\ cursor # Null /\ firing = Null
    /\ ~IsDue(d)
    /\ time' = [time EXCEPT ![d] = IF @ = Null THEN Null ELSE @ - delta]
    /\ cursor' = h.next[cursor]
    /\ UNCHANGED <<h, what, made, walking, firing, extra, delta, due>>

\* Mutants: the descriptor is freed before its listeners run, or stays in the queue.
FireFreesFirst ==
    LET d == h.obj[cursor] IN
    /\ walking # "idle" /\ cursor # Null /\ firing = Null /\ IsDue(d)
    /\ h' = Push(Remove(h, walking, d), PoolOf(walking), d)
    /\ firing' = d /\ due' = [due EXCEPT ![what[d]] = Null]
    /\ UNCHANGED <<time, what, made, walking, cursor, extra, delta>>
FireKeepsQueued ==
    LET d == h.obj[cursor] IN
    /\ walking # "idle" /\ cursor # Null /\ firing = Null /\ IsDue(d)
    /\ firing' = d /\ due' = [due EXCEPT ![what[d]] = Null]
    /\ UNCHANGED <<h, time, what, made, walking, cursor, extra, delta>>

\* A descriptor that is due leaves the queue, and its listeners are called.
Fire ==
    LET d == h.obj[cursor] IN
    /\ walking # "idle" /\ cursor # Null /\ firing = Null
    /\ IsDue(d)
    /\ h' = Remove(h, walking, d)
    /\ firing' = d
    /\ due' = [due EXCEPT ![what[d]] = Null]
    /\ UNCHANGED <<time, what, made, walking, cursor, extra, delta>>

\* The listeners are done: the descriptor goes back to its pool, forEach goes on.
Freed ==
    LET g == Push(h, PoolOf(walking), firing) IN
    /\ firing # Null
    /\ h' = g /\ firing' = Null /\ extra' = 0
    /\ cursor' = g.next[cursor]
    /\ UNCHANGED <<time, what, made, walking, delta, due>>

\* The walk of one queue is over: the beats follow the notes, and the frame ends.
Walked ==
    /\ walking # "idle" /\ cursor = Null /\ firing = Null
    /\ walking' = IF walking = "notes" THEN "beats" ELSE "idle"
    /\ cursor' = IF walking = "notes" THEN h.head["beats"] ELSE Null
    /\ UNCHANGED <<h, time, what, made, firing, extra, delta, due>>

BusNext ==
    \/ \E x \in Things, t \in 1..MaxTime : Sequencer(x, t)
    \/ \E x \in Sounds, t \in 1..MaxTime : Listener(x, t)
    \/ \E elapsed \in 1..MaxElapsed : Tick(elapsed)
    \/ CountDown \/ Fire \/ Freed \/ Walked

(***************************************************************************)
(* Frames keep coming while the page is visible, and a frame runs to its   *)
(* end: it is one turn of the event loop.                                  *)
(***************************************************************************)
BusFairness ==
    /\ WF_busVars(\E elapsed \in 1..MaxElapsed : Tick(elapsed))
    /\ WF_busVars(CountDown \/ Fire \/ Freed \/ Walked)

BusSpec == BusInit /\ [][BusNext]_busVars /\ BusFairness

-----------------------------------------------------------------------------

\* The heap has the shape of four lists and a stack; what is recorded has its type.
BusTypeOK ==
    /\ WellFormed(h)
    /\ walking \in {"idle", "notes", "beats"} /\ cursor \in Nodes \union {Null}
    /\ firing \in Descriptors \union {Null} /\ extra \in 0..MaxExtra /\ delta \in 1..Gap
    /\ time \in [Descriptors -> {Null} \union 0..MaxTime] /\ what \in [Descriptors -> Things \union {Null}]
    /\ made \in 0..MaxNodes
    /\ due \in [Things -> {Null, Overdue} \union 0..MaxTime]

(***************************************************************************)
(* A descriptor is in one place only: a queue, a pool, or the hands of the *)
(* listeners.  Were it in a pool and in a queue, the next allocation would *)
(* turn a scheduled sound into another one.  PlaybackBus.js frees a        *)
(* descriptor after its listeners, which may have allocated others.        *)
(***************************************************************************)
OnePlace ==
    LET held(l) == {i \in DOMAIN Contents(h, l) : TRUE}
        at(d) == UNION {{<<l, i>> : i \in {j \in held(l) : Contents(h, l)[j] = d}} : l \in Lists}
    IN  \A d \in 1..made : Cardinality(at(d)) = IF d = firing THEN 0 ELSE 1

(***************************************************************************)
(* What was scheduled and has not fired is in its queue, once, and nothing *)
(* else is: no sound and no beat is announced twice or forgotten.          *)
(***************************************************************************)
PendingIsQueued ==
    \A q \in {"notes", "beats"} :
      LET queued == Contents(h, q) IN
      /\ {what[queued[i]] : i \in DOMAIN queued} = {x \in Pending : QueueOf(x) = q}
      /\ \A i, j \in DOMAIN queued : what[queued[i]] = what[queued[j]] => i = j

(***************************************************************************)
(* Both: however the queues and the pools share and recycle their nodes    *)
(* while a listener schedules in the middle of the walk, every descriptor  *)
(* is accounted for and every pending sound is announced by one.           *)
(***************************************************************************)
QueuesInOrder == OnePlace /\ PendingIsQueued

\* Everything that is scheduled fires in the end.
EverythingFires == \A x \in Things : (due[x] # Null) ~> (due[x] = Null)

=============================================================================
