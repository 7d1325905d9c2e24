------------------------------ MODULE DrumKit ------------------------------
(***************************************************************************)
(* The drums of the experiment and the balls that fall on them             *)
(* (experiment/app/views/DrumView.js, views/drum/Drum.js, DotEmitter.js    *)
(* and DropBallEntity.js).  One drum at a time can be dragged, with as     *)
(* many fingers as there are; a ball lives until it meets the floor, its   *)
(* time is over, or the instrument is closed.                              *)
(***************************************************************************)
EXTENDS Integers, FiniteSets

CONSTANTS
    Drums,          \* the drums of the data, by their pid
    BeatModulo,     \* beatModulo of the emitter
    KitBeats,       \* beats of the loop
    MaxBalls        \* bound: balls that are dropped

ASSUME DrumKitAssumption ==
    Drums \subseteq Nat \ {0} /\ IsFiniteSet(Drums) /\ BeatModulo \in Nat \ {0} /\ KitBeats \in Nat \ {0} /\ MaxBalls \in Nat

NoDrum == 0

VARIABLES
    kitState,       \* APPLICATION_STATE: "collapsed" or "expand"
    attached,       \* the drums that listen
    fingers,        \* the drums that are pressed
    dragged,        \* the drums whose isDragging is set
    currentlyDraggingDrum,
    ballPids,       \* DropballEntityPIDInc
    dots,           \* dotEmitterObj: the balls by pid
    bodies,         \* the balls in the physics world
    timeouts,       \* the balls whose LIFETIME is not over
    lastTarget,     \* the drum that each ball hit last
    kitBeat,
    dropped         \* history: an instrument was closed or reset under a drag

dragging == <<fingers, dragged, currentlyDraggingDrum, dropped>>
balls == <<ballPids, dots, bodies, timeouts, lastTarget>>
kitVars == <<kitState, attached, dragging, balls, kitBeat>>

KitInit ==
    /\ kitState = "collapsed" /\ attached = {} /\ fingers = {} /\ dragged = {}
    /\ currentlyDraggingDrum = NoDrum /\ dropped = FALSE
    /\ ballPids = 0 /\ dots = {} /\ bodies = {} /\ timeouts = {}
    /\ lastTarget = [b \in 1..MaxBalls |-> NoDrum] /\ kitBeat = 0

\* animationExpanded: the beats drop balls, the drums listen.
OpenKit ==
    /\ kitState = "collapsed" /\ kitState' = "expand" /\ attached' = Drums
    /\ UNCHANGED <<dragging, balls, kitBeat>>

\* animationCollapsed: cleanupDots, and the drums no longer listen; a drag does not end.
CloseKit ==
    /\ kitState = "expand" /\ kitState' = "collapsed" /\ attached' = {} /\ fingers' = {}
    /\ dots' = {} /\ bodies' = bodies \ dots
    /\ dropped' = (dropped \/ dragged # {})
    /\ UNCHANGED <<dragged, currentlyDraggingDrum, ballPids, timeouts, lastTarget, kitBeat>>

\* loadData, for a reset: new drums, which listen only once the instrument is opened again.
ReloadKit ==
    /\ attached' = {} /\ dragged' = {} /\ fingers' = {}
    /\ dropped' = (dropped \/ dragged # {})
    /\ UNCHANGED <<kitState, currentlyDraggingDrum, balls, kitBeat>>

-----------------------------------------------------------------------------
(* Dragging.                                                               *)

\* onDragStart refuses a drum while another is dragged, and the same drum as well.
PressDrum(d) ==
    /\ d \in attached \ fingers /\ fingers' = fingers \union {d}
    /\ IF currentlyDraggingDrum = NoDrum
       THEN currentlyDraggingDrum' = d /\ dragged' = dragged \union {d}
       ELSE UNCHANGED <<currentlyDraggingDrum, dragged>>
    /\ UNCHANGED <<kitState, attached, dropped, balls, kitBeat>>

\* Mutant: whichever drum is released, the drag is over.
ReleaseDrumAny(d) ==
    /\ d \in attached \intersect fingers /\ fingers' = fingers \ {d}
    /\ currentlyDraggingDrum' = NoDrum /\ dragged' = dragged \ {d}
    /\ UNCHANGED <<kitState, attached, dropped, balls, kitBeat>>

\* onDragEnd
ReleaseDrum(d) ==
    /\ d \in attached \intersect fingers /\ fingers' = fingers \ {d}
    /\ IF currentlyDraggingDrum = d
       THEN currentlyDraggingDrum' = NoDrum /\ dragged' = dragged \ {d}
       ELSE UNCHANGED <<currentlyDraggingDrum, dragged>>
    /\ UNCHANGED <<kitState, attached, dropped, balls, kitBeat>>

-----------------------------------------------------------------------------
(* Balls.                                                                  *)

\* DotEmitter.onBeat: BEAT reaches the emitters of an instrument that is expanded.
KitOnBeat ==
    LET drops == kitState = "expand" /\ kitBeat' % BeatModulo = 0
        pid == ballPids + 1
    IN  /\ kitBeat' = (kitBeat + 1) % KitBeats
        /\ drops => pid <= MaxBalls
        /\ ballPids' = IF drops THEN pid ELSE ballPids
        /\ dots' = IF drops THEN dots \union {pid} ELSE dots
        /\ bodies' = IF drops THEN bodies \union {pid} ELSE bodies
        /\ timeouts' = IF drops THEN timeouts \union {pid} ELSE timeouts
        /\ UNCHANGED <<kitState, attached, dragging, lastTarget>>

\* A ball meets a drum, which sounds unless it is the one that it met last.
BallHits(b, d) ==
    /\ kitState = "expand" /\ b \in bodies /\ lastTarget[b] # d
    /\ lastTarget' = [lastTarget EXCEPT ![b] = d]
    /\ UNCHANGED <<kitState, attached, dragging, ballPids, dots, bodies, timeouts, kitBeat>>

\* destroy: what is still alive leaves the world.
Destroy(b) == dots' = dots \ {b} /\ bodies' = bodies \ {b}

\* collisionStart: the world is only stepped while the instrument is expanded.
BallOnFloor(b) ==
    /\ kitState = "expand" /\ b \in bodies /\ Destroy(b)
    /\ UNCHANGED <<kitState, attached, dragging, ballPids, timeouts, lastTarget, kitBeat>>

\* rAFTimeout after LIFETIME, whether the ball is alive or not.
LifetimeOver(b) ==
    /\ b \in timeouts /\ timeouts' = timeouts \ {b} /\ Destroy(b)
    /\ UNCHANGED <<kitState, attached, dragging, ballPids, lastTarget, kitBeat>>

KitNext ==
    \/ OpenKit \/ CloseKit \/ ReloadKit \/ KitOnBeat
    \/ \E d \in Drums : PressDrum(d) \/ ReleaseDrum(d)
    \/ \E b \in 1..MaxBalls : \/ BallOnFloor(b) \/ LifetimeOver(b)
                              \/ \E d \in Drums : BallHits(b, d)

KitSpec == KitInit /\ [][KitNext]_kitVars

-----------------------------------------------------------------------------

KitTypeOK ==
    /\ kitState \in {"collapsed", "expand"} /\ dropped \in BOOLEAN
    /\ \A S \in {attached, fingers, dragged} : S \subseteq Drums
    /\ currentlyDraggingDrum \in Drums \union {NoDrum} /\ ballPids \in 0..MaxBalls
    /\ \A S \in {dots, bodies, timeouts} : S \subseteq 1..ballPids
    /\ lastTarget \in [1..MaxBalls -> Drums \union {NoDrum}] /\ kitBeat \in 0..(KitBeats - 1)

(***************************************************************************)
(* At most one drum follows a finger, and it is the one that DrumView      *)
(* knows; once all fingers are up, every drum can be dragged again, unless *)
(* the instrument was closed or reset under a drag.                        *)
(***************************************************************************)
OneDrag ==
    /\ dragged \subseteq {currentlyDraggingDrum}
    /\ ~dropped /\ fingers = {} => currentlyDraggingDrum = NoDrum

(***************************************************************************)
(* Balls fall only while the instrument is open, each is drawn and in the  *)
(* physics world or in neither, and none outlives its time                 *)
(* (DropBallEntity.js: destroy; DrumView.js: cleanupDots).                 *)
(***************************************************************************)
BallsOfOpenKit ==
    /\ dots = bodies /\ bodies \subseteq timeouts
    /\ bodies # {} => kitState = "expand"

(***************************************************************************)
(* Both: whatever the fingers and the balls do, in whatever order, neither *)
(* DrumView nor the physics world keeps what is gone (DrumView.js).        *)
(***************************************************************************)
KitInOrder == OneDrag /\ BallsOfOpenKit

=============================================================================
