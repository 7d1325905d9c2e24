-------------------------- MODULE ExperimentProofs --------------------------
(***************************************************************************)
(* Theorems about the views of the experiment, for any instruments, length *)
(* of the loop and number of moves of the user, hasty ones included, and   *)
(* about the playback bus with its lists.                                  *)
(*                                                                         *)
(* The second part about the views is about the user who waits.  SyncInv   *)
(* tells the stages of opening and closing apart, an instrument's          *)
(* animation having the time of the root's beside it, and says what each   *)
(* has changed and has still to.                                           *)
(*                                                                         *)
(* The invariant of the bus says that the heap holds four lists (Holds),   *)
(* that they carry every descriptor once (Carry), that the queues carry    *)
(* what is pending (Queued), and where the walk of tick() is (CursorAt):   *)
(* it goes on from a node that was removed, which is free, or which a      *)
(* listener has taken for the pool of the notes.                           *)
(*                                                                         *)
(* The last part is about the composition MCExperiment of the bus and the  *)
(* views: its types are those of the part that takes steps.                *)
(***************************************************************************)
EXTENDS MCExperiment, SequenceTheorems, FiniteSetTheorems, WellFoundedInduction, TLAPS

-----------------------------------------------------------------------------
(* The views                                                               *)

\* What the steps below depend on of the types.
ViewsShape ==
    /\ currentView \in Views \union {Nobody}
    /\ expanded \subseteq Views /\ keyListener \subseteq Views
    /\ anim \in [Views -> {"still", "growing", "controls", "shrinking"}]
    /\ promised \in [Views -> {"none", "open", "openSkip", "close", "closeSkip"}]
    /\ entries \in Seq(Hashes) /\ calls \in Seq(Hashes) /\ at \in 1..Len(entries)

\* An instrument that grows is expanded, so its record button may listen.
GrowingExpanded == \A v \in Views : anim[v] \in {"growing", "controls"} => v \in expanded

\* A promise that will unlock the page: an opening may lose it, but expands an
\* instrument, and no closing loses that of another.
WillUnlock == \E v \in Views : anim[v] = "shrinking" /\ promised[v] \in {"close", "closeSkip"}

Unlocks ==
    expanded = {} =>
      /\ rootExpanded => WillUnlock
      /\ isScrollingDisabled => WillUnlock \/ phase # "in"
      /\ ~visualizersHidden

\* The inductive invariant.
ViewsInv == ViewsShape /\ GrowingExpanded /\ HandlersOfExpanded /\ Unlocks

-----------------------------------------------------------------------------
(* The history                                                             *)

LEMMA HashesAre ==
    /\ Page \in Hashes /\ Playing \in Hashes
    /\ \A v \in Views : Editing(v) \in Hashes
    /\ \A place \in Hashes : place.hash = "editing" => place.pid \in Views
<1>1. Page \in Hashes /\ Playing \in Hashes /\ \A v \in Views : Editing(v) \in Hashes
  BY DEF Hashes
<1>2. ASSUME NEW place \in Hashes, place.hash = "editing" PROVE place.pid \in Views
  <2>1. place # Page /\ place # Playing
    BY <1>2 DEF Page, Playing
  <2>2. PICK v \in Views : place = Editing(v)
    BY <2>1 DEF Hashes
  <2>3. QED
    BY <2>2 DEF Editing
<1>3. QED
  BY <1>1, <1>2

\* What the browser or the page does to the history keeps its types.
HistoryTyped == entries \in Seq(Hashes) /\ calls \in Seq(Hashes) /\ at \in 1..Len(entries)

LEMMA PushTyped ==
    ASSUME HistoryTyped, NEW place \in Hashes, PushState(place)
    PROVE  HistoryTyped'
<1>1. SubSeq(entries, 1, at) \in Seq(Hashes) /\ Len(SubSeq(entries, 1, at)) = at
  BY DEF HistoryTyped
<1>2. QED
  BY <1>1 DEF HistoryTyped, PushState

LEMMA TraverseTyped ==
    ASSUME HistoryTyped, NEW i, Traverse(i)
    PROVE  HistoryTyped'
<1>1. entries[i] \in Hashes
  BY DEF HistoryTyped, Traverse
<1>2. QED
  BY <1>1 DEF HistoryTyped, Traverse

-----------------------------------------------------------------------------
(* Opening and closing                                                     *)

LEMMA OpenKeeps ==
    ASSUME ViewsInv, NEW v \in Views, NEW skip \in BOOLEAN, NEW lost, OpenView(v, skip, lost)
    PROVE  /\ GrowingExpanded' /\ HandlersOfExpanded' /\ Unlocks'
           /\ HistoryTyped' => ViewsShape'
<1>1. expanded' = expanded \union {v} /\ anim' = [anim EXCEPT ![v] = "growing"]
  BY DEF OpenView
<1>2. promised' \in [Views -> {"none", "open", "openSkip", "close", "closeSkip"}]
  BY DEF OpenView, ViewsInv, ViewsShape
<1>3. GrowingExpanded'
  BY <1>1 DEF ViewsInv, ViewsShape, GrowingExpanded
<1>4. HandlersOfExpanded'
  BY DEF OpenView, recordButton, ViewsInv, HandlersOfExpanded
<1>5. Unlocks'
  BY <1>1 DEF Unlocks
<1>6. HistoryTyped' => ViewsShape'
  BY <1>1, <1>2 DEF OpenView, ViewsInv, ViewsShape, HistoryTyped
<1>7. QED
  BY <1>3, <1>4, <1>5, <1>6

LEMMA CloseKeeps ==
    ASSUME ViewsInv, NEW S \in SUBSET Views, S # {}, NEW skip \in BOOLEAN, NEW lost,
           CloseView(S, skip, lost)
    PROVE  /\ GrowingExpanded' /\ HandlersOfExpanded' /\ Unlocks'
           /\ HistoryTyped' => ViewsShape'
<1>1. /\ expanded' = expanded \ S
      /\ anim' = [v \in Views |-> IF v \in S THEN "shrinking" ELSE anim[v]]
  BY DEF CloseView
<1>2. promised' \in [Views -> {"none", "open", "openSkip", "close", "closeSkip"}]
  BY DEF CloseView, ViewsInv, ViewsShape
<1>3. GrowingExpanded'
  BY <1>1 DEF ViewsInv, ViewsShape, GrowingExpanded
<1>4. HandlersOfExpanded'
  BY DEF CloseView, ViewsInv, HandlersOfExpanded
<1>5. Unlocks'
  <2>1. PICK u \in Views : u \in S
    OBVIOUS
  <2>2. anim'[u] = "shrinking" /\ promised'[u] \in {"close", "closeSkip"}
    BY <2>1 DEF CloseView
  <2>3. WillUnlock'
    BY <2>2 DEF WillUnlock
  <2>4. QED
    BY <2>3 DEF CloseView, Unlocks
<1>6. anim' \in [Views -> {"still", "growing", "controls", "shrinking"}]
  BY <1>1 DEF ViewsInv, ViewsShape
<1>7. HistoryTyped' => ViewsShape'
  BY <1>2, <1>6 DEF CloseView, ViewsInv, ViewsShape, HistoryTyped
<1>8. QED
  BY <1>3, <1>4, <1>5, <1>7

-----------------------------------------------------------------------------
(* The steps                                                               *)

LEMMA ViewsStart == ViewsInit => ViewsInv
<1> SUFFICES ASSUME ViewsInit PROVE ViewsInv
  OBVIOUS
<1>1. entries \in Seq(Hashes) /\ at \in 1..Len(entries) /\ calls \in Seq(Hashes)
  BY HashesAre DEF ViewsInit
<1>2. ViewsShape
  BY <1>1 DEF ViewsInit, ViewsShape
<1>3. GrowingExpanded /\ HandlersOfExpanded /\ Unlocks
  BY DEF ViewsInit, GrowingExpanded, HandlersOfExpanded, Unlocks
<1>4. QED
  BY <1>2, <1>3 DEF ViewsInv

\* Nothing that the invariant speaks of changes but the history.
LEMMA ViewsRest ==
    ASSUME ViewsInv, HistoryTyped', UNCHANGED <<phase, rootExpanded, currentView, isScrollingDisabled,
             visualizersHidden, expanded, anim, promised, backHandler, keyListener,
             recordHandler, isCountdown, isRecording>>
    PROVE  ViewsInv'
BY DEF ViewsInv, ViewsShape, HistoryTyped, GrowingExpanded, HandlersOfExpanded, Unlocks, WillUnlock

LEMMA CallbackStep == ViewsInv /\ HistoryCallback => ViewsInv'
<1> SUFFICES ASSUME ViewsInv, HistoryCallback PROVE ViewsInv'
  OBVIOUS
<1> DEFINE call == Head(calls)
           none == UNCHANGED <<rootState, scrolling, instruments, waysBack, recordButton>>
<1>1. calls # <<>> /\ calls' = Tail(calls)
  BY DEF HistoryCallback
<1>2. call \in Hashes /\ calls' \in Seq(Hashes) /\ HistoryTyped
  BY <1>1 DEF ViewsInv, ViewsShape, HistoryTyped
<1>3. ASSUME HistoryTyped', none PROVE ViewsInv'
  BY <1>3, ViewsRest DEF rootState, instruments, waysBack, recordButton
<1>4. CASE /\ call = Playing
           /\ IF rootExpanded /\ currentView # Nobody
              THEN \E lost \in SUBSET (MayLose({"open", "openSkip"}) \ {currentView}) :
                     CloseView({currentView}, TRUE, lost)
              ELSE none
           /\ UNCHANGED <<entries, at>>
  <2>1. HistoryTyped'
    BY <1>2, <1>4 DEF HistoryTyped
  <2>2. CASE rootExpanded /\ currentView # Nobody
    <3>1. PICK lost : CloseView({currentView}, TRUE, lost)
      BY <1>4, <2>2
    <3>2. {currentView} \in SUBSET Views /\ {currentView} # {}
      BY <2>2 DEF ViewsInv, ViewsShape
    <3>3. QED
      BY <2>1, <3>1, <3>2, CloseKeeps DEF ViewsInv
  <2>3. QED
    BY <1>3, <1>4, <2>1, <2>2
<1>5. CASE /\ call.hash = "editing"
           /\ IF rootExpanded THEN none
              ELSE \E lost \in SUBSET (MayLose({"close", "closeSkip"}) \ {call.pid}) :
                     OpenView(call.pid, TRUE, lost)
           /\ UNCHANGED <<entries, at>>
  <2>1. HistoryTyped' /\ call.pid \in Views
    BY <1>2, <1>5, HashesAre DEF HistoryTyped
  <2>2. CASE ~rootExpanded
    <3>1. PICK lost : OpenView(call.pid, TRUE, lost)
      BY <1>5, <2>2
    <3>2. QED
      BY <2>1, <3>1, OpenKeeps DEF ViewsInv
  <2>3. QED
    BY <1>3, <1>5, <2>1, <2>2
<1>6. CASE /\ call = Page /\ phase' = "gone"
           /\ entries' = Append(SubSeq(entries, 1, at), Page) /\ at' = at + 1
           /\ UNCHANGED <<rootExpanded, currentView, isScrollingDisabled, visualizersHidden,
                          scrolling, instruments, waysBack, recordButton>>
  <2>1. SubSeq(entries, 1, at) \in Seq(Hashes) /\ Len(SubSeq(entries, 1, at)) = at
    BY <1>2 DEF HistoryTyped
  <2>2. HistoryTyped'
    BY <1>2, <1>6, <2>1, HashesAre DEF HistoryTyped
  <2>3. UNCHANGED <<rootExpanded, currentView, isScrollingDisabled, visualizersHidden, expanded,
                   anim, promised, backHandler, keyListener, recordHandler, isCountdown, isRecording>>
    BY <1>6 DEF instruments, waysBack, recordButton
  <2>4. ViewsShape' /\ GrowingExpanded' /\ HandlersOfExpanded'
    BY <2>2, <2>3 DEF ViewsInv, ViewsShape, HistoryTyped, GrowingExpanded, HandlersOfExpanded
  <2>5. Unlocks'
    BY <1>6, <2>3 DEF ViewsInv, Unlocks, WillUnlock
  <2>6. QED
    BY <2>4, <2>5 DEF ViewsInv
<1>7. QED
  BY <1>4, <1>5, <1>6 DEF HistoryCallback

LEMMA ViewsStep == ViewsInv /\ [ViewsNext]_viewsVars => ViewsInv'
<1> SUFFICES ASSUME ViewsInv, [ViewsNext]_viewsVars PROVE ViewsInv'
  OBVIOUS
<1>1. HistoryTyped
  BY DEF ViewsInv, ViewsShape, HistoryTyped
<1>2. ASSUME UNCHANGED browser PROVE HistoryTyped'
  BY <1>1, <1>2 DEF HistoryTyped, browser
<1>3. ASSUME NEW v \in Views, Activate(v) PROVE ViewsInv'
  <2>1. PICK lost : OpenView(v, FALSE, lost)
    BY <1>3 DEF Activate
  <2>2. HistoryTyped'
    BY <1>2, <1>3 DEF Activate
  <2>3. QED
    BY <2>1, <2>2, OpenKeeps DEF ViewsInv
<1>4. ASSUME NEW v \in Views, PressBack(v) PROVE ViewsInv'
  <2>1. PICK lost : CloseView({v}, FALSE, lost)
    BY <1>4 DEF PressBack
  <2>2. HistoryTyped'
    BY <1>2, <1>4 DEF PressBack
  <2>3. QED
    BY <2>1, <2>2, CloseKeeps DEF ViewsInv
<1>5. CASE PressEscape
  <2>1. PICK lost : CloseView(keyListener, FALSE, lost)
    BY <1>5 DEF PressEscape
  <2>2. HistoryTyped' /\ keyListener \in SUBSET Views /\ keyListener # {}
    BY <1>2, <1>5 DEF PressEscape, ViewsInv, ViewsShape
  <2>3. QED
    BY <2>1, <2>2, CloseKeeps DEF ViewsInv
<1>6. CASE BrowserBackOrForward
  <2>1. HistoryTyped'
    BY <1>1, <1>6, TraverseTyped DEF BrowserBackOrForward
  <2>2. QED
    BY <1>6, <2>1, ViewsRest
       DEF BrowserBackOrForward, rootState, instruments, waysBack, recordButton
<1>7. CASE HistoryCallback
  BY <1>7, CallbackStep
<1>8. CASE Entered
  <2>1. ViewsShape' /\ GrowingExpanded' /\ HandlersOfExpanded'
    BY <1>2, <1>8 DEF Entered, ViewsInv, ViewsShape, HistoryTyped, GrowingExpanded, HandlersOfExpanded,
                      waysBack, recordButton
  <2>2. Unlocks'
    BY <1>8 DEF Entered, ViewsInv, Unlocks, WillUnlock
  <2>3. QED
    BY <2>1, <2>2 DEF ViewsInv
<1>9. ASSUME NEW v \in Views, Grown(v) PROVE ViewsInv'
  <2>1. v \in expanded
    BY <1>9 DEF Grown, ViewsInv, GrowingExpanded
  <2>2. ViewsShape' /\ GrowingExpanded'
    BY <1>2, <1>9 DEF Grown, ViewsInv, ViewsShape, HistoryTyped, GrowingExpanded, rootState
  <2>3. HandlersOfExpanded'
    BY <1>9, <2>1 DEF Grown, ViewsInv, HandlersOfExpanded
  <2>4. Unlocks'
    BY <1>9, <2>1 DEF Grown, Unlocks
  <2>5. QED
    BY <2>2, <2>3, <2>4 DEF ViewsInv
<1>10. ASSUME NEW v \in Views, Opened(v) PROVE ViewsInv'
  <2>1. v \in expanded
    BY <1>10 DEF Opened, ViewsInv, GrowingExpanded
  <2>2. HistoryTyped'
    BY <1>1, <1>2, <1>10, HashesAre, PushTyped DEF Opened
  <2>3. ViewsShape' /\ GrowingExpanded'
    BY <1>10, <2>2 DEF Opened, ViewsInv, ViewsShape, HistoryTyped, GrowingExpanded, rootState, waysBack
  <2>4. HandlersOfExpanded'
    BY <1>10 DEF Opened, ViewsInv, HandlersOfExpanded, waysBack, recordButton
  <2>5. Unlocks'
    BY <1>10, <2>1 DEF Opened, Unlocks
  <2>6. QED
    BY <2>3, <2>4, <2>5 DEF ViewsInv
<1>11. ASSUME NEW v \in Views, Closed(v) PROVE ViewsInv'
  <2>1. HistoryTyped'
    BY <1>1, <1>2, <1>11, TraverseTyped DEF Closed
  <2>2. currentView' \in Views \union {Nobody} /\ expanded' = expanded
    BY <1>11 DEF Closed, ViewsInv, ViewsShape, rootState
  <2>3. ViewsShape' /\ GrowingExpanded'
    BY <1>11, <2>1, <2>2 DEF Closed, ViewsInv, ViewsShape, HistoryTyped, GrowingExpanded, waysBack, recordButton
  <2>4. HandlersOfExpanded'
    BY <1>11 DEF Closed, ViewsInv, HandlersOfExpanded, waysBack, recordButton
  <2>5. Unlocks'
    <3>1. CASE promised[v] = "none"
      <4>1. WillUnlock => WillUnlock'
        BY <1>11, <3>1 DEF Closed, ViewsInv, ViewsShape, WillUnlock
      <4>2. QED
        BY <1>11, <3>1, <4>1 DEF Closed, ViewsInv, Unlocks, rootState
    <3>2. CASE promised[v] # "none"
      <4>1. ~isScrollingDisabled' /\ ~rootExpanded' /\ UNCHANGED <<visualizersHidden, expanded>>
        BY <1>11, <3>2 DEF Closed
      <4>2. QED
        BY <4>1 DEF ViewsInv, Unlocks
    <3>3. QED
      BY <3>1, <3>2
  <2>6. QED
    BY <2>3, <2>4, <2>5 DEF ViewsInv
<1>12. CASE Scroll \/ ScrollStop
  BY <1>2, <1>12, ViewsRest DEF Scroll, ScrollStop, rootState, waysBack, recordButton
<1>13. ASSUME NEW v \in Views, PressRecord(v) PROVE ViewsInv'
  <2>1. ViewsShape' /\ GrowingExpanded' /\ Unlocks'
    BY <1>2, <1>13 DEF PressRecord, ViewsInv, ViewsShape, HistoryTyped, GrowingExpanded, Unlocks, WillUnlock,
                       rootState, instruments
  <2>2. HandlersOfExpanded'
    BY <1>13 DEF PressRecord, ViewsInv, HandlersOfExpanded, instruments
  <2>3. QED
    BY <2>1, <2>2 DEF ViewsInv
<1>14. CASE FirstBeat
  <2>1. ViewsShape' /\ GrowingExpanded' /\ Unlocks'
    BY <1>2, <1>14 DEF FirstBeat, ViewsInv, ViewsShape, HistoryTyped, GrowingExpanded, Unlocks, WillUnlock,
                       rootState, instruments, waysBack
  <2>2. HandlersOfExpanded'
    BY <1>14 DEF FirstBeat, ViewsInv, HandlersOfExpanded, instruments, waysBack
  <2>3. QED
    BY <2>1, <2>2 DEF ViewsInv
<1>15. CASE RecordFrame
  <2>1. PICK over \in SUBSET expanded : /\ isRecording' = isRecording \ over
                                       /\ keyListener' = keyListener \union over
    <3> DEFINE drawn == (isRecording \intersect expanded) \ paused
               ended == {v \in drawn : recordLeft[v] = 0}
    <3>1. isRecording' = isRecording \ ended /\ keyListener' = keyListener \union ended
      BY <1>15 DEF RecordFrame
    <3>2. ended \in SUBSET expanded
      OBVIOUS
    <3>3. QED
      BY <3>1, <3>2
  <2>2. UNCHANGED <<rootState, instruments, backHandler, recordHandler, isCountdown, browser>>
    BY <1>15 DEF RecordFrame
  <2>3. HandlersOfExpanded'
    BY <2>1, <2>2 DEF ViewsInv, HandlersOfExpanded, instruments
  <2>4. keyListener' \subseteq Views
    BY <2>1 DEF ViewsInv, ViewsShape
  <2>5. ViewsShape' /\ GrowingExpanded' /\ Unlocks'
    BY <1>2, <2>2, <2>4 DEF ViewsInv, ViewsShape, HistoryTyped, GrowingExpanded, Unlocks, WillUnlock,
                            rootState, instruments
  <2>6. QED
    BY <2>3, <2>5 DEF ViewsInv
<1>16. ASSUME NEW v \in Views, ResetRecord(v) PROVE ViewsInv'
  BY <1>2, <1>16, ViewsRest DEF ResetRecord, rootState, instruments, waysBack
<1>17. CASE UNCHANGED viewsVars
  BY <1>2, <1>17, ViewsRest DEF viewsVars, rootState, instruments, waysBack, recordButton
<1>18. QED
  BY <1>3, <1>4, <1>5, <1>6, <1>7, <1>8, <1>9, <1>10, <1>11, <1>12, <1>13, <1>14, <1>15, <1>16, <1>17
     DEF ViewsNext

(***************************************************************************)
(* Only expanded instruments listen, and each of them can be left with     *)
(* Escape unless it counts down or records, whatever the user opens,       *)
(* closes, records and traverses while animations run                      *)
(* (InstrumentContainer.js, RecordButton.js).                              *)
(***************************************************************************)
THEOREM HandlersAreOfExpanded == ViewsSpec => []HandlersOfExpanded
<1>1. ViewsInv => HandlersOfExpanded
  BY DEF ViewsInv
<1>2. QED
  BY <1>1, ViewsStart, ViewsStep, PTL DEF ViewsSpec

(***************************************************************************)
(* However the user hurries, once everything is at rest and no instrument  *)
(* is expanded, the page scrolls and its visualizers are back: an opening  *)
(* may overwrite the animation that was to unlock the page, but the close  *)
(* of what it opens brings another (Root.js openView and closeView).       *)
(***************************************************************************)
THEOREM NothingIsLocked == ViewsSpec => []NothingLocked
<1>1. ViewsInv => NothingLocked
  BY DEF ViewsInv, Unlocks, WillUnlock, NothingLocked, AtRest, Moving
<1>2. QED
  BY <1>1, ViewsStart, ViewsStep, PTL DEF ViewsSpec

-----------------------------------------------------------------------------
(* The user who waits.                                                     *)

\* The history has the page, the experiment, and at most the instrument that was opened last.
Trail ==
    /\ Len(entries) \in {2, 3} /\ entries[1] = Page /\ entries[2] = Playing
    /\ Len(entries) = 3 => \E v \in Views : entries[3] = Editing(v)

Resting(u) == anim[u] = "still" /\ promised[u] = "none"

\* No instrument is open, or about to be.
NoneOpen ==
    /\ expanded = {} /\ rootExpanded = FALSE /\ currentView = Nobody /\ muted = {}
    /\ visualizersHidden = FALSE
    /\ phase \in {"entering", "in"} /\ isScrollingDisabled = (phase = "entering")
    /\ \A u \in Views : Resting(u)
    /\ \/ calls = <<>> /\ at = 2
       \/ calls = <<entries[at]>> /\ phase = "in"

\* What opening has done to the root and to the other instruments.
Front(v) ==
    /\ phase = "in" /\ currentView = v /\ rootExpanded = TRUE /\ isScrollingDisabled = TRUE
    /\ muted = Views \ {v} /\ \A u \in Views \ {v} : Resting(u)

Opening(v) ==
    /\ Front(v) /\ expanded = {v} /\ v \notin paused /\ visualizersHidden = TRUE
    /\ anim[v] \in {"growing", "controls"} /\ calls = <<>>
    /\ \/ promised[v] = "open" /\ at = 2
       \/ promised[v] = "openSkip" /\ entries[at] = Editing(v)

OpenAlone(v) ==
    /\ Front(v) /\ expanded = {v} /\ v \notin paused /\ visualizersHidden = TRUE /\ Resting(v)
    /\ \/ calls = <<>> /\ entries[at] = Editing(v)
       \/ calls = <<Playing>> /\ at = 2
       
Closing(v) ==
    /\ Front(v) /\ expanded = {} /\ visualizersHidden = FALSE
    /\ anim[v] = "shrinking" /\ calls = <<>>
    /\ \/ promised[v] = "close" /\ at = 3
       \/ promised[v] = "closeSkip" /\ at = 2

OneAtATime == NoneOpen \/ \E v \in Views : Opening(v) \/ OpenAlone(v) \/ Closing(v)

SyncInv == hasty \/ phase = "gone" \/ (Trail /\ OneAtATime)

LEMMA SyncDefs ==
    /\ Nobody \notin Views /\ Page # Playing
    /\ \A v \in Views : Editing(v).hash = "editing" /\ Editing(v).pid = v
    /\ Page.hash = "page" /\ Playing.hash = "playing"
  BY ExperimentViewsAssumption DEF Nobody, Page, Playing, Editing

\* A user who waits makes a move while an instrument is open or none is.
LEMMA WhoWaits ==
    ASSUME Moves, ~hasty', phase # "gone", OneAtATime
    PROVE  /\ phase = "in" /\ calls = <<>>
           /\ NoneOpen \/ \E v \in Views : OpenAlone(v)
<1>1. phase # "entering" /\ calls = <<>> /\ \A v \in Views : anim[v] = "still"
  BY DEF Moves, Waiting, Moving
<1>2. NoneOpen \/ \E v \in Views : OpenAlone(v)
  BY <1>1 DEF OneAtATime, Opening, Closing
<1>3. QED
  BY <1>1, <1>2 DEF NoneOpen, OpenAlone, Front

LEMMA Opens ==
    ASSUME ViewsShape, Trail, NoneOpen, NEW v \in Views, NEW skip \in BOOLEAN, NEW lost,
           OpenView(v, skip, lost), phase = "in", calls' = <<>>, UNCHANGED <<entries, at>>,
           IF skip THEN entries[at] = Editing(v) ELSE at = 2
    PROVE  Trail' /\ OneAtATime'
<1>1. /\ expanded' = {v} /\ anim'[v] = "growing"
      /\ promised'[v] = IF skip THEN "openSkip" ELSE "open"
      /\ \A u \in Views \ {v} : anim'[u] = "still" /\ promised'[u] = "none"
  BY DEF OpenView, NoneOpen, Resting, ViewsShape
<1>2. Opening(v)'
  BY <1>1 DEF OpenView, NoneOpen, Opening, Front, Resting
<1>3. QED
  BY <1>2 DEF Trail, OneAtATime

LEMMA Closes ==
    ASSUME ViewsShape, Trail, NEW v \in Views, OpenAlone(v), NEW skip \in BOOLEAN, NEW lost,
           CloseView({v}, skip, lost), calls' = <<>>, UNCHANGED <<entries, at>>,
           IF skip THEN at = 2 ELSE at = 3
    PROVE  Trail' /\ OneAtATime'
<1>1. /\ expanded' = {} /\ anim'[v] = "shrinking"
      /\ promised'[v] = IF skip THEN "closeSkip" ELSE "close"
      /\ \A u \in Views \ {v} : anim'[u] = "still" /\ promised'[u] = "none"
  BY DEF CloseView, OpenAlone, Front, Resting, ViewsShape
<1>2. Closing(v)'
  BY <1>1 DEF CloseView, OpenAlone, Closing, Front, Resting
<1>3. QED
  BY <1>2 DEF Trail, OneAtATime

\* Where the history is while an instrument is open and no callback waits.
LEMMA OpenIsLast ==
    ASSUME ViewsShape, Trail, NEW v \in Views, OpenAlone(v), calls = <<>>
    PROVE  at = 3 /\ entries[at] = Editing(v)
  BY SyncDefs DEF ViewsShape, Trail, OpenAlone

LEMMA TraverseKeeps ==
    ASSUME ViewsShape, Trail, NoneOpen \/ \E v \in Views : OpenAlone(v), phase = "in", calls = <<>>,
           BrowserBackOrForward
    PROVE  Trail' /\ OneAtATime'
<1>1. PICK i : i \in {at - 1, at + 1} /\ i \in 1..Len(entries) /\ Traverse(i)
  BY DEF BrowserBackOrForward, Traverse
<1>2. at' = i /\ calls' = <<entries[i]>> /\ entries' = entries /\ i \in Int
  <2>1. Append(<<>>, entries[i]) = <<entries[i]>>
    OBVIOUS
  <2>2. QED BY <1>1, <2>1 DEF Traverse, ViewsShape
<1>3. CASE NoneOpen
  <2>1. NoneOpen'
    BY <1>2, <1>3 DEF BrowserBackOrForward, NoneOpen, Resting, rootState, instruments
  <2>2. QED BY <1>2, <2>1 DEF Trail, OneAtATime
<1>4. ASSUME NEW v \in Views, OpenAlone(v) PROVE Trail' /\ OneAtATime'
  <2>1. at = 3
    BY <1>4, OpenIsLast
  <2>a. i = 2
    <3>1. i = 2 \/ i = 4
      BY <1>1, <2>1
    <3>2. CASE Len(entries) = 2
      BY <1>1, <3>1, <3>2
    <3>3. CASE Len(entries) = 3
      BY <1>1, <3>1, <3>3
    <3>4. QED BY <3>2, <3>3 DEF Trail
  <2>2. OpenAlone(v)'
    BY <1>2, <1>4, <2>1, <2>a DEF BrowserBackOrForward, OpenAlone, Front, Resting, rootState, instruments, Trail
  <2>3. QED BY <1>2, <2>2 DEF Trail, OneAtATime
<1>5. QED BY <1>3, <1>4

LEMMA CallbackKeeps ==
    ASSUME ViewsShape, Trail, OneAtATime, phase \in {"in", "entering"}, HistoryCallback, phase' # "gone"
    PROVE  Trail' /\ OneAtATime'
<1> DEFINE call == Head(calls)
<1>1. calls # <<>> /\ calls' = Tail(calls) /\ call # Page /\ UNCHANGED <<entries, at>>
  BY SyncDefs DEF HistoryCallback
<1>2. CASE NoneOpen
  <2>1. calls = <<entries[at]>> /\ phase = "in" /\ call = entries[at] /\ calls' = <<>>
    BY <1>1, <1>2 DEF NoneOpen
  <2>2. CASE call = Playing
    <3>a. at = 2
      BY <2>1, <2>2, SyncDefs DEF Trail, ViewsShape
    <3>b. call.hash # "editing" /\ ~rootExpanded
      BY <1>2, <2>2, SyncDefs DEF NoneOpen
    <3>1. at' = 2 /\ UNCHANGED <<rootState, instruments>>
      BY <1>1, <2>2, <3>a, <3>b DEF HistoryCallback
    <3>2. NoneOpen'
      BY <1>2, <2>1, <3>1 DEF NoneOpen, Resting, rootState, instruments
    <3>3. QED BY <1>1, <3>2 DEF Trail, OneAtATime
  <2>3. CASE call # Playing
    <3>1. call.hash = "editing" /\ ~rootExpanded
      BY <1>2, <2>3, <1>1 DEF HistoryCallback, NoneOpen
    <3>2. PICK lost : OpenView(call.pid, TRUE, lost)
      BY <1>1, <2>3, <3>1 DEF HistoryCallback
    <3>3. call.pid \in Views /\ call = Editing(call.pid)
      BY <1>1, <2>1, <2>3, SyncDefs DEF Trail, ViewsShape
    <3>4. QED BY <1>1, <1>2, <2>1, <3>2, <3>3, Opens
  <2>4. QED BY <2>2, <2>3
<1>3. ASSUME NEW v \in Views, OpenAlone(v) PROVE Trail' /\ OneAtATime'
  <2>a. calls = <<Playing>> /\ at = 2
    BY <1>1, <1>3 DEF OpenAlone
  <2>1. calls = <<Playing>> /\ at = 2 /\ call = Playing /\ calls' = <<>>
    BY <1>1, <2>a
  <2>2. PICK lost : CloseView({v}, TRUE, lost)
    BY <1>1, <1>3, <2>1, SyncDefs DEF HistoryCallback, OpenAlone, Front
  <2>3. QED BY <1>1, <1>3, <2>1, <2>2, Closes
<1>4. QED BY <1>1, <1>2, <1>3 DEF OneAtATime, Opening, Closing

LEMMA SyncRests ==
    ASSUME Trail, OneAtATime, UNCHANGED <<rootState, expanded, muted, anim, promised, browser>>,
           \A v \in Views : Opening(v) \/ OpenAlone(v) => (v \in paused' => v \in paused)
    PROVE  Trail' /\ OneAtATime'
<1>1. UNCHANGED <<phase, rootExpanded, currentView, isScrollingDisabled, visualizersHidden, entries, at, calls>>
  BY DEF rootState, browser
<1>2. CASE NoneOpen
  BY <1>1, <1>2 DEF NoneOpen, Resting, Trail, OneAtATime
<1>3. ASSUME NEW v \in Views, Opening(v) PROVE Trail' /\ OneAtATime'
  <2>1. Opening(v)' BY <1>1, <1>3 DEF Opening, Front, Resting
  <2>2. QED BY <1>1, <2>1 DEF Trail, OneAtATime
<1>4. ASSUME NEW v \in Views, OpenAlone(v) PROVE Trail' /\ OneAtATime'
  <2>1. OpenAlone(v)' BY <1>1, <1>4 DEF OpenAlone, Front, Resting
  <2>2. QED BY <1>1, <2>1 DEF Trail, OneAtATime
<1>5. ASSUME NEW v \in Views, Closing(v) PROVE Trail' /\ OneAtATime'
  <2>1. Closing(v)' BY <1>1, <1>5 DEF Closing, Front, Resting
  <2>2. QED BY <1>1, <2>1 DEF Trail, OneAtATime
<1>6. QED BY <1>2, <1>3, <1>4, <1>5 DEF OneAtATime

LEMMA GrownKeeps ==
    ASSUME ViewsShape, Trail, OneAtATime, NEW v \in Views, Grown(v)
    PROVE  Trail' /\ OneAtATime'
<1>1. anim[v] = "growing" /\ UNCHANGED <<rootState, expanded, muted, paused, promised, browser>>
      /\ anim'[v] = "controls" /\ \A u \in Views \ {v} : anim'[u] = anim[u]
  BY DEF Grown, ViewsShape
<1>2. Opening(v)
  BY <1>1 DEF OneAtATime, NoneOpen, Opening, OpenAlone, Closing, Front, Resting
<1>3. Opening(v)'
  BY <1>1, <1>2 DEF Opening, Front, Resting, rootState, browser
<1>4. QED BY <1>1, <1>3 DEF Trail, OneAtATime, browser

LEMMA OpenedKeeps ==
    ASSUME ViewsShape, Trail, OneAtATime, NEW v \in Views, Opened(v)
    PROVE  Trail' /\ OneAtATime'
<1>1. /\ anim[v] = "controls" /\ UNCHANGED <<rootState, expanded, muted>>
      /\ anim'[v] = "still" /\ promised'[v] = "none" /\ (v \in paused' => v \in paused)
      /\ \A u \in Views \ {v} : anim'[u] = anim[u] /\ promised'[u] = promised[u]
  BY DEF Opened, ViewsShape
<1>2. Opening(v)
  BY <1>1 DEF OneAtATime, NoneOpen, Opening, OpenAlone, Closing, Front, Resting
<1>3. calls' = <<>> /\ entries'[at'] = Editing(v) /\ Trail'
  <2>1. CASE promised[v] = "open"
    <3>1. at = 2 /\ entries' = Append(SubSeq(entries, 1, 2), Editing(v)) /\ at' = 3 /\ calls' = <<>>
      BY <1>2, <2>1 DEF Opening, Opened, PushState
    <3>2. /\ SubSeq(entries, 1, 2) \in Seq(Hashes) /\ Len(SubSeq(entries, 1, 2)) = 2
          /\ SubSeq(entries, 1, 2)[1] = Page /\ SubSeq(entries, 1, 2)[2] = Playing
      BY DEF ViewsShape, Trail
    <3>3. Len(entries') = 3 /\ entries'[1] = Page /\ entries'[2] = Playing /\ entries'[3] = Editing(v)
      BY <3>1, <3>2, HashesAre
    <3>4. QED BY <3>1, <3>3 DEF Trail
  <2>2. CASE promised[v] # "open"
    BY <1>2, <2>2 DEF Opening, Opened, browser, Trail
  <2>3. QED BY <2>1, <2>2
<1>4. OpenAlone(v)'
  BY <1>1, <1>2, <1>3 DEF Opening, OpenAlone, Front, Resting, rootState
<1>5. QED BY <1>3, <1>4 DEF OneAtATime

LEMMA ClosedKeeps ==
    ASSUME ViewsShape, Trail, OneAtATime, NEW v \in Views, Closed(v)
    PROVE  Trail' /\ OneAtATime'
<1>1. /\ anim[v] = "shrinking" /\ UNCHANGED expanded
      /\ anim'[v] = "still" /\ promised'[v] = "none"
      /\ \A u \in Views \ {v} : anim'[u] = anim[u] /\ promised'[u] = promised[u]
  BY DEF Closed, ViewsShape
<1>2. Closing(v)
  BY <1>1 DEF OneAtATime, NoneOpen, Opening, OpenAlone, Closing, Front, Resting
<1>3. /\ isScrollingDisabled' = FALSE /\ rootExpanded' = FALSE /\ currentView' = Nobody /\ muted' = {}
      /\ phase' = "in" /\ visualizersHidden' = FALSE
  BY <1>2 DEF Closing, Front, Closed
<1>4. entries' = entries /\ ((calls' = <<>> /\ at' = 2) \/ calls' = <<entries'[at']>>)
  <2>1. CASE promised[v] = "close"
    <3>1. at' = 2 /\ calls' = Append(<<>>, entries[2]) /\ entries' = entries
      BY <1>2, <2>1 DEF Closing, Closed, Traverse
    <3>2. Append(<<>>, entries[2]) = <<entries[2]>>
      OBVIOUS
    <3>3. QED BY <3>1, <3>2
  <2>2. CASE promised[v] # "close"
    BY <1>2, <2>2 DEF Closing, Closed, browser
  <2>3. QED BY <2>1, <2>2
<1>5. NoneOpen'
  BY <1>1, <1>2, <1>3, <1>4 DEF Closing, NoneOpen, Front, Resting
<1>6. QED BY <1>4, <1>5 DEF Trail, OneAtATime

\* What the user does, having waited.
LEMMA MoveKeeps ==
    ASSUME ViewsShape, HandlersOfExpanded, Trail, OneAtATime, phase # "gone", ~hasty', NEW v \in Views,
           Activate(v) \/ PressBack(v) \/ PressEscape \/ BrowserBackOrForward
    PROVE  Trail' /\ OneAtATime'
<1>1. /\ phase = "in" /\ calls = <<>>
      /\ NoneOpen \/ \E u \in Views : OpenAlone(u)
  BY WhoWaits DEF Activate, PressBack, PressEscape, BrowserBackOrForward
<1>2. CASE Activate(v)
  <2>1. ~ \E u \in Views : OpenAlone(u)
    BY <1>2 DEF Activate, Covered, OpenAlone, Resting
  <2>2. PICK lost : OpenView(v, FALSE, lost)
    BY <1>2 DEF Activate
  <2>3. NoneOpen /\ UNCHANGED <<entries, at, calls>>
    BY <1>1, <1>2, <2>1 DEF Activate, browser
  <2>4. at = 2
    BY <1>1, <2>3 DEF NoneOpen
  <2>5. QED BY <1>1, <2>2, <2>3, <2>4, Opens
<1>3. CASE PressBack(v)
  <2>1. v \in expanded
    BY <1>3 DEF PressBack, HandlersOfExpanded
  <2>2. OpenAlone(v)
    BY <1>1, <2>1 DEF NoneOpen, OpenAlone
  <2>3. PICK lost : CloseView({v}, FALSE, lost)
    BY <1>3 DEF PressBack
  <2>4. at = 3 /\ UNCHANGED <<entries, at, calls>>
    BY <1>1, <1>3, <2>2, OpenIsLast DEF PressBack, browser
  <2>5. QED BY <1>1, <2>2, <2>3, <2>4, Closes
<1>4. CASE PressEscape
  <2>1. PICK u \in Views : OpenAlone(u) /\ keyListener = {u}
    BY <1>1, <1>4 DEF PressEscape, HandlersOfExpanded, NoneOpen, OpenAlone
  <2>2. PICK lost : CloseView({u}, FALSE, lost)
    BY <1>4, <2>1 DEF PressEscape
  <2>3. at = 3 /\ UNCHANGED <<entries, at, calls>>
    BY <1>1, <1>4, <2>1, OpenIsLast DEF PressEscape, browser
  <2>4. QED BY <1>1, <2>1, <2>2, <2>3, Closes
<1>5. CASE BrowserBackOrForward
  BY <1>1, <1>5, TraverseKeeps
<1>6. QED BY <1>2, <1>3, <1>4, <1>5

LEMMA EnteredKeeps == ASSUME Trail, OneAtATime, Entered PROVE Trail' /\ OneAtATime'
<1>1. NoneOpen
  BY DEF Entered, OneAtATime, Opening, OpenAlone, Closing, Front
<1>2. NoneOpen'
  BY <1>1 DEF Entered, NoneOpen, Resting, browser
<1>3. QED BY <1>2 DEF Entered, Trail, OneAtATime, browser

LEMMA ScrollKeeps == ASSUME Trail, OneAtATime, Scroll \/ ScrollStop PROVE Trail' /\ OneAtATime'
<1>1. UNCHANGED <<rootState, expanded, muted, anim, promised, browser>>
  BY DEF Scroll, ScrollStop
<1>2. \A v \in Views : Opening(v) \/ OpenAlone(v) => (v \in paused' => v \in paused)
  BY DEF Scroll, ScrollStop, Opening, OpenAlone, Front
<1>3. QED BY <1>1, <1>2, SyncRests

LEMMA SyncStep == ASSUME ViewsInv, SyncInv, [ViewsNext]_viewsVars PROVE SyncInv'
<1> SUFFICES ASSUME ~hasty', phase' # "gone" PROVE Trail' /\ OneAtATime'
  BY DEF SyncInv
<1> DEFINE Move == \E v \in Views : Activate(v) \/ PressBack(v)
<1>1. ~hasty /\ phase # "gone"
  <2>1. CASE Move \/ PressEscape \/ BrowserBackOrForward
    BY <2>1 DEF Activate, PressBack, PressEscape, BrowserBackOrForward, Moves
  <2>2. CASE \E v \in Views : PressRecord(v) \/ Grown(v) \/ Opened(v) \/ Closed(v) \/ ResetRecord(v)
    BY <2>2 DEF PressRecord, Grown, Opened, Closed, ResetRecord, user
  <2>3. CASE HistoryCallback
    BY <2>3 DEF HistoryCallback, user
  <2>4. CASE Entered \/ Scroll \/ ScrollStop
    BY <2>4 DEF Entered, Scroll, ScrollStop, user
  <2>5. CASE FirstBeat
    BY <2>5 DEF FirstBeat, user
  <2>6. CASE RecordFrame
    BY <2>6 DEF RecordFrame, user
  <2>7. CASE UNCHANGED viewsVars
    BY <2>7 DEF viewsVars, user, rootState
  <2>8. QED BY <2>1, <2>2, <2>3, <2>4, <2>5, <2>6, <2>7 DEF ViewsNext
<1>2. ViewsShape /\ HandlersOfExpanded /\ Trail /\ OneAtATime
  BY <1>1 DEF ViewsInv, SyncInv
<1>3. phase \in {"in", "entering"}
  BY <1>2 DEF OneAtATime, NoneOpen, Opening, OpenAlone, Closing, Front
<1>4. CASE Move \/ PressEscape \/ BrowserBackOrForward
  BY <1>1, <1>2, <1>4, MoveKeeps, ExperimentViewsAssumption
<1>5. CASE \E v \in Views : Grown(v) \/ Opened(v) \/ Closed(v)
  BY <1>2, <1>5, GrownKeeps, OpenedKeeps, ClosedKeeps
<1>6. CASE HistoryCallback
  BY <1>2, <1>3, <1>6, CallbackKeeps
<1>7. CASE Entered
  BY <1>2, <1>7, EnteredKeeps
<1>8. CASE Scroll \/ ScrollStop
  BY <1>2, <1>8, ScrollKeeps
<1>9. CASE FirstBeat \/ RecordFrame \/ \E v \in Views : PressRecord(v) \/ ResetRecord(v)
  BY <1>2, <1>9, SyncRests DEF FirstBeat, RecordFrame, PressRecord, ResetRecord, instruments
<1>10. CASE UNCHANGED viewsVars
  BY <1>2, <1>10, SyncRests DEF viewsVars, instruments
<1>11. QED
  BY <1>4, <1>5, <1>6, <1>7, <1>8, <1>9, <1>10 DEF ViewsNext

LEMMA SyncStart == ASSUME ViewsInit PROVE SyncInv
<1>1. Len(entries) = 2 /\ entries[1] = Page /\ entries[2] = Playing
  BY DEF ViewsInit
<1>2. NoneOpen
  BY DEF ViewsInit, NoneOpen, Resting
<1>3. QED BY <1>1, <1>2 DEF SyncInv, Trail, OneAtATime

(***************************************************************************)
(* For a user who waits for the animations, everything that opening and    *)
(* closing changes agrees once they are over: the address, the instrument  *)
(* that is expanded, what scrolls, what is muted and what is drawn,        *)
(* whether it was opened by a press or by the browser's buttons and closed *)
(* by them, the arrow or Escape (Root.js, HistoryManager.js).              *)
(***************************************************************************)
THEOREM ViewsAreInSync == ViewsSpec => []InSync
<1>1. ViewsInv /\ SyncInv => InSync
  <2> SUFFICES ASSUME ViewsInv, SyncInv, AtRest, ~hasty PROVE InSync
    BY DEF InSync
  <2>1. calls = <<>> /\ OneAtATime /\ Trail /\ phase = "in" /\ \A v \in Views : anim[v] = "still"
    BY DEF SyncInv, AtRest, Moving
  <2>2. CASE NoneOpen
    <3>1. at = 2 /\ expanded = {} /\ currentView = Nobody
      BY <2>1, <2>2 DEF NoneOpen
    <3>2. entries[at] = Playing
      BY <2>1, <3>1 DEF Trail
    <3>3. QED BY <2>1, <2>2, <3>1, <3>2 DEF NoneOpen, InSync
  <2>3. ASSUME NEW v \in Views, OpenAlone(v) PROVE InSync
    BY <2>1, <2>3, SyncDefs DEF OpenAlone, Front, InSync
  <2>4. QED BY <2>1, <2>2, <2>3 DEF OneAtATime, Opening, Closing
<1>2. QED
  BY <1>1, ViewsStart, ViewsStep, SyncStart, SyncStep, PTL DEF ViewsSpec

-----------------------------------------------------------------------------
(* Numbers                                                                 *)

\* A set of natural numbers that is not empty has a least: subsets of a finite
\* set are well-founded.
LEMMA LeastNat == ASSUME NEW T, T \subseteq Nat, T # {} PROVE \E x \in T : \A y \in T : x <= y
<1> DEFINE Below == {0..n : n \in T}
<1>1. Below \subseteq FiniteSubsetsOf(Nat) /\ Below # {}
  <2>1. \A n \in T : 0..n \in SUBSET Nat /\ IsFiniteSet(0..n)
    BY FS_Interval
  <2>2. QED BY <2>1 DEF FiniteSubsetsOf
<1>2. PICK M \in Below : \A N \in Below : <<N, M>> \notin StrictSubsetOrdering(Nat)
  <2> HIDE DEF Below
  <2>1. QED BY <1>1, WFMin, FS_StrictSubsetOrderingWellFounded
<1>3. PICK x \in T : M = 0..x
  OBVIOUS
<1>4. ASSUME NEW y \in T, y < x PROVE FALSE
  <2>1. <<0..y, 0..x>> \in StrictSubsetOrdering(Nat)
    BY <1>4 DEF StrictSubsetOrdering
  <2>2. QED BY <2>1, <1>2, <1>3
<1>5. QED BY <1>4

\* Induction over the natural numbers, about a set.
LEMMA NatInd == ASSUME NEW S, 0 \in S, \A n \in Nat : n \in S => n + 1 \in S PROVE Nat \subseteq S
<1> DEFINE T == Nat \ S
<1>1. SUFFICES ASSUME T # {} PROVE FALSE
  OBVIOUS
<1>2. PICK x \in T : \A y \in T : x <= y
  <2> HIDE DEF T
  <2>1. T \subseteq Nat BY DEF T
  <2>2. QED BY <1>1, <2>1, LeastNat
<1>3. x - 1 \in Nat /\ x - 1 \notin T
  BY <1>2
<1>4. QED BY <1>3

-----------------------------------------------------------------------------
(* The lists of the playback bus                                           *)

Heaps ==
    [next : [Nodes -> Nodes \union {Null}], prev : [Nodes -> Nodes \union {Null}],
     obj : [Nodes -> Nodes \union {Null}], free : Seq(Nodes), created : 0..MaxNodes,
     head : [Lists -> Nodes \union {Null}], tail : [Lists -> Nodes \union {Null}]]

\* The nodes of s are the list l, linked in both directions.
Linked(g, l, s) ==
    /\ g.head[l] = IF Len(s) = 0 THEN Null ELSE s[1]
    /\ g.tail[l] = IF Len(s) = 0 THEN Null ELSE s[Len(s)]
    /\ \A i \in 1..Len(s) : /\ g.next[s[i]] = IF i = Len(s) THEN Null ELSE s[i + 1]
                            /\ g.prev[s[i]] = IF i = 1 THEN Null ELSE s[i - 1]

\* A node is in one place of one list, or free, once.
Apart(g, S) ==
    /\ \A l, k \in Lists : \A i \in 1..Len(S[l]), j \in 1..Len(S[k]) : S[l][i] = S[k][j] => l = k /\ i = j
    /\ \A i, j \in 1..Len(g.free) : g.free[i] = g.free[j] => i = j
    /\ \A l \in Lists : \A i \in 1..Len(S[l]), j \in 1..Len(g.free) : S[l][i] # g.free[j]

Spread(g, S) ==
    /\ \A l \in Lists : \A i \in 1..Len(S[l]) : S[l][i] <= g.created
    /\ \A j \in 1..Len(g.free) : g.free[j] <= g.created
    /\ \A n \in 1..g.created : \/ \E j \in 1..Len(g.free) : n = g.free[j]
                               \/ \E l \in Lists : \E i \in 1..Len(S[l]) : n = S[l][i]

\* The heap g holds the lists S.
Holds(g, S) ==
    /\ g \in Heaps /\ S \in [Lists -> Seq(Nodes)]
    /\ \A l \in Lists : Linked(g, l, S[l])
    /\ Apart(g, S) /\ Spread(g, S)

\* The objects of D, and no others, are in the lists, each in one place.
Carry(g, S, D) ==
    /\ \A l, k \in Lists : \A i \in 1..Len(S[l]), j \in 1..Len(S[k]) :
          g.obj[S[l][i]] = g.obj[S[k][j]] => l = k /\ i = j
    /\ \A l \in Lists : \A i \in 1..Len(S[l]) : g.obj[S[l][i]] \in D
    /\ \A d \in D : \E l \in Lists : \E i \in 1..Len(S[l]) : g.obj[S[l][i]] = d

\* What the assumptions say of the nodes.
LEMMA Bounds == MaxNodes \in Nat /\ Null \notin Int /\ Nodes \subseteq Nat /\ \A n : n \in Nodes <=> n \in Nat /\ 1 <= n /\ n <= MaxNodes
  BY PlaybackBusAssumption DEF Nodes

HasRoom(g) == Len(g.free) > 0 \/ g.created < MaxNodes

\* What the fields of a heap are.
LEMMA FieldsAre ==
  ASSUME NEW g \in Heaps
  PROVE  /\ g.next \in [Nodes -> Nodes \union {Null}] /\ g.prev \in [Nodes -> Nodes \union {Null}]
         /\ g.obj \in [Nodes -> Nodes \union {Null}] /\ g.free \in Seq(Nodes)
         /\ g.created \in Nat /\ g.created <= MaxNodes
         /\ g.head \in [Lists -> Nodes \union {Null}] /\ g.tail \in [Lists -> Nodes \union {Null}]
  BY Bounds DEF Heaps

\* The heap that a new node is taken from.
LEMMA TakenIs ==
  ASSUME NEW g, NEW S, Holds(g, S), HasRoom(g)
  PROVE  LET n == NewNode(g)
             t == Taken(g)
         IN  /\ n \in Nodes /\ t \in Heaps /\ n <= t.created
             /\ \A l \in Lists : \A i \in 1..Len(S[l]) : S[l][i] # n
             /\ t.next = g.next /\ t.prev = g.prev /\ t.obj = g.obj /\ t.head = g.head /\ t.tail = g.tail
             /\ Len(t.free) \in Nat /\ Len(t.free) <= Len(g.free) /\ g.created <= t.created
             /\ \A j \in 1..Len(t.free) : t.free[j] = g.free[j] /\ t.free[j] # n
             /\ \A m \in 1..t.created : m = n \/ m \in 1..g.created
             /\ \A j \in 1..Len(g.free) : g.free[j] = n \/ j <= Len(t.free)
             /\ Len(g.free) > 0 => n = g.free[Len(g.free)] /\ Len(t.free) = Len(g.free) - 1
<1> DEFINE n == NewNode(g)
           t == Taken(g)
<1>1. g \in Heaps /\ S \in [Lists -> Seq(Nodes)] /\ Len(g.free) \in Nat /\ g.free \in Seq(Nodes)
      /\ g.created \in Nat /\ g.created <= MaxNodes /\ MaxNodes \in Nat
  BY FieldsAre, Bounds DEF Holds
<1>2. CASE Len(g.free) > 0
  <2>1. g.free # <<>> /\ n = g.free[Len(g.free)] /\ t = [g EXCEPT !.free = SubSeq(g.free, 1, Len(g.free) - 1)]
    BY <1>1, <1>2, EmptySeq DEF NewNode, Taken
  <2> DEFINE f == SubSeq(g.free, 1, Len(g.free) - 1)
  <2>2. f \in Seq(Nodes) /\ Len(f) = Len(g.free) - 1 /\ \A j \in 1..Len(f) : f[j] = g.free[j]
    BY <1>1, <1>2
  <2> HIDE DEF f
  <2>3. t \in Heaps /\ t.free = f /\ t.created = g.created
        /\ t.next = g.next /\ t.prev = g.prev /\ t.obj = g.obj /\ t.head = g.head /\ t.tail = g.tail
    BY <1>1, <2>1, <2>2 DEF f, Heaps
  <2>4. n \in Nodes /\ n <= g.created
    <3>1. Len(g.free) \in 1..Len(g.free)
      BY <1>1, <1>2
    <3>2. g.free[Len(g.free)] \in Nodes
      BY <1>1, <3>1
    <3>3. g.free[Len(g.free)] <= g.created
      BY <3>1 DEF Holds, Spread
    <3>4. QED BY <2>1, <3>2, <3>3
  <2>5. /\ \A l \in Lists : \A i \in 1..Len(S[l]) : S[l][i] # n
        /\ \A j \in 1..Len(g.free) : g.free[j] = n <=> j = Len(g.free)
    BY <1>1, <1>2, <2>1 DEF Holds, Apart
  <2>6. \A j \in 1..Len(f) : f[j] # n
    BY <2>2, <2>5, <1>1
  <2>7. \A j \in 1..Len(g.free) : g.free[j] = n \/ j <= Len(f)
    BY <2>2, <2>5, <1>1
  <2> HIDE DEF n, t
  <2>8. QED BY <1>1, <2>1, <2>2, <2>3, <2>4, <2>5, <2>6, <2>7 DEF n, t
<1>3. CASE ~(Len(g.free) > 0)
  <2>1. g.free = <<>> /\ Len(g.free) = 0
    BY <1>1, <1>3, EmptySeq
  <2>2. n = g.created + 1 /\ t = [g EXCEPT !.created = g.created + 1] /\ g.created < MaxNodes
    BY <1>1, <2>1 DEF NewNode, Taken, HasRoom
  <2>3. t \in Heaps /\ t.free = g.free /\ t.created = g.created + 1 /\ n \in Nodes
        /\ t.next = g.next /\ t.prev = g.prev /\ t.obj = g.obj /\ t.head = g.head /\ t.tail = g.tail
    <3>1. g.created + 1 \in 0..MaxNodes
      BY <1>1, <2>2
    <3>2. t \in Heaps
      BY <1>1, <2>2, <3>1 DEF Heaps
    <3>3. n \in Nodes
      BY <1>1, <2>2 DEF Nodes
    <3>4. t.free = g.free /\ t.created = g.created + 1
        /\ t.next = g.next /\ t.prev = g.prev /\ t.obj = g.obj /\ t.head = g.head /\ t.tail = g.tail
      BY <1>1, <2>2, <3>1 DEF Heaps
    <3>5. QED BY <3>2, <3>3, <3>4
  <2>4. \A l \in Lists : \A i \in 1..Len(S[l]) : S[l][i] # n
    <3> SUFFICES ASSUME NEW l \in Lists, NEW i \in 1..Len(S[l]) PROVE S[l][i] # n
      OBVIOUS
    <3>1. S[l][i] <= g.created /\ S[l][i] \in Nat
      BY <1>1, Bounds DEF Holds, Spread
    <3>2. QED BY <3>1, <2>2, <1>1
  <2>5. \A m \in 1..t.created : m = n \/ m \in 1..g.created
    BY <1>1, <2>2, <2>3
  <2> HIDE DEF n, t
  <2>6. QED BY <1>1, <2>1, <2>2, <2>3, <2>4, <2>5 DEF n, t
<1>4. QED BY <1>2, <1>3
\* What a push does to the fields of the heap.
FieldsPushed(g, l, o, n, t, p) ==
    /\ p \in Heaps /\ p.free = t.free /\ p.created = t.created
    /\ p.next = [m \in Nodes |-> IF m = n THEN Null ELSE IF m = g.tail[l] THEN n ELSE g.next[m]]
    /\ p.prev = [g.prev EXCEPT ![n] = g.tail[l]]
    /\ p.obj = [g.obj EXCEPT ![n] = o]
    /\ p.tail = [g.tail EXCEPT ![l] = n]
    /\ p.head = [g.head EXCEPT ![l] = IF g.head[l] = Null THEN n ELSE g.head[l]]

LEMMA PushIs ==
  ASSUME NEW g, NEW S, Holds(g, S), HasRoom(g), NEW l \in Lists, NEW o \in Nodes
  PROVE  FieldsPushed(g, l, o, NewNode(g), Taken(g), Push(g, l, o))
<1> DEFINE n == NewNode(g)
           t == Taken(g)
           p == Push(g, l, o)
<1>1. g \in Heaps /\ t \in Heaps /\ n \in Nodes
      /\ t.next = g.next /\ t.prev = g.prev /\ t.obj = g.obj /\ t.head = g.head /\ t.tail = g.tail
  BY TakenIs DEF Holds
<1>2. p = [t EXCEPT !.obj[n] = o, !.prev[n] = g.tail[l],
                    !.next = [m \in Nodes |-> IF m = n THEN Null ELSE IF m = g.tail[l] THEN n ELSE @[m]],
                    !.tail[l] = n,
                    !.head[l] = IF @ = Null THEN n ELSE @]
  BY DEF Push
<1> HIDE DEF n, t, p
<1>3. t = [next |-> g.next, prev |-> g.prev, obj |-> g.obj, free |-> t.free, created |-> t.created,
           head |-> g.head, tail |-> g.tail]
  BY <1>1 DEF Heaps
<1>4. /\ p.next = [m \in Nodes |-> IF m = n THEN Null ELSE IF m = g.tail[l] THEN n ELSE g.next[m]]
      /\ p.prev = [g.prev EXCEPT ![n] = g.tail[l]] /\ p.obj = [g.obj EXCEPT ![n] = o]
      /\ p.free = t.free /\ p.created = t.created
      /\ p.head = [g.head EXCEPT ![l] = IF g.head[l] = Null THEN n ELSE g.head[l]]
      /\ p.tail = [g.tail EXCEPT ![l] = n]
      /\ p = [next |-> p.next, prev |-> p.prev, obj |-> p.obj, free |-> p.free, created |-> p.created,
              head |-> p.head, tail |-> p.tail]
  BY <1>1, <1>2 DEF Heaps
<1>5. /\ g.next \in [Nodes -> Nodes \union {Null}] /\ g.prev \in [Nodes -> Nodes \union {Null}]
      /\ g.obj \in [Nodes -> Nodes \union {Null}] /\ t.free \in Seq(Nodes)
      /\ t.created \in 0..MaxNodes
      /\ g.head \in [Lists -> Nodes \union {Null}] /\ g.tail \in [Lists -> Nodes \union {Null}]
  BY <1>1 DEF Heaps
<1>6. p \in Heaps
  <2>1. [m \in Nodes |-> IF m = n THEN Null ELSE IF m = g.tail[l] THEN n ELSE g.next[m]] \in [Nodes -> Nodes \union {Null}]
    BY <1>1, <1>5
  <2>2. [g.prev EXCEPT ![n] = g.tail[l]] \in [Nodes -> Nodes \union {Null}]
        /\ [g.obj EXCEPT ![n] = o] \in [Nodes -> Nodes \union {Null}]
    BY <1>1, <1>5
  <2>3. [g.head EXCEPT ![l] = IF g.head[l] = Null THEN n ELSE g.head[l]] \in [Lists -> Nodes \union {Null}]
        /\ [g.tail EXCEPT ![l] = n] \in [Lists -> Nodes \union {Null}]
    BY <1>1, <1>5
  <2>4. QED BY <1>4, <1>5, <2>1, <2>2, <2>3 DEF Heaps
<1>7. QED BY <1>4, <1>6 DEF FieldsPushed, n, t, p

\* A list that a heap holds.
LEMMA HeldSeq ==
  ASSUME NEW g, NEW S, Holds(g, S), NEW l \in Lists
  PROVE  /\ S[l] \in Seq(Nodes) /\ Len(S[l]) \in Nat /\ Linked(g, l, S[l])
         /\ \A i \in 1..Len(S[l]) : S[l][i] \in Nodes /\ S[l][i] # Null
<1>1. S[l] \in Seq(Nodes) /\ Len(S[l]) \in Nat
  BY DEF Holds
<1>2. \A i \in 1..Len(S[l]) : S[l][i] \in Nodes
  BY <1>1
<1>3. QED BY <1>1, <1>2, Bounds DEF Holds

\* The node that carries the new object is the last of the list.
Pushed(S, l, n) == [S EXCEPT ![l] = Append(@, n)]

\* After a push the heap holds the longer list, and the others as they were.
LEMMA PushHolds ==
  ASSUME NEW g, NEW S, Holds(g, S), HasRoom(g), NEW l \in Lists, NEW o \in Nodes
  PROVE  Holds(Push(g, l, o), Pushed(S, l, NewNode(g)))
<1> DEFINE n == NewNode(g)
           p == Push(g, l, o)
           t == Taken(g)
           S2 == Pushed(S, l, n)
<1>1. /\ p \in Heaps /\ p.free = t.free /\ p.created = t.created
      /\ p.next = [m \in Nodes |-> IF m = n THEN Null ELSE IF m = g.tail[l] THEN n ELSE g.next[m]]
      /\ p.prev = [g.prev EXCEPT ![n] = g.tail[l]]
      /\ p.obj = [g.obj EXCEPT ![n] = o]
      /\ p.tail = [g.tail EXCEPT ![l] = n]
      /\ p.head = [g.head EXCEPT ![l] = IF g.head[l] = Null THEN n ELSE g.head[l]]
  BY PushIs DEF FieldsPushed
<1>2. /\ n \in Nodes /\ n <= t.created
      /\ \A k \in Lists : \A i \in 1..Len(S[k]) : S[k][i] # n
      /\ Len(t.free) \in Nat /\ Len(t.free) <= Len(g.free) /\ g.created <= t.created
      /\ \A j \in 1..Len(t.free) : t.free[j] = g.free[j] /\ t.free[j] # n
      /\ \A m \in 1..t.created : m = n \/ m \in 1..g.created
      /\ \A j \in 1..Len(g.free) : g.free[j] = n \/ j <= Len(t.free)
  BY TakenIs
<1>3. g \in Heaps /\ S \in [Lists -> Seq(Nodes)] /\ Len(g.free) \in Nat
  BY FieldsAre DEF Holds
<1> HIDE DEF n, p, t
<1>4. S2 \in [Lists -> Seq(Nodes)] /\ S2[l] = Append(S[l], n) /\ \A k \in Lists \ {l} : S2[k] = S[k]
  BY <1>2, <1>3 DEF Pushed
<1>5. /\ Len(S2[l]) = Len(S[l]) + 1 /\ Len(S[l]) \in Nat /\ S2[l][Len(S[l]) + 1] = n
      /\ \A i \in 1..Len(S[l]) : S2[l][i] = S[l][i]
  BY <1>2, <1>3, <1>4
<1>6. \A k \in Lists : \A i \in 1..Len(S2[k]) :
        \/ i \in 1..Len(S[k]) /\ S2[k][i] = S[k][i]
        \/ k = l /\ i = Len(S[l]) + 1 /\ S2[k][i] = n
  BY <1>4, <1>5
<1>7. \A k \in Lists : \A i \in 1..Len(S[k]) : i \in 1..Len(S2[k]) /\ S2[k][i] = S[k][i]
  BY <1>4, <1>5
<1> HIDE DEF S2
<1>8. ASSUME NEW k \in Lists, k # l PROVE Linked(p, k, S2[k])
  <2>1. Linked(g, k, S[k]) /\ S2[k] = S[k] /\ \A i \in 1..Len(S[k]) : S[k][i] \in Nodes /\ S[k][i] # n
    BY <1>2, <1>4, <1>8, HeldSeq
  <2>2. p.head[k] = g.head[k] /\ p.tail[k] = g.tail[k]
    BY <1>1, <1>3, <1>8, FieldsAre
  <2>3. ASSUME NEW i \in 1..Len(S[k]) PROVE S[k][i] # g.tail[l]
    <3>1. Linked(g, l, S[l]) /\ Len(S[l]) \in Nat
      BY HeldSeq
    <3>2. CASE Len(S[l]) = 0
      BY <3>1, <3>2, <2>1, Bounds DEF Linked
    <3>3. CASE Len(S[l]) # 0
      <4>1. g.tail[l] = S[l][Len(S[l])] /\ Len(S[l]) \in 1..Len(S[l])
        BY <3>1, <3>3 DEF Linked
      <4>2. QED BY <4>1, <1>8 DEF Holds, Apart
    <3>4. QED BY <3>2, <3>3
  <2>4. \A i \in 1..Len(S[k]) : p.next[S[k][i]] = g.next[S[k][i]] /\ p.prev[S[k][i]] = g.prev[S[k][i]]
    BY <1>1, <1>3, <2>1, <2>3, FieldsAre
  <2>5. QED BY <2>1, <2>2, <2>4 DEF Linked
<1>9. Linked(p, l, S2[l])
  <2> DEFINE z == Len(S[l])
  <2>1. Linked(g, l, S[l]) /\ z \in Nat /\ \A i \in 1..z : S[l][i] \in Nodes /\ S[l][i] # Null
    BY HeldSeq
  <2>2. /\ p.tail[l] = n /\ p.head[l] = IF g.head[l] = Null THEN n ELSE g.head[l]
        /\ p.next[n] = Null /\ p.prev[n] = g.tail[l]
    BY <1>1, <1>2, <1>3, FieldsAre
  <2>3. p.head[l] = S2[l][1]
    <3>1. CASE z = 0
      BY <3>1, <2>1, <2>2, <1>5 DEF Linked
    <3>2. CASE z # 0
      <4>1. 1 \in 1..z /\ g.head[l] = S[l][1] /\ S[l][1] # Null
        BY <3>2, <2>1 DEF Linked
      <4>2. QED BY <4>1, <2>2, <1>5
    <3>3. QED BY <3>1, <3>2
  <2>4. ASSUME NEW i \in 1..z
        PROVE  /\ p.next[S[l][i]] = IF i = z THEN n ELSE S[l][i + 1]
               /\ p.prev[S[l][i]] = IF i = 1 THEN Null ELSE S[l][i - 1]
    <3>1. S[l][i] \in Nodes /\ S[l][i] # n
      BY <1>2, <2>1
    <3>2. p.prev[S[l][i]] = g.prev[S[l][i]]
      BY <1>1, <1>3, <3>1, FieldsAre
    <3>3. z \in 1..z /\ g.tail[l] = S[l][z]
      BY <2>1 DEF Linked
    <3>4. S[l][i] = g.tail[l] <=> i = z
      BY <3>3 DEF Holds, Apart
    <3>5. p.next[S[l][i]] = IF i = z THEN n ELSE g.next[S[l][i]]
      BY <1>1, <3>1, <3>4
    <3>6. QED BY <2>1, <3>2, <3>5 DEF Linked
  <2>5. g.tail[l] = IF z = 0 THEN Null ELSE S[l][z]
    BY <2>1 DEF Linked
  <2>6. ASSUME NEW i \in 1..(z + 1)
        PROVE  /\ p.next[S2[l][i]] = IF i = z + 1 THEN Null ELSE S2[l][i + 1]
               /\ p.prev[S2[l][i]] = IF i = 1 THEN Null ELSE S2[l][i - 1]
    <3>1. CASE i = z + 1
      <4>1. S2[l][i] = n
        BY <1>5, <3>1
      <4>2. CASE z = 0
        BY <4>1, <4>2, <3>1, <2>2, <2>5
      <4>3. CASE z # 0
        <5>1. i # 1 /\ i - 1 = z /\ z \in 1..z
          BY <3>1, <4>3, <2>1
        <5>2. S2[l][i - 1] = S[l][z]
          BY <1>5, <5>1
        <5>3. QED BY <4>1, <5>1, <5>2, <3>1, <4>3, <2>2, <2>5
      <4>4. QED BY <4>2, <4>3
    <3>2. CASE i # z + 1
      <4>1. i \in 1..z /\ S2[l][i] = S[l][i]
        BY <1>5, <2>1, <3>2
      <4>2. S2[l][i + 1] = IF i = z THEN n ELSE S[l][i + 1]
        BY <1>5, <2>1, <4>1
      <4>3. i # 1 => S2[l][i - 1] = S[l][i - 1]
        BY <1>5, <2>1, <4>1
      <4>4. QED BY <4>1, <4>2, <4>3, <2>4, <3>2
    <3>3. QED BY <3>1, <3>2
  <2>7. Len(S2[l]) = z + 1 /\ z + 1 # 0 /\ S2[l][z + 1] = n
    BY <1>5
  <2> HIDE DEF z
  <2>8. QED BY <2>2, <2>3, <2>6, <2>7 DEF Linked
<1>10. Apart(p, S2)
  <2>1. ASSUME NEW k \in Lists, NEW m \in Lists, NEW i \in 1..Len(S2[k]), NEW j \in 1..Len(S2[m]),
               S2[k][i] = S2[m][j]
        PROVE  k = m /\ i = j
    <3>1. \/ i \in 1..Len(S[k]) /\ S2[k][i] = S[k][i] /\ S2[k][i] # n
          \/ k = l /\ i = Len(S[l]) + 1 /\ S2[k][i] = n
      BY <1>2, <1>6
    <3>2. \/ j \in 1..Len(S[m]) /\ S2[m][j] = S[m][j] /\ S2[m][j] # n
          \/ m = l /\ j = Len(S[l]) + 1 /\ S2[m][j] = n
      BY <1>2, <1>6
    <3>3. QED BY <2>1, <3>1, <3>2 DEF Holds, Apart
  <2>2. \A i, j \in 1..Len(p.free) : p.free[i] = p.free[j] => i = j
    <3>1. \A i \in 1..Len(t.free) : i \in 1..Len(g.free) /\ t.free[i] = g.free[i]
      BY <1>2, <1>3
    <3>2. \A i, j \in 1..Len(g.free) : g.free[i] = g.free[j] => i = j
      BY DEF Holds, Apart
    <3>3. QED BY <1>1, <3>1, <3>2
  <2>3. ASSUME NEW k \in Lists, NEW i \in 1..Len(S2[k]), NEW j \in 1..Len(p.free)
        PROVE  S2[k][i] # p.free[j]
    <3>1. j \in 1..Len(g.free) /\ p.free[j] = g.free[j] /\ p.free[j] # n
      BY <1>1, <1>2, <1>3
    <3>2. QED BY <1>6, <3>1 DEF Holds, Apart
  <2>4. QED BY <2>1, <2>2, <2>3 DEF Apart
<1>11. Spread(p, S2)
  <2>1. ASSUME NEW k \in Lists, NEW i \in 1..Len(S2[k]) PROVE S2[k][i] <= p.created
    <3>1. i \in 1..Len(S[k]) => S[k][i] <= g.created /\ S[k][i] \in Nat
      BY HeldSeq, Bounds DEF Holds, Spread
    <3>2. g.created \in Nat /\ t.created \in Nat
      BY <1>1, <1>3, FieldsAre
    <3>3. QED BY <1>1, <1>2, <1>6, <3>1, <3>2
  <2>2. ASSUME NEW j \in 1..Len(p.free) PROVE p.free[j] <= p.created
    <3>0. j \in 1..Len(g.free) /\ p.free[j] = g.free[j]
      BY <1>1, <1>2, <1>3
    <3>1. j \in 1..Len(g.free) /\ p.free[j] = g.free[j] /\ p.free[j] \in Nat
      <4>1. g.free[j] \in Nodes
        BY <1>3, <3>0, FieldsAre
      <4>2. QED BY <3>0, <4>1, Bounds
    <3>2. g.free[j] <= g.created
      BY <3>1 DEF Holds, Spread
    <3>3. g.created \in Nat /\ t.created \in Nat
      BY <1>1, <1>3, FieldsAre
    <3>4. QED BY <1>1, <1>2, <3>1, <3>2, <3>3
  <2>3. ASSUME NEW m \in 1..p.created
        PROVE  \/ \E j \in 1..Len(p.free) : m = p.free[j]
               \/ \E k \in Lists : \E i \in 1..Len(S2[k]) : m = S2[k][i]
    <3>1. CASE m = n
      <4>1. Len(S[l]) + 1 \in 1..Len(S2[l]) /\ S2[l][Len(S[l]) + 1] = n
        BY <1>5
      <4>2. QED BY <3>1, <4>1
    <3>2. CASE m # n
      <4>1. m \in 1..g.created
        BY <1>1, <1>2, <3>2
      <4>2. CASE \E j \in 1..Len(g.free) : m = g.free[j]
        <5>1. PICK j \in 1..Len(g.free) : m = g.free[j]
          BY <4>2
        <5>2. j \in 1..Len(t.free) /\ t.free[j] = m
          BY <1>2, <3>2, <5>1
        <5>3. QED BY <1>1, <5>2
      <4>3. CASE \E k \in Lists : \E i \in 1..Len(S[k]) : m = S[k][i]
        BY <1>7, <4>3
      <4>4. QED BY <4>1, <4>2, <4>3 DEF Holds, Spread
    <3>3. QED BY <3>1, <3>2
  <2>4. QED BY <2>1, <2>2, <2>3 DEF Spread
<1>12. QED
  BY <1>1, <1>4, <1>8, <1>9, <1>10, <1>11 DEF Holds, n, p, S2

\* A push adds an object that no list carried.
LEMMA PushCarries ==
  ASSUME NEW g, NEW S, Holds(g, S), HasRoom(g), NEW l \in Lists, NEW o \in Nodes,
         NEW D, Carry(g, S, D), o \notin D
  PROVE  Carry(Push(g, l, o), Pushed(S, l, NewNode(g)), D \union {o})
<1> DEFINE n == NewNode(g)
           p == Push(g, l, o)
           S2 == Pushed(S, l, n)
<1>1. p.obj = [g.obj EXCEPT ![n] = o] /\ g.obj \in [Nodes -> Nodes \union {Null}]
  <2>0. FieldsPushed(g, l, o, NewNode(g), Taken(g), Push(g, l, o))
    BY PushIs
  <2>1. p.obj = [g.obj EXCEPT ![n] = o]
    BY <2>0 DEF FieldsPushed
  <2>2. g \in Heaps
    BY DEF Holds
  <2>3. QED BY <2>1, <2>2, FieldsAre
<1>2. n \in Nodes /\ \A k \in Lists : \A i \in 1..Len(S[k]) : S[k][i] # n /\ S[k][i] \in Nodes
  BY TakenIs, HeldSeq
<1>3. S \in [Lists -> Seq(Nodes)]
  BY DEF Holds
<1> HIDE DEF n, p
<1>4. /\ \A k \in Lists : \A i \in 1..Len(S2[k]) :
           \/ i \in 1..Len(S[k]) /\ S2[k][i] = S[k][i]
           \/ k = l /\ i = Len(S[l]) + 1 /\ S2[k][i] = n
      /\ \A k \in Lists : \A i \in 1..Len(S[k]) : i \in 1..Len(S2[k]) /\ S2[k][i] = S[k][i]
      /\ Len(S[l]) + 1 \in 1..Len(S2[l]) /\ S2[l][Len(S[l]) + 1] = n
  <2>1. S2[l] = Append(S[l], n) /\ \A k \in Lists \ {l} : S2[k] = S[k]
    BY <1>2, <1>3 DEF Pushed
  <2>2. /\ Len(S2[l]) = Len(S[l]) + 1 /\ Len(S[l]) \in Nat /\ S2[l][Len(S[l]) + 1] = n
        /\ \A i \in 1..Len(S[l]) : S2[l][i] = S[l][i]
    BY <1>2, <1>3, <2>1
  <2> HIDE DEF S2
  <2>3. ASSUME NEW k \in Lists, NEW i \in 1..Len(S2[k])
        PROVE  \/ i \in 1..Len(S[k]) /\ S2[k][i] = S[k][i]
               \/ k = l /\ i = Len(S[l]) + 1 /\ S2[k][i] = n
    <3>1. CASE k = l
      <4>1. i \in 1..Len(S[l]) \/ i = Len(S[l]) + 1
        BY <2>2, <3>1
      <4>2. QED BY <2>2, <3>1, <4>1
    <3>2. CASE k # l
      BY <2>1, <3>2
    <3>3. QED BY <3>1, <3>2
  <2>4. ASSUME NEW k \in Lists, NEW i \in 1..Len(S[k]) PROVE i \in 1..Len(S2[k]) /\ S2[k][i] = S[k][i]
    BY <2>1, <2>2
  <2>5. Len(S[l]) + 1 \in 1..Len(S2[l])
    BY <2>2
  <2>6. QED BY <2>2, <2>3, <2>4, <2>5
<1> HIDE DEF S2
<1>5. \A k \in Lists : \A i \in 1..Len(S2[k]) :
        \/ i \in 1..Len(S[k]) /\ p.obj[S2[k][i]] = g.obj[S[k][i]] /\ p.obj[S2[k][i]] # o
        \/ k = l /\ i = Len(S[l]) + 1 /\ p.obj[S2[k][i]] = o
  <2> TAKE k \in Lists
  <2> TAKE i \in 1..Len(S2[k])
  <2>1. CASE i \in 1..Len(S[k]) /\ S2[k][i] = S[k][i]
    <3>1. p.obj[S[k][i]] = g.obj[S[k][i]] /\ g.obj[S[k][i]] \in D
      BY <1>1, <1>2, <2>1 DEF Carry
    <3>2. QED BY <2>1, <3>1
  <2>2. CASE k = l /\ i = Len(S[l]) + 1 /\ S2[k][i] = n
    BY <1>1, <1>2, <2>2
  <2>3. QED BY <1>4, <2>1, <2>2
<1>6. ASSUME NEW k \in Lists, NEW m \in Lists, NEW i \in 1..Len(S2[k]), NEW j \in 1..Len(S2[m]),
             p.obj[S2[k][i]] = p.obj[S2[m][j]]
      PROVE  k = m /\ i = j
  <2>1. \/ i \in 1..Len(S[k]) /\ p.obj[S2[k][i]] = g.obj[S[k][i]] /\ p.obj[S2[k][i]] # o
        \/ k = l /\ i = Len(S[l]) + 1 /\ p.obj[S2[k][i]] = o
    BY <1>5
  <2>2. \/ j \in 1..Len(S[m]) /\ p.obj[S2[m][j]] = g.obj[S[m][j]] /\ p.obj[S2[m][j]] # o
        \/ m = l /\ j = Len(S[l]) + 1 /\ p.obj[S2[m][j]] = o
    BY <1>5
  <2>3. QED BY <1>6, <2>1, <2>2 DEF Carry
<1>7. \A k \in Lists : \A i \in 1..Len(S2[k]) : p.obj[S2[k][i]] \in D \union {o}
  BY <1>5 DEF Carry
<1>8. ASSUME NEW d \in D \union {o} PROVE \E k \in Lists : \E i \in 1..Len(S2[k]) : p.obj[S2[k][i]] = d
  <2>1. CASE d = o
    BY <1>1, <1>2, <1>4, <2>1
  <2>2. CASE d # o
    <3>0. PICK k \in Lists : \E i \in 1..Len(S[k]) : g.obj[S[k][i]] = d
      BY <2>2 DEF Carry
    <3>1. PICK i \in 1..Len(S[k]) : g.obj[S[k][i]] = d
      BY <3>0
    <3>2. p.obj[S2[k][i]] = d /\ i \in 1..Len(S2[k])
      BY <1>1, <1>2, <1>4, <3>1
    <3>3. QED BY <3>2
  <2>3. QED BY <2>1, <2>2
<1>9. QED BY <1>6, <1>7, <1>8 DEF Carry, n, p, S2

\* There is a node for an object that no list carries.
LEMMA RoomForMore ==
  ASSUME NEW g, NEW S, Holds(g, S), NEW D \in SUBSET Nodes, Carry(g, S, D), NEW o \in Nodes, o \notin D
  PROVE  HasRoom(g)
<1> SUFFICES ASSUME ~HasRoom(g) PROVE FALSE
  OBVIOUS
<1>1. Len(g.free) = 0 /\ g.created = MaxNodes
  <2>1. g.free \in Seq(Nodes) /\ g.created \in Nat /\ g.created <= MaxNodes
    BY FieldsAre DEF Holds
  <2>2. QED BY <2>1, Bounds DEF HasRoom
<1>2. \A n \in Nodes : \E k \in Lists : \E i \in 1..Len(S[k]) : n = S[k][i]
  <2> TAKE n \in Nodes
  <2>1. n \in 1..g.created
    BY <1>1 DEF Nodes
  <2>2. ~\E j \in 1..Len(g.free) : n = g.free[j]
    BY <1>1
  <2>3. QED BY <2>1, <2>2 DEF Holds, Spread
<1> DEFINE f == [n \in Nodes |-> g.obj[n]]
<1>3. f \in [Nodes -> Nodes \ {o}]
  <2>1. \A n \in Nodes : g.obj[n] \in Nodes \ {o}
    BY <1>2 DEF Carry
  <2>2. QED BY <2>1
<1>4. IsFiniteSet(Nodes) /\ IsFiniteSet(Nodes \ {o}) /\ Cardinality(Nodes \ {o}) < Cardinality(Nodes)
  <2>1. IsFiniteSet(Nodes)
    BY Bounds, FS_Interval DEF Nodes
  <2>2. IsFiniteSet(Nodes \ {o}) /\ Cardinality(Nodes \ {o}) = Cardinality(Nodes) - 1 /\ Cardinality(Nodes) \in Nat
    BY <2>1, FS_RemoveElement, FS_CardinalityType
  <2>3. QED BY <2>1, <2>2
<1>5. PICK x, y \in Nodes : x # y /\ f[x] = f[y]
  <2> HIDE DEF f
  <2>1. QED BY <1>3, <1>4, FS_PigeonHole
<1>6. PICK k \in Lists : \E i \in 1..Len(S[k]) : x = S[k][i]
  BY <1>2
<1>7. PICK i \in 1..Len(S[k]) : x = S[k][i]
  BY <1>6
<1>8. PICK m \in Lists : \E j \in 1..Len(S[m]) : y = S[m][j]
  BY <1>2
<1>9. PICK j \in 1..Len(S[m]) : y = S[m][j]
  BY <1>8
<1>10. k = m /\ i = j
  BY <1>5, <1>7, <1>9 DEF Carry
<1>11. QED BY <1>5, <1>7, <1>9, <1>10

-----------------------------------------------------------------------------
(* What forEach finds                                                      *)

\* A list has no more nodes than there are.
LEMMA ListIsShort ==
  ASSUME NEW g, NEW S, Holds(g, S), NEW l \in Lists
  PROVE  Len(S[l]) <= MaxNodes
<1>1. S[l] \in Seq(Nodes) /\ Len(S[l]) \in Nat /\ S[l] \in [1..Len(S[l]) -> Nodes]
  BY HeldSeq
<1>2. \A i, j \in 1..Len(S[l]) : S[l][i] = S[l][j] => i = j
  BY DEF Holds, Apart
<1>3. IsFiniteSet(Nodes) /\ Cardinality(Nodes) = MaxNodes
      /\ IsFiniteSet(1..Len(S[l])) /\ Cardinality(1..Len(S[l])) = Len(S[l])
  <2>1. \A n \in Nat : IsFiniteSet(1..n) /\ Cardinality(1..n) = n
    <3> TAKE n \in Nat
    <3>1. IsFiniteSet(1..n) /\ Cardinality(1..n) = IF 1 > n THEN 0 ELSE n - 1 + 1
      BY FS_Interval
    <3>2. QED BY <3>1
  <2>2. QED BY <1>1, <2>1, Bounds DEF Nodes
<1>4. ASSUME Len(S[l]) > MaxNodes PROVE FALSE
  <2>1. PICK x, y \in 1..Len(S[l]) : x # y /\ S[l][x] = S[l][y]
    BY <1>1, <1>3, <1>4, FS_PigeonHole
  <2>2. QED BY <1>2, <2>1
<1>5. QED BY <1>1, <1>4, Bounds

NodeAt(g, l, node) ==
    node = [k \in 1..MaxNodes |->
               IF k = 1 THEN g.head[l]
               ELSE [n \in Nodes \union {Null} |-> IF n = Null THEN Null ELSE g.next[n]][node[k - 1]]]

\* Following "next" from the head finds the list, and then Null.
LEMMA ChainIs ==
  ASSUME NEW g, NEW S, Holds(g, S), NEW l \in Lists
  PROVE  Chain(g, l) = S[l]
<1> DEFINE z == Len(S[l])
           after == [n \in Nodes \union {Null} |-> IF n = Null THEN Null ELSE g.next[n]]
           sq == [k \in 1..MaxNodes |-> IF k <= z THEN S[l][k] ELSE Null]
           node == CHOOSE node : NodeAt(g, l, node)
<1>1. S[l] \in Seq(Nodes) /\ z \in Nat /\ z <= MaxNodes /\ Linked(g, l, S[l])
      /\ \A i \in 1..z : S[l][i] \in Nodes /\ S[l][i] # Null
  BY HeldSeq, ListIsShort
<1>2. Chain(g, l) = [k \in 1..Cardinality({i \in 1..MaxNodes : node[i] # Null}) |-> node[k]]
  BY DEF Chain, NodeAt
<1>3. \A k \in 1..MaxNodes : sq[k] = IF k = 1 THEN g.head[l] ELSE after[sq[k - 1]]
  <2> TAKE k \in 1..MaxNodes
  <2>1. CASE k = 1
    BY <1>1, <2>1 DEF Linked
  <2>2. CASE k # 1
    <3>1. k - 1 \in 1..MaxNodes /\ sq[k - 1] = IF k - 1 <= z THEN S[l][k - 1] ELSE Null
      BY <2>2, Bounds
    <3>2. CASE k - 1 <= z
      <4>1. k - 1 \in 1..z /\ sq[k - 1] = S[l][k - 1] /\ S[l][k - 1] \in Nodes /\ S[l][k - 1] # Null
        BY <1>1, <3>1, <3>2
      <4>2. after[sq[k - 1]] = g.next[S[l][k - 1]]
        BY <4>1
      <4>3. g.next[S[l][k - 1]] = IF k - 1 = z THEN Null ELSE S[l][k]
        BY <1>1, <4>1 DEF Linked
      <4>4. QED BY <1>1, <2>2, <3>1, <3>2, <4>2, <4>3
    <3>3. CASE ~(k - 1 <= z)
      <4>1. sq[k - 1] = Null /\ sq[k] = Null /\ after[Null] = Null
        BY <1>1, <3>1, <3>3
      <4>2. QED BY <4>1, <2>2
    <3>4. QED BY <3>2, <3>3
  <2>3. QED BY <2>1, <2>2
<1>4. NodeAt(g, l, sq)
  <2> DEFINE F == [k \in 1..MaxNodes |-> IF k = 1 THEN g.head[l] ELSE after[sq[k - 1]]]
  <2>1. \A k \in 1..MaxNodes : F[k] = sq[k]
    BY <1>3
  <2>2. sq = F
    <3>1. DOMAIN sq = 1..MaxNodes /\ DOMAIN F = 1..MaxNodes /\ sq = [k \in 1..MaxNodes |-> sq[k]] /\ F = [k \in 1..MaxNodes |-> F[k]]
      OBVIOUS
    <3> HIDE DEF sq, F
    <3>2. QED BY <2>1, <3>1
  <2>3. QED BY <2>2 DEF NodeAt
<1>5. NodeAt(g, l, node)
  <2> HIDE DEF sq
  <2>1. QED BY <1>4
<1>6. \A k \in 1..MaxNodes : node[k] = IF k = 1 THEN g.head[l] ELSE after[node[k - 1]]
  BY <1>5 DEF NodeAt
<1> HIDE DEF node, sq, after
<1> DEFINE Same == {k \in Nat : k + 1 \in 1..MaxNodes => node[k + 1] = sq[k + 1]}
<1>7. Nat \subseteq Same
  <2>1. 0 \in Same
    BY <1>3, <1>6
  <2>2. \A k \in Nat : k \in Same => k + 1 \in Same
    <3> TAKE k \in Nat
    <3> HAVE k \in Same
    <3>1. SUFFICES ASSUME k + 2 \in 1..MaxNodes PROVE node[k + 2] = sq[k + 2]
      OBVIOUS
    <3>2. k + 1 \in 1..MaxNodes /\ (k + 2) - 1 = k + 1 /\ k + 2 # 1
      BY <3>1, Bounds
    <3>3. node[k + 2] = after[node[k + 1]] /\ sq[k + 2] = after[sq[k + 1]]
      BY <1>3, <1>6, <3>1, <3>2
    <3>4. QED BY <3>2, <3>3
  <2> HIDE DEF Same
  <2>3. QED BY <2>1, <2>2, NatInd
<1>8. \A k \in 1..MaxNodes : node[k] = sq[k]
  <2> TAKE k \in 1..MaxNodes
  <2>1. k - 1 \in Nat /\ (k - 1) + 1 = k
    OBVIOUS
  <2>2. QED BY <1>7, <2>1
<1>9. {i \in 1..MaxNodes : node[i] # Null} = 1..z
  BY <1>1, <1>8, Bounds DEF sq
<1>10. Cardinality(1..z) = z
  <2> HIDE DEF z
  <2>1. Cardinality(1..z) = IF 1 > z THEN 0 ELSE z - 1 + 1
    BY <1>1, FS_Interval
  <2>2. QED BY <1>1, <2>1
<1>11. \A k \in 1..z : node[k] = S[l][k]
  BY <1>1, <1>8, Bounds DEF sq
<1>12. S[l] = [k \in 1..z |-> S[l][k]]
  BY <1>1
<1>13. QED BY <1>2, <1>9, <1>10, <1>11, <1>12

-----------------------------------------------------------------------------
(* Removing an object                                                      *)

\* The first node that carries an object is the only one.
LEMMA NodeOfIs ==
  ASSUME NEW g, NEW S, Holds(g, S), NEW D, Carry(g, S, D), NEW l \in Lists, NEW i \in 1..Len(S[l])
  PROVE  NodeOf(g, l, g.obj[S[l][i]]) = S[l][i]
<1> DEFINE o == g.obj[S[l][i]]
           spot == {j \in 1..Len(S[l]) : g.obj[S[l][j]] = o}
<1>1. Chain(g, l) = S[l] /\ DOMAIN S[l] = 1..Len(S[l])
  BY ChainIs, HeldSeq
<1>2. spot = {i}
  BY DEF Carry
<1>3. NodeOf(g, l, o) = IF spot = {} THEN Null ELSE S[l][CHOOSE j \in spot : \A k \in spot : j <= k]
  BY <1>1 DEF NodeOf
<1> HIDE DEF spot, o
<1>4. (CHOOSE j \in spot : \A k \in spot : j <= k) = i
  BY <1>2
<1>5. QED BY <1>2, <1>3, <1>4 DEF o

Without(s, i) == [j \in 1..(Len(s) - 1) |-> IF j < i THEN s[j] ELSE s[j + 1]]
Removed(S, l, i) == [S EXCEPT ![l] = Without(@, i)]

FieldsRemoved(g, l, n, p, x, r) ==
    /\ r \in Heaps /\ r.free = Append(g.free, n) /\ r.created = g.created
    /\ r.next = [m \in Nodes |-> IF m = n THEN Null ELSE IF m = p THEN x ELSE g.next[m]]
    /\ r.prev = [m \in Nodes |-> IF m = n THEN Null ELSE IF m = x THEN p ELSE g.prev[m]]
    /\ r.obj = [g.obj EXCEPT ![n] = Null]
    /\ r.head = [g.head EXCEPT ![l] = IF p = Null THEN x ELSE g.head[l]]
    /\ r.tail = [g.tail EXCEPT ![l] = IF x = Null THEN p ELSE g.tail[l]]

LEMMA RemoveIs ==
  ASSUME NEW g, NEW S, Holds(g, S), NEW l \in Lists, NEW i \in 1..Len(S[l]), NEW o, NodeOf(g, l, o) = S[l][i]
  PROVE  FieldsRemoved(g, l, S[l][i], g.prev[S[l][i]], g.next[S[l][i]], Remove(g, l, o))
<1> DEFINE n == S[l][i]
           p == g.prev[n]
           x == g.next[n]
           r == Remove(g, l, o)
<1>1. g \in Heaps /\ n \in Nodes /\ n # Null
  BY HeldSeq DEF Holds
<1>2. r = [g EXCEPT !.head[l] = IF p = Null THEN x ELSE @,
                    !.tail[l] = IF x = Null THEN p ELSE @,
                    !.next = [m \in Nodes |-> IF m = n THEN Null ELSE IF m = p THEN x ELSE @[m]],
                    !.prev = [m \in Nodes |-> IF m = n THEN Null ELSE IF m = x THEN p ELSE @[m]],
                    !.obj[n] = Null,
                    !.free = Append(@, n)]
  BY <1>1 DEF Remove
<1>3. /\ g.next \in [Nodes -> Nodes \union {Null}] /\ g.prev \in [Nodes -> Nodes \union {Null}]
      /\ g.obj \in [Nodes -> Nodes \union {Null}] /\ g.free \in Seq(Nodes)
      /\ g.created \in 0..MaxNodes
      /\ g.head \in [Lists -> Nodes \union {Null}] /\ g.tail \in [Lists -> Nodes \union {Null}]
  BY <1>1 DEF Heaps
<1>4. p \in Nodes \union {Null} /\ x \in Nodes \union {Null}
  BY <1>1, <1>3
<1> HIDE DEF n, p, x, r
<1>5. /\ r.next = [m \in Nodes |-> IF m = n THEN Null ELSE IF m = p THEN x ELSE g.next[m]]
      /\ r.prev = [m \in Nodes |-> IF m = n THEN Null ELSE IF m = x THEN p ELSE g.prev[m]]
      /\ r.obj = [g.obj EXCEPT ![n] = Null]
      /\ r.free = Append(g.free, n) /\ r.created = g.created
      /\ r.head = [g.head EXCEPT ![l] = IF p = Null THEN x ELSE g.head[l]]
      /\ r.tail = [g.tail EXCEPT ![l] = IF x = Null THEN p ELSE g.tail[l]]
      /\ r = [next |-> r.next, prev |-> r.prev, obj |-> r.obj, free |-> r.free, created |-> r.created,
              head |-> r.head, tail |-> r.tail]
  BY <1>1, <1>2 DEF Heaps
<1>6. r \in Heaps
  <2>1. /\ [m \in Nodes |-> IF m = n THEN Null ELSE IF m = p THEN x ELSE g.next[m]] \in [Nodes -> Nodes \union {Null}]
        /\ [m \in Nodes |-> IF m = n THEN Null ELSE IF m = x THEN p ELSE g.prev[m]] \in [Nodes -> Nodes \union {Null}]
    BY <1>3, <1>4
  <2>2. [g.obj EXCEPT ![n] = Null] \in [Nodes -> Nodes \union {Null}] /\ Append(g.free, n) \in Seq(Nodes)
    BY <1>1, <1>3
  <2>3. /\ [g.head EXCEPT ![l] = IF p = Null THEN x ELSE g.head[l]] \in [Lists -> Nodes \union {Null}]
        /\ [g.tail EXCEPT ![l] = IF x = Null THEN p ELSE g.tail[l]] \in [Lists -> Nodes \union {Null}]
    BY <1>3, <1>4
  <2>4. QED BY <1>3, <1>5, <2>1, <2>2, <2>3 DEF Heaps
<1>7. QED BY <1>5, <1>6 DEF FieldsRemoved, n, p, x, r

LEMMA WithoutIs ==
  ASSUME NEW g, NEW S, Holds(g, S), NEW l \in Lists, NEW i \in 1..Len(S[l])
  PROVE  /\ Removed(S, l, i) \in [Lists -> Seq(Nodes)]
         /\ \A k \in Lists \ {l} : Removed(S, l, i)[k] = S[k]
         /\ Len(Removed(S, l, i)[l]) = Len(S[l]) - 1
         /\ \A j \in 1..(Len(S[l]) - 1) : Removed(S, l, i)[l][j] = IF j < i THEN S[l][j] ELSE S[l][j + 1]
<1>1. S \in [Lists -> Seq(Nodes)] /\ S[l] \in Seq(Nodes) /\ Len(S[l]) \in Nat
      /\ \A j \in 1..Len(S[l]) : S[l][j] \in Nodes
  BY HeldSeq DEF Holds
<1> DEFINE w == Without(S[l], i)
<1>2. w = [j \in 1..(Len(S[l]) - 1) |-> IF j < i THEN S[l][j] ELSE S[l][j + 1]]
  BY DEF Without
<1>3. \A j \in 1..(Len(S[l]) - 1) : (IF j < i THEN S[l][j] ELSE S[l][j + 1]) \in Nodes
  BY <1>1
<1>4. Len(S[l]) - 1 \in Nat
  BY <1>1
<1>5. w \in Seq(Nodes) /\ Len(w) = Len(S[l]) - 1
  BY <1>2, <1>3, <1>4
<1> HIDE DEF w
<1>6. Removed(S, l, i) = [S EXCEPT ![l] = w]
  BY DEF Removed, w
<1>7. Removed(S, l, i)[l] = w /\ \A k \in Lists \ {l} : Removed(S, l, i)[k] = S[k]
  BY <1>1, <1>6
<1>8. Removed(S, l, i) \in [Lists -> Seq(Nodes)]
  BY <1>1, <1>5, <1>6
<1>9. QED BY <1>2, <1>5, <1>7, <1>8

\* Where the nodes that stay are, and where they were.
Stay(S, S2, l, i) ==
    /\ \A k \in Lists : \A j \in 1..Len(S2[k]) :
         \/ k # l /\ j \in 1..Len(S[k]) /\ S2[k][j] = S[k][j]
         \/ k = l /\ j < i /\ j \in 1..Len(S[k]) /\ S2[k][j] = S[k][j]
         \/ k = l /\ j >= i /\ j + 1 \in 1..Len(S[k]) /\ S2[k][j] = S[k][j + 1]
    /\ \A k \in Lists : \A j \in 1..Len(S[k]) :
         (k = l /\ j = i) \/ \E m \in 1..Len(S2[k]) : S2[k][m] = S[k][j]

LEMMA StayingNodes ==
  ASSUME NEW g, NEW S, Holds(g, S), NEW l \in Lists, NEW i \in 1..Len(S[l])
  PROVE  Stay(S, Removed(S, l, i), l, i)
<1> DEFINE S2 == Removed(S, l, i)
<1>1. /\ \A k \in Lists \ {l} : S2[k] = S[k]
      /\ Len(S2[l]) = Len(S[l]) - 1 /\ Len(S[l]) \in Nat
      /\ \A j \in 1..(Len(S[l]) - 1) : S2[l][j] = IF j < i THEN S[l][j] ELSE S[l][j + 1]
  <2>1. Len(S[l]) \in Nat
    BY HeldSeq
  <2>2. QED BY <2>1, WithoutIs
<1> HIDE DEF S2
<1>2. ASSUME NEW k \in Lists, NEW j \in 1..Len(S2[k])
      PROVE  \/ k # l /\ j \in 1..Len(S[k]) /\ S2[k][j] = S[k][j]
             \/ k = l /\ j < i /\ j \in 1..Len(S[k]) /\ S2[k][j] = S[k][j]
             \/ k = l /\ j >= i /\ j + 1 \in 1..Len(S[k]) /\ S2[k][j] = S[k][j + 1]
  <2>1. CASE k # l
    BY <1>1, <2>1
  <2>2. CASE k = l
    BY <1>1, <2>2
  <2>3. QED BY <2>1, <2>2
<1>3. ASSUME NEW k \in Lists, NEW j \in 1..Len(S[k]), ~(k = l /\ j = i)
      PROVE  \E m \in 1..Len(S2[k]) : S2[k][m] = S[k][j]
  <2>1. CASE k # l
    BY <1>1, <2>1
  <2>2. CASE k = l /\ j < i
    <3>1. j \in 1..Len(S2[k]) /\ S2[k][j] = S[k][j]
      BY <1>1, <2>2
    <3>2. QED BY <3>1
  <2>3. CASE k = l /\ j > i
    <3>1. j - 1 \in 1..Len(S2[k]) /\ S2[k][j - 1] = S[k][(j - 1) + 1] /\ (j - 1) + 1 = j
      BY <1>1, <2>3
    <3>2. QED BY <3>1
  <2>4. QED BY <1>3, <2>1, <2>2, <2>3, <1>1
<1>4. QED BY <1>2, <1>3 DEF Stay, S2

\* After a removal the heap holds the shorter list, and the others as they were.
LEMMA RemoveHolds ==
  ASSUME NEW g, NEW S, Holds(g, S), NEW l \in Lists, NEW i \in 1..Len(S[l]), NEW o, NodeOf(g, l, o) = S[l][i]
  PROVE  Holds(Remove(g, l, o), Removed(S, l, i))
<1> DEFINE n == S[l][i]
           p == g.prev[n]
           x == g.next[n]
           r == Remove(g, l, o)
           z == Len(S[l])
           S2 == Removed(S, l, i)
<1>1. FieldsRemoved(g, l, n, p, x, r)
  BY RemoveIs
<1>2. /\ z \in Nat /\ Linked(g, l, S[l]) /\ n \in Nodes /\ n # Null
      /\ \A k \in Lists : \A j \in 1..Len(S[k]) : S[k][j] \in Nodes /\ S[k][j] # Null
  BY HeldSeq
<1>3. p = IF i = 1 THEN Null ELSE S[l][i - 1]
  BY <1>2 DEF Linked
<1>4. x = IF i = z THEN Null ELSE S[l][i + 1]
  BY <1>2 DEF Linked
<1>5. g \in Heaps /\ S \in [Lists -> Seq(Nodes)]
      /\ g.head \in [Lists -> Nodes \union {Null}] /\ g.tail \in [Lists -> Nodes \union {Null}]
      /\ g.free \in Seq(Nodes) /\ g.created \in Nat
  BY FieldsAre DEF Holds
<1>6. /\ S2 \in [Lists -> Seq(Nodes)] /\ \A k \in Lists \ {l} : S2[k] = S[k]
      /\ Len(S2[l]) = z - 1
      /\ \A j \in 1..(z - 1) : S2[l][j] = IF j < i THEN S[l][j] ELSE S[l][j + 1]
  BY WithoutIs
<1>7. /\ \A k \in Lists : \A j \in 1..Len(S2[k]) :
           \/ k # l /\ j \in 1..Len(S[k]) /\ S2[k][j] = S[k][j]
           \/ k = l /\ j < i /\ j \in 1..Len(S[k]) /\ S2[k][j] = S[k][j]
           \/ k = l /\ j >= i /\ j + 1 \in 1..Len(S[k]) /\ S2[k][j] = S[k][j + 1]
      /\ \A k \in Lists : \A j \in 1..Len(S[k]) :
           (k = l /\ j = i) \/ \E m \in 1..Len(S2[k]) : S2[k][m] = S[k][j]
  <2>1. Stay(S, S2, l, i)
    BY StayingNodes
  <2> HIDE DEF S2
  <2>2. QED BY <2>1 DEF Stay
<1>8. \A j, k \in 1..z : S[l][j] = S[l][k] => j = k
  BY DEF Holds, Apart
<1> HIDE DEF S2, r, x, p
<1>9. ASSUME NEW k \in Lists, k # l PROVE Linked(r, k, S2[k])
  <2>1. Linked(g, k, S[k]) /\ S2[k] = S[k]
    BY <1>6, <1>9 DEF Holds
  <2>2. r.head[k] = g.head[k] /\ r.tail[k] = g.tail[k]
    BY <1>1, <1>5, <1>9 DEF FieldsRemoved
  <2>3. ASSUME NEW j \in 1..Len(S[k]), NEW m \in 1..z PROVE S[k][j] # S[l][m]
    BY <1>9 DEF Holds, Apart
  <2>4. ASSUME NEW j \in 1..Len(S[k]) PROVE S[k][j] # n /\ S[k][j] # p /\ S[k][j] # x
    <3>1. S[k][j] # Null
      BY <1>2
    <3>2. i # 1 => i - 1 \in 1..z
      BY <1>2
    <3>3. i # z => i + 1 \in 1..z
      BY <1>2
    <3>4. QED BY <1>3, <1>4, <2>3, <3>1, <3>2, <3>3
  <2>5. \A j \in 1..Len(S[k]) : r.next[S[k][j]] = g.next[S[k][j]] /\ r.prev[S[k][j]] = g.prev[S[k][j]]
    BY <1>1, <1>2, <2>4 DEF FieldsRemoved
  <2>6. QED BY <2>1, <2>2, <2>5 DEF Linked
<1>10. Linked(r, l, S2[l])
  <2>0. z \in Nat /\ i \in Nat /\ 1 <= i /\ i <= z
    BY <1>2
  <2>1. r.head[l] = (IF p = Null THEN x ELSE g.head[l]) /\ r.tail[l] = (IF x = Null THEN p ELSE g.tail[l])
    BY <1>1, <1>5 DEF FieldsRemoved
  <2>2. g.head[l] = S[l][1] /\ g.tail[l] = S[l][z] /\ 1 \in 1..z /\ z \in 1..z
    BY <1>2 DEF Linked
  <2>3. p = Null <=> i = 1
    <3>1. i # 1 => i - 1 \in 1..z
      BY <1>2
    <3>2. QED BY <1>2, <1>3, <3>1
  <2>4. x = Null <=> i = z
    <3>1. i # z => i + 1 \in 1..z
      BY <1>2
    <3>2. QED BY <1>2, <1>4, <3>1
  <2>5. r.head[l] = IF z - 1 = 0 THEN Null ELSE S2[l][1]
    <3>1. CASE z = 1
      <4>1. i = 1 /\ i = z
        BY <3>1
      <4>2. QED BY <2>1, <2>3, <2>4, <3>1, <4>1
    <3>2. CASE z # 1 /\ i = 1
      <4>0. 1 \in 1..(z - 1) /\ 1 + 1 = 2 /\ i # z /\ ~(1 < i)
        <5> HIDE DEF z
        <5>1. QED BY <2>0, <3>2
      <4>1. 1 \in 1..(z - 1) /\ S2[l][1] = S[l][2] /\ x = S[l][2]
        BY <1>4, <1>6, <3>2, <4>0
      <4>2. QED BY <2>1, <2>3, <3>2, <4>1, <1>2
    <3>3. CASE z # 1 /\ i # 1
      <4>1. 1 \in 1..(z - 1) /\ S2[l][1] = S[l][1]
        BY <1>2, <1>6, <3>3
      <4>2. QED BY <2>1, <2>2, <2>3, <3>3, <4>1, <1>2
    <3>4. QED BY <3>1, <3>2, <3>3
  <2>6. r.tail[l] = IF z - 1 = 0 THEN Null ELSE S2[l][z - 1]
    <3>1. CASE z = 1
      <4>1. i = 1 /\ i = z
        BY <3>1
      <4>2. QED BY <2>1, <2>3, <2>4, <3>1, <4>1
    <3>2. CASE z # 1 /\ i = z
      <4>0. z - 1 \in 1..(z - 1) /\ z - 1 < i /\ i # 1
        <5> HIDE DEF z
        <5>1. QED BY <2>0, <3>2
      <4>1. z - 1 \in 1..(z - 1) /\ S2[l][z - 1] = S[l][z - 1] /\ p = S[l][z - 1]
        BY <1>3, <1>6, <3>2, <4>0
      <4>2. QED BY <2>1, <2>4, <3>2, <4>1, <1>2
    <3>3. CASE z # 1 /\ i # z
      <4>1. z - 1 \in 1..(z - 1) /\ S2[l][z - 1] = S[l][(z - 1) + 1] /\ (z - 1) + 1 = z
        BY <1>2, <1>6, <3>3
      <4>2. QED BY <2>1, <2>2, <2>4, <3>3, <4>1, <1>2
    <3>4. QED BY <3>1, <3>2, <3>3
  <2>7. ASSUME NEW j \in 1..z, j # i
        PROVE  /\ r.next[S[l][j]] = IF j = i - 1 THEN x ELSE IF j = z THEN Null ELSE S[l][j + 1]
               /\ r.prev[S[l][j]] = IF j = i + 1 THEN p ELSE IF j = 1 THEN Null ELSE S[l][j - 1]
    <3>1. S[l][j] \in Nodes /\ S[l][j] # n /\ S[l][j] # Null
      BY <1>2, <1>8, <2>7
    <3>2. S[l][j] = p <=> j = i - 1
      <4>1. i # 1 => i - 1 \in 1..z
        BY <1>2
      <4>2. QED BY <1>3, <1>8, <3>1, <4>1
    <3>3. S[l][j] = x <=> j = i + 1
      <4>1. i # z => i + 1 \in 1..z
        BY <1>2
      <4>2. QED BY <1>2, <1>4, <1>8, <3>1, <4>1
    <3>4. /\ g.next[S[l][j]] = IF j = z THEN Null ELSE S[l][j + 1]
          /\ g.prev[S[l][j]] = IF j = 1 THEN Null ELSE S[l][j - 1]
      BY <1>2 DEF Linked
    <3>5. /\ r.next[S[l][j]] = IF S[l][j] = p THEN x ELSE g.next[S[l][j]]
          /\ r.prev[S[l][j]] = IF S[l][j] = x THEN p ELSE g.prev[S[l][j]]
      BY <1>1, <3>1 DEF FieldsRemoved
    <3>6. QED BY <3>2, <3>3, <3>4, <3>5
  <2>8. ASSUME NEW j \in 1..(z - 1)
        PROVE  /\ r.next[S2[l][j]] = IF j = z - 1 THEN Null ELSE S2[l][j + 1]
               /\ r.prev[S2[l][j]] = IF j = 1 THEN Null ELSE S2[l][j - 1]
    <3> (j + 1) + 1 = j + 2 /\ (j - 1) + 1 = j /\ (j # z - 1 => j + 1 \in 1..(z - 1)) /\ (j # 1 => j - 1 \in 1..(z - 1))
      BY <1>2
    <3>0. /\ S2[l][j] = IF j < i THEN S[l][j] ELSE S[l][j + 1]
          /\ j # z - 1 => S2[l][j + 1] = IF j + 1 < i THEN S[l][j + 1] ELSE S[l][j + 2]
          /\ j # 1 => S2[l][j - 1] = IF j - 1 < i THEN S[l][j - 1] ELSE S[l][j]
      BY <1>6
    <3>1. CASE j < i - 1
      <4>1. j \in 1..z /\ j # i /\ j # i - 1 /\ j # z /\ j # i + 1 /\ j + 1 < i /\ j < i /\ j - 1 < i /\ j # z - 1
        BY <1>2, <3>1
      <4>2. QED BY <2>7, <3>0, <4>1
    <3>2. CASE j = i - 1
      <4>1. j \in 1..z /\ j # i /\ j # i + 1 /\ ~(j + 1 < i) /\ j < i /\ j - 1 < i /\ j + 2 = i + 1
            /\ (j = z - 1 <=> i = z)
        <5>1. j \in Nat /\ 1 <= j /\ j <= z - 1
          BY <2>0
        <5> HIDE DEF z
        <5>2. QED BY <2>0, <3>2, <5>1
      <4>2. QED BY <1>4, <2>7, <3>0, <3>2, <4>1
    <3>3. CASE j = i
      <4>1. j + 1 \in 1..z /\ j + 1 # i /\ j + 1 # i - 1 /\ j + 1 = i + 1 /\ ~(j + 1 < i) /\ ~(j < i) /\ j - 1 < i
            /\ (j + 1) + 1 = j + 2 /\ (j = z - 1 <=> j + 1 = z)
        BY <1>2, <3>3
      <4>2. QED BY <1>3, <2>7, <3>0, <3>3, <4>1
    <3>4. CASE j > i
      <4>1. j + 1 \in 1..z /\ j + 1 # i /\ j + 1 # i - 1 /\ j + 1 # i + 1 /\ j + 1 # 1 /\ j # 1
            /\ ~(j + 1 < i) /\ ~(j < i) /\ ~(j - 1 < i)
            /\ (j + 1) + 1 = j + 2 /\ (j + 1) - 1 = j /\ (j = z - 1 <=> j + 1 = z)
        BY <1>2, <3>4
      <4>2. QED BY <2>7, <3>0, <3>4, <4>1
    <3>5. j \in Int /\ i \in Int
      BY <1>2
    <3>6. QED BY <3>1, <3>2, <3>3, <3>4, <3>5
  <2>9. Len(S2[l]) = z - 1
    BY <1>6
  <2> HIDE DEF z
  <2>10. QED BY <2>5, <2>6, <2>8, <2>9 DEF Linked
<1>11. Apart(r, S2)
  <2>1. ASSUME NEW k \in Lists, NEW m \in Lists, NEW j \in 1..Len(S2[k]), NEW e \in 1..Len(S2[m]),
               S2[k][j] = S2[m][e]
        PROVE  k = m /\ j = e
    <3>1. \/ k # l /\ j \in 1..Len(S[k]) /\ S2[k][j] = S[k][j]
          \/ k = l /\ j < i /\ j \in 1..Len(S[k]) /\ S2[k][j] = S[k][j]
          \/ k = l /\ j >= i /\ j + 1 \in 1..Len(S[k]) /\ S2[k][j] = S[k][j + 1]
      BY <1>7
    <3>2. \/ m # l /\ e \in 1..Len(S[m]) /\ S2[m][e] = S[m][e]
          \/ m = l /\ e < i /\ e \in 1..Len(S[m]) /\ S2[m][e] = S[m][e]
          \/ m = l /\ e >= i /\ e + 1 \in 1..Len(S[m]) /\ S2[m][e] = S[m][e + 1]
      BY <1>7
    <3>3. j \in Int /\ e \in Int /\ i \in Int
      BY <1>2
    <3>4. \A a, b \in Lists : \A c \in 1..Len(S[a]), d \in 1..Len(S[b]) : S[a][c] = S[b][d] => a = b /\ c = d
      BY DEF Holds, Apart
    <3>5. QED BY <2>1, <3>1, <3>2, <3>3, <3>4
  <2>2. /\ r.free = Append(g.free, n) /\ Len(r.free) = Len(g.free) + 1 /\ Len(g.free) \in Nat
        /\ r.free[Len(g.free) + 1] = n /\ \A j \in 1..Len(g.free) : r.free[j] = g.free[j] /\ r.free[j] # n
    <3>1. r.free = Append(g.free, n)
      BY <1>1 DEF FieldsRemoved
    <3>2. \A j \in 1..Len(g.free) : g.free[j] # n
      BY DEF Holds, Apart
    <3>3. QED BY <1>2, <1>5, <3>1, <3>2
  <2>3. \A j, k \in 1..Len(r.free) : r.free[j] = r.free[k] => j = k
    <3>1. \A j, k \in 1..Len(g.free) : g.free[j] = g.free[k] => j = k
      BY DEF Holds, Apart
    <3>2. \A j \in 1..Len(r.free) : j \in 1..Len(g.free) \/ j = Len(g.free) + 1
      BY <2>2
    <3>3. QED BY <2>2, <3>1, <3>2
  <2>4. ASSUME NEW k \in Lists, NEW j \in 1..Len(S2[k]), NEW e \in 1..Len(r.free)
        PROVE  S2[k][j] # r.free[e]
    <3>1. \E m \in 1..Len(S[k]) : S2[k][j] = S[k][m] /\ ~(k = l /\ m = i)
      <4>1. i \in Int /\ j \in Int /\ (j >= i => j + 1 # i)
        BY <1>2
      <4>2. QED BY <1>7, <4>1
    <3>2. PICK m \in 1..Len(S[k]) : S2[k][j] = S[k][m] /\ ~(k = l /\ m = i)
      BY <3>1
    <3>3. S[k][m] # n
      BY <3>2 DEF Holds, Apart
    <3>4. e \in 1..Len(g.free) \/ e = Len(g.free) + 1
      BY <2>2
    <3>5. \A a \in 1..Len(g.free) : S[k][m] # g.free[a]
      BY DEF Holds, Apart
    <3>6. QED BY <2>2, <3>2, <3>3, <3>4, <3>5
  <2>5. QED BY <2>1, <2>3, <2>4 DEF Apart
<1>12. Spread(r, S2)
  <2>1. /\ r.created = g.created /\ Len(r.free) = Len(g.free) + 1 /\ Len(g.free) \in Nat
        /\ r.free[Len(g.free) + 1] = n /\ \A j \in 1..Len(g.free) : r.free[j] = g.free[j]
    <3>1. r.free = Append(g.free, n) /\ r.created = g.created
      BY <1>1 DEF FieldsRemoved
    <3>2. QED BY <1>2, <1>5, <3>1
  <2>2. \A k \in Lists : \A j \in 1..Len(S2[k]) : S2[k][j] <= r.created
    BY <1>7, <2>1 DEF Holds, Spread
  <2>3. \A j \in 1..Len(r.free) : r.free[j] <= r.created
    <3>1. \A j \in 1..Len(r.free) : j \in 1..Len(g.free) \/ j = Len(g.free) + 1
      BY <2>1
    <3>2. n <= g.created /\ \A j \in 1..Len(g.free) : g.free[j] <= g.created
      BY DEF Holds, Spread
    <3>3. QED BY <2>1, <3>1, <3>2
  <2>4. ASSUME NEW m \in 1..r.created
        PROVE  \/ \E j \in 1..Len(r.free) : m = r.free[j]
               \/ \E k \in Lists : \E j \in 1..Len(S2[k]) : m = S2[k][j]
    <3>1. CASE \E j \in 1..Len(g.free) : m = g.free[j]
      BY <2>1, <3>1
    <3>2. CASE \E k \in Lists : \E j \in 1..Len(S[k]) : m = S[k][j]
      <4>1. PICK k \in Lists : \E j \in 1..Len(S[k]) : m = S[k][j]
        BY <3>2
      <4>2. PICK j \in 1..Len(S[k]) : m = S[k][j]
        BY <4>1
      <4>3. CASE k = l /\ j = i
        <5>1. m = n /\ Len(g.free) + 1 \in 1..Len(r.free)
          BY <4>2, <4>3, <2>1
        <5>2. QED BY <5>1, <2>1
      <4>4. CASE ~(k = l /\ j = i)
        BY <1>7, <4>2, <4>4
      <4>5. QED BY <4>3, <4>4
    <3>3. \/ \E j \in 1..Len(g.free) : m = g.free[j]
          \/ \E k \in Lists : \E j \in 1..Len(S[k]) : m = S[k][j]
      <4>1. m \in 1..g.created
        BY <2>1
      <4>2. QED BY <4>1 DEF Holds, Spread
    <3>4. QED BY <3>1, <3>2, <3>3
  <2>5. QED BY <2>2, <2>3, <2>4 DEF Spread
<1>13. r \in Heaps
  BY <1>1 DEF FieldsRemoved
<1>14. QED BY <1>6, <1>9, <1>10, <1>11, <1>12, <1>13 DEF Holds, r, S2

\* A removal takes the object out of the lists.
LEMMA RemoveCarries ==
  ASSUME NEW g, NEW S, Holds(g, S), NEW D, Carry(g, S, D), NEW l \in Lists, NEW i \in 1..Len(S[l])
  PROVE  Carry(Remove(g, l, g.obj[S[l][i]]), Removed(S, l, i), D \ {g.obj[S[l][i]]})
<1> DEFINE n == S[l][i]
           o == g.obj[n]
           r == Remove(g, l, o)
           S2 == Removed(S, l, i)
<1>1. r.obj = [g.obj EXCEPT ![n] = Null] /\ g.obj \in [Nodes -> Nodes \union {Null}]
  <2>1. FieldsRemoved(g, l, n, g.prev[n], g.next[n], r)
    BY NodeOfIs, RemoveIs
  <2>2. g \in Heaps
    BY DEF Holds
  <2>3. QED BY <2>1, <2>2, FieldsAre DEF FieldsRemoved
<1>2. \A k \in Lists : \A j \in 1..Len(S[k]) : S[k][j] \in Nodes
  BY HeldSeq
<1>3. i \in Int /\ Stay(S, S2, l, i)
  BY HeldSeq, StayingNodes
<1> HIDE DEF S2, r
<1>4. ASSUME NEW k \in Lists, NEW j \in 1..Len(S2[k])
      PROVE  \E m \in 1..Len(S[k]) : /\ S2[k][j] = S[k][m] /\ ~(k = l /\ m = i)
                                     /\ m = IF k = l /\ j >= i THEN j + 1 ELSE j
  <2>1. j \in Nat
    OBVIOUS
  <2>2. \/ k # l /\ j \in 1..Len(S[k]) /\ S2[k][j] = S[k][j]
        \/ k = l /\ j < i /\ j \in 1..Len(S[k]) /\ S2[k][j] = S[k][j]
        \/ k = l /\ j >= i /\ j + 1 \in 1..Len(S[k]) /\ S2[k][j] = S[k][j + 1]
    BY <1>3 DEF Stay
  <2>3. QED BY <1>3, <2>1, <2>2
<1>5. \A k \in Lists : \A j \in 1..Len(S[k]) : ~(k = l /\ j = i) => r.obj[S[k][j]] = g.obj[S[k][j]]
  <2> SUFFICES ASSUME NEW k \in Lists, NEW j \in 1..Len(S[k]), ~(k = l /\ j = i)
               PROVE  r.obj[S[k][j]] = g.obj[S[k][j]]
    OBVIOUS
  <2>1. S[k][j] # n /\ S[k][j] \in Nodes
    BY <1>2 DEF Holds, Apart
  <2>2. QED BY <1>1, <2>1
<1>6. ASSUME NEW k \in Lists, NEW m \in Lists, NEW j \in 1..Len(S2[k]), NEW e \in 1..Len(S2[m]),
             r.obj[S2[k][j]] = r.obj[S2[m][e]]
      PROVE  k = m /\ j = e
  <2>1. PICK a \in 1..Len(S[k]) : /\ S2[k][j] = S[k][a] /\ ~(k = l /\ a = i)
                                  /\ a = IF k = l /\ j >= i THEN j + 1 ELSE j
    BY <1>4
  <2>2. PICK b \in 1..Len(S[m]) : /\ S2[m][e] = S[m][b] /\ ~(m = l /\ b = i)
                                  /\ b = IF m = l /\ e >= i THEN e + 1 ELSE e
    BY <1>4
  <2>3. g.obj[S[k][a]] = g.obj[S[m][b]]
    BY <1>5, <1>6, <2>1, <2>2
  <2>4. k = m /\ a = b
    BY <2>3 DEF Carry
  <2>5. j \in Nat /\ e \in Nat
    OBVIOUS
  <2>6. QED BY <1>3, <2>1, <2>2, <2>4, <2>5
<1>7. ASSUME NEW k \in Lists, NEW j \in 1..Len(S2[k]) PROVE r.obj[S2[k][j]] \in D \ {o}
  <2>1. PICK a \in 1..Len(S[k]) : S2[k][j] = S[k][a] /\ ~(k = l /\ a = i)
    BY <1>4
  <2>2. r.obj[S2[k][j]] = g.obj[S[k][a]] /\ g.obj[S[k][a]] \in D /\ g.obj[S[k][a]] # o
    BY <1>5, <2>1 DEF Carry
  <2>3. QED BY <2>2
<1>8. ASSUME NEW d \in D \ {o} PROVE \E k \in Lists : \E j \in 1..Len(S2[k]) : r.obj[S2[k][j]] = d
  <2>1. PICK k \in Lists : \E j \in 1..Len(S[k]) : g.obj[S[k][j]] = d
    BY DEF Carry
  <2>2. PICK j \in 1..Len(S[k]) : g.obj[S[k][j]] = d
    BY <2>1
  <2>3. ~(k = l /\ j = i)
    BY <2>2
  <2>4. \E m \in 1..Len(S2[k]) : S2[k][m] = S[k][j]
    BY <1>3, <2>3 DEF Stay
  <2>5. QED BY <1>5, <2>2, <2>3, <2>4
<1>9. QED BY <1>6, <1>7, <1>8 DEF Carry, r, S2

\* What a list's nodes carry is left alone.
Kept(g, S, g2, S2, k) ==
    /\ S2[k] = S[k]
    /\ \A i \in 1..Len(S[k]) : g2.obj[S[k][i]] = g.obj[S[k][i]]

\* The list l has one more node, and the others are left alone.
Longer(g, S, g2, S2, l, n, o) ==
    /\ \A k \in Lists \ {l} : Kept(g, S, g2, S2, k)
    /\ Len(S2[l]) = Len(S[l]) + 1 /\ S2[l][Len(S[l]) + 1] = n /\ g2.obj[n] = o
    /\ \A i \in 1..Len(S[l]) : S2[l][i] = S[l][i] /\ g2.obj[S[l][i]] = g.obj[S[l][i]]

LEMMA PushGrows ==
  ASSUME NEW g, NEW S, Holds(g, S), HasRoom(g), NEW l \in Lists, NEW o \in Nodes
  PROVE  Longer(g, S, Push(g, l, o), Pushed(S, l, NewNode(g)), l, NewNode(g), o)
<1> DEFINE n == NewNode(g)
           p == Push(g, l, o)
           S2 == Pushed(S, l, n)
<1>1. p.obj = [g.obj EXCEPT ![n] = o] /\ g.obj \in [Nodes -> Nodes \union {Null}]
  <2>1. FieldsPushed(g, l, o, n, Taken(g), p) /\ g \in Heaps
    BY PushIs DEF Holds
  <2>2. QED BY <2>1, FieldsAre DEF FieldsPushed
<1>2. n \in Nodes /\ \A k \in Lists : \A i \in 1..Len(S[k]) : S[k][i] # n /\ S[k][i] \in Nodes
  BY TakenIs, HeldSeq
<1>3. S \in [Lists -> Seq(Nodes)]
  BY DEF Holds
<1> HIDE DEF n, p
<1>4. S2[l] = Append(S[l], n) /\ \A k \in Lists \ {l} : S2[k] = S[k]
  BY <1>2, <1>3 DEF Pushed
<1>5. /\ Len(S2[l]) = Len(S[l]) + 1 /\ S2[l][Len(S[l]) + 1] = n
      /\ \A i \in 1..Len(S[l]) : S2[l][i] = S[l][i]
  BY <1>2, <1>3, <1>4
<1> HIDE DEF S2
<1>6. p.obj[n] = o /\ \A k \in Lists : \A i \in 1..Len(S[k]) : p.obj[S[k][i]] = g.obj[S[k][i]]
  BY <1>1, <1>2
<1>7. QED BY <1>4, <1>5, <1>6 DEF Longer, Kept, n, p, S2

\* The last node of a list moves to the end of another one.
Moved(g, S, g2, S2, a, b, m) ==
    /\ \A k \in Lists \ {a, b} : Kept(g, S, g2, S2, k)
    /\ Len(S2[a]) = Len(S[a]) - 1
    /\ \A i \in 1..(Len(S[a]) - 1) : S2[a][i] = S[a][i] /\ g2.obj[S[a][i]] = g.obj[S[a][i]]
    /\ Len(S2[b]) = Len(S[b]) + 1 /\ S2[b][Len(S[b]) + 1] = m /\ g2.obj[m] = g.obj[m]
    /\ \A i \in 1..Len(S[b]) : S2[b][i] = S[b][i] /\ g2.obj[S[b][i]] = g.obj[S[b][i]]
    /\ g2.free = g.free

LEMMA LastIs ==
  ASSUME NEW g, NEW S, Holds(g, S), NEW l \in Lists
  PROVE  /\ IsEmpty(g, l) <=> Len(S[l]) = 0
         /\ Len(S[l]) > 0 => Last(g, l) = g.obj[S[l][Len(S[l])]] /\ Len(S[l]) \in 1..Len(S[l])
<1>1. Len(S[l]) \in Nat /\ Linked(g, l, S[l]) /\ \A i \in 1..Len(S[l]) : S[l][i] # Null
  BY HeldSeq
<1>2. Len(S[l]) > 0 => 1 \in 1..Len(S[l]) /\ Len(S[l]) \in 1..Len(S[l])
  BY <1>1
<1>3. QED BY <1>1, <1>2 DEF Linked, Last, IsEmpty

\* Taking the last object of a list and pushing it onto another moves its node:
\* the stack of free nodes is as before.
LEMMA PopAndPush ==
  ASSUME NEW g, NEW S, Holds(g, S), NEW D \in SUBSET Nodes, Carry(g, S, D),
         NEW a \in Lists, NEW b \in Lists, a # b, Len(S[a]) > 0,
         NEW m, m = S[a][Len(S[a])]
  PROVE  \E S2 : /\ Holds(Push(Pop(g, a), b, Last(g, a)), S2) /\ Carry(Push(Pop(g, a), b, Last(g, a)), S2, D)
                 /\ Moved(g, S, Push(Pop(g, a), b, Last(g, a)), S2, a, b, m)
                 /\ Last(g, a) = g.obj[m] /\ Last(g, a) \in D
<1> DEFINE z == Len(S[a])
           d == Last(g, a)
           r == Pop(g, a)
           R == Removed(S, a, z)
           p == Push(r, b, d)
           P == Pushed(R, b, m)
<1>1. z \in 1..z /\ z \in Nat /\ d = g.obj[m] /\ d \in D /\ d \in Nodes
  <2>1. z \in 1..z /\ d = g.obj[m]
    BY LastIs
  <2>2. g.obj[m] \in D
    BY <2>1 DEF Carry
  <2>3. QED BY <2>1, <2>2
<1>2. r = Remove(g, a, g.obj[m]) /\ NodeOf(g, a, g.obj[m]) = m
  BY <1>1, NodeOfIs DEF Pop
<1>3. Holds(r, R) /\ Carry(r, R, D \ {d}) /\ FieldsRemoved(g, a, m, g.prev[m], g.next[m], r)
  <2>1. Holds(r, R)
    BY <1>1, <1>2, RemoveHolds
  <2>2. Carry(r, R, D \ {d})
    <3>1. Carry(Remove(g, a, g.obj[S[a][z]]), R, D \ {g.obj[S[a][z]]})
      BY <1>1, RemoveCarries
    <3>2. QED BY <1>1, <1>2, <3>1
  <2>3. FieldsRemoved(g, a, m, g.prev[m], g.next[m], r)
    BY <1>1, <1>2, RemoveIs
  <2>4. QED BY <2>1, <2>2, <2>3
<1>4. \A k \in Lists : \A i \in 1..Len(S[k]) : S[k][i] \in Nodes
  BY HeldSeq
<1>5. m \in Nodes /\ g.free \in Seq(Nodes) /\ Len(g.free) \in Nat /\ g.obj \in [Nodes -> Nodes \union {Null}]
  <2>1. g \in Heaps
    BY DEF Holds
  <2>2. QED BY <2>1, <1>1, <1>4, FieldsAre
<1>6. r.free = Append(g.free, m) /\ r.obj = [g.obj EXCEPT ![m] = Null] /\ r \in Heaps
  BY <1>3 DEF FieldsRemoved
<1>7. Len(r.free) = Len(g.free) + 1 /\ r.free[Len(r.free)] = m /\ r.free # <<>> /\ r.free \in Seq(Nodes)
      /\ SubSeq(r.free, 1, Len(r.free) - 1) = g.free
  BY <1>5, <1>6
<1>8. NewNode(r) = m /\ HasRoom(r) /\ Taken(r).free = g.free
  <2>1. NewNode(r) = m
    BY <1>7 DEF NewNode
  <2>2. HasRoom(r)
    BY <1>5, <1>7 DEF HasRoom
  <2>3. Taken(r) = [r EXCEPT !.free = SubSeq(r.free, 1, Len(r.free) - 1)]
    BY <1>7 DEF Taken
  <2>4. Taken(r).free = g.free
    BY <1>6, <1>7, <2>3 DEF Heaps
  <2>5. QED BY <2>1, <2>2, <2>4
<1> HIDE DEF r, R, d, z
<1>9. Holds(p, P) /\ Carry(p, P, (D \ {d}) \union {d}) /\ Longer(r, R, p, P, b, m, d)
  BY <1>1, <1>3, <1>8, PushHolds, PushCarries, PushGrows
<1>10. FieldsPushed(r, b, d, m, Taken(r), p)
  BY <1>1, <1>3, <1>8, PushIs
<1>11. p.free = g.free
  BY <1>8, <1>10 DEF FieldsPushed
<1> HIDE DEF p, P
<1>12. /\ \A k \in Lists \ {a} : R[k] = S[k]
       /\ Len(R[a]) = z - 1
       /\ \A i \in 1..(z - 1) : R[a][i] = S[a][i]
  <2>1. z \in 1..Len(S[a])
    BY <1>1 DEF z
  <2>2. /\ \A k \in Lists \ {a} : Removed(S, a, z)[k] = S[k]
        /\ Len(Removed(S, a, z)[a]) = Len(S[a]) - 1
        /\ \A i \in 1..(Len(S[a]) - 1) : Removed(S, a, z)[a][i] = IF i < z THEN S[a][i] ELSE S[a][i + 1]
    BY <2>1, WithoutIs
  <2>3. \A i \in 1..(z - 1) : i < z
    BY <1>1
  <2>4. QED BY <2>2, <2>3 DEF R, z
<1>13. \A k \in Lists : \A i \in 1..Len(S[k]) : ~(k = a /\ i = z) => r.obj[S[k][i]] = g.obj[S[k][i]]
  <2> SUFFICES ASSUME NEW k \in Lists, NEW i \in 1..Len(S[k]), ~(k = a /\ i = z)
               PROVE  r.obj[S[k][i]] = g.obj[S[k][i]]
    OBVIOUS
  <2>1. S[k][i] # m
    BY <1>1 DEF Holds, Apart, z
  <2>2. QED BY <1>4, <1>5, <1>6, <2>1
<1>14. Moved(g, S, p, P, a, b, m)
  <2>1. ASSUME NEW k \in Lists \ {a, b} PROVE Kept(g, S, p, P, k)
    <3>1. Kept(r, R, p, P, k) /\ R[k] = S[k]
      BY <1>9, <1>12 DEF Longer
    <3>2. \A i \in 1..Len(S[k]) : r.obj[S[k][i]] = g.obj[S[k][i]]
      BY <1>13
    <3>3. QED BY <3>1, <3>2 DEF Kept
  <2>2. /\ Len(P[a]) = z - 1
        /\ \A i \in 1..(z - 1) : P[a][i] = S[a][i] /\ p.obj[S[a][i]] = g.obj[S[a][i]]
    <3>1. Kept(r, R, p, P, a)
      BY <1>9 DEF Longer
    <3>2. P[a] = R[a] /\ \A i \in 1..(z - 1) : p.obj[S[a][i]] = r.obj[S[a][i]]
      BY <1>12, <3>1 DEF Kept
    <3>3. \A i \in 1..(z - 1) : i \in 1..Len(S[a]) /\ i # z
      BY <1>1 DEF z
    <3>4. QED BY <1>12, <1>13, <3>2, <3>3
  <2>3. /\ Len(P[b]) = Len(S[b]) + 1 /\ P[b][Len(S[b]) + 1] = m /\ p.obj[m] = g.obj[m]
        /\ \A i \in 1..Len(S[b]) : P[b][i] = S[b][i] /\ p.obj[S[b][i]] = g.obj[S[b][i]]
    BY <1>1, <1>9, <1>12, <1>13 DEF Longer
  <2>4. QED BY <1>11, <2>1, <2>2, <2>3 DEF Moved, z
<1>15. (D \ {d}) \union {d} = D
  BY <1>1
<1>16. QED BY <1>1, <1>9, <1>14, <1>15 DEF p, P, d, r

-----------------------------------------------------------------------------
(* Filling a pool                                                          *)

\* The pool, which was empty, has k new descriptors.
Allocated(g, S, g2, S2, pool, k) ==
    /\ \A l \in Lists \ {pool} : Kept(g, S, g2, S2, l)
    /\ Len(S2[pool]) = k
    /\ \A i \in 1..k : g2.obj[S2[pool][i]] = made + i
    /\ k > 0 => S2[pool][1] = NewNode(g)

Filling(g, S, D, pool, k, g2) ==
    \E S2 : /\ Holds(g2, S2) /\ Carry(g2, S2, D \union ((made + 1)..(made + k)))
            /\ Allocated(g, S, g2, S2, pool, k)

\* One more descriptor for the pool.
LEMMA FillOne ==
  ASSUME NEW g, NEW S, NEW pool \in Lists, NEW k \in Nat, NEW g2, NEW D \in SUBSET Nodes,
         made \in Nat, made + k + 1 <= MaxNodes, \A d \in D : d <= made,
         Len(S[pool]) = 0, Filling(g, S, D, pool, k, g2), k = 0 => g2 = g
  PROVE  Filling(g, S, D, pool, k + 1, Push(g2, pool, made + (k + 1)))
<1> DEFINE E == D \union ((made + 1)..(made + k))
           o == made + (k + 1)
           n == NewNode(g2)
           p == Push(g2, pool, o)
<1>1. PICK S2 : Holds(g2, S2) /\ Carry(g2, S2, E) /\ Allocated(g, S, g2, S2, pool, k)
  BY DEF Filling
<1>2. E \in SUBSET Nodes /\ o \in Nodes /\ o \notin E
  <2>1. o \in Nodes
    BY Bounds
  <2>2. (made + 1)..(made + k) \subseteq Nodes
    BY Bounds
  <2>3. o \notin D /\ o \notin (made + 1)..(made + k)
    OBVIOUS
  <2>4. QED BY <2>1, <2>2, <2>3
<1>3. E \union {o} = D \union ((made + 1)..(made + (k + 1)))
  OBVIOUS
<1> HIDE DEF E, o
<1>4. HasRoom(g2)
  BY <1>1, <1>2, RoomForMore
<1> DEFINE P == Pushed(S2, pool, n)
<1>5. Holds(p, P) /\ Carry(p, P, E \union {o}) /\ Longer(g2, S2, p, P, pool, n, o)
  BY <1>1, <1>2, <1>4, PushHolds, PushCarries, PushGrows
<1>6. \A l \in Lists : Len(S2[l]) \in Nat
  BY <1>1, HeldSeq
<1> HIDE DEF p, P, n
<1>7. Allocated(g, S, p, P, pool, k + 1)
  <2>1. ASSUME NEW l \in Lists \ {pool} PROVE Kept(g, S, p, P, l)
    <3>1. Kept(g, S, g2, S2, l) /\ Kept(g2, S2, p, P, l)
      BY <1>1, <1>5 DEF Allocated, Longer
    <3>2. QED BY <3>1 DEF Kept
  <2>2. Len(S2[pool]) = k /\ \A i \in 1..k : g2.obj[S2[pool][i]] = made + i
    BY <1>1 DEF Allocated
  <2>3. /\ Len(P[pool]) = k + 1 /\ P[pool][k + 1] = n /\ p.obj[n] = o
        /\ \A i \in 1..k : P[pool][i] = S2[pool][i] /\ p.obj[S2[pool][i]] = g2.obj[S2[pool][i]]
    BY <1>5, <2>2 DEF Longer
  <2>4. \A i \in 1..(k + 1) : p.obj[P[pool][i]] = made + i
    <3> TAKE i \in 1..(k + 1)
    <3>1. CASE i = k + 1
      BY <2>3, <3>1 DEF o
    <3>2. CASE i # k + 1
      <4>1. i \in 1..k
        BY <3>2
      <4>2. QED BY <2>2, <2>3, <4>1
    <3>3. QED BY <3>1, <3>2
  <2>5. P[pool][1] = NewNode(g)
    <3>1. CASE k = 0
      BY <2>3, <3>1 DEF n
    <3>2. CASE k # 0
      <4>1. 1 \in 1..k /\ k > 0
        BY <3>2
      <4>2. S2[pool][1] = NewNode(g)
        BY <1>1, <4>1 DEF Allocated
      <4>3. QED BY <2>3, <4>1, <4>2
    <3>3. QED BY <3>1, <3>2
  <2>6. QED BY <2>1, <2>3, <2>4, <2>5 DEF Allocated
<1>8. QED
  <2>1. Holds(p, P) /\ Carry(p, P, D \union ((made + 1)..(made + (k + 1)))) /\ Allocated(g, S, p, P, pool, k + 1)
    BY <1>3, <1>5, <1>7
  <2> HIDE DEF Filling
  <2>2. Filling(g, S, D, pool, k + 1, p)
    BY <2>1 DEF Filling
  <2>3. QED BY <2>2 DEF p, o

Filled(g, pool, m, f) == f = [k \in 0..m |-> IF k = 0 THEN g ELSE Push(f[k - 1], pool, made + k)]

\* The recursion of PreAllocate has a solution.
LEMMA FilledExists == ASSUME NEW g, NEW pool, NEW m \in Nat PROVE \E f : Filled(g, pool, m, f)
<1> DEFINE Has == {i \in Nat : \E f : Filled(g, pool, i, f)}
<1>1. 0 \in Has
  <2> DEFINE f == [k \in 0..0 |-> g]
  <2>1. f = [k \in 0..0 |-> IF k = 0 THEN g ELSE Push(f[k - 1], pool, made + k)]
    <3>1. \A k \in 0..0 : k = 0
      OBVIOUS
    <3>2. QED BY <3>1
  <2> HIDE DEF f
  <2>2. Filled(g, pool, 0, f)
    BY <2>1 DEF Filled
  <2>3. QED BY <2>2
<1>2. ASSUME NEW i \in Nat, i \in Has PROVE i + 1 \in Has
  <2>1. PICK f : Filled(g, pool, i, f)
    BY <1>2
  <2>2. \A k \in 0..i : f[k] = IF k = 0 THEN g ELSE Push(f[k - 1], pool, made + k)
    BY <2>1 DEF Filled
  <2> DEFINE e == [k \in 0..(i + 1) |-> IF k = i + 1 THEN Push(f[i], pool, made + k) ELSE f[k]]
             F == [k \in 0..(i + 1) |-> IF k = 0 THEN g ELSE Push(e[k - 1], pool, made + k)]
  <2>3. ASSUME NEW k \in 0..(i + 1) PROVE e[k] = F[k]
    <3>1. CASE k = i + 1
      <4>1. k # 0 /\ k - 1 = i /\ i \in 0..(i + 1) /\ i # i + 1
        BY <3>1
      <4>2. e[i] = f[i]
        BY <4>1
      <4>3. e[k] = Push(f[i], pool, made + k)
        BY <3>1
      <4>4. F[k] = Push(e[k - 1], pool, made + k)
        BY <4>1
      <4>5. QED BY <4>1, <4>2, <4>3, <4>4
    <3>2. CASE k = 0
      <4>1. 0 \in 0..i /\ 0 # i + 1
        OBVIOUS
      <4>2. QED BY <2>2, <3>2, <4>1
    <3>3. CASE k # 0 /\ k # i + 1
      <4>1. k \in 0..i /\ k - 1 \in 0..(i + 1) /\ k - 1 # i + 1
        BY <3>3
      <4>2. e[k] = f[k] /\ e[k - 1] = f[k - 1]
        BY <4>1, <3>3
      <4>3. F[k] = Push(e[k - 1], pool, made + k)
        BY <3>3
      <4>4. QED BY <2>2, <3>3, <4>1, <4>2, <4>3
    <3>4. QED BY <3>1, <3>2, <3>3
  <2>4. e = F
    <3>1. e = [k \in 0..(i + 1) |-> e[k]] /\ F = [k \in 0..(i + 1) |-> F[k]]
      OBVIOUS
    <3> HIDE DEF e, F
    <3>2. QED BY <2>3, <3>1
  <2>5. Filled(g, pool, i + 1, e)
    BY <2>4 DEF Filled
  <2> HIDE DEF e
  <2>6. QED BY <2>5
<1> HIDE DEF Has
<1>3. Nat \subseteq Has
  BY <1>1, <1>2, NatInd
<1>4. QED BY <1>3 DEF Has

\* PreAllocate gives an empty pool Chunk new descriptors.
LEMMA PreAllocateFills ==
  ASSUME NEW g, NEW S, Holds(g, S), NEW D \in SUBSET Nodes, Carry(g, S, D), NEW pool \in Lists,
         made \in Nat, made + Chunk <= MaxNodes, \A d \in D : d <= made, Len(S[pool]) = 0
  PROVE  Filling(g, S, D, pool, Chunk, PreAllocate(g, pool))
<1>0. Chunk \in Nat /\ Chunk > 0
  BY PlaybackBusAssumption
<1> DEFINE f == CHOOSE f : Filled(g, pool, Chunk, f)
<1>1. PreAllocate(g, pool) = f[Chunk]
  BY DEF PreAllocate, Filled
<1>2. Filled(g, pool, Chunk, f)
  BY <1>0, FilledExists
<1> HIDE DEF f
<1>3. \A k \in 0..Chunk : f[k] = IF k = 0 THEN g ELSE Push(f[k - 1], pool, made + k)
  BY <1>2 DEF Filled
<1> DEFINE Good == {k \in Nat : k <= Chunk => Filling(g, S, D, pool, k, f[k])}
<1>4. 0 \in Good
  <2>1. f[0] = g
    BY <1>0, <1>3
  <2>2. D \union ((made + 1)..(made + 0)) = D
    OBVIOUS
  <2>3. Allocated(g, S, g, S, pool, 0)
    BY DEF Allocated, Kept
  <2>4. Filling(g, S, D, pool, 0, f[0])
    BY <2>1, <2>2, <2>3 DEF Filling
  <2>5. QED BY <2>4
<1>5. ASSUME NEW k \in Nat, k \in Good PROVE k + 1 \in Good
  <2> SUFFICES ASSUME k + 1 <= Chunk PROVE Filling(g, S, D, pool, k + 1, f[k + 1])
    OBVIOUS
  <2>1. Filling(g, S, D, pool, k, f[k])
    BY <1>0, <1>5
  <2>2. f[k + 1] = Push(f[k], pool, made + (k + 1)) /\ made + k + 1 <= MaxNodes /\ (k = 0 => f[k] = g)
    <3>1. k + 1 \in 0..Chunk /\ (k + 1) - 1 = k /\ k + 1 # 0 /\ 0 \in 0..Chunk
      BY <1>0
    <3>2. made + k + 1 <= MaxNodes
      BY <1>0, Bounds
    <3>3. f[k + 1] = Push(f[k], pool, made + (k + 1)) /\ f[0] = g
      BY <1>3, <3>1
    <3>4. QED BY <3>2, <3>3
  <2>3. QED BY <2>1, <2>2, FillOne
<1> HIDE DEF Good
<1>6. Nat \subseteq Good
  BY <1>4, <1>5, NatInd
<1>7. Filling(g, S, D, pool, Chunk, f[Chunk])
  BY <1>0, <1>6 DEF Good
<1>8. QED BY <1>1, <1>7

-----------------------------------------------------------------------------
(* The steps of the bus                                                    *)

\* What the steps below depend on of the types.
BusShape ==
    /\ made \in 0..MaxNodes /\ walking \in {"idle", "notes", "beats"}
    /\ cursor \in Nodes \union {Null} /\ firing \in 1..made \union {Null}
    /\ extra \in 0..MaxExtra /\ delta \in Nat
    /\ time \in [Nodes -> Int \union {Null}] /\ what \in [Nodes -> Things \union {Null}]
    /\ due \in [Things -> Int \union {Null}]
    /\ \A d \in Nodes : d > made => time[d] = Null

\* A queue has the descriptors of what is pending, one each.
Queued(S, q) ==
    /\ \A i \in 1..Len(S[q]) : what[h.obj[S[q][i]]] \in Pending /\ QueueOf(what[h.obj[S[q][i]]]) = q
    /\ \A i, j \in 1..Len(S[q]) : what[h.obj[S[q][i]]] = what[h.obj[S[q][j]]] => i = j
    /\ \A x \in Pending : QueueOf(x) = q => \E i \in 1..Len(S[q]) : what[h.obj[S[q][i]]] = x

\* From the i-th on the pool's descriptors were never prepared.
Unprepared(S, i) == \A j \in i..Len(S["notePool"]) : time[h.obj[S["notePool"][j]]] = Null

\* forEach is at a node of the queue, or has strayed into the pool of the notes.
AtNode(S) ==
    \/ \E i \in 1..Len(S[walking]) : S[walking][i] = cursor
    \/ walking = "beats" /\ \E i \in 1..Len(S["notePool"]) : S["notePool"][i] = cursor /\ Unprepared(S, i)

\* The node that forEach is at was removed: it is the next to be used, or the
\* first that a listener has allocated, when the pool was empty.
AtRemoved(S) ==
    \/ Len(h.free) > 0 /\ h.free[Len(h.free)] = cursor
    \/ /\ walking = "beats" /\ Len(S["notePool"]) + extra >= Chunk
       /\ S["notePool"][1] = cursor /\ Unprepared(S, 1)

CursorAt(S) ==
    /\ walking = "idle" => cursor = Null /\ firing = Null
    /\ walking # "idle" /\ firing = Null /\ cursor # Null => AtNode(S)
    /\ firing # Null => cursor # Null /\ AtRemoved(S)

BusHolds(S) ==
    /\ Holds(h, S) /\ Carry(h, S, (1..made) \ {firing})
    /\ Queued(S, "notes") /\ Queued(S, "beats") /\ CursorAt(S)

BusInv == BusShape /\ \E S : BusHolds(S)

\* The names of the queues and of the pools.
LEMMA ListNames ==
  /\ Lists = {"notes", "beats", "notePool", "beatPool"}
  /\ \A x \in Things : /\ QueueOf(x) \in {"notes", "beats"} /\ PoolOf(QueueOf(x)) \in {"notePool", "beatPool"}
                       /\ QueueOf(x) \in Lists /\ PoolOf(QueueOf(x)) \in Lists
  /\ \A q \in {"notes", "beats"} : PoolOf(q) \in {"notePool", "beatPool"} /\ PoolOf(q) \in Lists /\ q \in Lists
  /\ PoolOf("notes") = "notePool" /\ PoolOf("beats") = "beatPool"
  /\ \A x \in Sounds : x \in Things /\ QueueOf(x) = "notes"
  BY PlaybackBusAssumption DEF Things, QueueOf, PoolOf

\* What the lists carry has a descriptor's number.
LEMMA Carried ==
  ASSUME BusShape
  PROVE  /\ made \in Nat /\ made <= MaxNodes /\ 1..made \subseteq Nodes
         /\ (1..made) \ {firing} \in SUBSET Nodes /\ \A d \in (1..made) \ {firing} : d <= made
         /\ MaxNodes \in Nat /\ Null \notin Nodes
  BY Bounds DEF BusShape

LEMMA KeptAgain ==
  ASSUME NEW g, NEW S, NEW g2, NEW S2, NEW g3, NEW S3, NEW k,
         Kept(g, S, g2, S2, k), Kept(g2, S2, g3, S3, k)
  PROVE  Kept(g, S, g3, S3, k)
  BY DEF Kept

\* A queue that a step leaves alone.
LEMMA QueueStays ==
  ASSUME NEW S, NEW S2, NEW q, Queued(S, q), Kept(h, S, h', S2, q),
         \A i \in 1..Len(S[q]) : what'[h.obj[S[q][i]]] = what[h.obj[S[q][i]]],
         \A x \in Things : QueueOf(x) = q => (x \in Pending <=> x \in Pending')
  PROVE  Queued(S2, q)'
<1>1. S2[q] = S[q] /\ \A i \in 1..Len(S[q]) : h'.obj[S2[q][i]] = h.obj[S[q][i]]
  BY DEF Kept
<1>2. \A i \in 1..Len(S2[q]) : what'[h'.obj[S2[q][i]]] = what[h.obj[S[q][i]]]
  BY <1>1
<1>3. Pending \subseteq Things /\ Pending' \subseteq Things
  BY DEF Pending
<1>4. QED BY <1>1, <1>2, <1>3 DEF Queued

\* What the pool has when a descriptor is taken from it.
Stocked(S, g, S1, pool, D) ==
    /\ Holds(g, S1) /\ Carry(g, S1, D) /\ Len(S1[pool]) > 0
    /\ \A l \in Lists \ {pool} : Kept(h, S, g, S1, l)
    /\ \/ Len(S[pool]) > 0 /\ g = h /\ S1 = S
       \/ /\ Len(S[pool]) = 0 /\ Len(S1[pool]) = Chunk /\ S1[pool][1] = NewNode(h)
          /\ \A i \in 1..Chunk : g.obj[S1[pool][i]] = made + i

\* A descriptor is taken from the pool as it is, or as PreAllocate has filled it.
LEMMA PoolIsStocked ==
  ASSUME BusShape, NEW S, BusHolds(S), NEW x \in Things, NEW t, Schedule(x, t)
  PROVE  \E g, S1 : /\ Stocked(S, g, S1, PoolOf(QueueOf(x)), (1..made') \ {firing'})
                    /\ (1..made') \ {firing'} \in SUBSET (1..made')
                    /\ made' \in 0..MaxNodes /\ made <= made' /\ made \in Nat
                    /\ h' = Push(Pop(g, PoolOf(QueueOf(x))), QueueOf(x), Last(g, PoolOf(QueueOf(x))))
                    /\ time' = [time EXCEPT ![Last(g, PoolOf(QueueOf(x)))] = t]
                    /\ what' = [what EXCEPT ![Last(g, PoolOf(QueueOf(x)))] = x]
<1> DEFINE pool == PoolOf(QueueOf(x))
           D == (1..made) \ {firing}
<1>1. pool \in Lists /\ Holds(h, S) /\ Carry(h, S, D)
  BY ListNames DEF BusHolds
<1>2. Len(S[pool]) \in Nat /\ (IsEmpty(h, pool) <=> Len(S[pool]) = 0)
  BY <1>1, HeldSeq, LastIs
<1>3. firing' = firing
  BY DEF Schedule
<1>4. made \in Nat /\ made <= MaxNodes /\ D \in SUBSET Nodes /\ (\A d \in D : d <= made)
      /\ MaxNodes \in Nat /\ Chunk \in Nat /\ Chunk > 0
      /\ (firing \in 1..made \/ firing = Null) /\ Null \notin Int
  BY Carried, Bounds, PlaybackBusAssumption DEF BusShape
<1>5. CASE Len(S[pool]) > 0
  <2>0. IsEmpty(h, pool) = FALSE
    BY <1>2, <1>5 DEF IsEmpty
  <2>1. made' = made
    BY <2>0 DEF Schedule
  <2>2. /\ h' = Push(Pop(h, pool), QueueOf(x), Last(h, pool))
        /\ time' = [time EXCEPT ![Last(h, pool)] = t]
        /\ what' = [what EXCEPT ![Last(h, pool)] = x]
    BY <2>0 DEF Schedule
  <2>3. Stocked(S, h, S, pool, (1..made') \ {firing'})
    BY <1>1, <1>3, <1>5, <2>1 DEF Stocked, Kept
  <2>4. (1..made') \ {firing'} \in SUBSET (1..made') /\ made' \in 0..MaxNodes /\ made <= made'
    BY <1>4, <2>1
  <2> HIDE DEF pool
  <2>5. QED BY <1>4, <2>2, <2>3, <2>4 DEF pool
<1>6. CASE Len(S[pool]) = 0
  <2> DEFINE g == PreAllocate(h, pool)
             E == (1..made') \ {firing'}
  <2>1. made' = made + Chunk /\ made + Chunk <= MaxNodes
    BY <1>2, <1>6 DEF Schedule
  <2>2. /\ h' = Push(Pop(g, pool), QueueOf(x), Last(g, pool))
        /\ time' = [time EXCEPT ![Last(g, pool)] = t]
        /\ what' = [what EXCEPT ![Last(g, pool)] = x]
    BY <1>2, <1>6 DEF Schedule
  <2>3. Filling(h, S, D, pool, Chunk, g)
    BY <1>1, <1>4, <1>6, <2>1, PreAllocateFills
  <2>4. D \union ((made + 1)..(made + Chunk)) = E
    BY <1>3, <1>4, <2>1
  <2> HIDE DEF g, D, E
  <2>5. PICK S1 : Holds(g, S1) /\ Carry(g, S1, E) /\ Allocated(h, S, g, S1, pool, Chunk)
    BY <2>3, <2>4 DEF Filling
  <2>6. Stocked(S, g, S1, pool, E)
    BY <1>4, <1>6, <2>5 DEF Stocked, Allocated
  <2>7. E \in SUBSET (1..made') /\ made' \in 0..MaxNodes /\ made <= made'
    BY <1>4, <2>1 DEF E
  <2>8. QED BY <1>4, <2>2, <2>6, <2>7 DEF E
<1>7. QED BY <1>2, <1>5, <1>6

\* What scheduling leaves: the pool has lost its last descriptor, or it was
\* empty and has new ones, none of them ever prepared.
Scheduled(S, S2, pool) ==
    /\ Holds(h', S2) /\ Carry(h', S2, (1..made') \ {firing'})
    /\ \/ /\ Len(S[pool]) > 0 /\ h'.free = h.free /\ Len(S2[pool]) = Len(S[pool]) - 1
          /\ \A i \in 1..Len(S2[pool]) :
                S2[pool][i] = S[pool][i] /\ time'[h'.obj[S2[pool][i]]] = time[h.obj[S[pool][i]]]
       \/ /\ Len(S[pool]) = 0 /\ Len(S2[pool]) = Chunk - 1
          /\ Chunk > 1 => S2[pool][1] = NewNode(h)
          /\ \A i \in 1..Len(S2[pool]) : time'[h'.obj[S2[pool][i]]] = Null

\* What is pending when x is scheduled.
LEMMA NowPending ==
  ASSUME BusShape, NEW x \in Things, NEW t \in 1..MaxTime, Schedule(x, t)
  PROVE  /\ due' \in [Things -> Int \union {Null}]
         /\ x \notin Pending /\ Pending' = Pending \union {x}
<1>1. due \in [Things -> Int \union {Null}] /\ due[x] = Null /\ due' = [due EXCEPT ![x] = t] /\ t \in Int /\ t # Null
  BY Bounds DEF BusShape, Schedule
<1>2. due' \in [Things -> Int \union {Null}] /\ \A y \in Things : due'[y] = IF y = x THEN t ELSE due[y]
  BY <1>1
<1>3. QED BY <1>1, <1>2 DEF Pending

\* Scheduling moves a descriptor from its pool to the end of a queue.
LEMMA ScheduleStep ==
  ASSUME BusShape, NEW S, BusHolds(S), NEW x \in Things, NEW t \in 1..MaxTime, Schedule(x, t)
  PROVE  /\ \E S2 : /\ Scheduled(S, S2, PoolOf(QueueOf(x)))
                    /\ Queued(S2, "notes")' /\ Queued(S2, "beats")'
         /\ made' \in 0..MaxNodes /\ made <= made'
         /\ time' \in [Nodes -> Int \union {Null}] /\ what' \in [Nodes -> Things \union {Null}]
         /\ \A d \in Nodes : d > made' => time'[d] = Null
<1> DEFINE q == QueueOf(x)
           pool == PoolOf(q)
           D == (1..made') \ {firing'}
<1>1. q \in {"notes", "beats"} /\ pool \in {"notePool", "beatPool"} /\ q \in Lists /\ pool \in Lists /\ pool # q
  BY ListNames
<1>2. /\ due' \in [Things -> Int \union {Null}] /\ x \notin Pending /\ Pending' = Pending \union {x}
  BY NowPending
<1> HIDE DEF pool, D
<1>3. \E g, S1 : /\ Stocked(S, g, S1, pool, D) /\ D \in SUBSET (1..made')
                    /\ made' \in 0..MaxNodes /\ made <= made' /\ made \in Nat
                    /\ h' = Push(Pop(g, pool), q, Last(g, pool))
                    /\ time' = [time EXCEPT ![Last(g, pool)] = t]
                    /\ what' = [what EXCEPT ![Last(g, pool)] = x]
  BY PoolIsStocked DEF pool, D
<1>4. PICK g, S1 : /\ Stocked(S, g, S1, pool, D) /\ D \in SUBSET (1..made')
                    /\ made' \in 0..MaxNodes /\ made <= made' /\ made \in Nat
                    /\ h' = Push(Pop(g, pool), q, Last(g, pool))
                    /\ time' = [time EXCEPT ![Last(g, pool)] = t]
                    /\ what' = [what EXCEPT ![Last(g, pool)] = x]
  BY <1>3
<1> DEFINE d == Last(g, pool)
           z == Len(S1[pool])
           m == S1[pool][z]
<1>5. 1..made' \subseteq Nodes /\ D \in SUBSET Nodes /\ MaxNodes \in Nat
  BY <1>4, Bounds
<1>6. Holds(g, S1) /\ Carry(g, S1, D) /\ z > 0
  BY <1>4 DEF Stocked
<1>7. PICK S2 : Holds(h', S2) /\ Carry(h', S2, D) /\ Moved(g, S1, h', S2, pool, q, m)
                /\ d = g.obj[m] /\ d \in D
  BY <1>1, <1>4, <1>5, <1>6, PopAndPush
<1> HIDE DEF d
<1>8. z \in Nat /\ z \in 1..z /\ \A l \in Lists : Len(S1[l]) \in Nat /\ Len(S[l]) \in Nat
  <2>1. Holds(h, S)
    BY DEF BusHolds
  <2>2. QED BY <1>1, <1>6, <2>1, HeldSeq
<1>9. \A l \in Lists : \A i \in 1..Len(S1[l]) : ~(l = pool /\ i = z) => g.obj[S1[l][i]] # d /\ g.obj[S1[l][i]] \in D
  BY <1>1, <1>6, <1>7, <1>8 DEF Carry
<1>10. /\ d \in Nodes /\ d \in 1..made'
       /\ time \in [Nodes -> Int \union {Null}] /\ what \in [Nodes -> Things \union {Null}]
       /\ (\A e \in Nodes : e > made => time[e] = Null) /\ t \in Int
  <2>1. d \in 1..made' /\ d \in Nodes
    BY <1>4, <1>5, <1>7
  <2>2. /\ time \in [Nodes -> Int \union {Null}] /\ what \in [Nodes -> Things \union {Null}]
        /\ \A e \in Nodes : e > made => time[e] = Null
    BY DEF BusShape
  <2>3. t \in Int
    BY Bounds
  <2>4. QED BY <2>1, <2>2, <2>3
<1>11. /\ time' \in [Nodes -> Int \union {Null}] /\ what' \in [Nodes -> Things \union {Null}]
       /\ \A e \in Nodes : e # d => time'[e] = time[e] /\ what'[e] = what[e]
       /\ what'[d] = x
  BY <1>4, <1>10 DEF d
<1>12. ASSUME NEW e \in Nodes, e > made' PROVE time'[e] = Null
  <2>1. e # d /\ e > made
    BY <1>4, <1>10, <1>12, Bounds
  <2>2. QED BY <1>10, <1>11, <2>1
<1> HIDE DEF z, m
<1>13. ASSUME NEW l \in {"notes", "beats"}, l # q PROVE Queued(S2, l)'
  <2>1. l \in Lists /\ l # pool
    BY <1>1, ListNames, <1>13
  <2>2. Kept(h, S, g, S1, l) /\ Kept(g, S1, h', S2, l)
    BY <1>4, <1>7, <1>13, <2>1 DEF Stocked, Moved
  <2>3. Kept(h, S, h', S2, l)
    BY <2>2, KeptAgain
  <2>4. \A i \in 1..Len(S[l]) : what'[h.obj[S[l][i]]] = what[h.obj[S[l][i]]]
    <3>1. S1[l] = S[l] /\ \A i \in 1..Len(S[l]) : g.obj[S1[l][i]] = h.obj[S[l][i]]
      BY <2>2 DEF Kept
    <3>2. \A i \in 1..Len(S[l]) : h.obj[S[l][i]] # d /\ h.obj[S[l][i]] \in Nodes
      BY <1>5, <1>9, <2>1, <3>1
    <3>3. QED BY <1>11, <3>2
  <2>5. \A y \in Things : QueueOf(y) = l => (y \in Pending <=> y \in Pending')
    BY <1>2, <1>13
  <2>6. Queued(S, l)
    BY <1>13 DEF BusHolds
  <2> HIDE DEF q
  <2>7. QED BY <2>3, <2>4, <2>5, <2>6, QueueStays
<1>14. Queued(S2, q)'
  <2>1. Kept(h, S, g, S1, q)
    BY <1>1, <1>4 DEF Stocked
  <2> DEFINE y == Len(S[q])
  <2>2. y \in Nat /\ Len(S2[q]) = y + 1 /\ h'.obj[S2[q][y + 1]] = d
    BY <1>1, <1>7, <1>8, <2>1 DEF Moved, Kept
  <2>3. ASSUME NEW i \in 1..y
        PROVE  /\ h'.obj[S2[q][i]] = h.obj[S[q][i]]
               /\ what'[h.obj[S[q][i]]] = what[h.obj[S[q][i]]]
    <3>1. S1[q] = S[q] /\ g.obj[S1[q][i]] = h.obj[S[q][i]] /\ S2[q][i] = S1[q][i] /\ h'.obj[S1[q][i]] = g.obj[S1[q][i]]
      BY <1>7, <2>1 DEF Moved, Kept
    <3>2. g.obj[S1[q][i]] # d /\ g.obj[S1[q][i]] \in Nodes
      BY <1>1, <1>5, <1>9, <3>1
    <3>3. QED BY <1>11, <3>1, <3>2
  <2>4. /\ \A i \in 1..y : what[h.obj[S[q][i]]] \in Pending /\ QueueOf(what[h.obj[S[q][i]]]) = q
        /\ \A i, j \in 1..y : what[h.obj[S[q][i]]] = what[h.obj[S[q][j]]] => i = j
        /\ \A u \in Pending : QueueOf(u) = q => \E i \in 1..y : what[h.obj[S[q][i]]] = u
    <3>1. Queued(S, q)
      BY <1>1 DEF BusHolds
    <3> HIDE DEF q
    <3>2. QED BY <3>1 DEF Queued
  <2> HIDE DEF q, y
  <2>5. \A i \in 1..y : what'[h'.obj[S2[q][i]]] = what[h.obj[S[q][i]]]
    BY <2>3
  <2>6. what'[h'.obj[S2[q][y + 1]]] = x
    BY <1>11, <2>2
  <2>7. \A i \in 1..(y + 1) : i \in 1..y \/ i = y + 1
    BY <2>2
  <2>8. 1..y \subseteq 1..(y + 1) /\ y + 1 \in 1..(y + 1)
    BY <2>2
  <2>9. QueueOf(x) = q
    BY DEF q
  <2>10. \A i \in 1..Len(S2[q]) : what'[h'.obj[S2[q][i]]] \in Pending' /\ QueueOf(what'[h'.obj[S2[q][i]]]) = q
    BY <1>2, <2>2, <2>4, <2>5, <2>6, <2>7, <2>9
  <2>11. \A i, j \in 1..Len(S2[q]) : what'[h'.obj[S2[q][i]]] = what'[h'.obj[S2[q][j]]] => i = j
    BY <1>2, <2>2, <2>4, <2>5, <2>6, <2>7
  <2>12. \A u \in Pending' : QueueOf(u) = q => \E i \in 1..Len(S2[q]) : what'[h'.obj[S2[q][i]]] = u
    <3> SUFFICES ASSUME NEW u \in Pending', QueueOf(u) = q
                 PROVE  \E i \in 1..Len(S2[q]) : what'[h'.obj[S2[q][i]]] = u
      OBVIOUS
    <3>1. CASE u = x
      BY <2>2, <2>6, <2>8, <3>1
    <3>2. CASE u # x
      <4>1. PICK i \in 1..y : what[h.obj[S[q][i]]] = u
        BY <1>2, <2>4, <3>2
      <4>2. i \in 1..(y + 1) /\ what'[h'.obj[S2[q][i]]] = u
        BY <2>5, <2>8, <4>1
      <4>3. QED BY <2>2, <4>2
    <3>3. QED BY <3>1, <3>2
  <2>13. QED BY <2>10, <2>11, <2>12 DEF Queued
<1>15. Scheduled(S, S2, pool)
  <2>1. Len(S2[pool]) = z - 1 /\ h'.free = g.free
        /\ \A i \in 1..(z - 1) : S2[pool][i] = S1[pool][i] /\ h'.obj[S1[pool][i]] = g.obj[S1[pool][i]]
    BY <1>7 DEF Moved, z
  <2>2. \A i \in 1..(z - 1) : /\ time'[h'.obj[S2[pool][i]]] = time[g.obj[S1[pool][i]]]
                              /\ g.obj[S1[pool][i]] # d
    <3> TAKE i \in 1..(z - 1)
    <3>1. i \in 1..Len(S1[pool]) /\ i # z
      BY <1>8 DEF z
    <3>2. g.obj[S1[pool][i]] # d /\ g.obj[S1[pool][i]] \in Nodes
      BY <1>1, <1>5, <1>9, <3>1
    <3>3. QED BY <1>11, <2>1, <3>2
  <2>3. CASE Len(S[pool]) > 0 /\ g = h /\ S1 = S
    BY <1>7, <2>1, <2>2, <2>3 DEF Scheduled, z, D
  <2>4. CASE /\ Len(S[pool]) = 0 /\ Len(S1[pool]) = Chunk /\ S1[pool][1] = NewNode(h)
             /\ \A i \in 1..Chunk : g.obj[S1[pool][i]] = made + i
    <3>1. z = Chunk /\ z \in Nat
      BY <1>8, <2>4 DEF z
    <3>2. ASSUME NEW i \in 1..(z - 1) PROVE time'[h'.obj[S2[pool][i]]] = Null
      <4>1. i \in 1..Chunk /\ i \in 1..Len(S1[pool]) /\ i # z
        BY <3>1, <2>4
      <4>2. g.obj[S1[pool][i]] = made + i /\ g.obj[S1[pool][i]] \in Nodes
        BY <1>1, <1>5, <1>9, <2>4, <4>1
      <4>3. made + i > made
        BY <1>4
      <4>4. time[made + i] = Null
        BY <1>10, <4>2, <4>3
      <4>5. QED BY <2>2, <4>2, <4>4
    <3>3. Chunk > 1 => 1 \in 1..(z - 1)
      BY <3>1
    <3>4. QED BY <1>7, <2>1, <2>4, <3>1, <3>2, <3>3 DEF Scheduled, D
  <2>5. QED BY <1>4, <2>3, <2>4 DEF Stocked
<1>16. \E S3 : Scheduled(S, S3, pool) /\ Queued(S3, "notes")' /\ Queued(S3, "beats")'
  <2>1. Queued(S2, "notes")' /\ Queued(S2, "beats")'
    <3> HIDE DEF Queued, q
    <3>1. QED BY <1>1, <1>13, <1>14
  <2>2. QED BY <1>15, <2>1
<1>17. QED BY <1>4, <1>11, <1>12, <1>16 DEF pool

LEMMA BusStart == BusInit => BusInv
<1> SUFFICES ASSUME BusInit PROVE BusInv
  OBVIOUS
<1> DEFINE S == [l \in Lists |-> <<>>]
<1>1. /\ h = EmptyHeap /\ made = 0 /\ walking = "idle" /\ cursor = Null /\ firing = Null /\ extra = 0 /\ delta = 1
      /\ time = [d \in Nodes |-> Null] /\ what = [d \in Nodes |-> Null] /\ due = [x \in Things |-> Null]
  BY DEF BusInit, Descriptors
<1>2. BusShape
  <2>1. 0 \in 0..MaxNodes /\ 0 \in 0..MaxExtra /\ 1 \in Nat
    BY PlaybackBusAssumption
  <2>2. QED BY <1>1, <2>1 DEF BusShape
<1>3. Pending = {}
  BY <1>1 DEF Pending
<1>4. S \in [Lists -> Seq(Nodes)] /\ \A l \in Lists : Len(S[l]) = 0
  OBVIOUS
<1>5. h \in Heaps /\ h.head = [l \in Lists |-> Null] /\ h.tail = [l \in Lists |-> Null] /\ Len(h.free) = 0 /\ h.created = 0
  <2>1. h = [next |-> [n \in Nodes |-> Null], prev |-> [n \in Nodes |-> Null], obj  |-> [n \in Nodes |-> Null],
             free |-> <<>>, created |-> 0, head |-> [l \in Lists |-> Null], tail |-> [l \in Lists |-> Null]]
    BY <1>1 DEF EmptyHeap
  <2>2. 0 \in 0..MaxNodes /\ <<>> \in Seq(Nodes) /\ Len(<<>>) = 0
    BY Bounds
  <2>3. QED BY <2>1, <2>2 DEF Heaps
<1> HIDE DEF S
<1>6. Holds(h, S)
  <2>1. \A l \in Lists : Linked(h, l, S[l])
    BY <1>4, <1>5 DEF Linked
  <2>2. Apart(h, S)
    BY <1>4, <1>5 DEF Apart
  <2>3. Spread(h, S)
    BY <1>4, <1>5 DEF Spread
  <2>4. QED BY <1>4, <1>5, <2>1, <2>2, <2>3 DEF Holds
<1>7. Carry(h, S, (1..made) \ {firing})
  BY <1>1, <1>4 DEF Carry
<1>8. Queued(S, "notes") /\ Queued(S, "beats")
  BY <1>3, <1>4, ListNames DEF Queued
<1>9. CursorAt(S)
  BY <1>1 DEF CursorAt
<1>10. QED BY <1>2, <1>6, <1>7, <1>8, <1>9 DEF BusInv, BusHolds

\* Scheduling leaves the bus its shape.
LEMMA ScheduleShape ==
  ASSUME BusShape, NEW S, BusHolds(S), NEW x \in Things, NEW t \in 1..MaxTime, Schedule(x, t), extra' \in 0..MaxExtra
  PROVE  BusShape'
<1>1. /\ made' \in 0..MaxNodes /\ made <= made'
      /\ time' \in [Nodes -> Int \union {Null}] /\ what' \in [Nodes -> Things \union {Null}]
      /\ \A d \in Nodes : d > made' => time'[d] = Null
  BY ScheduleStep
<1>2. due' \in [Things -> Int \union {Null}]
  BY NowPending
<1>3. /\ walking' = walking /\ cursor' = cursor /\ firing' = firing /\ delta' = delta
      /\ made \in Nat /\ (1..made \subseteq 1..made')
  BY <1>1, Bounds DEF Schedule, BusShape
<1>4. QED BY <1>1, <1>2, <1>3 DEF BusShape

LEMMA SequencerStep ==
  ASSUME BusInv, NEW x \in Things, NEW t \in 1..MaxTime, Sequencer(x, t)
  PROVE  BusInv'
<1>1. BusShape /\ walking = "idle" /\ Schedule(x, t) /\ extra' = extra
  BY DEF BusInv, Sequencer
<1>2. PICK S : BusHolds(S)
  BY DEF BusInv
<1>3. PICK S2 : Scheduled(S, S2, PoolOf(QueueOf(x))) /\ Queued(S2, "notes")' /\ Queued(S2, "beats")'
  BY <1>1, <1>2, ScheduleStep
<1>4. walking' = "idle" /\ cursor' = Null /\ firing' = Null
  BY <1>1, <1>2 DEF BusHolds, CursorAt, Schedule
<1>5. CursorAt(S2)'
  BY <1>4 DEF CursorAt
<1>6. BusHolds(S2)'
  BY <1>3, <1>5 DEF BusHolds, Scheduled
<1>7. extra' \in 0..MaxExtra
  BY <1>1 DEF BusShape
<1>8. BusShape'
  BY <1>1, <1>2, <1>7, ScheduleShape
<1>9. QED BY <1>6, <1>8 DEF BusInv

\* A listener that schedules leaves the walk a node to go on from.
LEMMA ListenerStep ==
  ASSUME BusInv, NEW x \in Sounds, NEW t \in 1..MaxTime, Listener(x, t)
  PROVE  BusInv'
<1>1. /\ BusShape /\ walking = "beats" /\ firing # Null /\ extra < MaxExtra /\ extra' = extra + 1 /\ Schedule(x, t)
      /\ x \in Things /\ PoolOf(QueueOf(x)) = "notePool" /\ "notePool" \in Lists
  BY ListNames DEF BusInv, Listener
<1>2. PICK S : BusHolds(S)
  BY DEF BusInv
<1>3. PICK S2 : Scheduled(S, S2, "notePool") /\ Queued(S2, "notes")' /\ Queued(S2, "beats")'
  BY <1>1, <1>2, ScheduleStep
<1>4. /\ walking' = "beats" /\ cursor' = cursor /\ firing' = firing
      /\ extra \in Nat /\ MaxExtra \in Nat /\ Chunk \in Nat /\ MaxExtra < Chunk /\ extra + 1 \in 0..MaxExtra
  BY <1>1, PlaybackBusAssumption DEF Schedule, BusShape
<1>5. cursor # Null /\ AtRemoved(S) /\ Holds(h, S)
  BY <1>1, <1>2 DEF BusHolds, CursorAt
<1>6. Len(S["notePool"]) \in Nat
  BY <1>1, <1>5, HeldSeq
<1>7. AtRemoved(S2)'
  <2>1. CASE Len(h.free) > 0 /\ h.free[Len(h.free)] = cursor
    <3>1. CASE Len(S["notePool"]) > 0
      <4>1. h'.free = h.free
        BY <1>3, <3>1 DEF Scheduled
      <4>2. QED BY <1>4, <2>1, <4>1 DEF AtRemoved
    <3>2. CASE Len(S["notePool"]) = 0
      <4>1. /\ Len(S2["notePool"]) = Chunk - 1 /\ (Chunk > 1 => S2["notePool"][1] = NewNode(h))
            /\ \A i \in 1..Len(S2["notePool"]) : time'[h'.obj[S2["notePool"][i]]] = Null
        BY <1>3, <3>2 DEF Scheduled
      <4>2. NewNode(h) = cursor
        <5>1. h.free # <<>>
          BY <2>1
        <5>2. QED BY <2>1, <5>1 DEF NewNode
      <4>3. Chunk > 1 /\ Len(S2["notePool"]) + extra' >= Chunk
        BY <1>1, <1>4, <4>1
      <4>4. Unprepared(S2, 1)'
        BY <4>1 DEF Unprepared
      <4>5. QED BY <1>4, <4>1, <4>2, <4>3, <4>4 DEF AtRemoved
    <3>3. QED BY <1>6, <3>1, <3>2
  <2>2. CASE /\ walking = "beats" /\ Len(S["notePool"]) + extra >= Chunk
             /\ S["notePool"][1] = cursor /\ Unprepared(S, 1)
    <3>1. Len(S["notePool"]) > 1
      BY <1>1, <1>4, <1>6, <2>2
    <3>2. /\ Len(S2["notePool"]) = Len(S["notePool"]) - 1
          /\ \A i \in 1..Len(S2["notePool"]) :
                /\ S2["notePool"][i] = S["notePool"][i]
                /\ time'[h'.obj[S2["notePool"][i]]] = time[h.obj[S["notePool"][i]]]
      BY <1>3, <1>6, <3>1 DEF Scheduled
    <3>3. /\ 1 \in 1..Len(S2["notePool"]) /\ (1..Len(S2["notePool"]) \subseteq 1..Len(S["notePool"]))
          /\ Len(S2["notePool"]) + extra' >= Chunk
      <4> DEFINE a == Len(S["notePool"])
                 b == Len(S2["notePool"])
      <4>1. a \in Nat /\ a > 1 /\ b = a - 1 /\ a + extra >= Chunk /\ extra' = extra + 1
        BY <1>1, <1>6, <2>2, <3>1, <3>2
      <4> HIDE DEF a, b
      <4>2. 1 \in 1..b /\ (1..b \subseteq 1..a) /\ b + extra' >= Chunk
        BY <1>4, <4>1
      <4>3. QED BY <4>2 DEF a, b
    <3>4. Unprepared(S2, 1)'
      BY <2>2, <3>2, <3>3 DEF Unprepared
    <3>5. QED BY <1>4, <2>2, <3>2, <3>3, <3>4 DEF AtRemoved
  <2>3. QED BY <1>5, <2>1, <2>2 DEF AtRemoved
<1>8. CursorAt(S2)'
  BY <1>1, <1>4, <1>5, <1>7 DEF CursorAt
<1>9. BusHolds(S2)'
  BY <1>3, <1>8 DEF BusHolds, Scheduled
<1>10. BusShape'
  BY <1>1, <1>2, <1>4, ScheduleShape
<1>11. QED BY <1>9, <1>10 DEF BusInv

\* Where the lists stay as they are, so do the queues.
LEMMA ListsStay ==
  ASSUME NEW S, BusHolds(S), UNCHANGED <<h, what, made, firing>>, Pending' = Pending
  PROVE  /\ Holds(h', S) /\ Carry(h', S, (1..made') \ {firing'})
         /\ Queued(S, "notes")' /\ Queued(S, "beats")'
<1>1. \A q \in {"notes", "beats"} : Kept(h, S, h', S, q) /\ Queued(S, q)
  BY DEF Kept, BusHolds
<1>2. Queued(S, "notes")' /\ Queued(S, "beats")'
  BY <1>1, QueueStays
<1>3. QED BY <1>2 DEF BusHolds

LEMMA TickStep ==
  ASSUME BusInv, NEW elapsed \in 1..MaxElapsed, Tick(elapsed)
  PROVE  BusInv'
<1>1. PICK S : BusHolds(S)
  BY DEF BusInv
<1>2. /\ walking' = "notes" /\ cursor' = h.head["notes"] /\ firing = Null
      /\ UNCHANGED <<h, time, what, made, firing, extra>>
  BY <1>1 DEF Tick, BusHolds, CursorAt
<1>3. due' \in [Things -> Int \union {Null}] /\ Pending' = Pending
  <2>1. due \in [Things -> Int \union {Null}] /\ Null \notin Int /\ elapsed \in Int
    BY Bounds DEF BusInv, BusShape
  <2>2. due' = [x \in Things |-> IF x \notin Pending THEN Null
                                ELSE IF due[x] \in {0, Overdue} THEN Overdue
                                ELSE IF due[x] > elapsed THEN due[x] - elapsed ELSE 0]
    BY DEF Tick
  <2>3. ASSUME NEW x \in Things
        PROVE  due'[x] \in Int \union {Null} /\ (due'[x] # Null <=> due[x] # Null)
    <3>1. due'[x] = IF x \notin Pending THEN Null
                    ELSE IF due[x] \in {0, Overdue} THEN Overdue
                    ELSE IF due[x] > elapsed THEN due[x] - elapsed ELSE 0
      BY <2>2
    <3>2. Overdue \in Int /\ 0 \in Int
      BY DEF Overdue
    <3>3. CASE x \in Pending
      <4>1. due[x] \in Int /\ due[x] # Null
        BY <2>1, <3>3 DEF Pending
      <4>2. due[x] - elapsed \in Int
        BY <2>1, <4>1
      <4>3. QED BY <2>1, <3>1, <3>2, <3>3, <4>1, <4>2
    <3>4. CASE x \notin Pending
      BY <3>1, <3>4 DEF Pending
    <3>5. QED BY <3>3, <3>4
  <2>4. due' = [x \in Things |-> due'[x]]
    BY <2>2
  <2>5. due' \in [Things -> Int \union {Null}]
    BY <2>3, <2>4
  <2>6. QED BY <2>3, <2>5 DEF Pending
<1>4. CursorAt(S)'
  <2>1. "notes" \in Lists
    BY ListNames
  <2>2. Linked(h, "notes", S["notes"]) /\ Len(S["notes"]) \in Nat
    BY <1>1, <2>1, HeldSeq DEF BusHolds
  <2>3. cursor' # Null => 1 \in 1..Len(S["notes"]) /\ S["notes"][1] = cursor'
    BY <1>2, <2>2 DEF Linked
  <2>4. cursor' # Null => AtNode(S)'
    BY <1>2, <2>3 DEF AtNode
  <2>5. QED BY <1>2, <2>4 DEF CursorAt
<1>5. BusHolds(S)'
  BY <1>1, <1>2, <1>3, <1>4, ListsStay DEF BusHolds
<1>6. BusShape'
  <2>1. delta' \in Nat
    BY DEF Tick
  <2>2. cursor' \in Nodes \union {Null}
    <3>1. h \in Heaps /\ "notes" \in Lists
      BY <1>1, ListNames DEF BusHolds, Holds
    <3>2. QED BY <1>2, <3>1, FieldsAre
  <2>3. QED BY <1>2, <1>3, <2>1, <2>2 DEF BusInv, BusShape
<1>7. QED BY <1>5, <1>6 DEF BusInv

\* The next node that forEach goes to is on the same list, further on.
LEMMA NextIs ==
  ASSUME NEW S, Holds(h, S), NEW l \in Lists, NEW i \in 1..Len(S[l])
  PROVE  /\ h.next[S[l][i]] \in Nodes \union {Null}
         /\ h.next[S[l][i]] # Null => i + 1 \in 1..Len(S[l]) /\ h.next[S[l][i]] = S[l][i + 1]
<1>1. /\ Len(S[l]) \in Nat /\ Linked(h, l, S[l]) /\ S[l][i] \in Nodes
      /\ h.next \in [Nodes -> Nodes \union {Null}]
  BY HeldSeq, FieldsAre DEF Holds
<1>2. h.next[S[l][i]] = IF i = Len(S[l]) THEN Null ELSE S[l][i + 1]
  BY <1>1 DEF Linked
<1>3. i # Len(S[l]) => i + 1 \in 1..Len(S[l])
  BY <1>1
<1>4. QED BY <1>1, <1>2, <1>3

LEMMA CountDownStep == BusInv /\ CountDown => BusInv'
<1> SUFFICES ASSUME BusInv, CountDown PROVE BusInv'
  OBVIOUS
<1> DEFINE d == h.obj[cursor]
<1>1. PICK S : BusHolds(S)
  BY DEF BusInv
<1>2. /\ walking # "idle" /\ cursor # Null /\ firing = Null
      /\ time' = [time EXCEPT ![d] = IF @ = Null THEN Null ELSE @ - delta]
      /\ cursor' = h.next[cursor]
      /\ UNCHANGED <<h, what, made, walking, firing, extra, delta, due>>
  BY DEF CountDown
<1>3. /\ BusShape /\ walking \in Lists /\ "notePool" \in Lists /\ Null \notin Int
      /\ Holds(h, S) /\ Carry(h, S, (1..made) \ {firing}) /\ AtNode(S)
  BY <1>1, <1>2, ListNames, Bounds DEF BusInv, BusShape, BusHolds, CursorAt
<1>4. PICK l \in Lists : \E i \in 1..Len(S[l]) : /\ S[l][i] = cursor
                            /\ \/ l = walking
                               \/ walking = "beats" /\ l = "notePool" /\ Unprepared(S, i)
  BY <1>3 DEF AtNode
<1>5. PICK i \in 1..Len(S[l]) : /\ S[l][i] = cursor
                            /\ \/ l = walking
                               \/ walking = "beats" /\ l = "notePool" /\ Unprepared(S, i)
  BY <1>4
<1>6. d \in 1..made /\ d \in Nodes
  <2>1. d \in (1..made) \ {firing}
    BY <1>3, <1>5 DEF Carry
  <2>2. QED BY <2>1, <1>3, Carried
<1>7. /\ time' \in [Nodes -> Int \union {Null}]
      /\ \A e \in Nodes : time[e] = Null => time'[e] = Null
  BY <1>2, <1>3, <1>6 DEF BusShape
<1>8. /\ cursor' \in Nodes \union {Null}
      /\ cursor' # Null => i + 1 \in 1..Len(S[l]) /\ cursor' = S[l][i + 1]
  BY <1>2, <1>3, <1>5, NextIs
<1> HIDE DEF d
<1>9. cursor' # Null => AtNode(S)'
  <2> SUFFICES ASSUME cursor' # Null PROVE AtNode(S)'
    OBVIOUS
  <2>1. CASE l = walking
    BY <1>2, <1>8, <2>1 DEF AtNode
  <2>2. CASE walking = "beats" /\ l = "notePool" /\ Unprepared(S, i)
    <3>1. Unprepared(S, i + 1)'
      <4>1. ASSUME NEW j \in (i + 1)..Len(S["notePool"]) PROVE time'[h'.obj[S["notePool"][j]]] = Null
        <5>1. j \in i..Len(S["notePool"]) /\ j \in 1..Len(S["notePool"])
          BY <1>8, <2>2
        <5>2. time[h.obj[S["notePool"][j]]] = Null
          BY <2>2, <5>1 DEF Unprepared
        <5>3. h.obj[S["notePool"][j]] \in (1..made) \ {firing}
          BY <1>3, <5>1 DEF Carry
        <5>4. h.obj[S["notePool"][j]] \in Nodes
          BY <1>3, <5>3, Carried
        <5>5. QED BY <1>2, <1>7, <5>2, <5>4
      <4>2. QED BY <4>1 DEF Unprepared
    <3>2. QED BY <1>2, <1>8, <2>2, <3>1 DEF AtNode
  <2>3. QED BY <1>5, <2>1, <2>2
<1>10. CursorAt(S)'
  BY <1>2, <1>9 DEF CursorAt
<1>11. Pending' = Pending
  BY <1>2 DEF Pending
<1>12. BusHolds(S)'
  BY <1>1, <1>2, <1>10, <1>11, ListsStay DEF BusHolds
<1>13. BusShape'
  BY <1>2, <1>3, <1>7, <1>8 DEF BusShape
<1>14. QED BY <1>12, <1>13 DEF BusInv

LEMMA WalkedStep == BusInv /\ Walked => BusInv'
<1> SUFFICES ASSUME BusInv, Walked PROVE BusInv'
  OBVIOUS
<1>1. PICK S : BusHolds(S)
  BY DEF BusInv
<1>2. /\ walking # "idle" /\ cursor = Null /\ firing = Null /\ BusShape
      /\ walking' = (IF walking = "notes" THEN "beats" ELSE "idle")
      /\ cursor' = (IF walking = "notes" THEN h.head["beats"] ELSE Null)
      /\ UNCHANGED <<h, time, what, made, firing, extra, delta, due>>
  BY DEF Walked, BusInv
<1>3. Holds(h, S) /\ "beats" \in Lists
  BY <1>1, ListNames DEF BusHolds
<1>4. Linked(h, "beats", S["beats"]) /\ Len(S["beats"]) \in Nat /\ h.head \in [Lists -> Nodes \union {Null}]
  BY <1>3, HeldSeq, FieldsAre DEF Holds
<1>5. /\ cursor' \in Nodes \union {Null}
      /\ cursor' # Null => walking' = "beats" /\ 1 \in 1..Len(S["beats"]) /\ S["beats"][1] = cursor'
  BY <1>2, <1>3, <1>4 DEF Linked
<1>6. cursor' # Null => AtNode(S)'
  BY <1>2, <1>5 DEF AtNode
<1>7. CursorAt(S)'
  BY <1>2, <1>6 DEF CursorAt
<1>8. Pending' = Pending
  BY <1>2 DEF Pending
<1>9. BusHolds(S)'
  BY <1>1, <1>2, <1>7, <1>8, ListsStay DEF BusHolds
<1>10. BusShape'
  BY <1>2, <1>5 DEF BusShape
<1>11. QED BY <1>9, <1>10 DEF BusInv

\* The list l has lost its i-th node, and the others are left alone.
Shrunk(g, S, g2, S2, l, i) ==
    /\ \A k \in Lists \ {l} : Kept(g, S, g2, S2, k)
    /\ \A j \in 1..Len(S2[l]) : \E a \in 1..Len(S[l]) :
          a # i /\ g2.obj[S2[l][j]] = g.obj[S[l][a]] /\ a = IF j >= i THEN j + 1 ELSE j
    /\ \A a \in 1..Len(S[l]) : a # i => \E j \in 1..Len(S2[l]) : g2.obj[S2[l][j]] = g.obj[S[l][a]]

LEMMA RemoveShrinks ==
  ASSUME NEW g, NEW S, Holds(g, S), NEW D, Carry(g, S, D), NEW l \in Lists, NEW i \in 1..Len(S[l])
  PROVE  Shrunk(g, S, Remove(g, l, g.obj[S[l][i]]), Removed(S, l, i), l, i)
<1> DEFINE n == S[l][i]
           o == g.obj[n]
           r == Remove(g, l, o)
           S2 == Removed(S, l, i)
<1>1. r.obj = [g.obj EXCEPT ![n] = Null] /\ g.obj \in [Nodes -> Nodes \union {Null}]
  <2>1. FieldsRemoved(g, l, n, g.prev[n], g.next[n], r)
    BY NodeOfIs, RemoveIs
  <2>2. g \in Heaps
    BY DEF Holds
  <2>3. QED BY <2>1, <2>2, FieldsAre DEF FieldsRemoved
<1>2. \A k \in Lists : \A j \in 1..Len(S[k]) : S[k][j] \in Nodes
  BY HeldSeq
<1>3. i \in Int /\ Stay(S, S2, l, i) /\ \A k \in Lists \ {l} : S2[k] = S[k]
  <2>1. Len(S[l]) \in Nat
    BY HeldSeq
  <2>2. i \in Int
    BY <2>1
  <2>3. Stay(S, S2, l, i)
    BY StayingNodes
  <2>4. \A k \in Lists \ {l} : S2[k] = S[k]
    BY WithoutIs
  <2> QED BY <2>2, <2>3, <2>4
<1> HIDE DEF S2, r
<1>4. \A k \in Lists : \A j \in 1..Len(S[k]) : ~(k = l /\ j = i) => r.obj[S[k][j]] = g.obj[S[k][j]]
  <2> SUFFICES ASSUME NEW k \in Lists, NEW j \in 1..Len(S[k]), ~(k = l /\ j = i)
               PROVE  r.obj[S[k][j]] = g.obj[S[k][j]]
    OBVIOUS
  <2>1. S[k][j] # n /\ S[k][j] \in Nodes
    BY <1>2 DEF Holds, Apart
  <2>2. QED BY <1>1, <2>1
<1>5. \A k \in Lists \ {l} : Kept(g, S, r, S2, k)
  BY <1>3, <1>4 DEF Kept
<1>6. ASSUME NEW j \in 1..Len(S2[l])
      PROVE  \E a \in 1..Len(S[l]) : a # i /\ r.obj[S2[l][j]] = g.obj[S[l][a]] /\ a = IF j >= i THEN j + 1 ELSE j
  <2>1. j \in Nat
    OBVIOUS
  <2>2. \/ j < i /\ j \in 1..Len(S[l]) /\ S2[l][j] = S[l][j]
        \/ j >= i /\ j + 1 \in 1..Len(S[l]) /\ S2[l][j] = S[l][j + 1]
    BY <1>3 DEF Stay
  <2>3. \E a \in 1..Len(S[l]) : a # i /\ S2[l][j] = S[l][a] /\ a = IF j >= i THEN j + 1 ELSE j
    BY <1>3, <2>1, <2>2
  <2>4. QED BY <1>4, <2>3
<1>7. ASSUME NEW a \in 1..Len(S[l]), a # i PROVE \E j \in 1..Len(S2[l]) : r.obj[S2[l][j]] = g.obj[S[l][a]]
  <2>1. \E j \in 1..Len(S2[l]) : S2[l][j] = S[l][a]
    BY <1>3, <1>7 DEF Stay
  <2>2. QED BY <1>4, <1>7, <2>1
<1>8. QED BY <1>5, <1>6, <1>7 DEF Shrunk, r, S2

\* What fires was prepared, so the walk has not strayed to it.
LEMMA FireStep == BusInv /\ Fire => BusInv'
<1> SUFFICES ASSUME BusInv, Fire PROVE BusInv'
  OBVIOUS
<1> DEFINE d == h.obj[cursor]
           D == (1..made) \ {firing}
<1>1. PICK S : BusHolds(S)
  BY DEF BusInv
<1>2. /\ walking # "idle" /\ cursor # Null /\ firing = Null /\ time[d] # Null
      /\ h' = Remove(h, walking, d) /\ firing' = d /\ due' = [due EXCEPT ![what[d]] = Null]
      /\ UNCHANGED <<time, what, made, walking, cursor, extra, delta>>
  BY DEF Fire, IsDue
<1>3. /\ BusShape /\ walking \in {"notes", "beats"} /\ walking \in Lists
      /\ Holds(h, S) /\ Carry(h, S, D) /\ AtNode(S) /\ Queued(S, walking)
      /\ "notePool" \in Lists /\ Null \notin 1..made
  BY <1>1, <1>2, ListNames, Bounds DEF BusInv, BusShape, BusHolds, CursorAt
<1>4. ~\E i \in 1..Len(S["notePool"]) : S["notePool"][i] = cursor /\ Unprepared(S, i)
  <2> SUFFICES ASSUME NEW i \in 1..Len(S["notePool"]), S["notePool"][i] = cursor, Unprepared(S, i) PROVE FALSE
    OBVIOUS
  <2>1. i \in i..Len(S["notePool"])
    OBVIOUS
  <2>2. QED BY <1>2, <2>1 DEF Unprepared
<1>5. PICK i \in 1..Len(S[walking]) : S[walking][i] = cursor
  BY <1>3, <1>4 DEF AtNode
<1>6. d \in D /\ d \in 1..made /\ d \in Nodes /\ d # Null
  <2>1. d \in D
    BY <1>3, <1>5 DEF Carry
  <2>2. QED BY <2>1, <1>3, Carried
<1>7. PICK S2 : /\ Holds(h', S2) /\ Carry(h', S2, D \ {d}) /\ Shrunk(h, S, h', S2, walking, i)
                /\ h'.free = Append(h.free, cursor)
  <2> DEFINE R == Removed(S, walking, i)
  <2>1. h' = Remove(h, walking, h.obj[S[walking][i]])
    BY <1>2, <1>5
  <2>2. NodeOf(h, walking, h.obj[S[walking][i]]) = S[walking][i]
    BY <1>3, NodeOfIs
  <2>3. Holds(h', R)
    BY <1>3, <2>1, <2>2, RemoveHolds
  <2>4. Carry(h', R, D \ {h.obj[S[walking][i]]})
    BY <1>3, <2>1, RemoveCarries
  <2>5. Shrunk(h, S, h', R, walking, i)
    BY <1>3, <2>1, RemoveShrinks
  <2>6. FieldsRemoved(h, walking, S[walking][i], h.prev[S[walking][i]], h.next[S[walking][i]], h')
    BY <1>3, <2>1, <2>2, RemoveIs
  <2>7. h'.free = Append(h.free, cursor)
    BY <1>5, <2>6 DEF FieldsRemoved
  <2> HIDE DEF R
  <2>8. QED BY <1>5, <2>3, <2>4, <2>5, <2>7
<1>8. D \ {d} = (1..made') \ {firing'}
  BY <1>2, <1>3
<1> HIDE DEF D
<1>9. /\ what[d] \in Pending /\ QueueOf(what[d]) = walking
      /\ \A a \in 1..Len(S[walking]) : what[h.obj[S[walking][a]]] = what[d] => a = i
  BY <1>3, <1>5 DEF Queued
<1>10. due' \in [Things -> Int \union {Null}] /\ Pending' = Pending \ {what[d]}
  <2>1. due \in [Things -> Int \union {Null}] /\ what[d] \in Things
    BY <1>3, <1>9 DEF BusShape, Pending
  <2>2. QED BY <1>2, <2>1 DEF Pending
<1>11. ASSUME NEW l \in {"notes", "beats"}, l # walking PROVE Queued(S2, l)'
  <2>1. l \in Lists
    BY ListNames
  <2>2. Kept(h, S, h', S2, l) /\ Queued(S, l)
    BY <1>1, <1>7, <1>11, <2>1 DEF Shrunk, BusHolds
  <2>3. \A y \in Things : QueueOf(y) = l => (y \in Pending <=> y \in Pending')
    BY <1>9, <1>10, <1>11
  <2>4. \A j \in 1..Len(S[l]) : what'[h.obj[S[l][j]]] = what[h.obj[S[l][j]]]
    BY <1>2
  <2>5. QED BY <2>2, <2>3, <2>4, QueueStays
<1> HIDE DEF d
<1>12. Queued(S2, walking)'
  <2> DEFINE W == walking
             T == [j \in 1..Len(S2[W]) |-> what'[h'.obj[S2[W][j]]]]
  <2>1. ASSUME NEW j \in 1..Len(S2[W])
        PROVE  \E a \in 1..Len(S[W]) : /\ a # i /\ what'[h'.obj[S2[W][j]]] = what[h.obj[S[W][a]]]
                                       /\ a = IF j >= i THEN j + 1 ELSE j
    BY <1>2, <1>7 DEF Shrunk
  <2>2. \A j \in 1..Len(S2[W]) : what'[h'.obj[S2[W][j]]] \in Pending' /\ QueueOf(what'[h'.obj[S2[W][j]]]) = W
    <3> TAKE j \in 1..Len(S2[W])
    <3>1. PICK a \in 1..Len(S[W]) : a # i /\ what'[h'.obj[S2[W][j]]] = what[h.obj[S[W][a]]]
      BY <2>1
    <3>2. what[h.obj[S[W][a]]] \in Pending /\ QueueOf(what[h.obj[S[W][a]]]) = W
      BY <1>3 DEF Queued
    <3>3. QED BY <1>9, <1>10, <3>1, <3>2
  <2>3. ASSUME NEW j \in 1..Len(S2[W]), NEW k \in 1..Len(S2[W]),
               what'[h'.obj[S2[W][j]]] = what'[h'.obj[S2[W][k]]]
        PROVE  j = k
    <3>1. PICK a \in 1..Len(S[W]) : /\ a # i /\ what'[h'.obj[S2[W][j]]] = what[h.obj[S[W][a]]]
                                    /\ a = IF j >= i THEN j + 1 ELSE j
      BY <2>1
    <3>2. PICK b \in 1..Len(S[W]) : /\ b # i /\ what'[h'.obj[S2[W][k]]] = what[h.obj[S[W][b]]]
                                    /\ b = IF k >= i THEN k + 1 ELSE k
      BY <2>1
    <3>3. a = b
      <4>1. \A e, f \in 1..Len(S[W]) : what[h.obj[S[W][e]]] = what[h.obj[S[W][f]]] => e = f
        BY <1>3 DEF Queued
      <4>2. what[h.obj[S[W][a]]] = what[h.obj[S[W][b]]]
        BY <2>3, <3>1, <3>2
      <4>3. QED BY <4>1, <4>2
    <3>4. j \in Nat /\ k \in Nat /\ i \in Nat
      OBVIOUS
    <3>5. QED BY <3>1, <3>2, <3>3, <3>4
  <2>4. ASSUME NEW u \in Pending', QueueOf(u) = W
        PROVE  \E j \in 1..Len(S2[W]) : what'[h'.obj[S2[W][j]]] = u
    <3>1. u \in Pending /\ u # what[d]
      BY <1>10
    <3>2. PICK a \in 1..Len(S[W]) : what[h.obj[S[W][a]]] = u
      BY <1>3, <2>4, <3>1 DEF Queued
    <3>3. a # i
      BY <1>5, <3>1, <3>2 DEF d
    <3>4. \E j \in 1..Len(S2[W]) : h'.obj[S2[W][j]] = h.obj[S[W][a]]
      BY <1>7, <3>3 DEF Shrunk
    <3>5. QED BY <1>2, <3>2, <3>4
  <2>5. W' = W
    BY <1>2
  <2> HIDE DEF T
  <2>6. QED BY <2>2, <2>3, <2>4, <2>5 DEF Queued
<1>13. CursorAt(S2)'
  <2>1. h.free \in Seq(Nodes) /\ cursor \in Nodes
    BY <1>2, <1>3, FieldsAre DEF Holds, BusShape
  <2>2. Len(h'.free) > 0 /\ h'.free[Len(h'.free)] = cursor'
    BY <1>2, <1>7, <2>1
  <2>3. QED BY <1>2, <1>6, <2>2 DEF CursorAt, AtRemoved
<1>14. BusHolds(S2)'
  <2>1. Queued(S2, "notes")' /\ Queued(S2, "beats")'
    <3>1. walking' = walking
      BY <1>2
    <3> HIDE DEF Queued
    <3>2. CASE walking = "notes"
      <4>1. "beats" # walking /\ "notes" = walking'
        BY <3>1, <3>2
      <4>2. Queued(S2, "beats")'
        BY <1>11, <4>1
      <4>3. Queued(S2, "notes")'
        BY <1>12, <4>1
      <4>4. QED BY <4>2, <4>3
    <3>3. CASE walking = "beats"
      <4>1. "notes" # walking /\ "beats" = walking'
        BY <3>1, <3>3
      <4>2. Queued(S2, "notes")'
        BY <1>11, <4>1
      <4>3. Queued(S2, "beats")'
        BY <1>12, <4>1
      <4>4. QED BY <4>2, <4>3
    <3>4. QED BY <1>3, <3>2, <3>3
  <2>2. QED BY <1>7, <1>8, <1>13, <2>1 DEF BusHolds
<1>15. BusShape'
  BY <1>2, <1>3, <1>6, <1>10 DEF BusShape
<1>16. QED BY <1>14, <1>15 DEF BusInv

\* The descriptor that is freed gets the node it was at, unless a listener took
\* that one for a pool: the walk goes on there, and finds nothing that is due.
LEMMA FreedStep == BusInv /\ Freed => BusInv'
<1> SUFFICES ASSUME BusInv, Freed PROVE BusInv'
  OBVIOUS
<1> DEFINE pool == PoolOf(walking)
           n == NewNode(h)
           D == (1..made) \ {firing}
<1>1. PICK S : BusHolds(S)
  BY DEF BusInv
<1>2. /\ firing # Null /\ h' = Push(h, pool, firing) /\ firing' = Null /\ extra' = 0
      /\ cursor' = h'.next[cursor]
      /\ UNCHANGED <<time, what, made, walking, delta, due>>
  BY DEF Freed
<1>3. /\ BusShape /\ walking # "idle" /\ walking \in {"notes", "beats"} /\ Holds(h, S) /\ Carry(h, S, D)
      /\ cursor # Null /\ AtRemoved(S) /\ firing \in 1..made /\ firing \notin D
      /\ Null \notin 1..made
  BY <1>1, <1>2, Bounds DEF BusInv, BusShape, BusHolds, CursorAt
<1>4. /\ pool \in Lists /\ pool \in {"notePool", "beatPool"} /\ firing \in Nodes /\ D \in SUBSET Nodes
      /\ "notePool" \in Lists /\ (walking = "beats" => pool = "beatPool")
  BY <1>3, ListNames, Carried
<1> HIDE DEF pool, n
<1>5. HasRoom(h)
  BY <1>3, <1>4, RoomForMore
<1>6. PICK S2 : /\ Holds(h', S2) /\ Carry(h', S2, D \union {firing})
                /\ Longer(h, S, h', S2, pool, NewNode(h), firing)
                /\ FieldsPushed(h, pool, firing, NewNode(h), Taken(h), h')
  BY <1>2, <1>3, <1>4, <1>5, PushHolds, PushCarries, PushGrows, PushIs
<1>7. D \union {firing} = (1..made') \ {firing'}
  BY <1>2, <1>3
<1>8. Queued(S2, "notes")' /\ Queued(S2, "beats")'
  <2>1. Pending' = Pending
    BY <1>2 DEF Pending
  <2>2. ASSUME NEW q \in {"notes", "beats"} PROVE Queued(S2, q)'
    <3>1. Kept(h, S, h', S2, q) /\ Queued(S, q)
      BY <1>1, <1>4, <1>6, ListNames DEF Longer, BusHolds
    <3>2. QED BY <1>2, <2>1, <3>1, QueueStays
  <2>3. QED BY <2>2
<1>9. cursor' \in Nodes \union {Null} /\ cursor \in Nodes
  <2>1. h' \in Heaps /\ cursor \in Nodes
    BY <1>3, <1>6 DEF Holds, BusShape
  <2>2. h'.next \in [Nodes -> Nodes \union {Null}]
    BY <2>1, FieldsAre
  <2>3. QED BY <1>2, <2>1, <2>2
<1>10. cursor' # Null => AtNode(S2)'
  <2>1. CASE Len(h.free) > 0 /\ h.free[Len(h.free)] = cursor
    <3>1. NewNode(h) = cursor
      <4>1. h.free # <<>>
        BY <2>1
      <4>2. QED BY <2>1, <4>1 DEF NewNode
    <3>2. h'.next[cursor] = Null
      BY <1>6, <1>9, <3>1 DEF FieldsPushed
    <3>3. QED BY <1>2, <3>2
  <2>2. CASE /\ walking = "beats" /\ Len(S["notePool"]) + extra >= Chunk
             /\ S["notePool"][1] = cursor /\ Unprepared(S, 1)
    <3> DEFINE z == Len(S["notePool"])
    <3>1. z \in Nat /\ 1 \in 1..z
      <4>1. z \in Nat /\ z + extra >= Chunk
        BY <1>3, <1>4, <2>2, HeldSeq
      <4> HIDE DEF z
      <4>2. extra \in Nat /\ MaxExtra \in Nat /\ Chunk \in Nat /\ MaxExtra < Chunk /\ extra <= MaxExtra
        BY <1>3, PlaybackBusAssumption DEF BusShape
      <4>3. QED BY <4>1, <4>2
    <3>2. S2["notePool"] = S["notePool"] /\ \A i \in 1..z : h'.obj[S2["notePool"][i]] = h.obj[S["notePool"][i]]
      BY <1>4, <1>6, <2>2 DEF Longer, Kept
    <3>3. cursor' # Null => 2 \in 1..z /\ cursor' = S2["notePool"][2]
      <4>1. Linked(h', "notePool", S2["notePool"])
        BY <1>4, <1>6 DEF Holds
      <4>2. h'.next[cursor] = IF 1 = z THEN Null ELSE S2["notePool"][1 + 1]
        BY <2>2, <3>1, <3>2, <4>1 DEF Linked
      <4>3. 1 + 1 = 2 /\ (1 # z => 2 \in 1..z)
        <5> HIDE DEF z
        <5>1. QED BY <3>1
      <4>4. QED BY <1>2, <4>2, <4>3
    <3>4. Unprepared(S2, 2)'
      <4>1. \A j \in 2..z : j \in 1..z
        BY <3>1
      <4>2. \A j \in 2..z : time'[h'.obj[S2["notePool"][j]]] = Null
        BY <1>2, <2>2, <3>2, <4>1 DEF Unprepared
      <4>3. QED BY <3>2, <4>2 DEF Unprepared
    <3>5. QED BY <1>2, <2>2, <3>2, <3>3, <3>4 DEF AtNode
  <2>3. QED BY <1>3, <2>1, <2>2 DEF AtRemoved
<1>11. CursorAt(S2)'
  BY <1>2, <1>3, <1>10 DEF CursorAt
<1>12. BusHolds(S2)'
  BY <1>6, <1>7, <1>8, <1>11 DEF BusHolds
<1>13. BusShape'
  <2>1. 0 \in 0..MaxExtra
    BY PlaybackBusAssumption
  <2>2. QED BY <1>2, <1>3, <1>9, <2>1 DEF BusShape
<1>14. QED BY <1>12, <1>13 DEF BusInv

LEMMA BusStep == BusInv /\ [BusNext]_busVars => BusInv'
<1> SUFFICES ASSUME BusInv, [BusNext]_busVars PROVE BusInv'
  OBVIOUS
<1>1. CASE \E x \in Things, t \in 1..MaxTime : Sequencer(x, t)
  BY <1>1, SequencerStep
<1>2. CASE \E x \in Sounds, t \in 1..MaxTime : Listener(x, t)
  BY <1>2, ListenerStep
<1>3. CASE \E elapsed \in 1..MaxElapsed : Tick(elapsed)
  BY <1>3, TickStep
<1>4. CASE CountDown \/ Fire \/ Freed \/ Walked
  BY <1>4, CountDownStep, FireStep, FreedStep, WalkedStep
<1>5. CASE UNCHANGED busVars
  <2>1. Pending' = Pending
    BY <1>5 DEF busVars, Pending
  <2>2. \A S : BusHolds(S)' <=> BusHolds(S)
    BY <1>5, <2>1 DEF busVars, BusHolds, Queued, CursorAt, AtNode, AtRemoved, Unprepared
  <2>3. BusShape'
    BY <1>5 DEF busVars, BusInv, BusShape
  <2>4. QED BY <2>2, <2>3 DEF BusInv
<1>6. QED BY <1>1, <1>2, <1>3, <1>4, <1>5 DEF BusNext

\* What the queues and the pools have, read off the heap.
LEMMA ContentsAre ==
  ASSUME NEW S, Holds(h, S), NEW l \in Lists
  PROVE  DOMAIN Contents(h, l) = 1..Len(S[l]) /\ \A i \in 1..Len(S[l]) : Contents(h, l)[i] = h.obj[S[l][i]]
<1>1. Chain(h, l) = S[l] /\ DOMAIN S[l] = 1..Len(S[l])
  BY ChainIs, HeldSeq
<1>2. QED BY <1>1 DEF Contents

LEMMA InOnePlace == BusInv => OnePlace
<1> SUFFICES ASSUME BusInv, NEW d \in 1..made
             PROVE  LET held(l) == {i \in DOMAIN Contents(h, l) : TRUE}
                        spot == UNION {{<<l, i>> : i \in {j \in held(l) : Contents(h, l)[j] = d}} : l \in Lists}
                    IN  Cardinality(spot) = IF d = firing THEN 0 ELSE 1
  BY DEF OnePlace
<1> DEFINE held(l) == {i \in DOMAIN Contents(h, l) : TRUE}
           in(l) == {<<l, i>> : i \in {j \in held(l) : Contents(h, l)[j] = d}}
           spot == UNION {in(l) : l \in Lists}
<1>1. PICK S : Holds(h, S) /\ Carry(h, S, (1..made) \ {firing})
  BY DEF BusInv, BusHolds
<1>2. \A l \in Lists : in(l) = {<<l, i>> : i \in {j \in 1..Len(S[l]) : h.obj[S[l][j]] = d}}
  <2> SUFFICES ASSUME NEW l \in Lists PROVE in(l) = {<<l, i>> : i \in {j \in 1..Len(S[l]) : h.obj[S[l][j]] = d}}
    OBVIOUS
  <2>1. DOMAIN Contents(h, l) = 1..Len(S[l]) /\ \A i \in 1..Len(S[l]) : Contents(h, l)[i] = h.obj[S[l][i]]
    BY <1>1, ContentsAre
  <2>2. {j \in held(l) : Contents(h, l)[j] = d} = {j \in 1..Len(S[l]) : h.obj[S[l][j]] = d}
    BY <2>1
  <2>3. QED BY <2>2
<1> HIDE DEF in
<1>3. \A p : p \in spot <=> \E l \in Lists : \E i \in 1..Len(S[l]) : h.obj[S[l][i]] = d /\ p = <<l, i>>
  BY <1>2
<1>4. CASE d = firing
  <2>1. \A l \in Lists : \A i \in 1..Len(S[l]) : h.obj[S[l][i]] # d
    BY <1>1, <1>4 DEF Carry
  <2> HIDE DEF spot
  <2>2. spot = {}
    BY <1>3, <2>1
  <2>3. Cardinality(spot) = 0
    BY <2>2, FS_EmptySet
  <2>4. QED BY <1>4, <2>3 DEF spot, in
<1>5. CASE d # firing
  <2>1. PICK l \in Lists : \E i \in 1..Len(S[l]) : h.obj[S[l][i]] = d
    BY <1>1, <1>5 DEF Carry
  <2>2. PICK i \in 1..Len(S[l]) : h.obj[S[l][i]] = d
    BY <2>1
  <2>3. \A k \in Lists : \A j \in 1..Len(S[k]) : h.obj[S[k][j]] = d => k = l /\ j = i
    BY <1>1, <2>2 DEF Carry
  <2> HIDE DEF spot
  <2>4. spot = {<<l, i>>}
    BY <1>3, <2>2, <2>3
  <2>5. Cardinality(spot) = 1
    BY <2>4, FS_Singleton
  <2>6. QED BY <1>5, <2>5 DEF spot, in
<1>6. QED BY <1>4, <1>5

LEMMA InQueue == BusInv => PendingIsQueued
<1> SUFFICES ASSUME BusInv, NEW q \in {"notes", "beats"}
             PROVE  /\ {what[Contents(h, q)[i]] : i \in DOMAIN Contents(h, q)} = {x \in Pending : QueueOf(x) = q}
                    /\ \A i, j \in DOMAIN Contents(h, q) : what[Contents(h, q)[i]] = what[Contents(h, q)[j]] => i = j
  BY DEF PendingIsQueued
<1>1. PICK S : Holds(h, S) /\ Queued(S, q)
  BY DEF BusInv, BusHolds
<1>2. q \in Lists
  BY ListNames
<1>3. DOMAIN Contents(h, q) = 1..Len(S[q]) /\ \A i \in 1..Len(S[q]) : Contents(h, q)[i] = h.obj[S[q][i]]
  BY <1>1, <1>2, ContentsAre
<1>4. {what[Contents(h, q)[i]] : i \in DOMAIN Contents(h, q)} = {what[h.obj[S[q][i]]] : i \in 1..Len(S[q])}
  BY <1>3
<1>5. {what[h.obj[S[q][i]]] : i \in 1..Len(S[q])} = {x \in Pending : QueueOf(x) = q}
  BY <1>1 DEF Queued
<1>6. \A i, j \in 1..Len(S[q]) : what[h.obj[S[q][i]]] = what[h.obj[S[q][j]]] => i = j
  BY <1>1 DEF Queued
<1>7. QED BY <1>3, <1>4, <1>5, <1>6

\* QueuesInOrder holds of the bus for any sounds, beats, times, sizes of the
\* pools and listeners that schedule fewer sounds than a pool is given at once
\* (PlaybackBus.js, Pool.js, LinkedList.js): every descriptor is in one queue,
\* in one pool or with the listeners, and what is pending has one in its queue.
THEOREM QueuesStayInOrder == BusSpec => []QueuesInOrder
<1>1. BusInv => QueuesInOrder
  BY InOnePlace, InQueue DEF QueuesInOrder
<1>2. QED BY BusStart, BusStep, <1>1, PTL DEF BusSpec

-----------------------------------------------------------------------------
(* The types of the bus and of the views                                   *)

\* A list that is held is linked in both directions and shares no node.
LEMMA HeldIsWellFormed ==
  ASSUME NEW g, NEW S, Holds(g, S)
  PROVE  WellFormed(g)
<1> DEFINE on(l) == {Chain(g, l)[i] : i \in DOMAIN Chain(g, l)}
           freed == {g.free[i] : i \in DOMAIN g.free}
           c(l) == Chain(g, l)
<1>1. \A l \in Lists : /\ c(l) = S[l] /\ DOMAIN c(l) = 1..Len(S[l]) /\ Len(S[l]) \in Nat
                       /\ Linked(g, l, S[l]) /\ S[l] \in Seq(Nodes)
  BY ChainIs, HeldSeq
<1>2. g.free \in Seq(Nodes) /\ Len(g.free) \in Nat /\ DOMAIN g.free = 1..Len(g.free) /\ g.created \in Nat
  BY FieldsAre DEF Holds
<1>3. \A l \in Lists : \A n : n \in on(l) <=> \E i \in 1..Len(S[l]) : n = S[l][i]
  BY <1>1
<1>4. \A n : n \in freed <=> \E j \in 1..Len(g.free) : n = g.free[j]
  BY <1>2
<1> HIDE DEF on, freed
<1>5. (UNION {on(l) : l \in Lists}) \union freed = 1..g.created
  <2>1. \A n : n \in (UNION {on(l) : l \in Lists}) \union freed
               <=> (\E l \in Lists : n \in on(l)) \/ n \in freed
    OBVIOUS
  <2>2. ASSUME NEW n \in 1..g.created PROVE (\E l \in Lists : n \in on(l)) \/ n \in freed
    <3>1. \/ \E j \in 1..Len(g.free) : n = g.free[j]
          \/ \E l \in Lists : \E i \in 1..Len(S[l]) : n = S[l][i]
      BY DEF Holds, Spread
    <3> QED BY <1>3, <1>4, <3>1
  <2>3. ASSUME NEW n \in freed PROVE n \in 1..g.created
    <3>1. PICK j \in 1..Len(g.free) : n = g.free[j]
      BY <1>4, <2>3
    <3>2. n \in Nodes /\ n <= g.created
      BY <1>2, <3>1 DEF Holds, Spread
    <3> QED BY <1>2, <3>2, Bounds
  <2>4. ASSUME NEW l \in Lists, NEW n \in on(l) PROVE n \in 1..g.created
    <3>1. PICK i \in 1..Len(S[l]) : n = S[l][i]
      BY <1>3, <2>4
    <3>2. n \in Nodes /\ n <= g.created
      BY <1>1, <3>1 DEF Holds, Spread
    <3> QED BY <1>2, <3>2, Bounds
  <2> QED BY <2>1, <2>2, <2>3, <2>4
<1>6. Cardinality(freed) = Len(g.free)
  <2> DEFINE f == [j \in 1..Len(g.free) |-> g.free[j]]
  <2>1. f \in Bijection(1..Len(g.free), freed)
    <3>1. f \in [1..Len(g.free) -> freed]
      BY <1>4
    <3>2. \A i, j \in 1..Len(g.free) : f[i] = f[j] => i = j
      BY DEF Holds, Apart
    <3>3. \A n \in freed : \E j \in 1..Len(g.free) : f[j] = n
      BY <1>4
    <3> QED BY <3>1, <3>2, <3>3 DEF Bijection, Injection, Surjection, IsInjective
  <2>2. IsFiniteSet(1..Len(g.free)) /\ Cardinality(1..Len(g.free)) = Len(g.free)
    BY <1>2, FS_Interval
  <2> HIDE DEF f
  <2>3. IsFiniteSet(freed) /\ Cardinality(freed) = Cardinality(1..Len(g.free))
    BY <2>1, <2>2, FS_Bijection DEF ExistsBijection
  <2> QED BY <2>2, <2>3
<1>7. ASSUME NEW l \in Lists
      PROVE  /\ on(l) \intersect freed = {}
             /\ \A k \in Lists \ {l} : on(l) \intersect on(k) = {}
             /\ g.tail[l] = IF c(l) = <<>> THEN Null ELSE c(l)[Len(c(l))]
             /\ \A i \in DOMAIN c(l) : g.prev[c(l)[i]] = IF i = 1 THEN Null ELSE c(l)[i - 1]
  <2>1. on(l) \intersect freed = {} /\ \A k \in Lists \ {l} : on(l) \intersect on(k) = {}
    BY <1>3, <1>4 DEF Holds, Apart
  <2>2. c(l) = S[l] /\ (S[l] = <<>> <=> Len(S[l]) = 0)
    BY <1>1
  <2>3. g.tail[l] = IF c(l) = <<>> THEN Null ELSE c(l)[Len(c(l))]
    BY <1>1, <2>2 DEF Linked
  <2>4. \A i \in DOMAIN c(l) : g.prev[c(l)[i]] = IF i = 1 THEN Null ELSE c(l)[i - 1]
    BY <1>1, <2>2 DEF Linked
  <2> QED BY <2>1, <2>3, <2>4
<1>8. ASSUME NEW l \in Lists PROVE Cardinality(on(l)) = Len(c(l))
  <2>1. c(l) = S[l] /\ Len(S[l]) \in Nat
    BY <1>1
  <2> DEFINE f == [j \in 1..Len(S[l]) |-> S[l][j]]
  <2>2. f \in Bijection(1..Len(S[l]), on(l))
    <3>1. f \in [1..Len(S[l]) -> on(l)]
      BY <1>3
    <3>2. \A i, j \in 1..Len(S[l]) : f[i] = f[j] => i = j
      BY DEF Holds, Apart
    <3>3. \A n \in on(l) : \E j \in 1..Len(S[l]) : f[j] = n
      BY <1>3
    <3> QED BY <3>1, <3>2, <3>3 DEF Bijection, Injection, Surjection, IsInjective
  <2>3. IsFiniteSet(1..Len(S[l])) /\ Cardinality(1..Len(S[l])) = Len(S[l])
    BY <2>1, FS_Interval
  <2> HIDE DEF f
  <2>4. Cardinality(on(l)) = Cardinality(1..Len(S[l]))
    BY <2>2, <2>3, FS_Bijection DEF ExistsBijection
  <2> QED BY <2>1, <2>3, <2>4
<1> QED BY <1>5, <1>6, <1>7, <1>8 DEF WellFormed, on, freed

\* What the bus counts stays within its bounds.
BusBounds ==
    /\ delta \in 1..Gap
    /\ time \in [Nodes -> {Null} \union 0..MaxTime]
    /\ due \in [Things -> {Null, Overdue} \union 0..MaxTime]

\* A frame that takes too long counts as 1, and nothing that is due is counted down.
LEMMA BoundsStart == BusInit => BusBounds
<1>1. 1 \in 1..Gap
  BY PlaybackBusAssumption
<1> QED BY <1>1 DEF BusInit, BusBounds, Descriptors

LEMMA BoundsStep == BusInv /\ BusBounds /\ [BusNext]_busVars => BusBounds'
<1> SUFFICES ASSUME BusInv, BusBounds, [BusNext]_busVars PROVE BusBounds'
  OBVIOUS
<1>0. Gap \in Nat \ {0} /\ MaxTime \in Nat /\ Null \notin Int
  BY Bounds, PlaybackBusAssumption
<1>1. ASSUME NEW x \in Things, NEW t \in 1..MaxTime, Schedule(x, t) PROVE BusBounds'
  <2>1. t \in 0..MaxTime /\ delta' = delta /\ due' = [due EXCEPT ![x] = t]
    BY <1>0, <1>1 DEF Schedule
  <2>2. PICK d : time' = [time EXCEPT ![d] = t]
    BY <1>1 DEF Schedule
  <2> QED BY <2>1, <2>2 DEF BusBounds
<1>2. ASSUME NEW elapsed \in 1..MaxElapsed, Tick(elapsed) PROVE BusBounds'
  <2>1. delta' \in 1..Gap /\ time' = time
    BY <1>0, <1>2, PlaybackBusAssumption DEF Tick
  <2>2. \A x \in Things : LET new == IF x \notin Pending THEN Null
                                     ELSE IF due[x] \in {0, Overdue} THEN Overdue
                                     ELSE IF due[x] > elapsed THEN due[x] - elapsed ELSE 0
                          IN  new \in {Null, Overdue} \union 0..MaxTime
    <3> TAKE x \in Things
    <3>1. CASE x \in Pending /\ due[x] \notin {0, Overdue}
      <4>1. due[x] \in 0..MaxTime
        BY <3>1 DEF BusBounds, Pending
      <4> QED BY <1>0, <3>1, <4>1, PlaybackBusAssumption
    <3> QED BY <1>0, <3>1
  <2>3. due' \in [Things -> {Null, Overdue} \union 0..MaxTime]
    BY <1>2, <2>2 DEF Tick
  <2> QED BY <2>1, <2>3 DEF BusBounds
<1>3. CASE CountDown
  <2> DEFINE d == h.obj[cursor]
  <2>1. /\ ~IsDue(d) /\ delta' = delta /\ due' = due
        /\ time' = [time EXCEPT ![d] = IF time[d] = Null THEN Null ELSE time[d] - delta]
    BY <1>3 DEF CountDown
  <2>2. d \in Nodes /\ time[d] # Null => time[d] - delta \in 0..MaxTime
    BY <1>0, <2>1 DEF BusBounds, IsDue
  <2> HIDE DEF d
  <2>3. time' \in [Nodes -> {Null} \union 0..MaxTime]
    BY <2>1, <2>2 DEF BusBounds
  <2> QED BY <2>1, <2>3 DEF BusBounds
<1>4. CASE Fire
  <2>1. delta' = delta /\ time' = time /\ \E y : due' = [due EXCEPT ![y] = Null]
    BY <1>4 DEF Fire
  <2> QED BY <2>1 DEF BusBounds
<1>5. CASE Freed \/ Walked \/ UNCHANGED busVars
  BY <1>5 DEF Freed, Walked, busVars, BusBounds
<1>6. ASSUME NEW x \in Things, NEW t \in 1..MaxTime, Sequencer(x, t) PROVE BusBounds'
  BY <1>1, <1>6 DEF Sequencer
<1>7. ASSUME NEW x \in Sounds, NEW t \in 1..MaxTime, Listener(x, t) PROVE BusBounds'
  BY <1>1, <1>7 DEF Listener, Things
<1> QED BY <1>2, <1>3, <1>4, <1>5, <1>6, <1>7 DEF BusNext

LEMMA BusIsTyped == BusInv /\ BusBounds => BusTypeOK
<1> SUFFICES ASSUME BusInv, BusBounds PROVE BusTypeOK
  OBVIOUS
<1>1. WellFormed(h)
  BY HeldIsWellFormed DEF BusInv, BusHolds
<1>2. firing \in Descriptors \union {Null}
  BY Bounds DEF BusInv, BusShape, Descriptors
<1> QED BY <1>1, <1>2 DEF BusInv, BusShape, BusBounds, BusTypeOK, Descriptors

-----------------------------------------------------------------------------
(* The types of the views that the invariants do not have.                 *)

ViewsRestTyped ==
    /\ phase \in {"entering", "in", "gone"}
    /\ {rootExpanded, isScrollingDisabled, visualizersHidden, deaf, isMobile, hasty} \subseteq BOOLEAN
    /\ scroll \in {"still", "moving", "settling"}
    /\ visible \subseteq Views /\ paused \subseteq Views /\ muted \subseteq Views
    /\ backOn \subseteq Views /\ backHandler \subseteq Views
    /\ recordOn \subseteq Views /\ recordHandler \subseteq Views
    /\ isCountdown \subseteq Views /\ isRecording \subseteq Views /\ resets \subseteq Views
    /\ recordLeft \in [Views -> 0..Loop]
    /\ moves \in 0..MaxMoves

\* The views begin with these types, and every step keeps them.
LEMMA ViewsTypedStart == ViewsInit => ViewsRestTyped
<1>1. 0 \in 0..MaxMoves /\ 0 \in 0..Loop
  BY ExperimentViewsAssumption
<1>2. ViewsInit => recordLeft \in [Views -> 0..Loop]
  BY <1>1 DEF ViewsInit
<1> QED BY <1>1, <1>2 DEF ViewsInit, ViewsRestTyped

LEMMA MovesTyped == ViewsRestTyped /\ Moves => moves' \in 0..MaxMoves /\ hasty' \in BOOLEAN
BY ExperimentViewsAssumption DEF ViewsRestTyped, Moves

LEMMA OpenTyped ==
    ASSUME ViewsRestTyped, NEW v \in Views, NEW skip, NEW lost, OpenView(v, skip, lost),
           moves' \in 0..MaxMoves, hasty' \in BOOLEAN
    PROVE  ViewsRestTyped'
BY DEF ViewsRestTyped, OpenView, scrolling, recordButton

LEMMA CloseTyped ==
    ASSUME ViewsRestTyped, NEW S \in SUBSET Views, NEW skip, NEW lost, CloseView(S, skip, lost),
           moves' \in 0..MaxMoves, hasty' \in BOOLEAN
    PROVE  ViewsRestTyped'
BY DEF ViewsRestTyped, CloseView, scrolling

LEMMA ViewsTypedStep == ViewsInv /\ ViewsRestTyped /\ [ViewsNext]_viewsVars => ViewsRestTyped'
<1> SUFFICES ASSUME ViewsInv, ViewsRestTyped, [ViewsNext]_viewsVars PROVE ViewsRestTyped'
  OBVIOUS
<1>0. /\ moves \in 0..MaxMoves /\ hasty \in BOOLEAN /\ Loop \in Nat
      /\ keyListener \subseteq Views /\ expanded \subseteq Views /\ currentView \in Views \union {Nobody}
  BY ExperimentViewsAssumption DEF ViewsRestTyped, ViewsInv, ViewsShape
<1>1. ASSUME NEW v \in Views, Activate(v) PROVE ViewsRestTyped'
  BY <1>1, MovesTyped, OpenTyped DEF Activate
<1>2. ASSUME NEW v \in Views, PressBack(v) PROVE ViewsRestTyped'
  BY <1>2, MovesTyped, CloseTyped DEF PressBack
<1>3. CASE PressEscape
  BY <1>0, <1>3, MovesTyped, CloseTyped DEF PressEscape
<1>4. CASE BrowserBackOrForward
  BY <1>4, MovesTyped DEF BrowserBackOrForward, ViewsRestTyped, rootState, scrolling, instruments, waysBack, recordButton
<1>5. CASE HistoryCallback
  <2>1. moves' = moves /\ hasty' = hasty /\ calls # <<>>
    BY <1>5 DEF HistoryCallback, user
  <2>2. CASE UNCHANGED <<rootState, scrolling, instruments, waysBack, recordButton>>
    BY <2>1, <2>2 DEF ViewsRestTyped, rootState, scrolling, instruments, waysBack, recordButton
  <2>3. CASE /\ phase' = "gone"
             /\ UNCHANGED <<rootExpanded, currentView, isScrollingDisabled, visualizersHidden,
                            scrolling, instruments, waysBack, recordButton>>
    BY <2>1, <2>3 DEF ViewsRestTyped, scrolling, instruments, waysBack, recordButton
  <2>4. CASE currentView # Nobody /\ \E lost : CloseView({currentView}, TRUE, lost)
    BY <1>0, <2>1, <2>4, CloseTyped
  <2>5. CASE Head(calls).hash = "editing" /\ \E lost : OpenView(Head(calls).pid, TRUE, lost)
    <3>1. Head(calls) \in Hashes
      BY <2>1 DEF ViewsInv, ViewsShape
    <3>2. Head(calls).pid \in Views
      BY <2>5, <3>1, HashesAre
    <3> QED BY <1>0, <2>1, <2>5, <3>2, OpenTyped
  <2> QED BY <1>5, <2>2, <2>3, <2>4, <2>5 DEF HistoryCallback
<1>6. CASE Entered
  BY <1>6 DEF Entered, ViewsRestTyped, scrolling, waysBack, recordButton, user
<1>7. ASSUME NEW v \in Views, Grown(v) PROVE ViewsRestTyped'
  BY <1>7 DEF Grown, ViewsRestTyped, rootState, scrolling, user
<1>8. ASSUME NEW v \in Views, Opened(v) PROVE ViewsRestTyped'
  BY <1>8 DEF Opened, ViewsRestTyped, rootState, scrolling, waysBack, recordButton, user
<1>9. ASSUME NEW v \in Views, Closed(v) PROVE ViewsRestTyped'
  <2>1. UNCHANGED <<scrolling, expanded, paused, waysBack, recordButton, user>>
    BY <1>9 DEF Closed
  <2>2. /\ phase' = phase /\ visualizersHidden' = visualizersHidden /\ muted' \in {muted, muted \intersect {v}}
        /\ isScrollingDisabled' \in {isScrollingDisabled, FALSE} /\ rootExpanded' \in {rootExpanded, FALSE}
    BY <1>9 DEF Closed, rootState
  <2> QED BY <2>1, <2>2 DEF ViewsRestTyped, scrolling, waysBack, recordButton, user
<1>10. CASE Scroll \/ ScrollStop
  BY <1>10 DEF Scroll, ScrollStop, ViewsRestTyped, rootState, waysBack, recordButton, user
<1>11. ASSUME NEW v \in Views, PressRecord(v) PROVE ViewsRestTyped'
  BY <1>11 DEF PressRecord, ViewsRestTyped, rootState, scrolling, instruments, user
<1>12. CASE FirstBeat
  <2>1. recordLeft' \in [Views -> 0..Loop]
    BY <1>0, <1>12 DEF FirstBeat, ViewsRestTyped
  <2>2. isCountdown' \subseteq Views /\ isRecording' \subseteq Views
    BY <1>12 DEF FirstBeat, ViewsRestTyped
  <2> QED BY <1>12, <2>1, <2>2 DEF FirstBeat, ViewsRestTyped, rootState, scrolling, instruments, waysBack, user
<1>13. CASE RecordFrame
  <2> DEFINE drawn == (isRecording \intersect expanded) \ paused
             over == {v \in drawn : recordLeft[v] = 0}
  <2>1. over \subseteq Views /\ drawn \subseteq Views
    BY <1>0
  <2>2. /\ recordLeft' = [v \in Views |-> IF v \in drawn \ over THEN recordLeft[v] - 1 ELSE recordLeft[v]]
        /\ isRecording' = isRecording \ over /\ resets' = resets \union over /\ backOn' = backOn \union over
    BY <1>13 DEF RecordFrame
  <2>3. recordLeft' \in [Views -> 0..Loop]
    BY <1>0, <2>2 DEF ViewsRestTyped
  <2> HIDE DEF over, drawn
  <2>4. isRecording' \subseteq Views /\ resets' \subseteq Views /\ backOn' \subseteq Views
    BY <2>1, <2>2 DEF ViewsRestTyped
  <2> QED BY <1>13, <2>3, <2>4 DEF RecordFrame, ViewsRestTyped, rootState, scrolling, instruments, user
<1>14. ASSUME NEW v \in Views, ResetRecord(v) PROVE ViewsRestTyped'
  BY <1>14 DEF ResetRecord, ViewsRestTyped, rootState, scrolling, instruments, waysBack, user
<1>15. CASE UNCHANGED viewsVars
  BY <1>15 DEF viewsVars, ViewsRestTyped, rootState, scrolling, instruments, waysBack, recordButton, user
<1> QED BY <1>1, <1>2, <1>3, <1>4, <1>5, <1>6, <1>7, <1>8, <1>9, <1>10, <1>11, <1>12, <1>13, <1>14, <1>15
        DEF ViewsNext

LEMMA ViewsAreTyped == ViewsInv /\ ViewsRestTyped => ViewsTypeOK
<1> SUFFICES ASSUME ViewsInv, ViewsRestTyped PROVE ViewsTypeOK
  OBVIOUS
<1>1. \A i \in DOMAIN entries : entries[i] \in Hashes
  BY DEF ViewsInv, ViewsShape
<1>2. \A i \in DOMAIN calls : calls[i] \in Hashes
  BY DEF ViewsInv, ViewsShape
<1>3. \A S \in {visible, expanded, paused, muted, backOn, backHandler, keyListener, recordOn,
                recordHandler, isCountdown, isRecording, resets} : S \subseteq Views
  BY DEF ViewsInv, ViewsShape, ViewsRestTyped
<1> QED BY <1>1, <1>2, <1>3 DEF ViewsInv, ViewsShape, ViewsRestTyped, ViewsTypeOK

-----------------------------------------------------------------------------
(* The composition: the part that takes steps keeps its invariant.         *)

PartInv ==
    /\ part \in Parts
    /\ part = "bus" => BusInv /\ BusBounds
    /\ part = "views" => ViewsInv /\ ViewsRestTyped

(***************************************************************************)
(* Every variable of the bus and of the views keeps its type: the lists    *)
(* stay linked in both directions and share no node with each other or     *)
(* with the stack of free nodes (LinkedList.js), times count down to zero  *)
(* and not below, and the entries of the history are hashes of the page.   *)
(***************************************************************************)
THEOREM TypeCorrect == Spec => []TypeOK
<1>1. Init => PartInv
  BY BusStart, BoundsStart, ViewsStart, ViewsTypedStart DEF Init, PartInv
<1>2. PartInv /\ [Next]_<<busVars, viewsVars, part>> => PartInv'
  <2> SUFFICES ASSUME PartInv, [Next]_<<busVars, viewsVars, part>> PROVE PartInv'
    OBVIOUS
  <2>1. part' = part
    BY DEF Next
  <2>2. CASE part = "bus"
    <3>1. [BusNext]_busVars
      BY <2>2 DEF Next
    <3> QED BY <2>1, <2>2, <3>1, BusStep, BoundsStep DEF PartInv
  <2>3. CASE part = "views"
    <3>1. [ViewsNext]_viewsVars
      BY <2>3 DEF Next
    <3> QED BY <2>1, <2>3, <3>1, ViewsStep, ViewsTypedStep DEF PartInv
  <2> QED BY <2>1, <2>2, <2>3 DEF PartInv, Parts
<1>3. PartInv => TypeOK
  BY BusIsTyped, ViewsAreTyped DEF PartInv, TypeOK
<1> QED BY <1>1, <1>2, <1>3, PTL DEF Spec
=============================================================================
