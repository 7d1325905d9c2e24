-------------------------- MODULE ExperimentViews --------------------------
(***************************************************************************)
(* How the experiment opens and closes its instruments: the root view      *)
(* (experiment/app/views/Root.js) with its instruments' containers         *)
(* (InstrumentContainer.js), record buttons (RecordButton.js) and          *)
(* visualizers, the muting of the other channels (audio/                   *)
(* ChannelManager.js), and the browser history (util/HistoryManager.js).   *)
(*                                                                         *)
(* Opening and closing are animations with a promise; what follows them    *)
(* (the history, the other instruments) happens when the promise is kept.  *)
(* An animation of GSAP that a later one of the same object overwrites     *)
(* never completes, and neither does its promise.                          *)
(***************************************************************************)
EXTENDS Integers, Sequences, FiniteSets

CONSTANTS
    Views,      \* the instruments, by their pid
    Loop,       \* loopLengthSecs, in frames
    MaxMoves    \* bound: what the user opens, closes and traverses

ASSUME ExperimentViewsAssumption ==
    Views \subseteq Nat /\ Views # {} /\ IsFiniteSet(Views) /\ {Loop, MaxMoves} \subseteq Nat

Nobody == -1

VARIABLES
    phase,      \* "entering", "in" or "gone"
    rootExpanded, currentView, isScrollingDisabled, visualizersHidden,   \* Root
    scroll,     \* "still", "moving", or "settling": its last event is less than 250 ms old
    visible,    \* the instruments in the viewport
    deaf,       \* stage.interactive is off (ignoreInteraction)
    isMobile,
    expanded, paused, muted,    \* the instruments that are: InstrumentContainer, ChannelManager
    anim,       \* what moves: "still", "growing", "controls" or "shrinking"
    promised,   \* what Root does once it is over: "none", "open", "openSkip", "close", "closeSkip"
    backOn, backHandler, keyListener,   \* the ways back of the instruments that have them
    recordOn, recordHandler,            \* the same of the record button
    isCountdown, isRecording, recordLeft, resets,
    entries, at,    \* the browser's history: its hashes, and the current one
    calls,          \* the callbacks that onHistoryChange has set a timeout for
    moves,
    hasty           \* history: the user did not wait for an animation

rootState == <<phase, rootExpanded, currentView, isScrollingDisabled, visualizersHidden>>
scrolling == <<scroll, visible, deaf, isMobile>>
instruments == <<expanded, paused, muted, anim, promised>>
waysBack == <<backOn, backHandler, keyListener>>
recordButton == <<recordOn, recordHandler, isCountdown, isRecording, recordLeft, resets>>
browser == <<entries, at, calls>>
user == <<moves, hasty>>
viewsVars == <<rootState, scrolling, instruments, waysBack, recordButton, browser, user>>

Playing == [hash |-> "playing"]
Page == [hash |-> "page"]
Editing(v) == [hash |-> "editing", pid |-> v]

\* core.start has pushed #playing, and the mask's animation is under way.
ViewsInit ==
    /\ phase = "entering" /\ rootExpanded = FALSE /\ currentView = Nobody
    /\ isScrollingDisabled = TRUE /\ visualizersHidden = FALSE
    /\ scroll = "settling" /\ visible \in (SUBSET Views) \ {{}} /\ deaf = FALSE /\ isMobile \in BOOLEAN
    /\ expanded = {} /\ paused = {} /\ muted = {}
    /\ anim = [v \in Views |-> "still"] /\ promised = [v \in Views |-> "none"]
    /\ backOn = {} /\ backHandler = {} /\ keyListener = {}
    /\ recordOn = {} /\ recordHandler = {} /\ resets = {}
    /\ isCountdown = {} /\ isRecording = {} /\ recordLeft = [v \in Views |-> 0]
    /\ entries = <<Page, Playing>> /\ at = 2 /\ calls = <<>>
    /\ moves = 0 /\ hasty = FALSE

Moving == {v \in Views : anim[v] # "still"}
Waiting == phase = "entering" \/ Moving # {} \/ calls # <<>> \/ scroll = "moving"

\* The user does something that opens, closes or traverses.
Moves ==
    /\ phase # "gone" /\ moves < MaxMoves /\ moves' = moves + 1
    /\ hasty' = (hasty \/ Waiting)

\* An instrument that has its full size covers the others; the last of them is on top.
Covered(v) ==
    \E u \in expanded \ {v} : anim[u] \in {"controls", "still"} /\ (v \in expanded => u > v)

-----------------------------------------------------------------------------
(* Opening and closing.                                                    *)

(***************************************************************************)
(* The animations of the visualizers that one instrument hides or shows    *)
(* may overwrite those of another's, whose promise is then lost.           *)
(***************************************************************************)
MayLose(kinds) == {u \in Views : promised[u] \in kinds /\ anim[u] \in {"growing", "shrinking"}}

\* Root.openView and InstrumentContainer.expandView.
OpenView(v, skip, lost) ==
    /\ rootExpanded' = TRUE /\ currentView' = v
    /\ isScrollingDisabled' = TRUE /\ visualizersHidden' = TRUE
    /\ muted' = muted \union (Views \ {v})
    /\ paused' = paused \ {v}
    /\ expanded' = expanded \union {v}
    /\ anim' = [anim EXCEPT ![v] = "growing"]
    /\ promised' = [u \in Views |-> IF u = v THEN IF skip THEN "openSkip" ELSE "open"
                                    ELSE IF u \in lost THEN "none" ELSE promised[u]]
    /\ backHandler' = backHandler \union {v} /\ keyListener' = keyListener \union {v}
    /\ UNCHANGED <<phase, scrolling, backOn, recordButton>>

\* Root.closeView and InstrumentContainer.contractView.
CloseView(S, skip, lost) ==
    /\ visualizersHidden' = FALSE
    /\ paused' = paused \ visible
    /\ expanded' = expanded \ S
    /\ anim' = [v \in Views |-> IF v \in S THEN "shrinking" ELSE anim[v]]
    /\ promised' = [v \in Views |-> IF v \in S THEN IF skip THEN "closeSkip" ELSE "close"
                                    ELSE IF v \in lost THEN "none" ELSE promised[v]]
    /\ backOn' = backOn \ S /\ backHandler' = backHandler \ S /\ keyListener' = keyListener \ S
    /\ recordOn' = recordOn \ S /\ recordHandler' = recordHandler \ S
    /\ UNCHANGED <<phase, rootExpanded, currentView, isScrollingDisabled, scrolling, muted,
                   isCountdown, isRecording, recordLeft, resets>>

\* A press on an instrument that is contracted, or about to be.
Activate(v) ==
    /\ phase = "in" /\ Moves /\ ~deaf /\ v \in visible \ expanded /\ ~Covered(v)
    /\ \E lost \in SUBSET (MayLose({"open", "openSkip", "close", "closeSkip"}) \ {v}) :
         OpenView(v, FALSE, lost)
    /\ UNCHANGED browser

\* The back arrow of an instrument.
PressBack(v) ==
    /\ Moves /\ ~deaf /\ v \in backOn \intersect backHandler /\ ~Covered(v)
    /\ \E lost \in SUBSET (MayLose({"open", "openSkip"}) \ {v}) : CloseView({v}, FALSE, lost)
    /\ UNCHANGED browser

\* Escape: the document's keyup reaches every instrument that listens.
PressEscape ==
    /\ Moves /\ keyListener # {}
    /\ \E lost \in SUBSET (MayLose({"open", "openSkip"}) \ keyListener) :
         CloseView(keyListener, FALSE, lost)
    /\ UNCHANGED browser

-----------------------------------------------------------------------------
(* The history.                                                            *)

PushState(h) == entries' = Append(SubSeq(entries, 1, at), h) /\ at' = at + 1 /\ UNCHANGED calls

\* The browser goes to an entry: onHistoryChange sets a timeout for what its hash asks for.
Traverse(i) == i \in 1..Len(entries) /\ at' = i /\ calls' = Append(calls, entries[i]) /\ UNCHANGED entries

BrowserBackOrForward ==
    /\ Moves /\ \E i \in {at - 1, at + 1} : Traverse(i)
    /\ UNCHANGED <<rootState, scrolling, instruments, waysBack, recordButton>>

\* The timeout is over: closeCurrentView, openViewByPID, or the exit (core.tearDown).
HistoryCallback ==
    LET call == Head(calls) IN
    /\ phase # "gone" /\ calls # <<>> /\ calls' = Tail(calls)
    /\ \/ /\ call = Playing
          /\ IF rootExpanded /\ currentView # Nobody
             THEN \E lost \in SUBSET (MayLose({"open", "openSkip"}) \ {currentView}) :
                    CloseView({currentView}, TRUE, lost)
             ELSE UNCHANGED <<rootState, scrolling, instruments, waysBack, recordButton>>
          /\ UNCHANGED <<entries, at>>
       \/ /\ call.hash = "editing"
          /\ IF rootExpanded
             THEN UNCHANGED <<rootState, scrolling, instruments, waysBack, recordButton>>
             ELSE \E lost \in SUBSET (MayLose({"close", "closeSkip"}) \ {call.pid}) :
                    OpenView(call.pid, TRUE, lost)
          /\ UNCHANGED <<entries, at>>
       \/ /\ call = Page
          /\ phase' = "gone"
          /\ entries' = Append(SubSeq(entries, 1, at), Page) /\ at' = at + 1
          /\ UNCHANGED <<rootExpanded, currentView, isScrollingDisabled, visualizersHidden,
                         scrolling, instruments, waysBack, recordButton>>
    /\ UNCHANGED user

-----------------------------------------------------------------------------
(* The animations end.                                                     *)

\* animateIn: the mask is gone.
Entered ==
    /\ phase = "entering" /\ phase' = "in"
    /\ isScrollingDisabled' = FALSE /\ paused' = paused \ visible
    /\ UNCHANGED <<rootExpanded, currentView, visualizersHidden, scrolling, expanded, muted, anim,
                   promised, waysBack, recordButton, browser, user>>

\* The instrument has its full size: the record button listens, the controls come.
Grown(v) ==
    /\ phase # "gone" /\ anim[v] = "growing" /\ anim' = [anim EXCEPT ![v] = "controls"]
    /\ recordOn' = recordOn \union {v} /\ recordHandler' = recordHandler \union {v}
    /\ backOn' = backOn \union {v}
    /\ UNCHANGED <<rootState, scrolling, expanded, paused, muted, promised, backHandler,
                   keyListener, isCountdown, isRecording, recordLeft, resets, browser, user>>

\* The controls are there: the other instruments rest, the history gets an entry.
Opened(v) ==
    /\ phase # "gone" /\ anim[v] = "controls" /\ anim' = [anim EXCEPT ![v] = "still"]
    /\ promised' = [promised EXCEPT ![v] = "none"]
    /\ paused' = IF promised[v] = "none" THEN paused ELSE paused \union (Views \ {v})
    /\ IF promised[v] = "open" THEN PushState(Editing(v)) ELSE UNCHANGED browser
    /\ UNCHANGED <<rootState, scrolling, expanded, muted, waysBack, recordButton, user>>

\* Mutants: the history is not gone back; only a close that goes back enables scrolling.
ClosedForgets(v) ==
    /\ anim[v] = "shrinking" /\ anim' = [anim EXCEPT ![v] = "still"]
    /\ promised' = [promised EXCEPT ![v] = "none"]
    /\ isScrollingDisabled' = FALSE /\ rootExpanded' = FALSE /\ currentView' = Nobody
    /\ muted' = muted \intersect {v}
    /\ UNCHANGED <<phase, visualizersHidden, scrolling, expanded, paused, waysBack, recordButton,
                   browser, user>>
ClosedScrollsOnlyBack(v) ==
    /\ anim[v] = "shrinking" /\ anim' = [anim EXCEPT ![v] = "still"]
    /\ promised' = [promised EXCEPT ![v] = "none"]
    /\ isScrollingDisabled' = (isScrollingDisabled /\ promised[v] # "close")
    /\ rootExpanded' = FALSE /\ currentView' = Nobody /\ muted' = muted \intersect {v}
    /\ IF promised[v] = "close" /\ at > 1 THEN Traverse(at - 1) ELSE UNCHANGED browser
    /\ UNCHANGED <<phase, visualizersHidden, scrolling, expanded, paused, waysBack, recordButton, user>>

\* The instrument is back in its place.
Closed(v) ==
    /\ phase # "gone" /\ anim[v] = "shrinking" /\ anim' = [anim EXCEPT ![v] = "still"]
    /\ promised' = [promised EXCEPT ![v] = "none"]
    /\ IF promised[v] = "none" THEN UNCHANGED <<rootState, muted>>
       ELSE /\ isScrollingDisabled' = FALSE /\ rootExpanded' = FALSE /\ currentView' = Nobody
            /\ muted' = muted \intersect {v}
            /\ UNCHANGED <<phase, visualizersHidden>>
    /\ IF promised[v] = "close" /\ at > 1 THEN Traverse(at - 1) ELSE UNCHANGED browser
    /\ UNCHANGED <<scrolling, expanded, paused, waysBack, recordButton, user>>

-----------------------------------------------------------------------------
(* Scrolling.                                                              *)

(***************************************************************************)
(* The user scrolls: the first event of a movement turns interaction off,  *)
(* and on a phone the rendering as well.                                   *)
(***************************************************************************)
Scroll ==
    /\ phase # "gone" /\ ~isScrollingDisabled
    /\ scroll' = "moving" /\ visible' \in (SUBSET Views) \ {{}}
    /\ IF scroll # "moving" /\ ~rootExpanded
       THEN deaf' = TRUE /\ paused' = IF isMobile THEN Views ELSE {}
       ELSE UNCHANGED <<deaf, paused>>
    /\ UNCHANGED <<rootState, isMobile, expanded, muted, anim, promised, waysBack, recordButton, browser, user>>

\* 250 ms after the last event; a resize of the window ends here as well.
ScrollStop ==
    /\ phase # "gone" /\ scroll # "still" /\ scroll' = "still"
    /\ IF rootExpanded THEN UNCHANGED <<deaf, paused>>
       ELSE /\ deaf' = FALSE
            /\ paused' = IF isMobile THEN paused \ visible ELSE paused \union (Views \ visible)
    /\ UNCHANGED <<rootState, visible, isMobile, expanded, muted, anim, promised, waysBack,
                   recordButton, browser, user>>

-----------------------------------------------------------------------------
(* The record button.                                                      *)

\* A click on it starts the countdown, and takes the ways back away.
PressRecord(v) ==
    /\ phase # "gone" /\ ~deaf /\ v \in recordOn \intersect recordHandler /\ ~Covered(v)
    /\ v \notin isCountdown /\ isCountdown' = isCountdown \union {v}
    /\ recordOn' = recordOn \ {v}
    /\ backOn' = backOn \ {v} /\ keyListener' = keyListener \ {v}
    /\ UNCHANGED <<rootState, scrolling, instruments, backHandler, recordHandler, isRecording,
                   recordLeft, resets, browser, user>>

\* The first beat of the loop: what counts down starts to record.
FirstBeat ==
    LET start == isCountdown \ isRecording IN
    /\ phase # "gone" /\ start # {}
    /\ isCountdown' = isCountdown \ start /\ isRecording' = isRecording \union start
    /\ recordLeft' = [v \in Views |-> IF v \in start THEN Loop ELSE recordLeft[v]]
    /\ UNCHANGED <<rootState, scrolling, instruments, waysBack, recordOn, recordHandler, resets, browser, user>>

\* Mutants: Escape stays dead, or recording has no end.
RecordFrameKeyless ==
    LET drawn == (isRecording \intersect expanded) \ paused
        over == {v \in drawn : recordLeft[v] = 0}
    IN  /\ drawn # {}
        /\ recordLeft' = [v \in Views |-> IF v \in drawn \ over THEN recordLeft[v] - 1 ELSE recordLeft[v]]
        /\ isRecording' = isRecording \ over
        /\ resets' = resets \union over
        /\ backOn' = backOn \union over
        /\ UNCHANGED <<rootState, scrolling, instruments, keyListener, backHandler, recordOn,
                       recordHandler, isCountdown, browser, user>>
RecordFrameWraps ==
    LET drawn == (isRecording \intersect expanded) \ paused IN
    /\ drawn # {}
    /\ recordLeft' = [v \in Views |-> IF v \notin drawn THEN recordLeft[v]
                                      ELSE IF recordLeft[v] = 0 THEN Loop ELSE recordLeft[v] - 1]
    /\ UNCHANGED <<rootState, scrolling, instruments, waysBack, recordOn, recordHandler, isRecording,
                   resets, isCountdown, browser, user>>

\* A frame: only instruments that are expanded and not paused draw their button.
RecordFrame ==
    LET drawn == (isRecording \intersect expanded) \ paused
        over == {v \in drawn : recordLeft[v] = 0}
    IN  /\ phase # "gone" /\ drawn # {}
        /\ recordLeft' = [v \in Views |-> IF v \in drawn \ over THEN recordLeft[v] - 1 ELSE recordLeft[v]]
        /\ isRecording' = isRecording \ over
        /\ resets' = resets \union over
        /\ backOn' = backOn \union over /\ keyListener' = keyListener \union over
        /\ UNCHANGED <<rootState, scrolling, instruments, backHandler, recordOn, recordHandler,
                       isCountdown, browser, user>>

\* 2.1 s later the button can be pressed again.
ResetRecord(v) ==
    /\ phase # "gone" /\ v \in resets /\ resets' = resets \ {v}
    /\ recordOn' = recordOn \union {v}
    /\ UNCHANGED <<rootState, scrolling, instruments, waysBack, recordHandler, isCountdown,
                   isRecording, recordLeft, browser, user>>

-----------------------------------------------------------------------------

ViewsNext ==
    \/ \E v \in Views : \/ Activate(v) \/ PressBack(v) \/ PressRecord(v)
                        \/ Grown(v) \/ Opened(v) \/ Closed(v) \/ ResetRecord(v)
    \/ PressEscape \/ BrowserBackOrForward \/ HistoryCallback \/ Entered
    \/ Scroll \/ ScrollStop \/ FirstBeat \/ RecordFrame

\* Frames are drawn, so animations and timeouts end.
ViewsFairness ==
    /\ WF_viewsVars(Entered) /\ WF_viewsVars(HistoryCallback) /\ WF_viewsVars(RecordFrame)
    /\ \A v \in Views : WF_viewsVars(Grown(v) \/ Opened(v) \/ Closed(v))

ViewsSpec == ViewsInit /\ [][ViewsNext]_viewsVars /\ ViewsFairness

-----------------------------------------------------------------------------

Hashes == {Page, Playing} \union {Editing(v) : v \in Views}

ViewsTypeOK ==
    /\ phase \in {"entering", "in", "gone"} /\ currentView \in Views \union {Nobody}
    /\ {rootExpanded, isScrollingDisabled, visualizersHidden, deaf, isMobile, hasty} \subseteq BOOLEAN
    /\ scroll \in {"still", "moving", "settling"}
    /\ \A S \in {visible, expanded, paused, muted, backOn, backHandler, keyListener, recordOn,
                 recordHandler, isCountdown, isRecording, resets} : S \subseteq Views
    /\ anim \in [Views -> {"still", "growing", "controls", "shrinking"}]
    /\ promised \in [Views -> {"none", "open", "openSkip", "close", "closeSkip"}]
    /\ recordLeft \in [Views -> 0..Loop]
    /\ at \in 1..Len(entries) /\ \A i \in DOMAIN entries : entries[i] \in Hashes
    /\ \A i \in DOMAIN calls : calls[i] \in Hashes
    /\ moves \in 0..MaxMoves

AtRest == phase = "in" /\ Moving = {} /\ calls = <<>>

(***************************************************************************)
(* When the user waits for the animations, everything that opening and     *)
(* closing changes agrees once they are over, however the instrument was   *)
(* opened or closed: the hash, what is expanded, what scrolls, what is     *)
(* muted and what is drawn (Root.js, HistoryManager.js).                   *)
(***************************************************************************)
InSync ==
    AtRest /\ ~hasty =>
      /\ entries[at] = IF expanded = {} THEN Playing ELSE Editing(currentView)
      /\ expanded = {currentView} \ {Nobody}
      /\ rootExpanded = (expanded # {})
      /\ isScrollingDisabled = rootExpanded /\ visualizersHidden = rootExpanded
      /\ muted = IF expanded = {} THEN {} ELSE Views \ expanded
      /\ expanded \intersect paused = {}

(***************************************************************************)
(* Handlers belong to instruments that are expanded, and one that is       *)
(* expanded can be left with Escape unless it counts down or records,      *)
(* though an instrument that records can be closed and reopened with the   *)
(* browser's buttons (InstrumentContainer.js, RecordButton.js).            *)
(***************************************************************************)
HandlersOfExpanded ==
    /\ keyListener \union backHandler \union recordHandler \subseteq expanded
    /\ expanded \ (isCountdown \union isRecording) \subseteq keyListener

(***************************************************************************)
(* Nothing stays locked: when no instrument is expanded and nothing moves, *)
(* the page scrolls, the visualizers are back and an instrument can be     *)
(* opened, whatever promises were lost on the way (Root.js).               *)
(***************************************************************************)
NothingLocked ==
    AtRest /\ expanded = {} => ~isScrollingDisabled /\ ~visualizersHidden /\ ~rootExpanded

\* A recording comes to its end while the instrument is expanded and drawn.
RecordingEnds ==
    \A v \in Views :
      v \in isRecording ~> (v \notin isRecording \/ v \notin expanded \/ v \in paused \/ phase = "gone")

=============================================================================
