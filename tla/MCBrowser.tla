----------------------------- MODULE MCBrowser -----------------------------
(***************************************************************************)
(* The parts of the browser's side for which only safety is checked: My    *)
(* Schedule and its queue, the page router, the countdown, and of the      *)
(* experiment the engine, the instruments, the guitar's strings, the       *)
(* drums, the hexagons and the link of a composition, and the markers of   *)
(* the globe.  They keep their state to themselves, so a behaviour chooses *)
(* one part, which takes the steps of its own specification, and the       *)
(* others stay in one of their initial states.                             *)
(***************************************************************************)
EXTENDS OfflineQueue, AudioEngine, Instruments, Stage, DrumKit, Composition,
        PageRouter, Countdown, KdTree

VARIABLE part

Parts == {"queue", "engine", "instrument", "guitar", "drums", "hexagons", "composition",
          "router", "countdown", "globe"}

-----------------------------------------------------------------------------
(* Values of the constants.                                                *)

Note(b, s) == [beat |-> b, sound |-> s]
TheStored == {<<Note(0, 1), Note(1, 2)>>, <<Note(1, 1)>>}

String(pid, a, b) == [pid |-> pid, pointA |-> a, pointB |-> b]
TheStrings == {String(0, 0, 3), String(7, 1, 4)}

TheEdits == {<<>>, <<Numeral(5)>>, <<Numeral(0), Fraction(1, 1, 5)>>, <<Fraction(1, 0, 5)>>}
TheDefault == <<<<Fraction(1, 0, 5)>>, <<Numeral(0), Fraction(1, 1, 5)>>>>

TheSubpages ==
    [p \in {"home", "onsite", "about"} |-> IF p = "onsite" THEN {"event", "travel"} ELSE {}]

\* Points of the sphere of radius 3, two of them at one place.
SevenMarkers == << <<2, 1, 2>>, <<-2, -1, 2>>, <<1, -2, 2>>, <<1, 2, 2>>,
                   <<1, -2, -2>>, <<0, 3, 0>>, <<2, 1, 2>> >>
Clicks == {<<2, 1, -2>>, <<-1, 2, 2>>, <<0, 0, -3>>, <<-2, -2, 1>>}

-----------------------------------------------------------------------------
\* A part that takes no steps has one initial state.
Pinned ==
    /\ part # "queue" => schedule = [u \in Users |-> {}]
    /\ part # "engine" => ~hidden
    /\ part # "instrument" => kind = "drums" /\ firstLoadData = <<Note(1, 1)>>
    /\ part # "hexagons" => hexagons = Grid(0, 0)
    /\ part # "router" => currentPlace.page = "home"
    /\ part # "countdown" => targetDate = 0 /\ ~running /\ unitCount = 1

BrowserInit ==
    /\ part \in Parts
    /\ Init /\ EngineInit /\ InstrumentInit /\ GuitarInit /\ KitInit /\ HexInit
    /\ CompositionInit /\ RouterInit /\ CountdownInit /\ Pinned
    /\ (part = "globe" \/ points = {1}) /\ KdTreeInit

theQueue == <<vars>>
theEngine == <<engineVars>>
theStage == <<instrumentVars, guitarVars, kitVars, hexVars, compositionVars>>
thePages == <<routerVars, countdownVars, treeVars>>

BrowserNext ==
    /\ UNCHANGED part
    /\ \/ part = "queue" /\ Next /\ UNCHANGED <<theEngine, theStage, thePages>>
       \/ part = "engine" /\ EngineNext /\ UNCHANGED <<theQueue, theStage, thePages>>
       \/ /\ part = "instrument" /\ InstrumentNext
          /\ UNCHANGED <<theQueue, theEngine, guitarVars, kitVars, hexVars, compositionVars, thePages>>
       \/ /\ part = "guitar" /\ GuitarNext
          /\ UNCHANGED <<theQueue, theEngine, instrumentVars, kitVars, hexVars, compositionVars, thePages>>
       \/ /\ part = "drums" /\ KitNext
          /\ UNCHANGED <<theQueue, theEngine, instrumentVars, guitarVars, hexVars, compositionVars, thePages>>
       \/ /\ part = "hexagons" /\ HexNext
          /\ UNCHANGED <<theQueue, theEngine, instrumentVars, guitarVars, kitVars, compositionVars, thePages>>
       \/ /\ part = "composition" /\ CompositionNext
          /\ UNCHANGED <<theQueue, theEngine, instrumentVars, guitarVars, kitVars, hexVars, thePages>>
       \/ /\ part = "router" /\ RouterNext
          /\ UNCHANGED <<theQueue, theEngine, theStage, countdownVars, treeVars>>
       \/ /\ part = "countdown" /\ CountdownNext
          /\ UNCHANGED <<theQueue, theEngine, theStage, routerVars, treeVars>>
       \/ /\ part = "globe" /\ KdTreeNext
          /\ UNCHANGED <<theQueue, theEngine, theStage, routerVars, countdownVars>>

BrowserSpec == BrowserInit /\ [][BrowserNext]_<<theQueue, theEngine, theStage, thePages, part>>

\* Every variable of the part that takes steps is of its type.
BrowserTypeOK ==
    /\ part \in Parts
    /\ part = "queue" => TypeOK
    /\ part = "engine" => EngineTypeOK
    /\ part = "instrument" => InstrumentTypeOK
    /\ part = "guitar" => GuitarTypeOK
    /\ part = "drums" => KitTypeOK
    /\ part = "hexagons" => HexTypeOK
    /\ part = "composition" => CompositionTypeOK
    /\ part = "router" => RouterTypeOK
    /\ part = "countdown" => CountdownTypeOK

(***************************************************************************)
(* On a globe of up to seven markers both searches of the tree are exact   *)
(* (kd-tree.js).                                                           *)
(***************************************************************************)
GlobeExact == part = "globe" => TreeExact

=============================================================================
