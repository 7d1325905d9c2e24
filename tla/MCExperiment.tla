--------------------------- MODULE MCExperiment ---------------------------
(***************************************************************************)
(* The bus of scheduled sounds and the views that open, close and record.  *)
(* They keep their state to themselves, so a behaviour chooses one part,   *)
(* which takes the steps of its own specification, and the other stays in  *)
(* an initial state.                                                       *)
(***************************************************************************)
EXTENDS PlaybackBus, ExperimentViews

VARIABLE part

Parts == {"bus", "views"}

TheLists == {"notes", "beats", "notePool", "beatPool"}
TheSounds == {"a", "b"}
TheBeats == {"c"}

Init ==
    /\ part \in Parts
    /\ BusInit /\ ViewsInit
    /\ part # "views" => visible = Views /\ ~isMobile

Next ==
    \/ part = "bus" /\ BusNext /\ UNCHANGED <<viewsVars, part>>
    \/ part = "views" /\ ViewsNext /\ UNCHANGED <<busVars, part>>

\* The fairness of the part that takes steps.
Fairness ==
    /\ WF_busVars(part = "bus" /\ \E elapsed \in 1..MaxElapsed : Tick(elapsed))
    /\ WF_busVars(part = "bus" /\ (CountDown \/ Fire \/ Freed \/ Walked))
    /\ WF_viewsVars(part = "views" /\ Entered)
    /\ WF_viewsVars(part = "views" /\ HistoryCallback)
    /\ WF_viewsVars(part = "views" /\ RecordFrame)
    /\ \A v \in Views : WF_viewsVars(part = "views" /\ (Grown(v) \/ Opened(v) \/ Closed(v)))

Spec == Init /\ [][Next]_<<busVars, viewsVars, part>> /\ Fairness

\* Every variable of the part that takes steps is of its type.
TypeOK ==
    /\ part \in Parts
    /\ part = "bus" => BusTypeOK
    /\ part = "views" => ViewsTypeOK

=============================================================================
