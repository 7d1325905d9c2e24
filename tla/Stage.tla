------------------------------- MODULE Stage -------------------------------
(***************************************************************************)
(* The guitar and the hexagons side by side: two instruments of the        *)
(* experiment's stage (experiment/app/views/InstrumentContainer.js builds  *)
(* them), each with its own data and its own handlers.                     *)
(***************************************************************************)
EXTENDS GuitarStrings, HexWave

\* Neither has a handler that touches the other's state.
StageSpec == GuitarSpec /\ HexSpec

-----------------------------------------------------------------------------

(***************************************************************************)
(* What the stage shows is what its data say: the strings of the guitar    *)
(* and its pool, the hexagons with the wave that lights them               *)
(* (GuitarView.js and HexagonView.js; GuitarStrings and HexWave say how).  *)
(***************************************************************************)
StageAgrees == StringsMatchDots /\ WaveReachesAll

=============================================================================
