------------------------- MODULE MCSimulationControl ------------------------
(***************************************************************************)
(* SimulationControl for TLC.                                               *)
(***************************************************************************)
EXTENDS SimulationControl
=============================================================================
