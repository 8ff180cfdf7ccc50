---------------------------- MODULE MCScheduler ----------------------------
(***************************************************************************)
(* Instances of Scheduler for TLC: their constants are in the .cfg files.   *)
(***************************************************************************)
EXTENDS Scheduler

=============================================================================
