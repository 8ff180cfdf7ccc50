--------------------------- MODULE MCSchedulerWorker ---------------------------
(* Small instances of SchedulerWorker; the configurations differ in how the    *)
(* clock follows the guest.                                                     *)
EXTENDS SchedulerWorker
=============================================================================
