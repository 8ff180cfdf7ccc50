------------------------ MODULE MCNotificationQueue ------------------------
(***************************************************************************)
(* NotificationQueue on small instances, with two telemetry streams.        *)
(***************************************************************************)
EXTENDS NotificationQueue

CONSTANTS k1, k2

\* One stream fits in the budget, the other never does.
MCFrameSizes == [k \in Keys |-> IF k = k1 THEN {1, 2} ELSE {4}]

\* A stream whose frames may outgrow the budget.
MCGrowingSizes == [k \in Keys |-> {2, 4}]
=============================================================================
