--------------------------- MODULE MCHealthMonitor ---------------------------
(* HealthMonitor with the thresholds of a cfg. *)
EXTENDS HealthMonitor
=============================================================================
