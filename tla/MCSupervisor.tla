---------------------------- MODULE MCSupervisor ----------------------------
(* Supervisor with the processes of the standalone and the master role (Both) *)
(* and with those of the worker role and of the other ranks (HealthOnly).     *)
EXTENDS Supervisor

Both == <<"proxy", "health">>
HealthOnly == <<"health">>
=============================================================================
