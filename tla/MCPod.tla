--------------------------------- MODULE MCPod ---------------------------------
(* Pod with two kinds of manifest: with both probes, of which liveness gives *)
(* up first, and with a readiness probe only.                                *)
EXTENDS Pod

BothProbes == [backend |-> "other", live |-> 3, ready |-> 14, crashes |-> 1]
ReadinessOnly == [backend |-> "other", live |-> 0, ready |-> 2, crashes |-> 1]
Manifests == {BothProbes, ReadinessOnly}

ASSUME ManifestsKeepTheirOrder == ComesUpInTime /\ ReadinessWaits
===============================================================================
