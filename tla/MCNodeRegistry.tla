--------------------------- MODULE MCNodeRegistry ---------------------------
(* NodeRegistry on small instances.  One unit of time is 15 s, so 2 is 30 s. *)
EXTENDS NodeRegistry, TLC

SumOfBackoffs[k \in 0..Outage] ==
    IF k = 0 THEN BeatInterval + CallTime ELSE SumOfBackoffs[k - 1] + Backoff(k) + CallTime

Boot == [k \in 0..(MaxAttempts - 1) |-> k * AttemptTime]

ASSUME ShortOutage == OutageIsShort(Boot, SumOfBackoffs)

Alike == Permutations(Ids)
=============================================================================
