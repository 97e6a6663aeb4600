----------------------------- MODULE MCQueueGate -----------------------------
(* The gate and its two uses on small instances, with the settings that make *)
(* a difference, and the tickets of one of two workers of a pod.             *)
EXTENDS EarlyRelease, Quota, TLC

SecondOfTwo == Share(4, 4, 2, 1)
Gate0 == SecondOfTwo.gate0
Gate1 == SecondOfTwo.gate1

Setting(q, p, m) == [qmax |-> q, policy |-> p, mode |-> m]

Deployed == {Setting(2, "drop_oldest", "block")}
Disabled == {Setting(0, "drop_oldest", "block")}
DropsElseRefuses == {Setting(1, "drop_oldest", "reject")}
Refuses == {Setting(2, "other", "reject")}
Blocks == {Setting(1, "other", "block")}
AllSettings == Deployed \cup Disabled \cup DropsElseRefuses \cup Refuses \cup Blocks

Alike == Permutations(Requests)
=============================================================================
