------------------------------- MODULE MCRelay -------------------------------
(* Relay on small instances: the answer to "any" has chunks of every kind and *)
(* that to "plain" no middle ones.                                            *)
EXTENDS Relay

Two == {"any", "plain"}
One == {"any"}
KindsOf == [r \in Requests |-> IF r = "any" THEN AllKinds ELSE AllKinds \ {"middle"}]
UpToThree == [r \in Requests |-> 3]
=============================================================================
