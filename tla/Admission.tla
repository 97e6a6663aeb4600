------------------------------ MODULE Admission ------------------------------
(***************************************************************************)
(* What QueueGate (wings_control/proxy/queueing.py) promises its callers,  *)
(* with no gates, queue or futures: at most Capacity requests are inside,  *)
(* a request that has to wait is let in or refused, an admission is never  *)
(* revoked, and every answer is final.                                     *)
(***************************************************************************)
EXTENDS Integers, FiniteSets

CONSTANTS Requests, Capacity

VARIABLE state

States == {"new", "waiting", "inside", "served", "refused"}

Inside == {r \in Requests : state[r] = "inside"}

Init == state = [r \in Requests |-> "new"]

Enter(r) ==
    /\ state[r] = "new"
    /\ Cardinality(Inside) < Capacity
    /\ state' = [state EXCEPT ![r] = "inside"]

\* Only a full system makes a request wait or turns it away at the door.
\* Making room for the newcomer may cost one waiting request its place.
Park(r, out) ==
    /\ state[r] = "new"
    /\ Cardinality(Inside) = Capacity
    /\ out \subseteq {s \in Requests : state[s] = "waiting"}
    /\ Cardinality(out) <= 1
    /\ state' = [s \in Requests |-> IF s = r THEN "waiting"
                                    ELSE IF s \in out THEN "refused" ELSE state[s]]

TurnAway(r) ==
    /\ state[r] = "new"
    /\ Cardinality(Inside) = Capacity
    /\ state' = [state EXCEPT ![r] = "refused"]

GiveUp(r) ==
    /\ state[r] = "waiting"
    /\ state' = [state EXCEPT ![r] = "refused"]

\* A request leaves; its place is passed on to a waiting one or falls vacant.
Leave(r, next) ==
    /\ state[r] = "inside"
    /\ next \subseteq {s \in Requests : state[s] = "waiting"}
    /\ Cardinality(next) <= 1
    /\ state' = [s \in Requests |-> IF s = r THEN "served"
                                    ELSE IF s \in next THEN "inside" ELSE state[s]]

Next ==
    \E r \in Requests :
        \/ Enter(r) \/ TurnAway(r) \/ GiveUp(r)
        \/ \E s \in SUBSET Requests : Park(r, s) \/ Leave(r, s)

Spec == Init /\ [][Next]_state
=============================================================================
