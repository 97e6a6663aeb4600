----------------------------- MODULE EarlyRelease -----------------------------
(***************************************************************************)
(* How the gate is used.  wings_control/proxy/gateway.py uses it early:    *)
(* both forwarding paths call acquire() and, with no suspension between    *)
(* them, release(), and only then send the request to the backend          *)
(* (_acquire_gate_early and _acquire_gate_early_nonstream).  A caller of   *)
(* the other kind holds its ticket until it has its answer, as the class   *)
(* is written for: that is QueueGate itself.                               *)
(***************************************************************************)
EXTENDS QueueGate

VARIABLES
    use,            \* "early" or "held"; it never changes
    forwarding      \* used early, the requests the backend is working on

gwVars == <<vars, use, forwarding>>

LateRelease == TRUE

\* A task that comes out of acquire() runs on into release(): no other task gets
\* the event loop while one holds a ticket.
LoopIsFree == \A r \in Requests : pc[r] # "holding"

GwInit == Init /\ use \in {"early", "held"} /\ forwarding = {}

EnterGate(r) ==
    /\ LoopIsFree
    /\ Acquire(r) \/ PutterResumes(r) \/ Timeout(r) \/ Inherit(r)
    /\ UNCHANGED forwarding

ReleaseAndSend(r) ==
    /\ Release(r)
    /\ forwarding' = forwarding \cup {r}

Finish(r) ==
    /\ LoopIsFree
    /\ r \in forwarding
    /\ forwarding' = forwarding \ {r}
    /\ UNCHANGED vars

GwTerminating == Terminating /\ forwarding = {} /\ UNCHANGED forwarding

Gateway ==
    \/ \E r \in Requests : EnterGate(r) \/ ReleaseAndSend(r) \/ Finish(r)
    \/ GwTerminating

GwNext ==
    /\ \/ use = "early" /\ Gateway
       \/ use = "held" /\ Next /\ UNCHANGED forwarding
    /\ UNCHANGED use

GwSpec == GwInit /\ [][GwNext]_gwVars

\* What goes on by itself goes on here as it does in FairSpec.
GwFairSpec == GwSpec /\ \A r \in Requests : WF_vars(Progress(r))

-----------------------------------------------------------------------------
\* As long as one gate has a ticket at all, nobody ever waits in the queue, times
\* out or is refused, whatever the arrival rate.
NeverWaits ==
    use = "early" /\ G0Cap + G1Cap > 0 =>
        \A r \in Requests : pc[r] \in {"idle", "holding", "served"}

\* At most max_inflight requests are in progress at once (queueing.py line 115).
InFlightBounded == Cardinality(forwarding) <= G0Cap + G1Cap
=============================================================================
