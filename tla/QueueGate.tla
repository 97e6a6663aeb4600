------------------------------ MODULE QueueGate ------------------------------
(***************************************************************************)
(* wings_control/proxy/queueing.py, class QueueGate: two gates of tickets  *)
(* (semaphores g0 and g1) in front of a bounded asyncio.Queue of waiters.  *)
(*                                                                         *)
(* A request is one asyncio task.  It calls acquire() once; when acquire() *)
(* returns it holds a ticket of one layer until it calls release().  The   *)
(* event loop runs one task at a time, from one suspension to the next, so *)
(* an action is the code a task runs between two suspensions: acquire() up *)
(* to its first suspension, the code after q.put() or after wait_for(), a  *)
(* whole release() (its "await q.get()" is only reached when the queue is  *)
(* not empty, and then does not suspend).                                  *)
(***************************************************************************)
EXTENDS Integers, Sequences, FiniteSets

CONSTANTS
    Requests,       \* the request tasks
    G0Cap, G1Cap,   \* tickets of Gate-0 and of Gate-1 in this worker
    Settings        \* the settings of the queue that are considered

ASSUME GateAssumption ==
    /\ IsFiniteSet(Requests)
    /\ G0Cap \in Nat /\ G1Cap \in Nat
    /\ Settings \subseteq [qmax: Nat, policy: {"drop_oldest", "other"},
                           mode: {"block", "drop_oldest", "reject"}]

VARIABLES
    conf,     \* the settings of this process, which never change
    pc,       \* what each request is doing, see Stage
    layer,    \* layer[r]: the layer of the ticket r holds or was handed
    free,     \* free[l]: Semaphore._value of layer l
    queue,    \* the waiters in asyncio.Queue, oldest first
    putters   \* the tasks suspended in q.put(), in asyncio.Queue._putters

vars == <<conf, pc, layer, free, queue, putters>>

QMax == conf.qmax             \* max_qsize; 0 disables the queue
RejectPolicy == conf.policy   \* QUEUE_REJECT_POLICY
OverflowMode == conf.mode     \* QUEUE_OVERFLOW_MODE

Layers == {0, 1}
Cap(l) == IF l = 0 THEN G0Cap ELSE G1Cap

\* A waiter's future is pending while its task is "queued", has a layer as its
\* result once "handed", and is done in the other stages.  A task whose future
\* holds an exception has nothing left to do but raise it, so "dropped" is final.
Waiting == {"blocked", "woken", "queued"}
Refusal == {"dropped", "timeout", "full", "disabled"}
Stage   == {"idle", "handed", "holding", "served"} \cup Waiting \cup Refusal

Init ==
    /\ conf \in Settings
    /\ pc = [r \in Requests |-> "idle"]
    /\ layer = [r \in Requests |-> 0]
    /\ free = [l \in Layers |-> Cap(l)]
    /\ queue = <<>>
    /\ putters = <<>>

-----------------------------------------------------------------------------
Full == Len(queue) >= QMax
NoTicket == \A l \in Layers : free[l] = 0

\* Positions of the queue whose future is still pending.  The other positions
\* hold waiters that timed out: nothing removes them before they are popped.
LiveAt == {i \in DOMAIN queue : pc[queue[i]] = "queued"}
OldestLive(i) == i \in LiveAt /\ \A j \in LiveAt : i <= j

\* n calls of asyncio.Queue.get_nowait: n items leave at the front and each
\* call wakes the putter that has been suspended longest.
WokenBy(n) == {putters[k] : k \in {j \in DOMAIN putters : j <= n}}
Pop(n, tail) ==
    /\ queue' = SubSeq(queue, n + 1, Len(queue)) \o tail
    /\ putters' = SubSeq(putters, n + 1, Len(putters))
Advance(moved, n) ==
    pc' = [r \in Requests |-> IF r \in DOMAIN moved THEN moved[r]
                              ELSE IF r \in WokenBy(n) THEN "woken" ELSE pc[r]]
Move(r, stage) == pc' = [pc EXCEPT ![r] = stage]

-----------------------------------------------------------------------------
\* acquire(), fast path: a ticket of Gate-0, else one of Gate-1.  The queue is
\* not looked at: a newcomer may pass the waiters in it.
AcquireDirect(r, l) ==
    /\ pc[r] = "idle"
    /\ free[l] > 0
    /\ l = 1 => free[0] = 0
    /\ free' = [free EXCEPT ![l] = @ - 1]
    /\ layer' = [layer EXCEPT ![r] = l]
    /\ Move(r, "holding")
    /\ UNCHANGED <<conf, queue, putters>>

MustQueue(r) == pc[r] = "idle" /\ NoTicket /\ QMax > 0

RejectDisabled(r) ==
    /\ pc[r] = "idle" /\ NoTicket /\ QMax = 0
    /\ Move(r, "disabled")
    /\ UNCHANGED <<conf, layer, free, queue, putters>>

\* put() on a queue with room stores at once, in front of suspended putters.
EnqueueFree(r) ==
    /\ MustQueue(r) /\ ~Full
    /\ queue' = Append(queue, r)
    /\ Move(r, "queued")
    /\ UNCHANGED <<conf, layer, free, putters>>

EnqueueByDroppingAnyPolicy(r) ==
    /\ MustQueue(r) /\ Full
    /\ \E i \in DOMAIN queue :
        /\ OldestLive(i)
        /\ Pop(i, <<r>>)
        /\ Advance([s \in {r, queue[i]} |-> IF s = r THEN "queued" ELSE "dropped"], i)
    /\ UNCHANGED <<conf, layer, free>>

\* _handle_queue_full, policy drop_oldest: dead waiters are popped until a live
\* one is found; that one is failed with a 503 and the newcomer is stored.
EnqueueByDropping(r) ==
    /\ MustQueue(r) /\ Full /\ RejectPolicy = "drop_oldest"
    /\ \E i \in DOMAIN queue :
        /\ OldestLive(i)
        /\ Pop(i, <<r>>)
        /\ Advance([s \in {r, queue[i]} |-> IF s = r THEN "queued" ELSE "dropped"], i)
    /\ UNCHANGED <<conf, layer, free>>

\* The same when every waiter in the queue was dead: the queue is empty now, and
\* the newcomer is stored or, unless the overflow mode is block, refused.
EnqueueOverDead(r) ==
    /\ MustQueue(r) /\ Full /\ RejectPolicy = "drop_oldest" /\ LiveAt = {}
    /\ LET stored == OverflowMode = "block" IN
        /\ Pop(Len(queue), IF stored THEN <<r>> ELSE <<>>)
        /\ Advance([s \in {r} |-> IF stored THEN "queued" ELSE "full"], Len(queue))
    /\ UNCHANGED <<conf, layer, free>>

RejectFull(r) ==
    /\ MustQueue(r) /\ Full /\ RejectPolicy # "drop_oldest" /\ OverflowMode # "block"
    /\ Move(r, "full")
    /\ UNCHANGED <<conf, layer, free, queue, putters>>

\* q.put() on a full queue: the task suspends, and no timeout runs yet.
PutBlocks(r) ==
    /\ MustQueue(r) /\ Full /\ RejectPolicy # "drop_oldest" /\ OverflowMode = "block"
    /\ putters' = Append(putters, r)
    /\ Move(r, "blocked")
    /\ UNCHANGED <<conf, layer, free, queue>>

PutterStoresBlindly(r) ==
    /\ pc[r] = "woken"
    /\ queue' = Append(queue, r)
    /\ Move(r, "queued")
    /\ UNCHANGED <<conf, layer, free, putters>>

\* A woken putter tests the queue again; it does not try the gates again.
PutterResumes(r) ==
    /\ pc[r] = "woken"
    /\ IF Full THEN /\ putters' = Append(putters, r)
                    /\ Move(r, "blocked")
                    /\ UNCHANGED queue
               ELSE /\ queue' = Append(queue, r)
                    /\ Move(r, "queued")
                    /\ UNCHANGED putters
    /\ UNCHANGED <<conf, layer, free>>

TimeoutLosesHandover(r) ==
    /\ pc[r] \in {"queued", "handed"}
    /\ Move(r, "timeout")
    /\ UNCHANGED <<conf, layer, free, queue, putters>>

\* wait_for() gives up after QUEUE_TIMEOUT.  It looks at the future when the task
\* runs again, so a waiter that was handed a layer in between keeps it.
Timeout(r) ==
    /\ pc[r] = "queued"
    /\ Move(r, "timeout")
    /\ UNCHANGED <<conf, layer, free, queue, putters>>

InheritReacquires(r) ==
    /\ pc[r] = "handed"
    /\ free[layer[r]] > 0
    /\ free' = [free EXCEPT ![layer[r]] = @ - 1]
    /\ Move(r, "holding")
    /\ UNCHANGED <<conf, layer, queue, putters>>

\* _inherit_occupy: the task runs again and records the layer it was handed.
Inherit(r) ==
    /\ pc[r] = "handed"
    /\ Move(r, "holding")
    /\ UNCHANGED <<conf, layer, free, queue, putters>>

HandoverAlsoFrees(r) ==
    /\ pc[r] = "holding"
    /\ \E i \in DOMAIN queue :
        /\ OldestLive(i)
        /\ Pop(i, <<>>)
        /\ Advance([s \in {r, queue[i]} |-> IF s = r THEN "served" ELSE "handed"], i)
        /\ layer' = [layer EXCEPT ![queue[i]] = layer[r]]
    /\ free' = [free EXCEPT ![layer[r]] = @ + 1]
    /\ UNCHANGED conf

\* release() with a live waiter: the ticket goes to the oldest one.
ReleaseHandover(r) ==
    /\ pc[r] = "holding"
    /\ \E i \in DOMAIN queue :
        /\ OldestLive(i)
        /\ Pop(i, <<>>)
        /\ Advance([s \in {r, queue[i]} |-> IF s = r THEN "served" ELSE "handed"], i)
        /\ layer' = [layer EXCEPT ![queue[i]] = layer[r]]
    /\ UNCHANGED <<conf, free>>

ReleaseIgnoresQueue(r) ==
    /\ pc[r] = "holding"
    /\ Move(r, "served")
    /\ free' = [free EXCEPT ![layer[r]] = @ + 1]
    /\ UNCHANGED <<conf, layer, queue, putters>>

\* release() without one: the queue is emptied and the ticket goes back.
ReleaseTicket(r) ==
    /\ pc[r] = "holding" /\ LiveAt = {}
    /\ Pop(Len(queue), <<>>)
    /\ Advance([s \in {r} |-> "served"], Len(queue))
    /\ free' = [free EXCEPT ![layer[r]] = @ + 1]
    /\ UNCHANGED <<conf, layer>>

Release(r) == ReleaseHandover(r) \/ ReleaseTicket(r)

Acquire(r) ==
    \/ \E l \in Layers : AcquireDirect(r, l)
    \/ RejectDisabled(r) \/ RejectFull(r)
    \/ EnqueueFree(r) \/ EnqueueByDropping(r) \/ EnqueueOverDead(r)
    \/ PutBlocks(r)

\* What the event loop, the timer or the request's own handler does next.
Progress(r) == PutterResumes(r) \/ Timeout(r) \/ Inherit(r) \/ Release(r)

\* Every request has been answered: the run is over.
Terminating ==
    /\ \A r \in Requests : pc[r] \in Refusal \cup {"served"}
    /\ UNCHANGED vars

Next == (\E r \in Requests : Acquire(r) \/ Progress(r)) \/ Terminating

Spec == Init /\ [][Next]_vars

\* The event loop runs every ready task, timers fire, and a request that holds a
\* ticket releases it (the code after acquire() does not wait for another request).
FairSpec == Spec /\ \A r \in Requests : WF_vars(Progress(r))
-----------------------------------------------------------------------------
\* Every variable has its type; requests in the queue or in _putters are requests.
TypeOK ==
    /\ conf \in Settings
    /\ pc \in [Requests -> Stage]
    /\ layer \in [Requests -> Layers]
    /\ free \in [Layers -> Nat]
    /\ queue \in Seq(Requests)
    /\ putters \in Seq(Requests)

Users(l) == {r \in Requests : pc[r] \in {"handed", "holding"} /\ layer[r] = l}

\* No ticket is lost or made: the tickets of a layer that are free, held, or on
\* their way to a waiter that has not run yet always add up to its capacity
\* (release() lines 220-240 against _try_direct_gate and _inherit_occupy).
TicketConservation == \A l \in Layers : free[l] + Cardinality(Users(l)) = Cap(l)

\* The queue never exceeds its size and no live waiter is missing from it or in
\* it twice; a task suspended in put() is registered once, so a pop can wake it.
QueueConsistent ==
    /\ Len(queue) <= QMax
    /\ \A r \in Requests :
        /\ pc[r] = "queued" => Cardinality({i \in DOMAIN queue : queue[i] = r}) = 1
        /\ (pc[r] = "blocked") <=> \E i \in DOMAIN putters : putters[i] = r
    /\ \A i, j \in DOMAIN putters : putters[i] = putters[j] => i = j

\* A full queue never makes a task suspend in put().
NeverBlocks == RejectPolicy = "drop_oldest" \/ OverflowMode # "block"

\* Unless put() can suspend, nobody waits beside a free ticket, so a newcomer on the
\* fast path of acquire() never overtakes a waiter (class docstring, lines 106-107).
NoIdleTicket == NeverBlocks /\ (\E r \in Requests : pc[r] \in Waiting) => NoTicket

\* The same in every mode, as the docstring has it: a suspended put() breaks it.
NobodyWaitsIdly == (\E r \in Requests : pc[r] \in Waiting) => NoTicket

\* A waiter that was accepted leaves the queue with a ticket or by its own
\* timeout: only the drop_oldest policy takes its place away from it.
KeepsItsPlace ==
    [][RejectPolicy # "drop_oldest" =>
         \A r \in Requests : pc[r] \in Waiting =>
            pc'[r] \in Waiting \cup {"handed", "timeout"}]_vars

\* A request refused with "server busy: queue full" (lines 317-329) leaves a queue
\* behind that really is full.
FullMeansFull ==
    [][\A r \in Requests : pc[r] = "idle" /\ pc'[r] = "full" => Len(queue') = QMax]_vars

\* Waiters are dropped in overflow mode drop_oldest only; block waits for room and
\* any other mode refuses the newcomer (class docstring, lines 109-112).
DropsOnlyInDropMode ==
    (\E r \in Requests : pc[r] = "dropped") => OverflowMode = "drop_oldest"

\* Every request that enters acquire() is answered: served or refused.
AlwaysAnswered ==
    \A r \in Requests : pc[r] # "idle" ~> pc[r] \in Refusal \cup {"served"}

\* Unless put() can suspend, every request that enters acquire() is answered.
Answered ==
    \A r \in Requests :
        NeverBlocks /\ pc[r] # "idle" ~> pc[r] \in Refusal \cup {"served"}

\* The gate implements the abstract admission control: its two layers are one
\* pool, and a ticket handed over counts as taken from that moment on.
AbsStage(x) ==
    CASE x = "idle" -> "new"
      [] x \in Waiting -> "waiting"
      [] x \in {"handed", "holding"} -> "inside"
      [] x = "served" -> "served"
      [] x \in Refusal -> "refused"
AbsState == [r \in Requests |-> AbsStage(pc[r])]

A == INSTANCE Admission WITH Capacity <- G0Cap + G1Cap, state <- AbsState
ImplementsAdmission == A!Spec
=============================================================================
