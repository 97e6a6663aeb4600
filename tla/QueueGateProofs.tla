--------------------------- MODULE QueueGateProofs ---------------------------
(***************************************************************************)
(* Proofs about QueueGate for every set of requests, every capacity and    *)
(* queue size, and every reject policy and overflow mode; about its use by *)
(* the gateway; and about the tickets that the limits of a pod leave to    *)
(* each worker.  Together: a worker always has a ticket, so none of its    *)
(* requests ever waits.                                                    *)
(***************************************************************************)
EXTENDS EarlyRelease, Quota, FiniteSetTheorems, TLAPS

\* The stages, spelled out once.
LEMMA Stages ==
    Stage = {"idle", "handed", "holding", "served", "blocked", "woken", "queued",
             "dropped", "timeout", "full", "disabled"}
BY DEF Stage, Waiting, Refusal

\* What stays of a sequence after a pop, and what put() appends, keeps the type.
LEMMA PopType ==
    ASSUME NEW n \in Nat, NEW tail \in Seq(Requests), TypeOK, Pop(n, tail)
    PROVE  queue' \in Seq(Requests) /\ putters' \in Seq(Requests)
<1>1. SubSeq(queue, n + 1, Len(queue)) \in Seq(Requests)
      BY DEF TypeOK
<1>2. SubSeq(putters, n + 1, Len(putters)) \in Seq(Requests)
      BY DEF TypeOK
<1> QED BY <1>1, <1>2 DEF Pop

\* A pop gives every request it moves, and every putter it wakes, a legal stage.
LEMMA AdvanceType ==
    ASSUME NEW moved, NEW n \in Nat, TypeOK, Advance(moved, n),
           \A r \in DOMAIN moved : moved[r] \in Stage
    PROVE  pc' \in [Requests -> Stage]
BY Stages DEF Advance, TypeOK

\* Every step of the gate keeps the types.
LEMMA TypeStep ==
    ASSUME TypeOK, [Next]_vars
    PROVE  TypeOK'
<1> USE GateAssumption, Stages
<1>1. ASSUME NEW r \in Requests, NEW l \in Layers, AcquireDirect(r, l) PROVE TypeOK'
      BY <1>1 DEF TypeOK, AcquireDirect, Move
<1>2. ASSUME NEW r \in Requests, RejectDisabled(r) PROVE TypeOK'
      BY <1>2 DEF TypeOK, RejectDisabled, Move
<1>3. ASSUME NEW r \in Requests, RejectFull(r) PROVE TypeOK'
      BY <1>3 DEF TypeOK, RejectFull, Move
<1>4. ASSUME NEW r \in Requests, EnqueueFree(r) PROVE TypeOK'
      BY <1>4 DEF TypeOK, EnqueueFree, Move
<1>5. ASSUME NEW r \in Requests, EnqueueByDropping(r) PROVE TypeOK'
  <2>1. PICK i \in DOMAIN queue :
          Pop(i, <<r>>) /\
          Advance([s \in {r, queue[i]} |-> IF s = r THEN "queued" ELSE "dropped"], i)
        BY <1>5 DEF EnqueueByDropping
  <2>2. i \in Nat /\ <<r>> \in Seq(Requests)
        BY DEF TypeOK
  <2>3. queue' \in Seq(Requests) /\ putters' \in Seq(Requests)
        BY <2>1, <2>2, PopType
  <2>4. pc' \in [Requests -> Stage]
        BY <2>1, <2>2, AdvanceType
  <2> QED BY <2>3, <2>4, <1>5 DEF TypeOK, EnqueueByDropping
<1>6. ASSUME NEW r \in Requests, EnqueueOverDead(r) PROVE TypeOK'
  <2> DEFINE stored == OverflowMode = "block"
             tail == IF stored THEN <<r>> ELSE <<>>
             moved == [s \in {r} |-> IF stored THEN "queued" ELSE "full"]
  <2>1. Pop(Len(queue), tail) /\ Advance(moved, Len(queue))
        BY <1>6 DEF EnqueueOverDead
  <2>2. Len(queue) \in Nat /\ tail \in Seq(Requests)
        BY DEF TypeOK
  <2>3. queue' \in Seq(Requests) /\ putters' \in Seq(Requests)
        BY <2>1, <2>2, PopType
  <2>4. \A s \in DOMAIN moved : moved[s] \in Stage OBVIOUS
  <2>5. pc' \in [Requests -> Stage]
        BY <2>1, <2>2, <2>4, AdvanceType
  <2> QED BY <2>3, <2>5, <1>6 DEF TypeOK, EnqueueOverDead
<1>7. ASSUME NEW r \in Requests, PutBlocks(r) PROVE TypeOK'
      BY <1>7 DEF TypeOK, PutBlocks, Move
<1>8. ASSUME NEW r \in Requests, PutterResumes(r) PROVE TypeOK'
  <2>1. /\ queue' \in {queue, Append(queue, r)}
        /\ putters' \in {putters, Append(putters, r)}
        /\ Move(r, "blocked") \/ Move(r, "queued")
        /\ UNCHANGED <<conf, layer, free>>
        BY <1>8 DEF PutterResumes
  <2>2. queue' \in Seq(Requests) /\ putters' \in Seq(Requests)
    <3>1. Append(queue, r) \in Seq(Requests) /\ Append(putters, r) \in Seq(Requests)
          BY DEF TypeOK
    <3> QED BY <2>1, <3>1 DEF TypeOK
  <2>3. pc' \in [Requests -> Stage]
        BY <2>1 DEF TypeOK, Move
  <2> QED BY <2>1, <2>2, <2>3 DEF TypeOK
<1>9. ASSUME NEW r \in Requests, Timeout(r) PROVE TypeOK'
      BY <1>9 DEF TypeOK, Timeout, Move
<1>10. ASSUME NEW r \in Requests, Inherit(r) PROVE TypeOK'
      BY <1>10 DEF TypeOK, Inherit, Move
<1>11. ASSUME NEW r \in Requests, ReleaseHandover(r) PROVE TypeOK'
  <2>1. PICK i \in DOMAIN queue :
          /\ Pop(i, <<>>)
          /\ Advance([s \in {r, queue[i]} |-> IF s = r THEN "served" ELSE "handed"], i)
          /\ layer' = [layer EXCEPT ![queue[i]] = layer[r]]
        BY <1>11 DEF ReleaseHandover
  <2>2. i \in Nat /\ <<>> \in Seq(Requests)
        BY DEF TypeOK
  <2>3. queue' \in Seq(Requests) /\ putters' \in Seq(Requests)
        BY <2>1, <2>2, PopType
  <2>4. pc' \in [Requests -> Stage]
        BY <2>1, <2>2, AdvanceType
  <2> QED BY <2>1, <2>3, <2>4, <1>11 DEF TypeOK, ReleaseHandover
<1>12. ASSUME NEW r \in Requests, ReleaseTicket(r) PROVE TypeOK'
  <2>1. Pop(Len(queue), <<>>) /\ Advance([s \in {r} |-> "served"], Len(queue))
        BY <1>12 DEF ReleaseTicket
  <2>2. Len(queue) \in Nat /\ <<>> \in Seq(Requests)
        BY DEF TypeOK
  <2>3. queue' \in Seq(Requests) /\ putters' \in Seq(Requests)
        BY <2>1, <2>2, PopType
  <2>4. \A s \in DOMAIN [s \in {r} |-> "served"] : [t \in {r} |-> "served"][s] \in Stage
        OBVIOUS
  <2>5. pc' \in [Requests -> Stage]
        BY <2>1, <2>2, <2>4, AdvanceType
  <2> QED BY <2>3, <2>5, <1>12 DEF TypeOK, ReleaseTicket
<1>13. CASE UNCHANGED vars
      BY <1>13 DEF TypeOK, vars
<1> QED
    BY <1>1, <1>2, <1>3, <1>4, <1>5, <1>6, <1>7, <1>8, <1>9, <1>10, <1>11, <1>12, <1>13
    DEF Next, Acquire, Progress, Release, Terminating

\* The type invariant of the gate (every action of acquire() and release()).
THEOREM TypeCorrect == Spec => []TypeOK
<1>1. Init => TypeOK
      BY GateAssumption, Stages DEF Init, TypeOK, Cap, Layers
<1>2. TypeOK /\ [Next]_vars => TypeOK'
      BY TypeStep
<1> QED BY <1>1, <1>2, PTL DEF Spec

-----------------------------------------------------------------------------
(***************************************************************************)
(* Tickets.  A pop may wake putters, so the stages a pop leaves alone are  *)
(* only known once _putters is known to hold suspended tasks, each once.   *)
(***************************************************************************)
PuttersOK ==
    /\ \A i \in DOMAIN putters : pc[putters[i]] = "blocked"
    /\ \A i, j \in DOMAIN putters : putters[i] = putters[j] => i = j

QueuedInQueue ==
    \A r \in Requests : pc[r] = "queued" => \E i \in DOMAIN queue : queue[i] = r

IInv == TypeOK /\ PuttersOK /\ TicketConservation /\ QueuedInQueue

\* Requests that a pop does not move on purpose keep their stage, or are woken.
LEMMA AdvanceOthers ==
    ASSUME TypeOK, PuttersOK, NEW n \in Nat, NEW moved, Advance(moved, n),
           NEW r \in Requests, r \notin DOMAIN moved
    PROVE  /\ pc[r] # "blocked" => pc'[r] = pc[r]
           /\ pc[r] = "blocked" => pc'[r] \in {"blocked", "woken"}
BY DEF Advance, WokenBy, PuttersOK, TypeOK

\* The requests that a pop moves on purpose are where it put them.
LEMMA AdvanceMoved ==
    ASSUME NEW n \in Nat, NEW moved, Advance(moved, n),
           NEW r \in Requests, r \in DOMAIN moved
    PROVE  pc'[r] = moved[r]
BY DEF Advance

\* The putters a pop leaves registered are the ones it has not woken.
LEMMA PopPutters ==
    ASSUME TypeOK, PuttersOK, NEW n \in Nat, NEW tail, NEW moved,
           Pop(n, tail), Advance(moved, n),
           \A r \in DOMAIN moved : pc[r] # "blocked"
    PROVE  PuttersOK'
<1> DEFINE rest == SubSeq(putters, n + 1, Len(putters))
<1>1. putters' = rest
      BY DEF Pop
<1>2. \A k \in DOMAIN rest : /\ k \in Nat \ {0} /\ k + n \in DOMAIN putters
                            /\ rest[k] = putters[k + n]
  <2>1. putters \in Seq(Requests)
        BY DEF TypeOK
  <2> QED BY <2>1
<1>3. \A k \in DOMAIN rest : rest[k] \in Requests /\ pc[rest[k]] = "blocked"
      BY <1>2 DEF PuttersOK, TypeOK
<1>4. \A k \in DOMAIN rest : rest[k] \notin WokenBy(n)
  <2> SUFFICES ASSUME NEW k \in DOMAIN rest, NEW j \in DOMAIN putters, j <= n,
                      rest[k] = putters[j]
               PROVE  FALSE
      BY DEF WokenBy
  <2>1. k + n = j
        BY <1>2 DEF PuttersOK
  <2>2. k \in Nat \ {0} /\ j \in Nat
        BY <1>2 DEF TypeOK
  <2> QED BY <2>1, <2>2
<1>5. \A k \in DOMAIN rest : pc'[rest[k]] = "blocked"
      BY <1>3, <1>4 DEF Advance
<1>6. \A i, j \in DOMAIN rest : rest[i] = rest[j] => i = j
  <2> SUFFICES ASSUME NEW i \in DOMAIN rest, NEW j \in DOMAIN rest, rest[i] = rest[j]
               PROVE  i = j
      OBVIOUS
  <2>1. i + n = j + n
        BY <1>2 DEF PuttersOK
  <2>2. i \in Nat /\ j \in Nat
        BY <1>2
  <2> QED BY <2>1, <2>2
<1> QED BY <1>1, <1>5, <1>6 DEF PuttersOK

\* A step that moves nobody in or out of the gates, and no ticket, conserves them.
UserStage == {"handed", "holding"}

\* The tickets of a layer that are in use can be counted.
LEMMA UsersFinite ==
    ASSUME TypeOK, NEW l \in Layers
    PROVE  IsFiniteSet(Users(l)) /\ Cardinality(Users(l)) \in Nat
<1>1. Users(l) \subseteq Requests
      BY DEF Users
<1> QED BY <1>1, FS_Subset, FS_CardinalityType, GateAssumption

\* Tickets are conserved by a step that leaves the gates and their users alone.
LEMMA ConservationFrame ==
    ASSUME TicketConservation, UNCHANGED <<layer, free>>,
           \A r \in Requests : pc[r] \in UserStage <=> pc'[r] \in UserStage
    PROVE  TicketConservation'
<1>1. ASSUME NEW l \in Layers PROVE Users(l)' = Users(l)
      BY DEF Users, UserStage
<1> QED BY <1>1 DEF TicketConservation

\* The ticket taken on the fast path is accounted to the request that took it.
LEMMA ConservedByDirect ==
    ASSUME TypeOK, TicketConservation, NEW r \in Requests, NEW l \in Layers,
           AcquireDirect(r, l)
    PROVE  TicketConservation'
<1> SUFFICES ASSUME NEW m \in Layers
             PROVE  free'[m] + Cardinality(Users(m)') = Cap(m)
    BY DEF TicketConservation, Cap
<1>1. CASE m = l
  <2>1. Users(m)' = Users(m) \cup {r} /\ r \notin Users(m)
        BY <1>1 DEF AcquireDirect, Move, Users, TypeOK
  <2>2. Cardinality(Users(m)') = Cardinality(Users(m)) + 1
        BY <2>1, UsersFinite, FS_AddElement
  <2>3. free'[m] = free[m] - 1 /\ free[m] \in Nat
        BY <1>1 DEF AcquireDirect, TypeOK
  <2> QED BY <2>2, <2>3, UsersFinite DEF TicketConservation
<1>2. CASE m # l
  <2>1. Users(m)' = Users(m) /\ free'[m] = free[m]
        BY <1>2 DEF AcquireDirect, Move, Users, TypeOK
  <2> QED BY <2>1 DEF TicketConservation
<1> QED BY <1>1, <1>2

\* A ticket handed over changes its user and never passes through the semaphore.
LEMMA ConservedByHandover ==
    ASSUME TypeOK, PuttersOK, TicketConservation, NEW r \in Requests,
           ReleaseHandover(r)
    PROVE  TicketConservation'
<1>1. PICK i \in DOMAIN queue :
        /\ OldestLive(i)
        /\ Advance([s \in {r, queue[i]} |-> IF s = r THEN "served" ELSE "handed"], i)
        /\ layer' = [layer EXCEPT ![queue[i]] = layer[r]]
      BY DEF ReleaseHandover
<1> DEFINE q == queue[i]
           moved == [s \in {r, q} |-> IF s = r THEN "served" ELSE "handed"]
<1>2. pc[r] = "holding" /\ pc[q] = "queued" /\ q \in Requests /\ i \in Nat
      BY <1>1 DEF ReleaseHandover, OldestLive, LiveAt, TypeOK
<1>3. q # r
      BY <1>2
<1>4. pc'[r] = "served" /\ pc'[q] = "handed"
      BY <1>1, <1>2, <1>3 DEF Advance, TypeOK
<1>5. ASSUME NEW s \in Requests, s # r, s # q
      PROVE  (pc[s] \in UserStage <=> pc'[s] \in UserStage) /\ layer'[s] = layer[s]
  <2>1. s \notin DOMAIN moved /\ Advance(moved, i)
        BY <1>1, <1>5
  <2>2. /\ pc[s] # "blocked" => pc'[s] = pc[s]
        /\ pc[s] = "blocked" => pc'[s] \in {"blocked", "woken"}
        BY <1>2, <2>1, AdvanceOthers
  <2> QED BY <2>2, <1>1, <1>2, <1>5 DEF UserStage, TypeOK
<1>6. layer'[q] = layer[r] /\ layer'[r] = layer[r]
      BY <1>1, <1>2, <1>3 DEF TypeOK
<1> SUFFICES ASSUME NEW m \in Layers
             PROVE  free'[m] + Cardinality(Users(m)') = Cap(m)
    BY DEF TicketConservation, Cap
<1>7. free'[m] = free[m]
      BY DEF ReleaseHandover
<1>8. CASE m = layer[r]
  <2>1. r \in Users(m) /\ q \notin Users(m) \ {r}
        BY <1>2, <1>8 DEF Users
  <2>2. Users(m)' = (Users(m) \ {r}) \cup {q}
        BY <1>2, <1>3, <1>4, <1>5, <1>6, <1>8 DEF Users, UserStage
  <2>3. /\ IsFiniteSet(Users(m) \ {r})
        /\ Cardinality(Users(m) \ {r}) = Cardinality(Users(m)) - 1
        BY <2>1, UsersFinite, FS_RemoveElement
  <2>4. Cardinality((Users(m) \ {r}) \cup {q}) = Cardinality(Users(m) \ {r}) + 1
        BY <2>1, <2>3, FS_AddElement
  <2> QED BY <1>7, <2>2, <2>3, <2>4, UsersFinite DEF TicketConservation
<1>9. CASE m # layer[r]
  <2>1. Users(m)' = Users(m)
        BY <1>2, <1>3, <1>4, <1>5, <1>6, <1>9 DEF Users, UserStage
  <2> QED BY <1>7, <2>1 DEF TicketConservation
<1> QED BY <1>8, <1>9

\* A ticket nobody can take over goes back to its own layer.
LEMMA ConservedByTicket ==
    ASSUME TypeOK, PuttersOK, TicketConservation, NEW r \in Requests,
           ReleaseTicket(r)
    PROVE  TicketConservation'
<1> DEFINE moved == [s \in {r} |-> "served"]
<1>1. Advance(moved, Len(queue)) /\ Len(queue) \in Nat /\ pc[r] = "holding"
      BY DEF ReleaseTicket, TypeOK
<1>2. pc'[r] = "served"
      BY <1>1 DEF Advance, TypeOK
<1>3. ASSUME NEW s \in Requests, s # r
      PROVE  (pc[s] \in UserStage <=> pc'[s] \in UserStage) /\ layer'[s] = layer[s]
  <2>1. s \notin DOMAIN moved
        BY <1>3
  <2>2. /\ pc[s] # "blocked" => pc'[s] = pc[s]
        /\ pc[s] = "blocked" => pc'[s] \in {"blocked", "woken"}
        BY <1>1, <2>1, AdvanceOthers
  <2> QED BY <2>2 DEF ReleaseTicket, UserStage
<1>4. layer[r] \in Layers
      BY DEF TypeOK
<1> SUFFICES ASSUME NEW m \in Layers
             PROVE  free'[m] + Cardinality(Users(m)') = Cap(m)
    BY DEF TicketConservation, Cap
<1>5. CASE m = layer[r]
  <2>1. r \in Users(m) /\ Users(m)' = Users(m) \ {r}
        BY <1>1, <1>2, <1>3, <1>5 DEF Users, UserStage
  <2>2. Cardinality(Users(m)') = Cardinality(Users(m)) - 1
        BY <2>1, UsersFinite, FS_RemoveElement
  <2>3. free'[m] = free[m] + 1 /\ free[m] \in Nat
        BY <1>5 DEF ReleaseTicket, TypeOK
  <2> QED BY <2>2, <2>3, UsersFinite DEF TicketConservation
<1>6. CASE m # layer[r]
  <2>1. Users(m)' = Users(m) /\ free'[m] = free[m]
        BY <1>1, <1>2, <1>3, <1>6 DEF Users, UserStage, ReleaseTicket, TypeOK
  <2> QED BY <2>1 DEF TicketConservation
<1> QED BY <1>5, <1>6

-----------------------------------------------------------------------------
(***************************************************************************)
(* The inductive invariant: types, the registered putters, the tickets,    *)
(* and that a live waiter is in the queue.                                 *)
(***************************************************************************)
\* The oldest live waiter is the only live one a pop up to it removes.
LEMMA PopKeepsQueued ==
    ASSUME TypeOK, QueuedInQueue, NEW n \in Nat, NEW tail \in Seq(Requests), Pop(n, tail),
           NEW r \in Requests, pc[r] = "queued",
           \A k \in DOMAIN queue : k <= n => queue[k] # r
    PROVE  \E k \in DOMAIN queue' : queue'[k] = r
<1>1. PICK k \in DOMAIN queue : queue[k] = r
      BY DEF QueuedInQueue
<1>2. k > n /\ k <= Len(queue) /\ k \in Nat
      BY <1>1 DEF TypeOK
<1> DEFINE rest == SubSeq(queue, n + 1, Len(queue))
<1>3. rest \in Seq(Requests) /\ Len(rest) = Len(queue) - n
      BY <1>2 DEF TypeOK
<1>4. k - n \in DOMAIN rest /\ rest[k - n] = r
      BY <1>1, <1>2 DEF TypeOK
<1>5. queue' = rest \o tail
      BY DEF Pop
<1>6. k - n \in DOMAIN (rest \o tail) /\ (rest \o tail)[k - n] = rest[k - n]
      BY <1>3, <1>4
<1> QED BY <1>4, <1>5, <1>6

\* What was appended last is in the queue.
LEMMA TailInQueue ==
    ASSUME TypeOK, NEW n \in Nat, NEW r \in Requests, Pop(n, <<r>>)
    PROVE  \E k \in DOMAIN queue' : queue'[k] = r
<1> DEFINE rest == SubSeq(queue, n + 1, Len(queue))
<1>1. rest \in Seq(Requests)
      BY DEF TypeOK
<1>2. queue' = rest \o <<r>>
      BY DEF Pop
<1>3. /\ Len(rest) + 1 \in DOMAIN (rest \o <<r>>)
      /\ (rest \o <<r>>)[Len(rest) + 1] = r
  <2> HIDE DEF rest
  <2>1. <<r>> \in Seq(Requests) /\ Len(<<r>>) = 1 /\ <<r>>[1] = r /\ Len(rest) \in Nat
        BY <1>1
  <2> QED BY <1>1, <2>1
<1> QED BY <1>2, <1>3

\* What was in the queue is still in it after put(), and so is the newcomer.
LEMMA AppendInQueue ==
    ASSUME TypeOK, QueuedInQueue, NEW r \in Requests, queue' = Append(queue, r),
           NEW s \in Requests, pc[s] = "queued" \/ s = r
    PROVE  \E k \in DOMAIN queue' : queue'[k] = s
<1>0. queue \in Seq(Requests) /\ Len(queue) \in Nat
      BY DEF TypeOK
<1>1. CASE s = r
  <2>1. Len(queue) + 1 \in DOMAIN queue' /\ queue'[Len(queue) + 1] = r
        BY <1>0
  <2> QED BY <1>1, <2>1
<1>2. CASE pc[s] = "queued"
  <2>1. PICK k \in DOMAIN queue : queue[k] = s
        BY <1>2 DEF QueuedInQueue
  <2>2. k \in DOMAIN queue' /\ queue'[k] = s
        BY <1>0, <2>1
  <2> QED BY <2>2
<1> QED BY <1>1, <1>2

\* A newcomer that drops the oldest live waiter.
LEMMA IInvDropping ==
    ASSUME IInv, TypeOK', NEW r \in Requests, EnqueueByDropping(r)
    PROVE  IInv'
<1>1. PICK i \in DOMAIN queue :
        /\ OldestLive(i)
        /\ Pop(i, <<r>>)
        /\ Advance([s \in {r, queue[i]} |-> IF s = r THEN "queued" ELSE "dropped"], i)
      BY DEF EnqueueByDropping
<1> DEFINE q == queue[i]
           moved == [s \in {r, q} |-> IF s = r THEN "queued" ELSE "dropped"]
<1>2. /\ pc[r] = "idle" /\ pc[q] = "queued" /\ q \in Requests /\ i \in Nat
      /\ \A k \in DOMAIN queue : k <= i /\ pc[queue[k]] = "queued" => k = i
      BY <1>1 DEF EnqueueByDropping, MustQueue, OldestLive, LiveAt, IInv, TypeOK
<1>3. PuttersOK'
      BY <1>1, <1>2, PopPutters DEF IInv
<1>4. /\ pc'[r] = "queued" /\ pc'[q] = "dropped"
      /\ \A s \in Requests : s \notin {r, q} =>
            /\ pc[s] # "blocked" => pc'[s] = pc[s]
            /\ pc[s] = "blocked" => pc'[s] \in {"blocked", "woken"}
  <2>1. pc'[r] = "queued" /\ pc'[q] = "dropped"
        BY <1>1, <1>2 DEF Advance
  <2>2. ASSUME NEW s \in Requests, s \notin DOMAIN moved
        PROVE  /\ pc[s] # "blocked" => pc'[s] = pc[s]
               /\ pc[s] = "blocked" => pc'[s] \in {"blocked", "woken"}
        BY <1>1, <1>2, <2>2, AdvanceOthers DEF IInv
  <2> QED BY <2>1, <2>2
<1>5. TicketConservation'
  <2>1. \A s \in Requests : pc[s] \in UserStage <=> pc'[s] \in UserStage
        BY <1>2, <1>4 DEF UserStage
  <2> QED BY <2>1, ConservationFrame DEF EnqueueByDropping, IInv
<1>6. QueuedInQueue'
  <2> SUFFICES ASSUME NEW s \in Requests, pc'[s] = "queued"
               PROVE  \E k \in DOMAIN queue' : queue'[k] = s
      BY DEF QueuedInQueue
  <2>1. CASE s = r
        BY <1>1, <1>2, <2>1, TailInQueue DEF IInv
  <2>2. CASE s # r
    <3>1. pc[s] = "queued" /\ s # q
          BY <1>4, <2>2
    <3>2. \A k \in DOMAIN queue : k <= i => queue[k] # s
          BY <1>2, <3>1
    <3>3. <<r>> \in Seq(Requests)
          OBVIOUS
    <3> QED BY <1>1, <1>2, <3>1, <3>2, <3>3, PopKeepsQueued DEF IInv
  <2> QED BY <2>1, <2>2
<1> QED BY <1>3, <1>5, <1>6 DEF IInv

\* A newcomer that finds only dead waiters in a full queue.
LEMMA IInvOverDead ==
    ASSUME IInv, TypeOK', NEW r \in Requests, EnqueueOverDead(r)
    PROVE  IInv'
<1> DEFINE stored == OverflowMode = "block"
           n == Len(queue)
           moved == [s \in {r} |-> IF stored THEN "queued" ELSE "full"]
<1>1. /\ Pop(n, IF stored THEN <<r>> ELSE <<>>) /\ Advance(moved, n)
      /\ n \in Nat /\ pc[r] = "idle" /\ LiveAt = {}
      BY DEF EnqueueOverDead, MustQueue, IInv, TypeOK
<1>2. PuttersOK'
      BY <1>1, PopPutters DEF IInv
<1>3. /\ pc'[r] = (IF stored THEN "queued" ELSE "full")
      /\ \A s \in Requests : s # r =>
            /\ pc[s] # "blocked" => pc'[s] = pc[s]
            /\ pc[s] = "blocked" => pc'[s] \in {"blocked", "woken"}
  <2>1. pc'[r] = moved[r]
        BY <1>1 DEF Advance
  <2>2. ASSUME NEW s \in Requests, s \notin DOMAIN moved
        PROVE  /\ pc[s] # "blocked" => pc'[s] = pc[s]
               /\ pc[s] = "blocked" => pc'[s] \in {"blocked", "woken"}
        BY <1>1, <2>2, AdvanceOthers DEF IInv
  <2> QED BY <2>1, <2>2
<1>4. TicketConservation'
  <2>1. \A s \in Requests : pc[s] \in UserStage <=> pc'[s] \in UserStage
        BY <1>1, <1>3 DEF UserStage
  <2> QED BY <2>1, ConservationFrame DEF EnqueueOverDead, IInv
<1>5. QueuedInQueue'
  <2> SUFFICES ASSUME NEW s \in Requests, pc'[s] = "queued"
               PROVE  \E k \in DOMAIN queue' : queue'[k] = s
      BY DEF QueuedInQueue
  <2>1. \A t \in Requests : pc[t] # "queued"
        BY <1>1 DEF IInv, QueuedInQueue, LiveAt
  <2>2. s = r /\ stored
        BY <1>3, <2>1
  <2> QED BY <1>1, <2>2, TailInQueue DEF IInv
<1> QED BY <1>2, <1>4, <1>5 DEF IInv

\* A release that hands its ticket over keeps the invariant.
LEMMA IInvHandover ==
    ASSUME IInv, TypeOK', NEW r \in Requests, ReleaseHandover(r)
    PROVE  IInv'
<1>1. PICK i \in DOMAIN queue :
        /\ OldestLive(i)
        /\ Pop(i, <<>>)
        /\ Advance([s \in {r, queue[i]} |-> IF s = r THEN "served" ELSE "handed"], i)
      BY DEF ReleaseHandover
<1> DEFINE q == queue[i]
           moved == [s \in {r, q} |-> IF s = r THEN "served" ELSE "handed"]
<1>2. /\ pc[r] = "holding" /\ pc[q] = "queued" /\ q \in Requests /\ i \in Nat
      /\ \A k \in DOMAIN queue : k <= i /\ pc[queue[k]] = "queued" => k = i
      BY <1>1 DEF ReleaseHandover, OldestLive, LiveAt, IInv, TypeOK
<1>3. PuttersOK'
      BY <1>1, <1>2, PopPutters DEF IInv
<1>4. TicketConservation'
      BY ConservedByHandover DEF IInv
<1>5. QueuedInQueue'
  <2> SUFFICES ASSUME NEW s \in Requests, pc'[s] = "queued"
               PROVE  \E k \in DOMAIN queue' : queue'[k] = s
      BY DEF QueuedInQueue
  <2>1. pc[s] = "queued" /\ s # q
    <3>1. CASE s \in DOMAIN moved
          BY <1>1, <3>1, AdvanceMoved, <1>2
    <3>2. CASE s \notin DOMAIN moved
          BY <1>1, <1>2, <3>2, AdvanceOthers DEF IInv
    <3> QED BY <3>1, <3>2
  <2>2. \A k \in DOMAIN queue : k <= i => queue[k] # s
        BY <1>2, <2>1
  <2>3. <<>> \in Seq(Requests)
        OBVIOUS
  <2> QED BY <1>1, <1>2, <2>1, <2>2, <2>3, PopKeepsQueued DEF IInv
<1> QED BY <1>3, <1>4, <1>5 DEF IInv

\* A release that gives its ticket back keeps the invariant.
LEMMA IInvTicket ==
    ASSUME IInv, TypeOK', NEW r \in Requests, ReleaseTicket(r)
    PROVE  IInv'
<1> DEFINE n == Len(queue)
           moved == [s \in {r} |-> "served"]
<1>1. /\ Pop(n, <<>>) /\ Advance(moved, n)
      /\ n \in Nat /\ pc[r] = "holding" /\ LiveAt = {}
      BY DEF ReleaseTicket, IInv, TypeOK
<1>2. PuttersOK'
      BY <1>1, PopPutters DEF IInv
<1>3. TicketConservation'
      BY ConservedByTicket DEF IInv
<1>4. QueuedInQueue'
  <2> SUFFICES ASSUME NEW s \in Requests, pc'[s] = "queued" PROVE FALSE
      BY DEF QueuedInQueue
  <2>1. pc[s] # "queued"
        BY <1>1 DEF IInv, QueuedInQueue, LiveAt
  <2>2. CASE s = r
        BY <1>1, <2>2, AdvanceMoved
  <2>3. CASE s # r
        BY <1>1, <2>1, <2>3, AdvanceOthers DEF IInv
  <2> QED BY <2>2, <2>3
<1> QED BY <1>2, <1>3, <1>4 DEF IInv

\* A task that suspends in put() is registered behind the others.
LEMMA PuttersAppend ==
    ASSUME TypeOK, PuttersOK, NEW r \in Requests, pc[r] # "blocked",
           putters' = Append(putters, r), Move(r, "blocked")
    PROVE  PuttersOK'
<1>1. /\ putters \in Seq(Requests) /\ Len(putters) \in Nat
      /\ \A i \in DOMAIN putters : putters[i] # r
      BY DEF TypeOK, PuttersOK
<1>2. \A i \in DOMAIN putters' :
        \/ i \in DOMAIN putters /\ putters'[i] = putters[i]
        \/ i = Len(putters) + 1 /\ putters'[i] = r
      BY <1>1
<1>3. pc'[r] = "blocked" /\ \A s \in Requests : s # r => pc'[s] = pc[s]
      BY DEF Move, TypeOK
<1>4. \A i \in DOMAIN putters' : pc'[putters'[i]] = "blocked"
      BY <1>1, <1>2, <1>3 DEF PuttersOK
<1>5. \A i, j \in DOMAIN putters' : putters'[i] = putters'[j] => i = j
      BY <1>1, <1>2 DEF PuttersOK
<1> QED BY <1>4, <1>5 DEF PuttersOK

\* The steps that leave _putters alone and do not touch a suspended task.
LEMMA PuttersFrame ==
    ASSUME TypeOK, PuttersOK, NEW r \in Requests, NEW stage, pc[r] # "blocked",
           UNCHANGED putters, Move(r, stage)
    PROVE  PuttersOK'
BY DEF PuttersOK, Move, TypeOK

\* Live waiters stay in a queue that does not change while no waiter is added.
LEMMA QueuedFrame ==
    ASSUME TypeOK, QueuedInQueue, NEW r \in Requests, NEW stage, stage # "queued",
           UNCHANGED queue, Move(r, stage)
    PROVE  QueuedInQueue'
BY DEF QueuedInQueue, Move, TypeOK

\* A move between stages that both have a ticket, or both have none, moves no user.
LEMMA MoveFrame ==
    ASSUME TypeOK, NEW r \in Requests, NEW stage, Move(r, stage),
           pc[r] \in UserStage <=> stage \in UserStage
    PROVE  \A s \in Requests : pc[s] \in UserStage <=> pc'[s] \in UserStage
BY DEF Move, TypeOK

\* Every step of the gate keeps the inductive invariant.
LEMMA IInvStep ==
    ASSUME IInv, [Next]_vars
    PROVE  IInv'
<1> USE DEF IInv
<1>0. TypeOK'
      BY TypeStep
<1>1. ASSUME NEW r \in Requests, NEW l \in Layers, AcquireDirect(r, l) PROVE IInv'
  <2>1. TicketConservation'
        BY <1>1, ConservedByDirect
  <2>2. PuttersOK'
        BY <1>1, PuttersFrame DEF AcquireDirect
  <2>3. QueuedInQueue'
        BY <1>1, QueuedFrame DEF AcquireDirect
  <2> QED BY <1>0, <2>1, <2>2, <2>3
<1>2. ASSUME NEW r \in Requests, NEW stage, UNCHANGED <<layer, free, queue, putters>>,
             Move(r, stage), stage # "queued", pc[r] # "blocked",
             pc[r] \in UserStage <=> stage \in UserStage
      PROVE  IInv'
  <2>1. TicketConservation'
        BY <1>2, MoveFrame, ConservationFrame
  <2>2. PuttersOK'
        BY <1>2, PuttersFrame
  <2>3. QueuedInQueue'
        BY <1>2, QueuedFrame
  <2> QED BY <1>0, <2>1, <2>2, <2>3
<1>3. ASSUME NEW r \in Requests, RejectDisabled(r) PROVE IInv'
      BY <1>2, <1>3 DEF RejectDisabled, UserStage
<1>4. ASSUME NEW r \in Requests, RejectFull(r) PROVE IInv'
      BY <1>2, <1>4 DEF RejectFull, MustQueue, UserStage
<1>5. ASSUME NEW r \in Requests, Timeout(r) PROVE IInv'
      BY <1>2, <1>5 DEF Timeout, UserStage
<1>6. ASSUME NEW r \in Requests, Inherit(r) PROVE IInv'
      BY <1>2, <1>6 DEF Inherit, UserStage
<1>7. ASSUME NEW r \in Requests, pc[r] \in {"idle", "woken"},
             queue' = Append(queue, r), Move(r, "queued"),
             UNCHANGED <<layer, free, putters>>
      PROVE  IInv'
  <2>1. TicketConservation'
        BY <1>7, MoveFrame, ConservationFrame DEF UserStage
  <2>2. PuttersOK'
        BY <1>7, PuttersFrame
  <2>3. QueuedInQueue'
    <3> SUFFICES ASSUME NEW s \in Requests, pc'[s] = "queued"
                 PROVE  \E k \in DOMAIN queue' : queue'[k] = s
        BY DEF QueuedInQueue
    <3>1. pc[s] = "queued" \/ s = r
          BY <1>7 DEF Move, TypeOK
    <3> QED BY <1>7, <3>1, AppendInQueue
  <2> QED BY <1>0, <2>1, <2>2, <2>3
<1>8. ASSUME NEW r \in Requests, pc[r] \in {"idle", "woken"},
             putters' = Append(putters, r), Move(r, "blocked"),
             UNCHANGED <<layer, free, queue>>
      PROVE  IInv'
  <2>1. TicketConservation'
        BY <1>8, MoveFrame, ConservationFrame DEF UserStage
  <2>2. PuttersOK'
        BY <1>8, PuttersAppend
  <2>3. QueuedInQueue'
        BY <1>8, QueuedFrame
  <2> QED BY <1>0, <2>1, <2>2, <2>3
<1>9. ASSUME NEW r \in Requests, EnqueueFree(r) PROVE IInv'
      BY <1>7, <1>9 DEF EnqueueFree, MustQueue
<1>10. ASSUME NEW r \in Requests, PutBlocks(r) PROVE IInv'
      BY <1>8, <1>10 DEF PutBlocks, MustQueue
<1>11. ASSUME NEW r \in Requests, PutterResumes(r) PROVE IInv'
      BY <1>7, <1>8, <1>11 DEF PutterResumes
<1>12. ASSUME NEW r \in Requests, EnqueueByDropping(r) PROVE IInv'
      BY <1>0, <1>12, IInvDropping
<1>13. ASSUME NEW r \in Requests, EnqueueOverDead(r) PROVE IInv'
      BY <1>0, <1>13, IInvOverDead
<1>14. ASSUME NEW r \in Requests, ReleaseHandover(r) PROVE IInv'
      BY <1>0, <1>14, IInvHandover
<1>15. ASSUME NEW r \in Requests, ReleaseTicket(r) PROVE IInv'
      BY <1>0, <1>15, IInvTicket
<1>16. CASE UNCHANGED vars
      BY <1>16 DEF vars, TypeOK, PuttersOK, TicketConservation, Users, QueuedInQueue
<1> QED
    BY <1>1, <1>3, <1>4, <1>5, <1>6, <1>9, <1>10, <1>11, <1>12, <1>13, <1>14, <1>15, <1>16
    DEF Next, Acquire, Progress, Release, Terminating

\* The inductive invariant holds of a gate nobody has used yet.
LEMMA IInvInit == Init => IInv
<1> SUFFICES ASSUME Init PROVE IInv
    OBVIOUS
<1>1. TypeOK
      BY GateAssumption, Stages DEF Init, TypeOK, Cap, Layers
<1>2. PuttersOK /\ QueuedInQueue
      BY DEF Init, PuttersOK, QueuedInQueue
<1>3. ASSUME NEW l \in Layers PROVE free[l] + Cardinality(Users(l)) = Cap(l)
  <2>1. Users(l) = {}
        BY DEF Init, Users
  <2>2. Cardinality(Users(l)) = 0
        BY <2>1, FS_EmptySet
  <2>3. free[l] = Cap(l) /\ Cap(l) \in Nat
        BY GateAssumption DEF Init, Cap
  <2> QED BY <2>2, <2>3
<1> QED BY <1>1, <1>2, <1>3 DEF IInv, TicketConservation

\* The inductive invariant holds of every reachable state.
LEMMA Inductive == Spec => []IInv
<1>1. IInv /\ [Next]_vars => IInv'
      BY IInvStep
<1> QED BY <1>1, IInvInit, PTL DEF Spec

\* For any number of requests and any capacities, in every policy and mode: the
\* tickets that are free, held or on their way to a waiter add up to the capacity
\* of their layer (release() and the ways into a gate).
THEOREM TicketsConserved == Spec => []TicketConservation
<1>1. IInv => TicketConservation
      BY DEF IInv
<1> QED BY <1>1, Inductive, PTL

-----------------------------------------------------------------------------
(***************************************************************************)
(* The queue keeps its size, nobody is in it twice, and a suspended task   *)
(* can be woken.  Whoever is in the queue still waits or has timed out,    *)
(* and a request never comes back: so it is never stored a second time.    *)
(***************************************************************************)
QInv ==
    /\ Len(queue) <= QMax
    /\ \A i \in DOMAIN queue : pc[queue[i]] \in {"queued", "timeout"}
    /\ \A i, j \in DOMAIN queue : queue[i] = queue[j] => i = j
    /\ \A r \in Requests : pc[r] = "blocked" => \E i \in DOMAIN putters : putters[i] = r

\* What a pop leaves of a sequence.
LEMMA Rest ==
    ASSUME NEW s \in Seq(Requests), NEW n \in Nat, n <= Len(s)
    PROVE  LET rest == SubSeq(s, n + 1, Len(s))
           IN  /\ rest \in Seq(Requests) /\ Len(rest) = Len(s) - n
               /\ DOMAIN rest = 1..(Len(s) - n) /\ DOMAIN s = 1..Len(s) /\ Len(s) \in Nat
               /\ \A k \in 1..(Len(s) - n) : rest[k] = s[k + n]
OBVIOUS

\* A suspended task that is not woken by a pop is still registered.
LEMMA PopKeepsSuspended ==
    ASSUME TypeOK, PuttersOK, QInv, NEW n \in Nat, NEW tail, NEW moved,
           Pop(n, tail), Advance(moved, n),
           \A r \in DOMAIN moved : moved[r] # "blocked",
           NEW r \in Requests, pc'[r] = "blocked"
    PROVE  \E i \in DOMAIN putters' : putters'[i] = r
<1>1. r \notin DOMAIN moved /\ r \notin WokenBy(n) /\ pc[r] = "blocked"
      BY DEF Advance
<1>2. PICK k \in DOMAIN putters : putters[k] = r
      BY <1>1 DEF QInv
<1>3. putters \in Seq(Requests) /\ putters' = SubSeq(putters, n + 1, Len(putters))
      BY DEF TypeOK, Pop
<1>4. k > n
      BY <1>1, <1>2, <1>3 DEF WokenBy
<1>5. k - n \in DOMAIN putters' /\ putters'[k - n] = r
  <2>1. n <= Len(putters) /\ k \in 1..Len(putters)
        BY <1>2, <1>3, <1>4
  <2> QED BY <1>2, <1>3, <1>4, <2>1, Rest
<1> QED BY <1>5

\* A pop that stores nobody.
LEMMA PopKeepsQInv ==
    ASSUME TypeOK, PuttersOK, QInv, NEW n \in Nat, n <= Len(queue), NEW moved,
           Pop(n, <<>>), Advance(moved, n),
           \A r \in DOMAIN moved : moved[r] # "blocked",
           \A k \in DOMAIN queue : queue[k] \in DOMAIN moved => k <= n,
           UNCHANGED conf
    PROVE  QInv'
<1> DEFINE rest == SubSeq(queue, n + 1, Len(queue))
<1>1. queue \in Seq(Requests)
      BY DEF TypeOK
<1>2. /\ rest \in Seq(Requests) /\ Len(rest) = Len(queue) - n /\ Len(queue) \in Nat
      /\ DOMAIN rest = 1..(Len(queue) - n) /\ DOMAIN queue = 1..Len(queue)
      /\ \A k \in 1..(Len(queue) - n) : rest[k] = queue[k + n]
      BY <1>1, Rest
<1>3. queue' = rest
  <2>1. queue' = rest \o <<>>
        BY DEF Pop
  <2> HIDE DEF rest
  <2> QED BY <1>2, <2>1
<1> HIDE DEF rest
<1>4. \A k \in DOMAIN rest : k + n \in DOMAIN queue /\ rest[k] = queue[k + n] /\ k > 0 /\ k \in Int
      BY <1>2
<1>5. Len(queue') <= QMax'
  <2>1. QMax' = QMax /\ QMax \in Nat
        BY GateAssumption DEF QMax, TypeOK
  <2> QED BY <1>2, <1>3, <2>1 DEF QInv
<1>6. \A k \in DOMAIN rest : pc'[rest[k]] \in {"queued", "timeout"}
  <2> SUFFICES ASSUME NEW k \in DOMAIN rest PROVE pc'[rest[k]] \in {"queued", "timeout"}
      OBVIOUS
  <2>1. pc[rest[k]] \in {"queued", "timeout"} /\ rest[k] \in Requests
        BY <1>1, <1>4 DEF QInv
  <2>2. rest[k] \notin DOMAIN moved
        BY <1>4
  <2> QED BY <2>1, <2>2, AdvanceOthers
<1>7. \A i, j \in DOMAIN rest : rest[i] = rest[j] => i = j
  <2> SUFFICES ASSUME NEW i \in DOMAIN rest, NEW j \in DOMAIN rest, rest[i] = rest[j] PROVE i = j
      OBVIOUS
  <2>1. i + n = j + n
        BY <1>4 DEF QInv
  <2> QED BY <1>4, <2>1
<1>8. \A r \in Requests : pc'[r] = "blocked" => \E i \in DOMAIN putters' : putters'[i] = r
      BY PopKeepsSuspended
<1> QED BY <1>3, <1>5, <1>6, <1>7, <1>8 DEF QInv

\* A pop of at least one that stores a newcomer.
LEMMA PopStoresQInv ==
    ASSUME TypeOK, PuttersOK, QInv, NEW n \in Nat, 0 < n, n <= Len(queue), NEW moved,
           NEW r \in Requests, pc[r] = "idle", r \in DOMAIN moved, moved[r] = "queued",
           Pop(n, <<r>>), Advance(moved, n),
           \A s \in DOMAIN moved : moved[s] # "blocked",
           \A k \in DOMAIN queue : queue[k] \in DOMAIN moved => k <= n,
           UNCHANGED conf
    PROVE  QInv'
<1> DEFINE rest == SubSeq(queue, n + 1, Len(queue))
<1>1. queue \in Seq(Requests)
      BY DEF TypeOK
<1>2. /\ rest \in Seq(Requests) /\ Len(rest) = Len(queue) - n /\ Len(queue) \in Nat
      /\ DOMAIN rest = 1..(Len(queue) - n) /\ DOMAIN queue = 1..Len(queue)
      /\ \A k \in 1..(Len(queue) - n) : rest[k] = queue[k + n]
      BY <1>1, Rest
<1>3. queue' = Append(rest, r)
  <2>1. queue' = rest \o <<r>>
        BY DEF Pop
  <2> HIDE DEF rest
  <2> QED BY <1>2, <2>1
<1> HIDE DEF rest
<1>4. \A k \in DOMAIN rest : k + n \in DOMAIN queue /\ rest[k] = queue[k + n] /\ k > 0 /\ k \in Int
      BY <1>2
<1>5. \A k \in DOMAIN queue' :
        \/ k \in DOMAIN rest /\ queue'[k] = rest[k]
        \/ k = Len(rest) + 1 /\ queue'[k] = r
  <2>1. rest \in Seq(Requests) /\ Len(rest) \in Nat /\ DOMAIN rest = 1..Len(rest)
        BY <1>2
  <2> QED BY <1>3, <2>1
<1>6. Len(queue') <= QMax'
  <2>1. QMax' = QMax /\ QMax \in Nat
        BY GateAssumption DEF QMax, TypeOK
  <2>2. Len(queue') = Len(queue) - n + 1
        BY <1>2, <1>3
  <2> QED BY <1>2, <2>1, <2>2 DEF QInv
<1>7. \A k \in DOMAIN rest : pc'[rest[k]] \in {"queued", "timeout"} /\ rest[k] # r
  <2> SUFFICES ASSUME NEW k \in DOMAIN rest
               PROVE  pc'[rest[k]] \in {"queued", "timeout"} /\ rest[k] # r
      OBVIOUS
  <2>1. pc[rest[k]] \in {"queued", "timeout"} /\ rest[k] \in Requests
        BY <1>1, <1>4 DEF QInv
  <2>2. rest[k] \notin DOMAIN moved
        BY <1>4
  <2> QED BY <2>1, <2>2, AdvanceOthers
<1>8. pc'[r] = "queued"
      BY AdvanceMoved
<1>9. \A i, j \in DOMAIN rest : rest[i] = rest[j] => i = j
  <2> SUFFICES ASSUME NEW i \in DOMAIN rest, NEW j \in DOMAIN rest, rest[i] = rest[j] PROVE i = j
      OBVIOUS
  <2>1. i + n = j + n
        BY <1>4 DEF QInv
  <2> QED BY <1>4, <2>1
<1>10. \A i, j \in DOMAIN queue' : queue'[i] = queue'[j] => i = j
       BY <1>5, <1>7, <1>9
<1>11. \A i \in DOMAIN queue' : pc'[queue'[i]] \in {"queued", "timeout"}
       BY <1>5, <1>7, <1>8
<1>12. \A s \in Requests : pc'[s] = "blocked" => \E i \in DOMAIN putters' : putters'[i] = s
       BY PopKeepsSuspended
<1> QED BY <1>6, <1>10, <1>11, <1>12 DEF QInv

\* put() with room, by a task that is not in the queue.
LEMMA AppendKeepsQInv ==
    ASSUME TypeOK, PuttersOK, QInv, NEW r \in Requests, pc[r] \in {"idle", "woken"}, ~Full,
           queue' = Append(queue, r), Move(r, "queued"), UNCHANGED <<conf, putters>>
    PROVE  QInv'
<1>1. queue \in Seq(Requests) /\ Len(queue) \in Nat /\ DOMAIN queue = 1..Len(queue)
      /\ QMax' = QMax /\ QMax \in Nat
      BY GateAssumption DEF TypeOK, QMax
<1>2. \A k \in DOMAIN queue' :
        \/ k \in DOMAIN queue /\ queue'[k] = queue[k]
        \/ k = Len(queue) + 1 /\ queue'[k] = r
      BY <1>1
<1>3. Len(queue') = Len(queue) + 1 /\ Len(queue') <= QMax'
      BY <1>1 DEF Full
<1>4. \A k \in DOMAIN queue : queue[k] # r /\ pc'[queue[k]] \in {"queued", "timeout"}
      BY <1>1 DEF QInv, Move, TypeOK
<1>5. pc'[r] = "queued"
      BY DEF Move, TypeOK
<1>6. \A i, j \in DOMAIN queue' : queue'[i] = queue'[j] => i = j
      BY <1>2, <1>4 DEF QInv
<1>7. \A s \in Requests : pc'[s] = "blocked" => pc[s] = "blocked"
      BY DEF Move, TypeOK
<1> QED BY <1>2, <1>3, <1>4, <1>5, <1>6, <1>7 DEF QInv

LEMMA QInvStep ==
    ASSUME IInv, QInv, [Next]_vars
    PROVE  QInv'
<1> USE DEF IInv
<1>1. ASSUME NEW r \in Requests, NEW stage, UNCHANGED <<conf, queue, putters>>,
             Move(r, stage), stage # "blocked",
             pc[r] = "queued" => stage = "timeout", pc[r] # "timeout"
      PROVE  QInv'
  <2>1. QMax' = QMax
        BY <1>1 DEF QMax
  <2>2. \A i \in DOMAIN queue : queue[i] \in Requests
        BY DEF TypeOK
  <2>3. \A s \in Requests : pc[s] \in {"queued", "timeout"} => pc'[s] \in {"queued", "timeout"}
        BY <1>1 DEF Move, TypeOK
  <2>4. \A s \in Requests : pc'[s] = "blocked" => pc[s] = "blocked"
        BY <1>1 DEF Move, TypeOK
  <2> QED BY <1>1, <2>1, <2>2, <2>3, <2>4 DEF QInv
<1>2. ASSUME NEW r \in Requests, NEW l \in Layers, AcquireDirect(r, l) PROVE QInv'
      BY <1>1, <1>2 DEF AcquireDirect
<1>3. ASSUME NEW r \in Requests, RejectDisabled(r) \/ RejectFull(r) PROVE QInv'
      BY <1>1, <1>3 DEF RejectDisabled, RejectFull, MustQueue
<1>4. ASSUME NEW r \in Requests, Timeout(r) \/ Inherit(r) PROVE QInv'
      BY <1>1, <1>4 DEF Timeout, Inherit
<1>5. ASSUME NEW r \in Requests, pc[r] \in {"idle", "woken"},
             putters' = Append(putters, r), Move(r, "blocked"), UNCHANGED <<conf, queue>>
      PROVE  QInv'
  <2>1. QMax' = QMax
        BY <1>5 DEF QMax
  <2>2. \A i \in DOMAIN queue : queue[i] \in Requests /\ queue[i] # r
    <3>1. \A i \in DOMAIN queue : queue[i] # r
          BY <1>5 DEF QInv
    <3>2. \A i \in DOMAIN queue : queue[i] \in Requests
          BY DEF TypeOK
    <3> QED BY <3>1, <3>2
  <2>3. \A s \in Requests : s # r => pc'[s] = pc[s]
        BY <1>5 DEF Move, TypeOK
  <2>4. \A s \in Requests : pc'[s] = "blocked" => \E i \in DOMAIN putters' : putters'[i] = s
    <3>1. putters \in Seq(Requests)
          BY DEF TypeOK
    <3>2. \A i \in DOMAIN putters : i \in DOMAIN putters' /\ putters'[i] = putters[i]
          BY <1>5, <3>1
    <3>3. Len(putters) + 1 \in DOMAIN putters' /\ putters'[Len(putters) + 1] = r
          BY <1>5, <3>1
    <3> QED BY <2>3, <3>2, <3>3 DEF QInv
  <2> QED BY <1>5, <2>1, <2>2, <2>3, <2>4 DEF QInv
<1>6. ASSUME NEW r \in Requests, PutBlocks(r) PROVE QInv'
      BY <1>5, <1>6 DEF PutBlocks, MustQueue
<1>7. ASSUME NEW r \in Requests, EnqueueFree(r) PROVE QInv'
      BY <1>7, AppendKeepsQInv DEF EnqueueFree, MustQueue
<1>8. ASSUME NEW r \in Requests, PutterResumes(r) PROVE QInv'
      BY <1>5, <1>8, AppendKeepsQInv DEF PutterResumes
<1>9. ASSUME NEW r \in Requests, EnqueueByDropping(r) PROVE QInv'
  <2>1. PICK i \in DOMAIN queue :
          /\ OldestLive(i)
          /\ Pop(i, <<r>>)
          /\ Advance([s \in {r, queue[i]} |-> IF s = r THEN "queued" ELSE "dropped"], i)
        BY <1>9 DEF EnqueueByDropping
  <2> DEFINE moved == [s \in {r, queue[i]} |-> IF s = r THEN "queued" ELSE "dropped"]
  <2>2. i \in Nat /\ 0 < i /\ i <= Len(queue) /\ pc[r] = "idle" /\ UNCHANGED conf
        BY <1>9 DEF TypeOK, EnqueueByDropping, MustQueue
  <2>3. \A k \in DOMAIN queue : queue[k] \in DOMAIN moved => k <= i
        BY <2>2 DEF QInv
  <2>4. r \in DOMAIN moved /\ moved[r] = "queued" /\ \A s \in DOMAIN moved : moved[s] # "blocked"
        OBVIOUS
  <2> HIDE DEF moved
  <2>5. Advance(moved, i)
        BY <2>1 DEF moved
  <2> QED BY <2>1, <2>2, <2>3, <2>4, <2>5, PopStoresQInv
<1>10. ASSUME NEW r \in Requests, EnqueueOverDead(r) PROVE QInv'
  <2> DEFINE stored == OverflowMode = "block"
             moved == [s \in {r} |-> IF stored THEN "queued" ELSE "full"]
             n == Len(queue)
  <2>1. /\ Pop(n, IF stored THEN <<r>> ELSE <<>>) /\ Advance(moved, n)
        /\ pc[r] = "idle" /\ UNCHANGED conf
        BY <1>10 DEF EnqueueOverDead, MustQueue
  <2>2. n \in Nat /\ 0 < n /\ n <= Len(queue)
        BY <1>10, GateAssumption DEF EnqueueOverDead, MustQueue, Full, QMax, TypeOK
  <2>3. \A k \in DOMAIN queue : queue[k] \in DOMAIN moved => k <= n
        BY <2>1 DEF QInv
  <2>4. r \in DOMAIN moved /\ (stored => moved[r] = "queued")
        /\ \A s \in DOMAIN moved : moved[s] # "blocked"
        OBVIOUS
  <2> HIDE DEF moved, n, stored
  <2>5. CASE stored
        BY <2>1, <2>2, <2>3, <2>4, <2>5, PopStoresQInv
  <2>6. CASE ~stored
        BY <2>1, <2>2, <2>3, <2>4, <2>6, PopKeepsQInv
  <2> QED BY <2>5, <2>6
<1>11. ASSUME NEW r \in Requests, ReleaseHandover(r) PROVE QInv'
  <2>1. PICK i \in DOMAIN queue :
          /\ OldestLive(i)
          /\ Pop(i, <<>>)
          /\ Advance([s \in {r, queue[i]} |-> IF s = r THEN "served" ELSE "handed"], i)
        BY <1>11 DEF ReleaseHandover
  <2> DEFINE moved == [s \in {r, queue[i]} |-> IF s = r THEN "served" ELSE "handed"]
  <2>2. i \in Nat /\ i <= Len(queue) /\ pc[r] = "holding" /\ UNCHANGED conf
        BY <1>11 DEF TypeOK, ReleaseHandover
  <2>3. \A k \in DOMAIN queue : queue[k] \in DOMAIN moved => k <= i
        BY <2>2 DEF QInv
  <2>4. \A s \in DOMAIN moved : moved[s] # "blocked"
        OBVIOUS
  <2> HIDE DEF moved
  <2>5. Advance(moved, i)
        BY <2>1 DEF moved
  <2> QED BY <2>1, <2>2, <2>3, <2>4, <2>5, PopKeepsQInv
<1>12. ASSUME NEW r \in Requests, ReleaseTicket(r) PROVE QInv'
  <2> DEFINE moved == [s \in {r} |-> "served"]
             n == Len(queue)
  <2>1. Pop(n, <<>>) /\ Advance(moved, n) /\ pc[r] = "holding" /\ UNCHANGED conf
        BY <1>12 DEF ReleaseTicket
  <2>2. n \in Nat /\ n <= Len(queue)
        BY DEF TypeOK
  <2>3. \A k \in DOMAIN queue : queue[k] \in DOMAIN moved => k <= n
        BY <2>1 DEF QInv
  <2>4. \A s \in DOMAIN moved : moved[s] # "blocked"
        OBVIOUS
  <2> HIDE DEF moved, n
  <2> QED BY <2>1, <2>2, <2>3, <2>4, PopKeepsQInv
<1>13. CASE UNCHANGED vars
       BY <1>13 DEF vars, QInv, QMax
<1> QED
    BY <1>2, <1>3, <1>4, <1>6, <1>7, <1>8, <1>9, <1>10, <1>11, <1>12, <1>13
    DEF Next, Acquire, Progress, Release, Terminating

\* For any settings: the queue never exceeds its size, a live waiter is in it exactly
\* once, and a task is suspended in put() exactly while it is registered, once, to be
\* woken by a pop.
THEOREM QueueKeepsShape == Spec => []QueueConsistent
<1>1. Init => QInv
      BY GateAssumption DEF Init, QInv, QMax
<1>2. IInv /\ QInv => QueueConsistent
  <2> SUFFICES ASSUME IInv, QInv PROVE QueueConsistent
      OBVIOUS
  <2>1. ASSUME NEW r \in Requests, pc[r] = "queued"
        PROVE  Cardinality({i \in DOMAIN queue : queue[i] = r}) = 1
    <3>1. PICK k \in DOMAIN queue : queue[k] = r
          BY <2>1 DEF IInv, QueuedInQueue
    <3>2. {i \in DOMAIN queue : queue[i] = r} = {k}
          BY <3>1 DEF QInv
    <3> QED BY <3>2, FS_Singleton
  <2>2. \A r \in Requests : (pc[r] = "blocked") <=> \E i \in DOMAIN putters : putters[i] = r
        BY DEF IInv, PuttersOK, QInv
  <2> QED BY <2>1, <2>2 DEF QueueConsistent, IInv, PuttersOK, QInv
<1>3. IInv /\ QInv /\ [Next]_vars => QInv'
      BY QInvStep
<1> QED BY <1>1, <1>2, <1>3, Inductive, PTL DEF Spec

-----------------------------------------------------------------------------
(***************************************************************************)
(* Nobody waits beside a free ticket, with any settings with which no task *)
(* can suspend in put().  (With policy other and mode block it fails: TLC  *)
(* shows how.)                                                             *)
(***************************************************************************)
JInv ==
    /\ IInv
    /\ NeverBlocks => \A r \in Requests : pc[r] \notin {"blocked", "woken"}
    /\ NoIdleTicket

\* The settings never change.
LEMMA SettingsStay == [Next]_vars => UNCHANGED <<conf, NeverBlocks, RejectPolicy>>
<1>1. [Next]_vars => UNCHANGED conf
      BY DEF Next, Acquire, Progress, Terminating, vars, AcquireDirect, RejectDisabled,
         RejectFull, EnqueueFree, EnqueueByDropping, EnqueueOverDead, PutBlocks,
         PutterResumes, Timeout, Inherit, Release, ReleaseHandover, ReleaseTicket
<1> QED BY <1>1 DEF NeverBlocks, RejectPolicy, OverflowMode

\* What a step does to the stage of each request, and to the free tickets.
LEMMA StepEffect ==
    ASSUME IInv, Next, NEW s \in Requests
    PROVE  \/ pc'[s] = pc[s]
           \/ pc[s] = "blocked" /\ pc'[s] = "woken"
           \/ pc[s] = "woken" /\ pc'[s] \in {"blocked", "queued"}
           \/ pc[s] = "idle" /\ pc'[s] = "holding"
           \/ pc[s] = "idle" /\ NoTicket /\ UNCHANGED free
              /\ \/ pc'[s] \in {"queued", "full", "disabled"}
                 \/ pc'[s] = "blocked" /\ ~NeverBlocks
           \/ pc[s] = "queued" /\ pc'[s] \in {"handed", "timeout"}
           \/ pc[s] = "queued" /\ pc'[s] = "dropped" /\ RejectPolicy = "drop_oldest"
           \/ pc[s] = "handed" /\ pc'[s] = "holding"
           \/ pc[s] = "holding" /\ pc'[s] = "served"
<1> USE DEF IInv
<1>1. ASSUME NEW r \in Requests, NEW l \in Layers, AcquireDirect(r, l)
      PROVE  \/ pc'[s] = pc[s]
             \/ pc[s] = "idle" /\ pc'[s] = "holding"
      BY <1>1 DEF AcquireDirect, Move, TypeOK
<1>2. ASSUME NEW r \in Requests, RejectDisabled(r) \/ RejectFull(r) \/ EnqueueFree(r)
      PROVE  \/ pc'[s] = pc[s]
             \/ /\ pc[s] = "idle" /\ NoTicket /\ UNCHANGED free
                /\ pc'[s] \in {"queued", "full", "disabled"}
      BY <1>2 DEF RejectDisabled, RejectFull, EnqueueFree, MustQueue, Move, TypeOK
<1>3. ASSUME NEW r \in Requests, PutBlocks(r)
      PROVE  \/ pc'[s] = pc[s]
             \/ /\ pc[s] = "idle" /\ NoTicket /\ UNCHANGED free
                /\ pc'[s] = "blocked" /\ ~NeverBlocks
      BY <1>3 DEF PutBlocks, MustQueue, Move, TypeOK, NeverBlocks
<1>4. ASSUME NEW r \in Requests, PutterResumes(r)
      PROVE  \/ pc'[s] = pc[s]
             \/ pc[s] = "woken" /\ pc'[s] \in {"blocked", "queued"}
      BY <1>4 DEF PutterResumes, Move, TypeOK
<1>5. ASSUME NEW r \in Requests, Timeout(r) \/ Inherit(r)
      PROVE  \/ pc'[s] = pc[s]
             \/ pc[s] = "queued" /\ pc'[s] = "timeout"
             \/ pc[s] = "handed" /\ pc'[s] = "holding"
      BY <1>5 DEF Timeout, Inherit, Move, TypeOK
<1>6. ASSUME NEW r \in Requests, EnqueueByDropping(r)
      PROVE  \/ pc'[s] = pc[s]
             \/ pc[s] = "blocked" /\ pc'[s] = "woken"
             \/ pc[s] = "idle" /\ NoTicket /\ UNCHANGED free /\ pc'[s] = "queued"
             \/ pc[s] = "queued" /\ pc'[s] = "dropped" /\ RejectPolicy = "drop_oldest"
  <2>1. PICK i \in DOMAIN queue :
          /\ OldestLive(i)
          /\ Advance([t \in {r, queue[i]} |-> IF t = r THEN "queued" ELSE "dropped"], i)
        BY <1>6 DEF EnqueueByDropping
  <2> DEFINE moved == [t \in {r, queue[i]} |-> IF t = r THEN "queued" ELSE "dropped"]
  <2>2. pc[queue[i]] = "queued" /\ i \in Nat
        BY <2>1 DEF OldestLive, LiveAt, TypeOK
  <2>3. CASE s \in DOMAIN moved
    <3>1. pc'[s] = moved[s]
          BY <2>1, <2>2, <2>3, AdvanceMoved
    <3> QED BY <1>6, <2>2, <2>3, <3>1 DEF EnqueueByDropping, MustQueue
  <2>4. CASE s \notin DOMAIN moved
        BY <2>1, <2>2, <2>4, AdvanceOthers
  <2> QED BY <2>3, <2>4
<1>7. ASSUME NEW r \in Requests, EnqueueOverDead(r)
      PROVE  \/ pc'[s] = pc[s]
             \/ pc[s] = "blocked" /\ pc'[s] = "woken"
             \/ /\ pc[s] = "idle" /\ NoTicket /\ UNCHANGED free
                /\ pc'[s] \in {"queued", "full"}
  <2> DEFINE moved == [t \in {r} |-> IF OverflowMode = "block" THEN "queued" ELSE "full"]
  <2>1. Advance(moved, Len(queue)) /\ Len(queue) \in Nat
        BY <1>7 DEF EnqueueOverDead, TypeOK
  <2>2. CASE s = r
    <3>1. pc'[s] = moved[s]
          BY <2>1, <2>2, AdvanceMoved
    <3> QED BY <1>7, <2>2, <3>1 DEF EnqueueOverDead, MustQueue
  <2>3. CASE s # r
        BY <2>1, <2>3, AdvanceOthers
  <2> QED BY <2>2, <2>3
<1>8. ASSUME NEW r \in Requests, ReleaseHandover(r)
      PROVE  \/ pc'[s] = pc[s]
             \/ pc[s] = "blocked" /\ pc'[s] = "woken"
             \/ pc[s] = "holding" /\ pc'[s] = "served"
             \/ pc[s] = "queued" /\ pc'[s] = "handed"
  <2>1. PICK i \in DOMAIN queue :
          /\ OldestLive(i)
          /\ Advance([t \in {r, queue[i]} |-> IF t = r THEN "served" ELSE "handed"], i)
        BY <1>8 DEF ReleaseHandover
  <2> DEFINE moved == [t \in {r, queue[i]} |-> IF t = r THEN "served" ELSE "handed"]
  <2>2. pc[queue[i]] = "queued" /\ i \in Nat
        BY <2>1 DEF OldestLive, LiveAt, TypeOK
  <2>3. CASE s \in DOMAIN moved
    <3>1. pc'[s] = moved[s]
          BY <2>1, <2>2, <2>3, AdvanceMoved
    <3> QED BY <1>8, <2>2, <2>3, <3>1 DEF ReleaseHandover
  <2>4. CASE s \notin DOMAIN moved
        BY <2>1, <2>2, <2>4, AdvanceOthers
  <2> QED BY <2>3, <2>4
<1>9. ASSUME NEW r \in Requests, ReleaseTicket(r)
      PROVE  \/ pc'[s] = pc[s]
             \/ pc[s] = "blocked" /\ pc'[s] = "woken"
             \/ pc[s] = "holding" /\ pc'[s] = "served"
  <2> DEFINE moved == [t \in {r} |-> "served"]
  <2>1. Advance(moved, Len(queue)) /\ Len(queue) \in Nat
        BY <1>9 DEF ReleaseTicket, TypeOK
  <2>2. CASE s = r
    <3>1. pc'[s] = moved[s]
          BY <2>1, <2>2, AdvanceMoved
    <3> QED BY <1>9, <2>2, <3>1 DEF ReleaseTicket
  <2>3. CASE s # r
        BY <2>1, <2>3, AdvanceOthers
  <2> QED BY <2>2, <2>3
<1> QED
    BY <1>1, <1>2, <1>3, <1>4, <1>5, <1>6, <1>7, <1>8, <1>9
    DEF Next, Acquire, Progress, Release, Terminating, vars

\* A ticket becomes free only when no live waiter is in the queue.
LEMMA FreeEffect ==
    ASSUME IInv, Next, NoTicket, \E r \in Requests : pc[r] = "queued"
    PROVE  UNCHANGED free
<1>1. LiveAt # {}
      BY DEF IInv, QueuedInQueue, LiveAt
<1>2. ASSUME NEW r \in Requests, NEW l \in Layers PROVE ~AcquireDirect(r, l)
      BY DEF AcquireDirect, NoTicket
<1> QED
    BY <1>1, <1>2 DEF Next, Acquire, Progress, Terminating, vars, RejectDisabled,
       RejectFull, EnqueueFree, EnqueueByDropping, EnqueueOverDead, PutBlocks,
       PutterResumes, Timeout, Inherit, Release, ReleaseHandover, ReleaseTicket

\* The stronger invariant is kept by every step.
LEMMA JInvStep ==
    ASSUME JInv, [Next]_vars
    PROVE  JInv'
<1>1. IInv' /\ UNCHANGED NeverBlocks
      BY IInvStep, SettingsStay DEF JInv
<1>2. CASE UNCHANGED vars
      BY <1>1, <1>2 DEF JInv, vars, NoIdleTicket, NoTicket
<1>3. CASE ~NeverBlocks
      BY <1>1, <1>3 DEF JInv, NoIdleTicket
<1>4. CASE Next /\ NeverBlocks
  <2>1. \A s \in Requests : pc'[s] \notin {"blocked", "woken"}
        BY <1>4, StepEffect DEF JInv
  <2>2. ASSUME NEW s \in Requests, pc'[s] \in Waiting PROVE NoTicket'
    <3>1. pc'[s] = "queued"
          BY <2>1, <2>2 DEF Waiting
    <3>2. CASE pc[s] = "queued"
      <4>1. NoTicket
            BY <1>4, <3>2 DEF JInv, NoIdleTicket, Waiting
      <4> QED BY <1>4, <3>2, <4>1, FreeEffect DEF JInv, NoTicket
    <3>3. CASE pc[s] # "queued"
      <4>1. pc[s] \notin {"blocked", "woken"}
            BY <1>4 DEF JInv
      <4> QED BY <1>4, <3>1, <3>3, <4>1, StepEffect DEF JInv, NoTicket
    <3> QED BY <3>2, <3>3
  <2> QED BY <1>1, <2>1, <2>2 DEF JInv, NoIdleTicket
<1> QED BY <1>2, <1>3, <1>4

\* While anybody waits every ticket is taken, so the fast path of acquire() never
\* lets a newcomer pass a waiter.
THEOREM NobodyWaitsBesideATicket == Spec => []NoIdleTicket
<1>1. Init => JInv
  <2> SUFFICES ASSUME Init PROVE JInv
      OBVIOUS
  <2> QED BY IInvInit DEF Init, JInv, NoIdleTicket, Waiting
<1>2. JInv /\ [Next]_vars => JInv'
      BY JInvStep
<1>3. JInv => NoIdleTicket
      BY DEF JInv
<1> QED BY <1>1, <1>2, <1>3, PTL DEF Spec

\* Outside the drop_oldest policy a waiter loses its place to nobody: it gets a
\* ticket or runs into its own timeout.
THEOREM WaitersKeepTheirPlace == Spec => KeepsItsPlace
<1>1. ASSUME IInv, [Next]_vars
      PROVE  [RejectPolicy # "drop_oldest" =>
                \A r \in Requests : pc[r] \in Waiting =>
                   pc'[r] \in Waiting \cup {"handed", "timeout"}]_vars
  <2>1. CASE Next
        BY <1>1, <2>1, StepEffect DEF Waiting
  <2> QED BY <1>1, <2>1
<1> QED BY <1>1, Inductive, PTL DEF Spec, KeepsItsPlace

-----------------------------------------------------------------------------
(***************************************************************************)
(* The gate implements the abstract admission control.                     *)
(***************************************************************************)
LEMMA AbsValues ==
    /\ AbsStage("idle") = "new"
    /\ AbsStage("blocked") = "waiting"
    /\ AbsStage("woken") = "waiting"
    /\ AbsStage("queued") = "waiting"
    /\ AbsStage("handed") = "inside"
    /\ AbsStage("holding") = "inside"
    /\ AbsStage("served") = "served"
    /\ AbsStage("dropped") = "refused"
    /\ AbsStage("timeout") = "refused"
    /\ AbsStage("full") = "refused"
    /\ AbsStage("disabled") = "refused"
BY DEF AbsStage, Waiting, Refusal

\* The abstract module counts with the same Cardinality.
LEMMA SameCardinality ==
    ASSUME NEW S
    PROVE  A!Cardinality(S) = Cardinality(S)
BY DEF A!Cardinality, Cardinality

\* The requests inside the abstract gate are the users of the two layers.
LEMMA InsideIsUsers ==
    ASSUME TypeOK
    PROVE  A!Inside = Users(0) \cup Users(1) /\ Users(0) \cap Users(1) = {}
<1>1. \A r \in Requests : AbsState[r] = "inside" <=> pc[r] \in {"handed", "holding"}
      BY AbsValues, Stages DEF AbsState, TypeOK
<1> QED BY <1>1 DEF A!Inside, Users, TypeOK, Layers

\* The requests inside are as many as the tickets that are not free.
LEMMA InsideCount ==
    ASSUME IInv
    PROVE  Cardinality(A!Inside) = G0Cap + G1Cap - free[0] - free[1]
<1>1. /\ Cardinality(Users(0)) \in Nat /\ Cardinality(Users(1)) \in Nat
      /\ IsFiniteSet(Users(0)) /\ IsFiniteSet(Users(1))
      BY UsersFinite DEF IInv, Layers
<1>2. Cardinality(Users(0) \cup Users(1)) =
        Cardinality(Users(0)) + Cardinality(Users(1)) - Cardinality(Users(0) \cap Users(1))
      BY <1>1, FS_Union
<1>3. Cardinality(Users(0) \cap Users(1)) = 0
      BY InsideIsUsers, FS_EmptySet DEF IInv
<1>4. /\ free[0] + Cardinality(Users(0)) = G0Cap /\ free[0] \in Nat
      /\ free[1] + Cardinality(Users(1)) = G1Cap /\ free[1] \in Nat
      BY DEF IInv, TicketConservation, Cap, Layers, TypeOK
<1>5. Cardinality(A!Inside) = Cardinality(Users(0) \cup Users(1))
      BY InsideIsUsers DEF IInv
<1>6. G0Cap \in Nat /\ G1Cap \in Nat
      BY GateAssumption
<1> QED BY <1>1, <1>2, <1>3, <1>4, <1>5, <1>6

\* A full gate, and a gate with a ticket, seen from the abstract side.
LEMMA FullInside ==
    ASSUME IInv
    PROVE  /\ NoTicket => Cardinality(A!Inside) = G0Cap + G1Cap
           /\ \A l \in Layers : free[l] > 0 => Cardinality(A!Inside) < G0Cap + G1Cap
<1>1. free[0] \in Nat /\ free[1] \in Nat /\ G0Cap \in Nat /\ G1Cap \in Nat
      BY GateAssumption DEF IInv, TypeOK, Layers
<1> QED BY <1>1, InsideCount DEF NoTicket, Layers

\* The abstract state, request by request, before and after a step.
LEMMA AbsPointwise ==
    /\ AbsState = [r \in Requests |-> AbsStage(pc[r])]
    /\ AbsState' = [r \in Requests |-> AbsStage(pc'[r])]
BY DEF AbsState

\* What moving one request does to the abstract state.
LEMMA AbsMove ==
    ASSUME TypeOK, NEW r \in Requests, NEW stage, Move(r, stage)
    PROVE  AbsState' = [AbsState EXCEPT ![r] = AbsStage(stage)]
BY AbsPointwise DEF Move, TypeOK

\* A request that changes between two stages with the same meaning is a stutter.
LEMMA AbsSame ==
    ASSUME TypeOK, NEW r \in Requests, NEW stage, Move(r, stage),
           AbsStage(stage) = AbsStage(pc[r])
    PROVE  UNCHANGED AbsState
BY AbsPointwise DEF Move, TypeOK

\* Parking a newcomer and putting `out` in its place out of the queue.
LEMMA AbsPark ==
    ASSUME NEW r \in Requests, NEW out \in SUBSET Requests, r \notin out,
           pc[r] = "idle", AbsStage(pc'[r]) = "waiting",
           \A s \in out : AbsStage(pc[s]) = "waiting" /\ AbsStage(pc'[s]) = "refused",
           \A s \in Requests : s # r /\ s \notin out => AbsStage(pc'[s]) = AbsStage(pc[s]),
           Cardinality(out) <= 1, Cardinality(A!Inside) = G0Cap + G1Cap
    PROVE  A!Park(r, out)
<1>1. AbsState[r] = "new" /\ out \subseteq {s \in Requests : AbsState[s] = "waiting"}
      BY AbsPointwise, AbsValues
<1> DEFINE f == [s \in Requests |-> IF s = r THEN "waiting"
                                    ELSE IF s \in out THEN "refused" ELSE AbsState[s]]
<1>2. \A s \in Requests : AbsState'[s] = f[s]
      BY AbsPointwise
<1>3. AbsState' = f
      BY <1>2, AbsPointwise
<1> QED BY <1>1, <1>3, SameCardinality DEF A!Park

\* Leaving, with or without a successor.
LEMMA AbsLeave ==
    ASSUME NEW r \in Requests, NEW next \in SUBSET Requests, r \notin next,
           pc[r] = "holding", pc'[r] = "served",
           \A s \in next : AbsStage(pc[s]) = "waiting" /\ AbsStage(pc'[s]) = "inside",
           \A s \in Requests : s # r /\ s \notin next => AbsStage(pc'[s]) = AbsStage(pc[s]),
           Cardinality(next) <= 1
    PROVE  A!Leave(r, next)
<1>1. AbsState[r] = "inside" /\ next \subseteq {s \in Requests : AbsState[s] = "waiting"}
      BY AbsPointwise, AbsValues
<1> DEFINE f == [s \in Requests |-> IF s = r THEN "served"
                                    ELSE IF s \in next THEN "inside" ELSE AbsState[s]]
<1>2. \A s \in Requests : AbsState'[s] = f[s]
      BY AbsPointwise, AbsValues
<1>3. AbsState' = f
      BY <1>2, AbsPointwise
<1> QED BY <1>1, <1>3, SameCardinality DEF A!Leave

\* What a pop leaves alone, or wakes, means the same to the abstract state.
LEMMA AbsOthers ==
    ASSUME TypeOK, PuttersOK, NEW n \in Nat, NEW moved, Advance(moved, n),
           NEW s \in Requests, s \notin DOMAIN moved
    PROVE  AbsStage(pc'[s]) = AbsStage(pc[s])
BY AdvanceOthers, AbsValues

\* Every step of the gate is a step of the admission control, or a stutter.
LEMMA AbsStep ==
    ASSUME IInv, [Next]_vars
    PROVE  A!Next \/ UNCHANGED AbsState
<1> USE DEF IInv
<1>1. ASSUME NEW r \in Requests, NEW l \in Layers, AcquireDirect(r, l) PROVE A!Enter(r)
  <2>1. AbsState[r] = "new" /\ AbsState' = [AbsState EXCEPT ![r] = "inside"]
        BY <1>1, AbsMove, AbsPointwise, AbsValues DEF AcquireDirect
  <2>2. Cardinality(A!Inside) < G0Cap + G1Cap
        BY <1>1, FullInside DEF AcquireDirect
  <2> QED BY <2>1, <2>2, SameCardinality DEF A!Enter
<1>2. ASSUME NEW r \in Requests, RejectDisabled(r) \/ RejectFull(r) PROVE A!TurnAway(r)
  <2>1. /\ pc[r] = "idle" /\ NoTicket
        /\ Move(r, "disabled") \/ Move(r, "full")
        BY <1>2 DEF RejectDisabled, RejectFull, MustQueue
  <2>2. AbsState[r] = "new" /\ AbsState' = [AbsState EXCEPT ![r] = "refused"]
        BY <2>1, AbsMove, AbsPointwise, AbsValues
  <2> QED BY <2>1, <2>2, FullInside, SameCardinality DEF A!TurnAway
<1>3. ASSUME NEW r \in Requests, EnqueueFree(r) \/ PutBlocks(r) PROVE A!Park(r, {})
  <2>1. /\ pc[r] = "idle" /\ NoTicket
        /\ Move(r, "queued") \/ Move(r, "blocked")
        BY <1>3 DEF EnqueueFree, PutBlocks, MustQueue
  <2>2. /\ AbsStage(pc'[r]) = "waiting"
        /\ \A s \in Requests : s # r => AbsStage(pc'[s]) = AbsStage(pc[s])
        BY <2>1, AbsValues DEF Move, TypeOK
  <2>3. Cardinality({}) <= 1
        BY FS_EmptySet
  <2> QED BY <2>1, <2>2, <2>3, FullInside, AbsPark
<1>4. ASSUME NEW r \in Requests, PutterResumes(r) \/ Inherit(r) PROVE UNCHANGED AbsState
  <2>1. \/ pc[r] = "woken" /\ (Move(r, "blocked") \/ Move(r, "queued"))
        \/ pc[r] = "handed" /\ Move(r, "holding")
        BY <1>4 DEF PutterResumes, Inherit
  <2> QED BY <2>1, AbsSame, AbsValues
<1>5. ASSUME NEW r \in Requests, Timeout(r) PROVE A!GiveUp(r)
      BY <1>5, AbsMove, AbsPointwise, AbsValues DEF Timeout, A!GiveUp
<1>6. ASSUME NEW r \in Requests, EnqueueByDropping(r)
      PROVE  \E q \in Requests : A!Park(r, {q})
  <2>1. PICK i \in DOMAIN queue :
          /\ OldestLive(i)
          /\ Advance([t \in {r, queue[i]} |-> IF t = r THEN "queued" ELSE "dropped"], i)
        BY <1>6 DEF EnqueueByDropping
  <2> DEFINE q == queue[i]
             moved == [t \in {r, q} |-> IF t = r THEN "queued" ELSE "dropped"]
  <2>2. pc[q] = "queued" /\ q \in Requests /\ i \in Nat /\ pc[r] = "idle" /\ NoTicket
        BY <1>6, <2>1 DEF OldestLive, LiveAt, TypeOK, EnqueueByDropping, MustQueue
  <2>3. pc'[r] = "queued" /\ pc'[q] = "dropped"
        BY <2>1, <2>2 DEF Advance
  <2>4. ASSUME NEW s \in Requests, s # r, s \notin {q}
        PROVE  AbsStage(pc'[s]) = AbsStage(pc[s])
        BY <2>1, <2>2, <2>4, AbsOthers
  <2>5. Cardinality({q}) <= 1
    <3>1. Cardinality({q}) = 1
          BY FS_Singleton
    <3> QED BY <3>1
  <2>6. A!Park(r, {q})
        BY <2>2, <2>3, <2>4, <2>5, FullInside, AbsPark, AbsValues
  <2> QED BY <2>2, <2>6
<1>7. ASSUME NEW r \in Requests, EnqueueOverDead(r) PROVE A!Park(r, {}) \/ A!TurnAway(r)
  <2> DEFINE moved == [t \in {r} |-> IF OverflowMode = "block" THEN "queued" ELSE "full"]
  <2>1. Advance(moved, Len(queue)) /\ Len(queue) \in Nat /\ pc[r] = "idle" /\ NoTicket
        BY <1>7 DEF EnqueueOverDead, MustQueue, TypeOK
  <2>2. pc'[r] \in {"queued", "full"}
        BY <2>1 DEF Advance
  <2>3. ASSUME NEW s \in Requests, s # r
        PROVE  AbsStage(pc'[s]) = AbsStage(pc[s])
        BY <2>1, <2>3, AbsOthers
  <2>4. CASE pc'[r] = "queued"
    <3>1. Cardinality({}) <= 1
          BY FS_EmptySet
    <3> QED BY <2>1, <2>3, <2>4, <3>1, FullInside, AbsPark, AbsValues
  <2>5. CASE pc'[r] = "full"
    <3>1. AbsState' = [AbsState EXCEPT ![r] = "refused"]
          BY <2>3, <2>5, AbsPointwise, AbsValues
    <3> QED BY <2>1, <3>1, FullInside, AbsPointwise, AbsValues, SameCardinality DEF A!TurnAway
  <2> QED BY <2>2, <2>4, <2>5
<1>8. ASSUME NEW r \in Requests, ReleaseHandover(r)
      PROVE  \E q \in Requests : A!Leave(r, {q})
  <2>1. PICK i \in DOMAIN queue :
          /\ OldestLive(i)
          /\ Advance([t \in {r, queue[i]} |-> IF t = r THEN "served" ELSE "handed"], i)
        BY <1>8 DEF ReleaseHandover
  <2> DEFINE q == queue[i]
             moved == [t \in {r, q} |-> IF t = r THEN "served" ELSE "handed"]
  <2>2. pc[q] = "queued" /\ q \in Requests /\ i \in Nat /\ pc[r] = "holding"
        BY <1>8, <2>1 DEF OldestLive, LiveAt, TypeOK, ReleaseHandover
  <2>3. pc'[r] = "served" /\ pc'[q] = "handed"
        BY <2>1, <2>2 DEF Advance
  <2>4. ASSUME NEW s \in Requests, s # r, s \notin {q}
        PROVE  AbsStage(pc'[s]) = AbsStage(pc[s])
        BY <2>1, <2>2, <2>4, AbsOthers
  <2>5. Cardinality({q}) <= 1
    <3>1. Cardinality({q}) = 1
          BY FS_Singleton
    <3> QED BY <3>1
  <2>6. A!Leave(r, {q})
        BY <2>2, <2>3, <2>4, <2>5, AbsLeave, AbsValues
  <2> QED BY <2>2, <2>6
<1>9. ASSUME NEW r \in Requests, ReleaseTicket(r) PROVE A!Leave(r, {})
  <2> DEFINE moved == [t \in {r} |-> "served"]
  <2>1. Advance(moved, Len(queue)) /\ Len(queue) \in Nat /\ pc[r] = "holding"
        BY <1>9 DEF ReleaseTicket, TypeOK
  <2>2. pc'[r] = "served"
        BY <2>1 DEF Advance
  <2>3. ASSUME NEW s \in Requests, s # r
        PROVE  AbsStage(pc'[s]) = AbsStage(pc[s])
        BY <2>1, <2>3, AbsOthers
  <2>4. Cardinality({}) <= 1
        BY FS_EmptySet
  <2> QED BY <2>1, <2>2, <2>3, <2>4, AbsLeave
<1>10. ASSUME NEW r \in Requests, NEW s \in SUBSET Requests,
              \/ A!Enter(r) \/ A!TurnAway(r) \/ A!GiveUp(r) \/ A!Park(r, s) \/ A!Leave(r, s)
       PROVE  A!Next
       BY <1>10 DEF A!Next
<1>11. CASE UNCHANGED vars
       BY <1>11 DEF vars, AbsState
<1>12. ASSUME NEW r \in Requests, Acquire(r) PROVE A!Next
  <2>1. {} \in SUBSET Requests
        OBVIOUS
  <2>2. ASSUME NEW q \in Requests PROVE {q} \in SUBSET Requests
        OBVIOUS
  <2> QED BY <1>1, <1>2, <1>3, <1>6, <1>7, <1>10, <1>12, <2>1, <2>2 DEF Acquire
<1>13. ASSUME NEW r \in Requests, Progress(r) PROVE A!Next \/ UNCHANGED AbsState
  <2>1. {} \in SUBSET Requests
        OBVIOUS
  <2>2. ASSUME NEW q \in Requests PROVE {q} \in SUBSET Requests
        OBVIOUS
  <2> QED BY <1>4, <1>5, <1>8, <1>9, <1>10, <1>13, <2>1, <2>2 DEF Progress, Release
<1> QED BY <1>11, <1>12, <1>13 DEF Next, Terminating

\* acquire() and release() together never let more requests in than there are
\* tickets, never revoke an admission, and make a request wait or refuse it only
\* when the gate is full or after it has waited: the gate refines Admission.
THEOREM GateImplementsAdmission == Spec => ImplementsAdmission
<1>1. Init => A!Init
      BY AbsValues DEF Init, A!Init, AbsState
<1>2. IInv /\ [Next]_vars => [A!Next]_AbsState
      BY AbsStep
<1> QED BY <1>1, <1>2, Inductive, PTL DEF Spec, ImplementsAdmission, A!Spec

-----------------------------------------------------------------------------
(* The gateway's use of the gate.                                            *)

\* Between two suspensions at most one request holds a ticket; nobody is queued.
GwInv ==
    /\ pc \in [Requests -> {"idle", "holding", "served"}]
    /\ layer \in [Requests -> Layers]
    /\ free \in [Layers -> Nat]
    /\ queue = <<>> /\ putters = <<>>
    /\ \A r, s \in Requests : pc[r] = "holding" /\ pc[s] = "holding" => r = s
    /\ LoopIsFree => \A l \in Layers : free[l] = Cap(l)
    /\ \A r \in Requests : pc[r] = "holding" =>
         \A l \in Layers : free[l] = IF l = layer[r] THEN Cap(l) - 1 ELSE Cap(l)

\* Both capacities are numbers of tickets.
LEMMA Caps == \A l \in Layers : Cap(l) \in Nat
BY GateAssumption DEF Cap

\* Before the first request every ticket is in its gate.
LEMMA GwInvInit == GwInit => GwInv
BY Caps DEF GwInit, Init, GwInv, Layers

\* With every ticket back, acquire() takes the fast path.
LEMMA GwEnter ==
    ASSUME G0Cap + G1Cap > 0, GwInv, NEW r \in Requests, EnterGate(r)
    PROVE  GwInv'
<1>1. /\ LoopIsFree
      /\ Acquire(r) \/ PutterResumes(r) \/ Timeout(r) \/ Inherit(r)
      BY DEF EnterGate
<1>2. \A l \in Layers : free[l] = Cap(l)
      BY <1>1 DEF GwInv
<1>3. ~NoTicket
      BY <1>2, GateAssumption DEF NoTicket, Layers, Cap
<1>4. PICK l \in Layers : AcquireDirect(r, l)
      BY <1>1, <1>3 DEF GwInv, Acquire, RejectDisabled, RejectFull, EnqueueFree, MustQueue,
         EnqueueByDropping, EnqueueOverDead, PutBlocks, PutterResumes, Timeout, Inherit
<1>5. /\ pc' = [pc EXCEPT ![r] = "holding"]
      /\ layer' = [layer EXCEPT ![r] = l]
      /\ free' = [free EXCEPT ![l] = @ - 1] /\ free[l] > 0
      /\ UNCHANGED <<queue, putters>>
      BY <1>4 DEF AcquireDirect, Move
<1>6. \A s \in Requests : pc'[s] = "holding" <=> s = r
      BY <1>1, <1>5 DEF LoopIsFree, GwInv
<1>7. layer'[r] = l /\ \A m \in Layers : free'[m] = IF m = l THEN Cap(m) - 1 ELSE Cap(m)
      BY <1>2, <1>5 DEF GwInv
<1>8. /\ pc' \in [Requests -> {"idle", "holding", "served"}]
      /\ layer' \in [Requests -> Layers]
      /\ queue' = <<>> /\ putters' = <<>>
      BY <1>5 DEF GwInv
<1>9. free' \in [Layers -> Nat]
      BY <1>5 DEF GwInv
<1>10. ~LoopIsFree'
      BY <1>6 DEF LoopIsFree
<1> QED BY <1>6, <1>7, <1>8, <1>9, <1>10 DEF GwInv

\* The request that runs on from acquire() gives its ticket straight back.
LEMMA GwRelease ==
    ASSUME GwInv, NEW r \in Requests, ReleaseAndSend(r)
    PROVE  GwInv'
<1>1. LiveAt = {} /\ DOMAIN queue = {} /\ Len(queue) = 0
      BY DEF GwInv, LiveAt
<1>2. ReleaseTicket(r)
      BY <1>1 DEF ReleaseAndSend, Release, ReleaseHandover
<1>3. /\ pc[r] = "holding" /\ UNCHANGED layer
      /\ free' = [free EXCEPT ![layer[r]] = @ + 1]
      /\ pc' = [pc EXCEPT ![r] = "served"]
      /\ queue' = <<>> /\ putters' = <<>>
  <2>1. queue' = SubSeq(<<>>, 1, 0) \o <<>> /\ putters' = SubSeq(<<>>, 1, 0)
        BY <1>1, <1>2 DEF ReleaseTicket, Pop, GwInv
  <2>2. SubSeq(<<>>, 1, 0) = <<>> /\ <<>> \o <<>> = <<>>
        OBVIOUS
  <2>3. WokenBy(0) = {}
        BY DEF WokenBy, GwInv
  <2>4. pc' = [pc EXCEPT ![r] = "served"]
        BY <1>1, <1>2, <2>3 DEF ReleaseTicket, Advance, GwInv
  <2> QED BY <1>2, <2>1, <2>2, <2>4 DEF ReleaseTicket
<1>4. \A s \in Requests : pc'[s] # "holding"
      BY <1>3 DEF GwInv
<1>5. \A l \in Layers : free'[l] = Cap(l)
      BY <1>3, Caps DEF GwInv
<1>6. /\ pc' \in [Requests -> {"idle", "holding", "served"}]
      /\ free' \in [Layers -> Nat]
      BY <1>3 DEF GwInv
<1> QED BY <1>3, <1>4, <1>5, <1>6 DEF GwInv

\* Every step of a process that releases early keeps the invariant, as long as there
\* is a ticket at all.
LEMMA GwInvStep ==
    ASSUME G0Cap + G1Cap > 0, use = "early" => GwInv, [GwNext]_gwVars
    PROVE  (use = "early" => GwInv)'
<1>1. ASSUME UNCHANGED vars, GwInv PROVE GwInv'
      BY <1>1 DEF vars, GwInv, LoopIsFree
<1>2. UNCHANGED use
      BY DEF GwNext, gwVars
<1>3. CASE use = "early" /\ Gateway
  <2>1. ASSUME NEW r \in Requests, Finish(r) PROVE GwInv'
        BY <1>1, <1>3, <2>1 DEF Finish
  <2>2. CASE GwTerminating
        BY <1>1, <1>3, <2>2 DEF GwTerminating, Terminating
  <2> QED BY <1>3, <2>1, <2>2, GwEnter, GwRelease DEF Gateway
<1>4. CASE use # "early"
      BY <1>2, <1>4
<1>5. CASE UNCHANGED gwVars
      BY <1>1, <1>5 DEF gwVars
<1> QED BY <1>3, <1>4, <1>5 DEF GwNext

\* The invariant of a process that releases early.
LEMMA GwInvAlways == G0Cap + G1Cap > 0 /\ GwSpec => [](use = "early" => GwInv)
<1>1. ASSUME G0Cap + G1Cap > 0 PROVE GwSpec => [](use = "early" => GwInv)
  <2>1. (use = "early" => GwInv) /\ [GwNext]_gwVars => (use = "early" => GwInv)'
        BY <1>1, GwInvStep
  <2>2. GwInit => (use = "early" => GwInv)
        BY GwInvInit
  <2> QED BY <2>1, <2>2, PTL DEF GwSpec
<1> QED BY <1>1

\* Whatever the arrival rate: with at least one ticket no request of the gateway
\* ever waits in the queue, times out in it or is refused by it (gateway.py lines
\* 504-531 and 787-813).
THEOREM GatewayNeverWaits == GwSpec => []NeverWaits
<1>1. CASE G0Cap + G1Cap > 0
  <2>1. (use = "early" => GwInv) => NeverWaits
        BY DEF GwInv, NeverWaits
  <2> QED BY <1>1, <2>1, GwInvAlways, PTL
<1>2. CASE ~(G0Cap + G1Cap > 0)
  <2>1. NeverWaits
        BY <1>2 DEF NeverWaits
  <2> QED BY <2>1, PTL
<1> QED BY <1>1, <1>2

\* Either use is a use of the gate, so what the gate promises holds under both.
THEOREM UsesTheGate == GwSpec => Spec
<1>1. GwInit => Init
      BY DEF GwInit
<1>2. ASSUME [GwNext]_gwVars PROVE [Next]_vars
  <2>1. ASSUME NEW r \in Requests, EnterGate(r) PROVE Next
        BY <2>1 DEF EnterGate, Next, Progress
  <2>2. ASSUME NEW r \in Requests, ReleaseAndSend(r) PROVE Next
        BY <2>2 DEF ReleaseAndSend, Next, Progress
  <2>3. ASSUME NEW r \in Requests, Finish(r) PROVE UNCHANGED vars
        BY <2>3 DEF Finish
  <2>4. CASE GwTerminating \/ UNCHANGED gwVars
        BY <2>4 DEF GwTerminating, Terminating, gwVars
  <2> QED BY <1>2, <2>1, <2>2, <2>3, <2>4 DEF GwNext, Gateway
<1> QED BY <1>1, <1>2, PTL DEF GwSpec, Spec

-----------------------------------------------------------------------------
(* The shares.  The sums are stated one worker at a time: Given is what the  *)
(* workers below an index have, it starts with 0 and grows by each share.    *)

\* What the first n workers have together.
Given(total, workers, n) ==
    n * (total \div workers) + (IF n < total % workers THEN n ELSE total % workers)

\* Division with a remainder.
LEMMA Division ==
    ASSUME NEW total \in Nat, NEW workers \in Nat \ {0}
    PROVE  /\ total \div workers \in Nat /\ total % workers \in 0..(workers - 1)
           /\ total = workers * (total \div workers) + (total % workers)
OBVIOUS

\* Nothing is given to nobody.
LEMMA GivenStarts ==
    ASSUME NEW total \in Nat, NEW workers \in Nat \ {0}
    PROVE  Given(total, workers, 0) = 0
BY Division DEF Given

\* Every worker adds its own share.
LEMMA GivenGrows ==
    ASSUME NEW total \in Nat, NEW workers \in Nat \ {0}, NEW i \in 0..(workers - 1)
    PROVE  Given(total, workers, i + 1) = Given(total, workers, i) + Split(total, workers, i)
<1> DEFINE q == total \div workers
           r == total % workers
<1>1. q \in Nat /\ r \in 0..(workers - 1)
      BY Division
<1>2. (i + 1) * q = i * q + q
      BY <1>1
<1>3. Split(total, workers, i) = q + (IF i < r THEN 1 ELSE 0)
      BY <1>1 DEF Split
<1> HIDE DEF q, r
<1>4. \A p \in Nat : (i + 1) * q = p + q /\ i * q = p =>
        (i + 1) * q + (IF i + 1 < r THEN i + 1 ELSE r)
          = i * q + (IF i < r THEN i ELSE r) + (q + (IF i < r THEN 1 ELSE 0))
      BY <1>1
<1>5. i * q \in Nat
      BY <1>1
<1> QED BY <1>2, <1>3, <1>4, <1>5 DEF Given, q, r

\* The shares of all the workers are exactly the total: none is lost to the rounding
\* and none is given out twice (docstring of _split_strict, line 99).
THEOREM SharesAddUp ==
    ASSUME NEW total \in Nat, NEW workers \in Nat \ {0}
    PROVE  /\ Given(total, workers, 0) = 0
           /\ \A i \in 0..(workers - 1) :
                Given(total, workers, i + 1)
                  = Given(total, workers, i) + Split(total, workers, i)
           /\ Given(total, workers, workers) = total
<1>1. Given(total, workers, workers) = total
      BY Division DEF Given
<1> QED BY <1>1, GivenStarts, GivenGrows

\* The gates of a worker have its share of the limit between them, but one ticket in
\* any case; a worker without an index takes the rounded share.  So a pod whose limit
\* is below the number of its workers lets more requests in than the limit says.
THEOREM GatesHaveTheShare ==
    ASSUME NEW limit \in Nat, NEW slots \in Nat, NEW workers \in Nat \ {0},
           NEW i \in -1..(workers - 1)
    PROVE  /\ Share(limit, slots, workers, i) \in [queue : Nat, gate0 : Nat, gate1 : Nat]
           /\ Tickets(Share(limit, slots, workers, i)) = AtLeast(Split(limit, workers, i), 1)
<1>1. workers \div workers = 1 /\ workers % workers = 0
  <2>1. \A q \in Nat, r \in 0..(workers - 1) :
          workers = workers * q + r => q = 1 /\ r = 0
    <3>1. \A q \in Nat : q # 0 /\ q # 1 => workers * q >= workers + workers
          OBVIOUS
    <3>2. workers * 0 = 0 /\ workers * 1 = workers
          OBVIOUS
    <3>3. \A q \in Nat : workers * q \in Nat
          OBVIOUS
    <3> QED BY <3>1, <3>2, <3>3
  <2> QED BY <2>1, Division
<1>2. Split(workers, workers, i) = 1
      BY <1>1 DEF Split
<1>3. ASSUME NEW total \in Nat PROVE Split(total, workers, i) \in Nat
  <2>1. total \div workers \in Nat
        BY Division
  <2> QED BY <2>1 DEF Split
<1> QED BY <1>2, <1>3 DEF Share, Tickets, AtLeast

\* A worker has a ticket whatever the settings are.
LEMMA AlwaysATicket ==
    ASSUME NEW limit \in Nat, NEW slots \in Nat, NEW workers \in Nat \ {0},
           NEW i \in -1..(workers - 1),
           G0Cap = Share(limit, slots, workers, i).gate0,
           G1Cap = Share(limit, slots, workers, i).gate1
    PROVE  G0Cap + G1Cap > 0
<1>1. Split(limit, workers, i) \in Nat
  <2>1. limit \div workers \in Nat
        BY Division
  <2> QED BY <2>1 DEF Split
<1>2. Tickets(Share(limit, slots, workers, i)) = AtLeast(Split(limit, workers, i), 1)
      BY GatesHaveTheShare
<1>3. AtLeast(Split(limit, workers, i), 1) > 0
      BY <1>1 DEF AtLeast
<1>4. Tickets(Share(limit, slots, workers, i)) = G0Cap + G1Cap
      BY DEF Tickets
<1> QED BY <1>2, <1>3, <1>4

\* With the gates that the settings give it, a worker of the proxy never lets a
\* request wait: neither a limit of 0 nor a limit below the number of workers closes
\* its gate (proxy_config.py lines 121-150, gateway.py lines 504-531).
THEOREM NoWorkerWaits ==
    ASSUME NEW limit \in Nat, NEW slots \in Nat, NEW workers \in Nat \ {0},
           NEW i \in -1..(workers - 1),
           G0Cap = Share(limit, slots, workers, i).gate0,
           G1Cap = Share(limit, slots, workers, i).gate1
    PROVE  GwSpec => [](use = "early" =>
                            \A r \in Requests : pc[r] \in {"idle", "holding", "served"})
<1>1. NeverWaits =>
        (use = "early" => \A r \in Requests : pc[r] \in {"idle", "holding", "served"})
      BY AlwaysATicket DEF NeverWaits
<1> QED BY <1>1, GatewayNeverWaits, PTL
=============================================================================
