--------------------------- MODULE RagStreamProofs ---------------------------
(***************************************************************************)
(* Proofs about RagStream for any number of chunks and results.            *)
(***************************************************************************)
EXTENDS RagStream, SequenceTheorems, TLAPS

\* No task puts anything more into the queue of s.
Ended(s) == IF s = Combine THEN combine = "ended" ELSE s \in ended

-----------------------------------------------------------------------------
(***************************************************************************)
(* The combining request is made of whole answers.                         *)
(***************************************************************************)
SeenInv ==
    /\ got \in [Sources -> Nat] /\ ended \subseteq Docs
    /\ combine \in {"reading", "ended"} =>
         ended = Docs /\ \A i \in Docs : seen[i] = got[i]

\* Every step keeps SeenInv: once all chunks are done nothing is received for them.
LEMMA SeenInvStep ==
    ASSUME SeenInv, [Next]_vars
    PROVE  SeenInv'
<1> USE RagAssumption DEF SeenInv, Docs, Sources, Combine
<1>1. ASSUME NEW i \in Docs, Collect(i) PROVE SeenInv'
  <2>1. i \notin ended /\ UNCHANGED <<ended, combine, seen>>
        BY <1>1 DEF Collect, Receive
  <2>2. got' = [got EXCEPT ![i] = got[i] + 1] /\ got' \in [Sources -> Nat]
        BY <1>1 DEF Collect, Receive
  <2> QED BY <2>1, <2>2
<1>2. ASSUME NEW i \in Docs, Finish(i) PROVE SeenInv'
      BY <1>2 DEF Finish
<1>3. CASE WarmUp
      BY <1>3 DEF WarmUp, Requested
<1>4. CASE CombineAll
  <2>1. ended = Docs /\ seen' = [i \in Docs |-> got[i]] /\ UNCHANGED <<got, ended>>
        BY <1>4 DEF CombineAll, Requested
  <2> QED BY <2>1
<1>5. CASE CombineReceives
  <2>1. combine = "reading" /\ UNCHANGED <<ended, combine, seen>>
        BY <1>5 DEF CombineReceives, Receive
  <2>2. got' = [got EXCEPT ![Combine] = got[Combine] + 1] /\ got' \in [Sources -> Nat]
        BY <1>5 DEF CombineReceives, Receive
  <2> QED BY <2>1, <2>2
<1>6. CASE CombineEnds
      BY <1>6 DEF CombineEnds
<1>7. CASE Monitor \/ Send \/ Leave \/ Over \/ UNCHANGED vars
      BY <1>7 DEF Monitor, Send, Leave, Over, vars, reading
<1> QED BY <1>1, <1>2, <1>3, <1>4, <1>5, <1>6, <1>7 DEF Next, Tasks

\* SeenInv holds of every reachable state.
LEMMA SeenInductive == Spec => []SeenInv
<1>1. Init => SeenInv
      BY DEF Init, SeenInv
<1> QED BY <1>1, SeenInvStep, PTL DEF Spec

\* The combining request is made of the whole answers about all chunks, however
\* many there are and in whatever order they end.
THEOREM CombinesWholeAnswers == Spec => []CombinesEverything
<1>1. SeenInv => CombinesEverything
      BY DEF SeenInv, CombinesEverything
<1> QED BY <1>1, SeenInductive, PTL

-----------------------------------------------------------------------------
(***************************************************************************)
(* The order of the results.  A queue holds ascending numbers and then,    *)
(* perhaps, an End; what the client has of the source being sent comes     *)
(* before what is left in its queue.                                       *)
(***************************************************************************)
Ordered(q) ==
    \A j, k \in 1..Len(q) : j < k => q[j] # End /\ (q[k] = End \/ q[j] < q[k])
AtMost(q, n) == \A k \in 1..Len(q) : q[k] <= n
HasNoEnd(q) == \A k \in 1..Len(q) : q[k] # End

QueueInv ==
    /\ got \in [Sources -> Nat] /\ queue \in [Sources -> Seq(Nat)] /\ ended \subseteq Docs
    /\ \A s \in Sources : /\ Ordered(queue[s]) /\ AtMost(queue[s], got[s])
                          /\ Ended(s) \/ HasNoEnd(queue[s])

\* What Append and Tail do to such a queue.
LEMMA AppendShape ==
    ASSUME NEW q \in Seq(Nat), NEW x \in Nat
    PROVE  /\ Append(q, x) \in Seq(Nat) /\ Len(Append(q, x)) = Len(q) + 1
           /\ \A k \in 1..Len(q) : Append(q, x)[k] = q[k]
           /\ Append(q, x)[Len(q) + 1] = x /\ Len(q) \in Nat
OBVIOUS

\* The next number of a source that has not ended.
LEMMA NextNumber ==
    ASSUME NEW q \in Seq(Nat), NEW n \in Nat, Ordered(q), AtMost(q, n), HasNoEnd(q)
    PROVE  /\ Ordered(Append(q, n + 1)) /\ AtMost(Append(q, n + 1), n + 1)
           /\ HasNoEnd(Append(q, n + 1))
<1> DEFINE d == Append(q, n + 1)
<1>1. /\ d \in Seq(Nat) /\ Len(d) = Len(q) + 1 /\ Len(q) \in Nat
      /\ \A k \in 1..Len(q) : d[k] = q[k]
      /\ d[Len(q) + 1] = n + 1
      BY AppendShape
<1> HIDE DEF d
<1>2. ASSUME NEW j \in 1..Len(d) PROVE j \in 1..Len(q) \/ j = Len(q) + 1
      BY <1>1
<1>3. ASSUME NEW j \in 1..Len(d)
      PROVE  d[j] \in Nat /\ d[j] <= n + 1 /\ d[j] # End
  <2>1. CASE j \in 1..Len(q)
        BY <1>1, <2>1 DEF AtMost, HasNoEnd
  <2>2. CASE j = Len(q) + 1
        BY <1>1, <2>2 DEF End
  <2> QED BY <1>2, <2>1, <2>2
<1>4. ASSUME NEW j \in 1..Len(d), NEW k \in 1..Len(d), j < k
      PROVE  d[j] < d[k]
  <2>1. j \in 1..Len(q)
        BY <1>1, <1>4
  <2>2. CASE k \in 1..Len(q)
        BY <1>1, <1>3, <1>4, <2>1, <2>2 DEF Ordered
  <2>3. CASE k = Len(q) + 1
    <3>1. d[j] = q[j] /\ q[j] <= n /\ q[j] \in Nat
          BY <1>1, <2>1 DEF AtMost
    <3>2. d[k] = n + 1
          BY <1>1, <2>3
    <3> QED BY <3>1, <3>2
  <2> QED BY <1>2, <2>2, <2>3
<1>5. Ordered(d)
      BY <1>3, <1>4 DEF Ordered
<1>6. AtMost(d, n + 1) /\ HasNoEnd(d)
      BY <1>3 DEF AtMost, HasNoEnd
<1> QED BY <1>5, <1>6 DEF d

\* The End of a source that has not ended.
LEMMA LastNumber ==
    ASSUME NEW q \in Seq(Nat), NEW n \in Nat, Ordered(q), AtMost(q, n), HasNoEnd(q)
    PROVE  Ordered(Append(q, End)) /\ AtMost(Append(q, End), n)
<1> DEFINE d == Append(q, End)
<1>1. /\ d \in Seq(Nat) /\ Len(d) = Len(q) + 1 /\ Len(q) \in Nat
      /\ \A k \in 1..Len(q) : d[k] = q[k]
      /\ d[Len(q) + 1] = End
      BY AppendShape DEF End
<1> HIDE DEF d
<1>2. ASSUME NEW j \in 1..Len(d) PROVE j \in 1..Len(q) \/ j = Len(q) + 1
      BY <1>1
<1>3. ASSUME NEW j \in 1..Len(d) PROVE d[j] <= n
  <2>1. CASE j \in 1..Len(q)
        BY <1>1, <2>1 DEF AtMost
  <2>2. CASE j = Len(q) + 1
    <3>1. d[j] = 0 /\ 0 <= n
          BY <1>1, <2>2 DEF End
    <3> QED BY <3>1
  <2> QED BY <1>2, <2>1, <2>2
<1>4. ASSUME NEW j \in 1..Len(d), NEW k \in 1..Len(d), j < k
      PROVE  d[j] # End /\ (d[k] = End \/ d[j] < d[k])
  <2>1. j \in 1..Len(q) /\ d[j] = q[j] /\ q[j] # End
    <3>1. j \in 1..Len(q)
          BY <1>1, <1>4
    <3> QED BY <1>1, <3>1 DEF HasNoEnd
  <2>2. CASE k \in 1..Len(q)
    <3>1. d[k] = q[k] /\ q[k] # End
          BY <1>1, <2>2 DEF HasNoEnd
    <3> QED BY <1>4, <2>1, <2>2, <3>1 DEF Ordered
  <2> QED BY <1>1, <1>2, <2>1, <2>2
<1>5. Ordered(d)
      BY <1>4 DEF Ordered
<1>6. AtMost(d, n)
      BY <1>3 DEF AtMost
<1> QED BY <1>5, <1>6 DEF d

\* Taking the head: the rest keeps its shape, and an End is alone.
LEMMA Taken ==
    ASSUME NEW q \in Seq(Nat), NEW n \in Nat, Ordered(q), AtMost(q, n), q # <<>>
    PROVE  /\ Tail(q) \in Seq(Nat) /\ Head(q) \in Nat /\ Head(q) = q[1]
           /\ Len(Tail(q)) = Len(q) - 1 /\ Len(q) \in Nat \ {0}
           /\ \A k \in 1..Len(Tail(q)) : Tail(q)[k] = q[k + 1]
           /\ Ordered(Tail(q)) /\ AtMost(Tail(q), n)
           /\ HasNoEnd(q) => HasNoEnd(Tail(q))
           /\ Head(q) = End => Tail(q) = <<>> /\ Len(q) = 1
           /\ Head(q) # End => \A k \in 1..Len(Tail(q)) :
                                  Tail(q)[k] # End => Head(q) < Tail(q)[k]
<1> DEFINE t == Tail(q)
<1>1. /\ t \in Seq(Nat) /\ Head(q) = q[1] /\ Len(t) = Len(q) - 1 /\ Len(q) \in Nat \ {0}
      /\ \A k \in 1..Len(t) : t[k] = q[k + 1]
      OBVIOUS
<1> HIDE DEF t
<1>2. ASSUME NEW k \in 1..Len(t)
      PROVE  k + 1 \in 1..Len(q) /\ 1 \in 1..Len(q) /\ 1 < k + 1 /\ t[k] = q[k + 1]
      BY <1>1
<1>3. Ordered(t)
  <2>1. ASSUME NEW j \in 1..Len(t), NEW k \in 1..Len(t), j < k
        PROVE  t[j] # End /\ (t[k] = End \/ t[j] < t[k])
    <3>1. j + 1 < k + 1
          BY <2>1
    <3> QED BY <1>2, <3>1 DEF Ordered
  <2> QED BY <2>1 DEF Ordered
<1>4. AtMost(t, n) /\ (HasNoEnd(q) => HasNoEnd(t))
      BY <1>2 DEF AtMost, HasNoEnd
<1>5. ASSUME Head(q) = End PROVE t = <<>> /\ Len(q) = 1
  <2>1. ASSUME 1 \in 1..Len(t) PROVE FALSE
        BY <1>1, <1>2, <1>5, <2>1 DEF Ordered
  <2>2. Len(t) = 0 /\ Len(q) = 1
        BY <1>1, <2>1
  <2> QED BY <1>1, <2>2, EmptySeq
<1>6. ASSUME Head(q) # End, NEW k \in 1..Len(t), t[k] # End PROVE Head(q) < t[k]
      BY <1>1, <1>2, <1>6 DEF Ordered
<1>7. Head(q) \in Nat
      BY <1>1
<1> QED BY <1>1, <1>3, <1>4, <1>5, <1>6, <1>7 DEF t

-----------------------------------------------------------------------------
(***************************************************************************)
(* What a step does to the queues: a number arrives, an End is put, the    *)
(* generator sends, or nothing.                                            *)
(***************************************************************************)
NumberArrives(s) ==
    /\ ~Ended(s)
    /\ queue' = [queue EXCEPT ![s] = Append(queue[s], got[s] + 1)]
    /\ got' = [got EXCEPT ![s] = got[s] + 1]
    /\ UNCHANGED <<ended, combine, at, out>>
EndIsPut(s) ==
    /\ ~Ended(s) /\ Ended(s)' /\ \A r \in Sources \ {s} : Ended(r)' = Ended(r)
    /\ queue' = [queue EXCEPT ![s] = Append(queue[s], End)]
    /\ ended' \subseteq Docs /\ UNCHANGED <<got, at, out>>
Elsewhere ==
    /\ \A r \in Sources : Ended(r)' = Ended(r)
    /\ UNCHANGED <<queue, got, ended, at, out>>

\* The monitor leaves the queue as it was, as an End at its head is alone there.
LEMMA MonitorPutsBackWhatItTook ==
    ASSUME QueueInv, Monitor PROVE UNCHANGED queue
<1> DEFINE q == queue[Combine]
<1>1. Combine \in Sources
      BY RagAssumption DEF Combine, Sources
<1>2. q \in Seq(Nat) /\ q # <<>> /\ Ordered(q) /\ AtMost(q, got[Combine]) /\ got[Combine] \in Nat
      BY <1>1 DEF Monitor, QueueInv
<1> HIDE DEF q
<1>3. CASE Head(q) = End
  <2>1. Tail(q) = <<>> /\ Len(q) = 1 /\ Head(q) = q[1]
        BY <1>2, <1>3, Taken
  <2>2. q = <<End>>
        BY <1>2, <1>3, <2>1
  <2>3. Append(Tail(q), End) = q
        BY <2>1, <2>2
  <2>4. queue' = [queue EXCEPT ![Combine] = q]
        BY <1>3, <2>3 DEF Monitor, q
  <2> QED BY <1>1, <2>4 DEF QueueInv, q
<1>4. CASE Head(q) # End
      BY <1>4 DEF Monitor, q
<1> QED BY <1>3, <1>4

\* Every step is one of these.
LEMMA StepKinds ==
    ASSUME QueueInv, [Next]_vars
    PROVE  \/ \E s \in Sources : NumberArrives(s) \/ EndIsPut(s)
           \/ Elsewhere \/ Send
<1>0. Combine \in Sources /\ Docs \subseteq Sources /\ Combine \notin Docs
      BY RagAssumption DEF Combine, Sources, Docs
<1>1. ASSUME NEW i \in Docs, Collect(i) PROVE NumberArrives(i)
  <2>1. ~Ended(i)
        BY <1>0, <1>1 DEF Collect, Ended
  <2>2. got' = [got EXCEPT ![i] = got[i] + 1] /\ got'[i] = got[i] + 1
        BY <1>0, <1>1 DEF Collect, Receive, QueueInv
  <2> QED BY <1>1, <2>1, <2>2 DEF Collect, Receive, Put, NumberArrives, sending
<1>2. ASSUME NEW i \in Docs, Finish(i) PROVE EndIsPut(i)
  <2>1. ~Ended(i) /\ Ended(i)' /\ \A r \in Sources \ {i} : Ended(r)' = Ended(r)
        BY <1>0, <1>2 DEF Finish, Ended
  <2>2. ended' \subseteq Docs
        BY <1>2 DEF Finish, QueueInv
  <2> QED BY <1>2, <2>1, <2>2 DEF Finish, Put, EndIsPut, sending
<1>3. CASE CombineReceives
  <2>1. ~Ended(Combine)
        BY <1>3 DEF CombineReceives, Ended
  <2>2. got' = [got EXCEPT ![Combine] = got[Combine] + 1] /\ got'[Combine] = got[Combine] + 1
        BY <1>0, <1>3 DEF CombineReceives, Receive, QueueInv
  <2>3. NumberArrives(Combine)
        BY <1>3, <2>1, <2>2 DEF CombineReceives, Receive, Put, NumberArrives, sending
  <2> QED BY <1>0, <2>3
<1>4. CASE CombineEnds
  <2>1. ~Ended(Combine) /\ Ended(Combine)'
        BY <1>4 DEF CombineEnds, Ended
  <2>2. \A r \in Sources \ {Combine} : Ended(r)' = Ended(r)
        BY <1>4 DEF CombineEnds, Ended
  <2>3. EndIsPut(Combine)
        BY <1>4, <2>1, <2>2 DEF CombineEnds, Put, EndIsPut, sending, QueueInv
  <2> QED BY <1>0, <2>3
<1>5. CASE WarmUp \/ CombineAll
      BY <1>5 DEF WarmUp, CombineAll, Requested, Elsewhere, Ended, sending
<1>6. CASE Monitor
  <2>1. UNCHANGED queue
        BY <1>6, MonitorPutsBackWhatItTook
  <2> QED BY <1>6, <2>1 DEF Monitor, Elsewhere, Ended, reading, sending
<1>7. CASE Leave \/ Over \/ UNCHANGED vars
      BY <1>7 DEF Leave, Over, Elsewhere, Ended, vars, reading, sending
<1> QED BY <1>0, <1>1, <1>2, <1>3, <1>4, <1>5, <1>6, <1>7 DEF Next, Tasks

-----------------------------------------------------------------------------
\* QueueInv is kept if the queue of one source changes and keeps its shape.
LEMMA OneQueueChanges ==
    ASSUME QueueInv, NEW s \in Sources, NEW q \in Seq(Nat), NEW n \in Nat,
           queue' = [queue EXCEPT ![s] = q], got' = [got EXCEPT ![s] = n],
           ended' \subseteq Docs, \A r \in Sources \ {s} : Ended(r) => Ended(r)',
           Ordered(q), AtMost(q, n), Ended(s)' \/ HasNoEnd(q)
    PROVE  QueueInv'
<1>1. /\ got' \in [Sources -> Nat] /\ got'[s] = n
      /\ queue' \in [Sources -> Seq(Nat)] /\ queue'[s] = q
      /\ \A r \in Sources \ {s} : queue'[r] = queue[r] /\ got'[r] = got[r]
      BY DEF QueueInv
<1>2. ASSUME NEW r \in Sources
      PROVE  Ordered(queue'[r]) /\ AtMost(queue'[r], got'[r]) /\ (Ended(r)' \/ HasNoEnd(queue'[r]))
  <2>1. CASE r = s
        BY <1>1, <2>1
  <2>2. CASE r # s
    <3>1. /\ Ordered(queue[r]) /\ AtMost(queue[r], got[r]) /\ (Ended(r) \/ HasNoEnd(queue[r]))
          /\ queue'[r] = queue[r] /\ got'[r] = got[r] /\ (Ended(r) => Ended(r)')
          BY <1>1, <2>2 DEF QueueInv
    <3> QED BY <3>1
  <2> QED BY <2>1, <2>2
<1> QED BY <1>1, <1>2 DEF QueueInv, Ordered, AtMost, HasNoEnd

\* What QueueInv says of one source.
LEMMA QueueOf ==
    ASSUME QueueInv, NEW s \in Sources
    PROVE  /\ queue[s] \in Seq(Nat) /\ got[s] \in Nat
           /\ Ordered(queue[s]) /\ AtMost(queue[s], got[s])
           /\ Ended(s) \/ HasNoEnd(queue[s])
BY DEF QueueInv

\* The source being sent, when its queue is taken from.
LEMMA SendTakes ==
    ASSUME QueueInv, Send
    PROVE  /\ at \in Sources /\ queue[at] \in Seq(Nat) /\ queue[at] # <<>>
           /\ queue' = [queue EXCEPT ![at] = Tail(queue[at])]
           /\ UNCHANGED <<got, ended, combine>>
           /\ \/ Head(queue[at]) = End /\ at' = at + 1 /\ UNCHANGED out
              \/ /\ Head(queue[at]) # End /\ UNCHANGED at
                 /\ out' = Append(out, <<at, Head(queue[at])>>)
BY DEF Send, Streaming, Take, QueueInv, reading

\* Every step keeps QueueInv.
LEMMA QueueInvStep ==
    ASSUME QueueInv, [Next]_vars PROVE QueueInv'
<1>1. ASSUME NEW s \in Sources, NumberArrives(s) PROVE QueueInv'
  <2>1. /\ queue[s] \in Seq(Nat) /\ got[s] \in Nat /\ got[s] + 1 \in Nat
        /\ Ordered(queue[s]) /\ AtMost(queue[s], got[s]) /\ HasNoEnd(queue[s])
        BY <1>1, QueueOf DEF NumberArrives
  <2>2. Append(queue[s], got[s] + 1) \in Seq(Nat)
        BY <2>1
  <2>3. /\ Ordered(Append(queue[s], got[s] + 1)) /\ HasNoEnd(Append(queue[s], got[s] + 1))
        /\ AtMost(Append(queue[s], got[s] + 1), got[s] + 1)
        BY <2>1, NextNumber
  <2>4. ended' \subseteq Docs /\ \A r \in Sources : Ended(r)' = Ended(r)
        BY <1>1 DEF NumberArrives, QueueInv, Ended
  <2> QED BY <1>1, <2>1, <2>2, <2>3, <2>4, OneQueueChanges DEF NumberArrives
<1>2. ASSUME NEW s \in Sources, EndIsPut(s) PROVE QueueInv'
  <2>1. /\ queue[s] \in Seq(Nat) /\ got[s] \in Nat
        /\ Ordered(queue[s]) /\ AtMost(queue[s], got[s]) /\ HasNoEnd(queue[s])
        BY <1>2, QueueOf DEF EndIsPut
  <2>2. Append(queue[s], End) \in Seq(Nat)
        BY <2>1 DEF End
  <2>3. Ordered(Append(queue[s], End)) /\ AtMost(Append(queue[s], End), got[s])
        BY <2>1, LastNumber
  <2>4. got' = [got EXCEPT ![s] = got[s]]
        BY <1>2 DEF EndIsPut, QueueInv
  <2> QED BY <1>2, <2>1, <2>2, <2>3, <2>4, OneQueueChanges DEF EndIsPut
<1>3. CASE Elsewhere
      BY <1>3 DEF Elsewhere, QueueInv
<1>4. CASE Send
  <2> DEFINE t == Tail(queue[at])
  <2>1. /\ at \in Sources /\ queue[at] \in Seq(Nat) /\ queue[at] # <<>>
        /\ queue' = [queue EXCEPT ![at] = t] /\ UNCHANGED <<got, ended, combine>>
        BY <1>4, SendTakes
  <2>2. /\ got[at] \in Nat /\ Ordered(queue[at]) /\ AtMost(queue[at], got[at])
        /\ Ended(at) \/ HasNoEnd(queue[at])
        BY <2>1, QueueOf
  <2>3. /\ t \in Seq(Nat) /\ Ordered(t) /\ AtMost(t, got[at])
        /\ HasNoEnd(queue[at]) => HasNoEnd(t)
        BY <2>1, <2>2, Taken
  <2>4. got' = [got EXCEPT ![at] = got[at]]
        BY <2>1 DEF QueueInv
  <2>5. ended' \subseteq Docs /\ \A r \in Sources : Ended(r)' = Ended(r)
        BY <2>1 DEF QueueInv, Ended
  <2> HIDE DEF t
  <2> QED BY <2>1, <2>2, <2>3, <2>4, <2>5, OneQueueChanges
<1> QED BY StepKinds, <1>1, <1>2, <1>3, <1>4

-----------------------------------------------------------------------------
(***************************************************************************)
(* The results that were sent come before those still to be sent.          *)
(***************************************************************************)
Below(x, q) == \A k \in 1..Len(q) : q[k] # End => x < q[k]
Sent(x) == /\ x \in Sources \X Nat /\ x[1] <= at /\ x[2] <= got[x[1]]
           /\ x[1] = at => Below(x[2], queue[at])
OutInv ==
    /\ at \in Nat /\ out \in Seq(Sources \X Nat)
    /\ \A i \in 1..Len(out) : Sent(out[i])
    /\ \A i, j \in 1..Len(out) : i < j => Before(out[i], out[j])

\* What was sent stays below a queue to which the next number or an End is put.
LEMMA BelowAppended ==
    ASSUME NEW q \in Seq(Nat), NEW x \in Nat, NEW y \in Nat, Below(x, q), y = End \/ x < y
    PROVE  Below(x, Append(q, y))
<1>1. /\ Append(q, y) \in Seq(Nat) /\ Len(Append(q, y)) = Len(q) + 1
      /\ \A k \in 1..Len(q) : Append(q, y)[k] = q[k]
      /\ Append(q, y)[Len(q) + 1] = y /\ Len(q) \in Nat
      BY AppendShape
<1>2. ASSUME NEW k \in 1..Len(Append(q, y)) PROVE k \in 1..Len(q) \/ k = Len(q) + 1
      BY <1>1
<1> QED BY <1>1, <1>2 DEF Below

\* A result that was sent stays sent when something is put into a queue.
LEMMA SentPut ==
    ASSUME QueueInv, NEW x, Sent(x), at \in Nat, NEW s \in Sources, NEW y \in Nat,
           y = End \/ got[s] < y, UNCHANGED at,
           queue' = [queue EXCEPT ![s] = Append(queue[s], y)],
           got' \in [Sources -> Nat], \A r \in Sources : got[r] <= got'[r]
    PROVE  Sent(x)'
<1>1. /\ x \in Sources \X Nat /\ x[1] \in Sources /\ x[2] \in Nat /\ x[1] <= at
      /\ x[2] <= got[x[1]] /\ (x[1] = at => Below(x[2], queue[at]))
      BY DEF Sent
<1>2. got[x[1]] \in Nat /\ got'[x[1]] \in Nat /\ got[x[1]] <= got'[x[1]]
      BY <1>1 DEF QueueInv
<1>3. x[2] <= got'[x[1]]
      BY <1>1, <1>2
<1>4. ASSUME x[1] = at PROVE Below(x[2], queue'[at])
  <2>1. CASE s = at
    <3>1. y = End \/ x[2] < y
          BY <1>1, <1>2, <1>4, <2>1
    <3>2. queue[s] \in Seq(Nat) /\ queue'[at] = Append(queue[s], y)
          BY <2>1 DEF QueueInv
    <3> QED BY <1>1, <1>4, <2>1, <3>1, <3>2, BelowAppended
  <2>2. CASE s # at
    <3>1. queue'[at] = queue[at]
          BY <1>1, <1>4, <2>2 DEF QueueInv
    <3> QED BY <1>1, <1>4, <3>1
  <2> QED BY <2>1, <2>2
<1>5. /\ x \in Sources \X Nat /\ x[1] <= at' /\ x[2] <= got'[x[1]]
      /\ x[1] = at' => Below(x[2], queue'[at'])
      BY <1>1, <1>3, <1>4
<1> QED BY <1>5 DEF Sent, Below

\* Every step keeps OutInv.
LEMMA OutInvPut ==
    ASSUME QueueInv, OutInv, NEW s \in Sources, NumberArrives(s) \/ EndIsPut(s)
    PROVE  OutInv'
<1>1. UNCHANGED <<at, out>> /\ at \in Nat
      BY DEF NumberArrives, EndIsPut, OutInv
<1>2. got \in [Sources -> Nat]
      BY DEF QueueInv
<1>3. PICK y \in Nat : /\ y = End \/ got[s] < y
                       /\ queue' = [queue EXCEPT ![s] = Append(queue[s], y)]
  <2>1. CASE NumberArrives(s)
    <3>1. got[s] + 1 \in Nat /\ got[s] < got[s] + 1
          BY <1>2
    <3> QED BY <2>1, <3>1 DEF NumberArrives
  <2>2. CASE EndIsPut(s)
        BY <2>2 DEF EndIsPut, End
  <2> QED BY <2>1, <2>2
<1>4. got' \in [Sources -> Nat] /\ \A r \in Sources : got[r] <= got'[r]
  <2>1. CASE NumberArrives(s)
        BY <1>2, <2>1 DEF NumberArrives
  <2>2. CASE EndIsPut(s)
        BY <1>2, <2>2 DEF EndIsPut
  <2> QED BY <2>1, <2>2
<1>5. ASSUME NEW i \in 1..Len(out) PROVE Sent(out[i])'
  <2>1. Sent(out[i]) /\ out'[i] = out[i]
        BY <1>1 DEF OutInv
  <2> DEFINE x == out[i]
  <2>2. Sent(x) /\ x' = x
        BY <1>1, <2>1
  <2> HIDE DEF x
  <2>3. Sent(x)'
        BY <1>1, <1>3, <1>4, <2>2, SentPut
  <2> QED BY <2>3 DEF x
<1> QED BY <1>1, <1>5 DEF OutInv, Before

\* The same for a step of the generator.
LEMMA OutInvSend ==
    ASSUME QueueInv, OutInv, Send PROVE OutInv'
<1> DEFINE q == queue[at]
           t == Tail(queue[at])
           n == Head(queue[at])
<1>1. /\ at \in Sources /\ q \in Seq(Nat) /\ q # <<>>
      /\ queue' = [queue EXCEPT ![at] = t] /\ UNCHANGED got
      /\ \/ n = End /\ at' = at + 1 /\ UNCHANGED out
         \/ n # End /\ UNCHANGED at /\ out' = Append(out, <<at, n>>)
      BY SendTakes
<1>2. got[at] \in Nat /\ Ordered(q) /\ AtMost(q, got[at])
      BY <1>1, QueueOf
<1>3. /\ t \in Seq(Nat) /\ n \in Nat /\ n = q[1] /\ Len(t) = Len(q) - 1 /\ Len(q) \in Nat \ {0}
      /\ \A k \in 1..Len(t) : t[k] = q[k + 1]
      /\ n # End => Below(n, t)
      BY <1>1, <1>2, Taken DEF Below
<1>4. queue'[at] = t
      BY <1>1 DEF QueueInv
<1>5. /\ at \in Nat /\ out \in Seq(Sources \X Nat) /\ Len(out) \in Nat
      /\ \A i \in 1..Len(out) : Sent(out[i])
      /\ \A i, j \in 1..Len(out) : i < j => Before(out[i], out[j])
      BY DEF OutInv
<1>6. \A r \in Sources : got[r] \in Nat
      BY DEF QueueInv
<1> HIDE DEF q, t, n
<1>7. ASSUME NEW x, Sent(x) PROVE Sent(x)'
  <2>1. /\ x \in Sources \X Nat /\ x[1] \in Sources /\ x[2] \in Nat
        /\ x[1] <= at /\ x[2] <= got[x[1]] /\ (x[1] = at => Below(x[2], q))
        BY <1>7 DEF Sent, q
  <2>2. CASE at' = at + 1
    <3>1. x[1] \in Int /\ x[1] <= at' /\ x[1] # at'
          BY <1>5, <2>1, <2>2 DEF Sources, Combine
    <3> QED BY <1>1, <2>1, <3>1 DEF Sent
  <2>3. CASE at' = at
    <3>1. ASSUME x[1] = at PROVE Below(x[2], t)
      <4>1. ASSUME NEW k \in 1..Len(t), t[k] # End PROVE x[2] < t[k]
        <5>1. k + 1 \in 1..Len(q) /\ t[k] = q[k + 1]
              BY <1>3
        <5> QED BY <2>1, <3>1, <4>1, <5>1 DEF Below
      <4> QED BY <4>1 DEF Below
    <3> QED BY <1>1, <1>4, <2>1, <2>3, <3>1 DEF Sent, Below
  <2> QED BY <1>1, <2>2, <2>3
<1>8. CASE n = End /\ at' = at + 1 /\ UNCHANGED out
  <2>1. ASSUME NEW i \in 1..Len(out) PROVE Sent(out[i])'
    <3> DEFINE x == out[i]
    <3>1. Sent(x) /\ x' = x
          BY <1>5, <1>8
    <3> HIDE DEF x
    <3>2. Sent(x)'
          BY <1>7, <3>1
    <3> QED BY <3>2 DEF x
  <2> QED BY <1>5, <1>8, <2>1 DEF OutInv, Before
<1>9. CASE n # End /\ UNCHANGED at /\ out' = Append(out, <<at, n>>)
  <2>1. PICK y \in Sources \X Nat : y = <<at, n>>
        BY <1>1, <1>3
  <2>2. /\ out' \in Seq(Sources \X Nat) /\ Len(out') = Len(out) + 1
        /\ \A i \in 1..Len(out) : out'[i] = out[i]
        /\ out'[Len(out) + 1] = y
        BY <1>5, <1>9, <2>1
  <2>3. y[1] = at /\ y[2] = n /\ n <= got[at] /\ 1 \in 1..Len(q)
        BY <1>2, <1>3, <2>1 DEF AtMost
  <2>4. Sent(y)'
    <3>1. y \in Sources \X Nat /\ y[1] <= at' /\ y[2] <= got'[y[1]]
          BY <1>1, <1>5, <1>9, <2>1, <2>3
    <3>2. Below(y[2], queue'[at'])
          BY <1>3, <1>4, <1>9, <2>3
    <3> QED BY <3>1, <3>2 DEF Sent, Below
  <2>5. ASSUME NEW j \in 1..Len(out') PROVE j \in 1..Len(out) \/ j = Len(out) + 1
        BY <1>5, <2>2
  <2>6. ASSUME NEW j \in 1..Len(out') PROVE Sent(out[j])'
    <3>1. PICK x : x = out'[j]
          OBVIOUS
    <3>2. CASE j \in 1..Len(out)
      <4>1. Sent(x)
            BY <1>5, <2>2, <3>1, <3>2
      <4>2. Sent(x)'
            BY <1>7, <4>1
      <4> QED BY <3>1, <4>2 DEF Sent, Below
    <3>3. CASE j = Len(out) + 1
      <4>1. x = y
            BY <2>2, <3>1, <3>3
      <4>2. Sent(x)'
            BY <2>4, <4>1
      <4> QED BY <3>1, <4>2 DEF Sent, Below
    <3> QED BY <2>5, <3>2, <3>3
  <2>7. ASSUME NEW j \in 1..Len(out) PROVE Before(out[j], y)
    <3>1. Sent(out[j]) /\ out[j][1] <= at /\ (out[j][1] = at => Below(out[j][2], q))
          BY <1>5 DEF Sent, q
    <3>2. out[j][1] \in Int
          BY <3>1 DEF Sent, Sources, Combine
    <3>3. CASE out[j][1] = at
          BY <1>3, <1>9, <2>3, <3>1, <3>3 DEF Below, Before
    <3>4. CASE out[j][1] < at
          BY <2>3, <3>4 DEF Before
    <3> QED BY <1>5, <3>1, <3>2, <3>3, <3>4
  <2>8. ASSUME NEW i \in 1..Len(out'), NEW j \in 1..Len(out'), i < j
        PROVE  Before(out'[i], out'[j])
    <3>1. i \in 1..Len(out)
          BY <1>5, <2>2, <2>8
    <3>2. CASE j \in 1..Len(out)
          BY <1>5, <2>2, <2>8, <3>1, <3>2
    <3>3. CASE j = Len(out) + 1
          BY <2>2, <2>7, <3>1, <3>3
    <3> QED BY <2>5, <3>2, <3>3
  <2> QED BY <1>5, <1>9, <2>2, <2>6, <2>8 DEF OutInv, Before
<1> QED BY <1>1, <1>8, <1>9

\* QueueInv and OutInv hold of every reachable state.
LEMMA OrderInductive == Spec => [](QueueInv /\ OutInv)
<1>1. Init => QueueInv /\ OutInv
  <2> SUFFICES ASSUME Init PROVE QueueInv /\ OutInv
      OBVIOUS
  <2>1. \A s \in Sources : Len(queue[s]) = 0 /\ queue[s] \in Seq(Nat)
        BY DEF Init
  <2>2. QueueInv
        BY <2>1 DEF Init, QueueInv, Ordered, AtMost, HasNoEnd
  <2>3. out = <<>> /\ Len(out) = 0 /\ at = 1
        BY EmptySeq DEF Init
  <2> QED BY <2>2, <2>3 DEF OutInv
<1>2. ASSUME QueueInv, OutInv, [Next]_vars PROVE (QueueInv /\ OutInv)'
  <2>1. CASE Elsewhere
    <3>1. OutInv'
          BY <1>2, <2>1 DEF Elsewhere, OutInv, Sent, Below, Before
    <3> QED BY <1>2, <3>1, QueueInvStep
  <2> QED BY <1>2, <2>1, QueueInvStep, OutInvPut, OutInvSend, StepKinds
<1> QED BY <1>1, <1>2, PTL DEF Spec

\* The client gets the results in the order of their sources and, for one source, in
\* the order in which the model produced them, however they arrive.
THEOREM ResultsInOrder == Spec => []InOrder
<1>1. OutInv => InOrder
      BY DEF OutInv, InOrder
<1> QED BY <1>1, OrderInductive, PTL

-----------------------------------------------------------------------------
(***************************************************************************)
(* Nothing is lost: a result is in its queue until the client has it, and  *)
(* a source the generator is done with has ended.                          *)
(***************************************************************************)
InOut(s, k) == \E i \in 1..Len(out) : out[i] = <<s, k>>
InQueue(s, k) == \E j \in 1..Len(queue[s]) : queue[s][j] = k
LostInv ==
    /\ \A s \in Sources : \A k \in 1..got[s] : InOut(s, k) \/ InQueue(s, k)
    /\ \A s \in Sources : s < at => Ended(s) /\ queue[s] = <<>>

\* LostInv is kept when something is put into a queue.
LEMMA LostInvPut ==
    ASSUME QueueInv, OutInv, LostInv, NEW s \in Sources, NumberArrives(s) \/ EndIsPut(s)
    PROVE  LostInv'
<1>1. ~Ended(s) /\ UNCHANGED <<at, out>>
      BY DEF NumberArrives, EndIsPut
<1>2. PICK y \in Nat : /\ queue' = [queue EXCEPT ![s] = Append(queue[s], y)]
                       /\ \/ got' = [got EXCEPT ![s] = got[s] + 1] /\ y = got[s] + 1
                          \/ UNCHANGED got
  <2>1. got[s] + 1 \in Nat /\ End \in Nat
        BY DEF QueueInv, End
  <2> QED BY <2>1 DEF NumberArrives, EndIsPut
<1>3. /\ queue[s] \in Seq(Nat) /\ got[s] \in Nat /\ queue'[s] = Append(queue[s], y)
      /\ \A r \in Sources \ {s} : queue'[r] = queue[r] /\ got'[r] = got[r]
      BY <1>2 DEF QueueInv
<1>4. /\ queue'[s] \in Seq(Nat) /\ Len(queue'[s]) = Len(queue[s]) + 1
      /\ \A k \in 1..Len(queue[s]) : queue'[s][k] = queue[s][k]
      /\ queue'[s][Len(queue[s]) + 1] = y /\ Len(queue[s]) \in Nat
      BY <1>3, AppendShape
<1>5. ASSUME NEW r \in Sources, NEW k, InQueue(r, k) PROVE InQueue(r, k)'
  <2>1. PICK j \in 1..Len(queue[r]) : queue[r][j] = k
        BY <1>5 DEF InQueue
  <2>2. j \in 1..Len(queue'[r]) /\ queue'[r][j] = k
    <3>1. CASE r = s
          BY <1>4, <2>1, <3>1
    <3>2. CASE r # s
          BY <1>3, <2>1, <3>2
    <3> QED BY <3>1, <3>2
  <2> QED BY <2>2 DEF InQueue
<1>6. ASSUME NEW r \in Sources, NEW k \in 1..got'[r] PROVE (InOut(r, k) \/ InQueue(r, k))'
  <2>1. CASE k \in 1..got[r]
    <3>1. CASE InOut(r, k)
          BY <1>1, <3>1 DEF InOut
    <3>2. CASE InQueue(r, k)
          BY <1>5, <3>2
    <3> QED BY <2>1, <3>1, <3>2 DEF LostInv
  <2>2. CASE k \notin 1..got[r]
    <3>1. r = s /\ k = y
          BY <1>2, <1>3, <2>2 DEF QueueInv
    <3>2. Len(queue[s]) + 1 \in 1..Len(queue'[s])
          BY <1>4
    <3> QED BY <1>4, <3>1, <3>2 DEF InQueue
  <2> QED BY <2>1, <2>2
<1>7. ASSUME NEW r \in Sources, r < at' PROVE Ended(r)' /\ queue'[r] = <<>>
  <2>1. Ended(r) /\ queue[r] = <<>> /\ r # s
        BY <1>1, <1>7 DEF LostInv
  <2>2. Ended(r)'
        BY <2>1 DEF NumberArrives, EndIsPut, Ended
  <2> QED BY <1>3, <2>1, <2>2
<1> QED BY <1>6, <1>7 DEF LostInv

\* The same for a step of the generator: what it takes out it sends, and the End
\* it passes by was the last of its source.
LEMMA LostInvSend ==
    ASSUME QueueInv, OutInv, LostInv, Send PROVE LostInv'
<1> DEFINE q == queue[at]
           t == Tail(queue[at])
           n == Head(queue[at])
<1>1. /\ at \in Sources /\ q \in Seq(Nat) /\ q # <<>>
      /\ queue' = [queue EXCEPT ![at] = t] /\ UNCHANGED <<got, ended, combine>>
      /\ \/ n = End /\ at' = at + 1 /\ UNCHANGED out
         \/ n # End /\ UNCHANGED at /\ out' = Append(out, <<at, n>>)
      BY SendTakes
<1>2. got[at] \in Nat /\ Ordered(q) /\ AtMost(q, got[at]) /\ (Ended(at) \/ HasNoEnd(q))
      BY <1>1, QueueOf
<1>3. /\ t \in Seq(Nat) /\ n \in Nat /\ n = q[1] /\ Len(t) = Len(q) - 1 /\ Len(q) \in Nat \ {0}
      /\ \A k \in 1..Len(t) : t[k] = q[k + 1]
      /\ n = End => t = <<>>
      BY <1>1, <1>2, Taken
<1>4. queue'[at] = t /\ \A r \in Sources \ {at} : queue'[r] = queue[r]
      BY <1>1 DEF QueueInv
<1>5. at \in Nat /\ out \in Seq(Sources \X Nat) /\ Len(out) \in Nat
      BY DEF OutInv
<1> HIDE DEF q, t, n
<1>6. ASSUME NEW r \in Sources, NEW k, InOut(r, k) PROVE InOut(r, k)'
  <2>1. PICK i \in 1..Len(out) : out[i] = <<r, k>>
        BY <1>6 DEF InOut
  <2>2. i \in 1..Len(out') /\ out'[i] = <<r, k>>
    <3>1. CASE UNCHANGED out
          BY <2>1, <3>1
    <3>2. CASE out' = Append(out, <<at, n>>)
      <4>1. <<at, n>> \in Sources \X Nat
            BY <1>1, <1>3
      <4>2. Len(out') = Len(out) + 1 /\ \A h \in 1..Len(out) : out'[h] = out[h]
            BY <1>5, <3>2, <4>1
      <4> QED BY <1>5, <2>1, <4>2
    <3> QED BY <1>1, <3>1, <3>2
  <2> QED BY <2>2 DEF InOut
<1>7. ASSUME NEW r \in Sources, NEW k \in 1..got[r], InQueue(r, k)
      PROVE  (InOut(r, k) \/ InQueue(r, k))'
  <2>1. PICK j \in 1..Len(queue[r]) : queue[r][j] = k
        BY <1>7 DEF InQueue
  <2>2. CASE r # at
        BY <1>4, <2>1, <2>2 DEF InQueue
  <2>3. CASE r = at /\ j # 1
    <3>1. j - 1 \in 1..Len(t) /\ t[j - 1] = k
          BY <1>3, <2>1, <2>3 DEF q
    <3> QED BY <1>4, <2>3, <3>1 DEF InQueue
  <2>4. CASE r = at /\ j = 1
    <3>1. n = k /\ n # End
          BY <1>3, <2>1, <2>4 DEF q, End, QueueInv
    <3>2. out' = Append(out, <<at, n>>)
          BY <1>1, <3>1
    <3>3. Len(out) + 1 \in 1..Len(out') /\ out'[Len(out) + 1] = <<r, k>>
          BY <1>1, <1>3, <1>5, <2>4, <3>1, <3>2
    <3> QED BY <3>3 DEF InOut
  <2> QED BY <2>2, <2>3, <2>4
<1>8. ASSUME NEW r \in Sources, r < at' PROVE Ended(r)' /\ queue'[r] = <<>>
  <2>1. Ended(r)' = Ended(r)
        BY <1>1 DEF Ended
  <2>2. CASE r < at
    <3>1. Ended(r) /\ queue[r] = <<>>
          BY <2>2 DEF LostInv
    <3>2. r # at
          BY <1>5, <2>2
    <3> QED BY <1>4, <2>1, <3>1, <3>2
  <2>3. CASE ~(r < at)
    <3>1. r = at /\ n = End
          BY <1>1, <1>5, <1>8, <2>3 DEF Sources, Combine
    <3>2. ~HasNoEnd(q)
      <4>1. 1 \in 1..Len(q) /\ q[1] = End
            BY <1>3, <3>1
      <4> QED BY <4>1 DEF HasNoEnd
    <3> QED BY <1>2, <1>3, <1>4, <2>1, <3>1, <3>2
  <2> QED BY <2>2, <2>3
<1> QED BY <1>1, <1>6, <1>7, <1>8 DEF LostInv

\* LostInv holds of every reachable state.
LEMMA LostInductive == Spec => []LostInv
<1>1. Init => LostInv
      BY RagAssumption DEF Init, LostInv, Sources, Combine
<1>2. ASSUME QueueInv, OutInv, LostInv, [Next]_vars PROVE LostInv'
  <2>1. CASE Elsewhere
        BY <1>2, <2>1 DEF Elsewhere, LostInv, InOut, InQueue
  <2> QED BY <1>2, <2>1, LostInvPut, LostInvSend, StepKinds
<1> QED BY <1>1, <1>2, OrderInductive, PTL DEF Spec

\* When [DONE] is sent every task has ended and the client has every result of every
\* source, for any number of chunks and results.
THEOREM NothingAfterDone == Spec => []DoneIsLast
<1>1. ASSUME OutInv, QueueInv, LostInv, at > Combine PROVE DoneIsLast
  <2>1. ASSUME NEW s \in Sources PROVE Ended(s) /\ queue[s] = <<>>
    <3>1. s < at
          BY <1>1, RagAssumption DEF OutInv, Sources, Combine
    <3> QED BY <1>1, <3>1 DEF LostInv
  <2>2. Combine \in Sources /\ Docs \subseteq Sources /\ Combine \notin Docs
        BY RagAssumption DEF Combine, Sources, Docs
  <2>3. combine = "ended" /\ ended = Docs
        BY <1>1, <2>1, <2>2 DEF Ended, QueueInv
  <2>4. ASSUME NEW s \in Sources, NEW k \in 1..got[s] PROVE <<s, k>> \in ToSet(out)
    <3>1. Len(queue[s]) = 0
          BY <2>1, EmptySeq
    <3>2. InOut(s, k)
          BY <1>1, <3>1 DEF LostInv, InQueue
    <3> QED BY <1>1, <3>2 DEF InOut, ToSet, OutInv
  <2> QED BY <2>3, <2>4 DEF DoneIsLast
<1>2. OutInv /\ QueueInv /\ LostInv => DoneIsLast
      BY <1>1 DEF DoneIsLast
<1> QED BY <1>2, OrderInductive, LostInductive, PTL
=============================================================================
