----------------------------- MODULE RelayProofs -----------------------------
(***************************************************************************)
(* Proofs about Relay for any requests, pool size, number of tries, modes  *)
(* and answers of any length.                                              *)
(***************************************************************************)
EXTENDS Relay, TLAPS

Requested == {"awaiting", "reading"}
Undecided == {"new", "trying", "pause", "awaiting"}

\* What the counts say of one request: the backend may have begun once for every
\* answer after which it was sent again, and once more when the last attempt is over.
CountsOf(p, a, c, f) ==
    /\ c <= f + 1 /\ c <= a
    /\ p \in Undecided => c <= f
    /\ p \in Undecided \ {"pause"} => c < a

\* Who has a connection, and how often the backend may have begun.
SendInv ==
    /\ phase \in [Requests -> Phases] /\ attempt \in [Requests -> Nat \ {0}]
    /\ accepted \in [Requests -> Nat] /\ refused \in [Requests -> Nat]
    /\ ConnectionsReturned
    /\ \A r \in Requests : CountsOf(phase[r], attempt[r], accepted[r], refused[r])

\* A step that moves one request, takes or closes its connection accordingly, and
\* keeps what the counts say of it.
LEMMA Moves ==
    ASSUME SendInv, NEW r \in Requests, NEW p \in Phases, Goes(r, p),
           pool' = IF p \in Requested THEN pool \cup {r} ELSE pool \ {r},
           NEW a \in Nat \ {0}, NEW c \in Nat, NEW f \in Nat,
           attempt' = [attempt EXCEPT ![r] = a],
           accepted' = [accepted EXCEPT ![r] = c],
           refused' = [refused EXCEPT ![r] = f],
           CountsOf(p, a, c, f)
    PROVE  SendInv'
<1>1. phase' = [phase EXCEPT ![r] = p] /\ phase' \in [Requests -> Phases]
      BY DEF Goes, SendInv
<1>2. /\ attempt' \in [Requests -> Nat \ {0}] /\ accepted' \in [Requests -> Nat]
      /\ refused' \in [Requests -> Nat]
      BY DEF SendInv
<1>3. ConnectionsReturned'
      BY <1>1 DEF SendInv, ConnectionsReturned, Requested
<1>4. ASSUME NEW s \in Requests
      PROVE  CountsOf(phase[s], attempt[s], accepted[s], refused[s])'
  <2>1. CASE s = r
    <3>1. phase'[s] = p /\ attempt'[s] = a /\ accepted'[s] = c /\ refused'[s] = f
          BY <1>1, <2>1 DEF SendInv
    <3> QED BY <3>1 DEF CountsOf
  <2>2. CASE s # r
    <3>1. /\ phase'[s] = phase[s] /\ attempt'[s] = attempt[s]
          /\ accepted'[s] = accepted[s] /\ refused'[s] = refused[s]
          BY <1>1, <2>2 DEF SendInv
    <3> QED BY <3>1 DEF SendInv, CountsOf
  <2> QED BY <2>1, <2>2
<1> QED BY <1>1, <1>2, <1>3, <1>4 DEF SendInv

\* A step that leaves the counts alone, forward through the phases.
LEMMA MovesOnly ==
    ASSUME SendInv, NEW r \in Requests, NEW p \in Phases, Goes(r, p),
           pool' = IF p \in Requested THEN pool \cup {r} ELSE pool \ {r},
           UNCHANGED <<attempt, accepted, refused>>,
           p \in Undecided => phase[r] \in Undecided,
           p \in Undecided \ {"pause"} => phase[r] # "pause"
    PROVE  SendInv'
<1>1. /\ attempt[r] \in Nat \ {0} /\ accepted[r] \in Nat /\ refused[r] \in Nat
      /\ attempt' = [attempt EXCEPT ![r] = attempt[r]]
      /\ accepted' = [accepted EXCEPT ![r] = accepted[r]]
      /\ refused' = [refused EXCEPT ![r] = refused[r]]
      BY DEF SendInv
<1>2. CountsOf(phase[r], attempt[r], accepted[r], refused[r])
      BY DEF SendInv
<1>3. CountsOf(p, attempt[r], accepted[r], refused[r])
      BY <1>2 DEF CountsOf
<1> QED BY ONLY SendInv, r \in Requests, p \in Phases, Goes(r, p), <1>1, <1>3, Moves,
                pool' = IF p \in Requested THEN pool \cup {r} ELSE pool \ {r}

\* Every step keeps SendInv.
LEMMA SendInvStep ==
    ASSUME SendInv, [Next]_vars
    PROVE  SendInv'
<1> USE DEF Phases, Ended
<1>0. ASSUME NEW r \in Requests
      PROVE  /\ phase[r] \in Requested <=> r \in pool
             /\ attempt[r] \in Nat \ {0} /\ accepted[r] \in Nat /\ refused[r] \in Nat
             /\ attempt = [attempt EXCEPT ![r] = attempt[r]]
             /\ accepted = [accepted EXCEPT ![r] = accepted[r]]
             /\ refused = [refused EXCEPT ![r] = refused[r]]
             /\ CountsOf(phase[r], attempt[r], accepted[r], refused[r])
      BY DEF SendInv, ConnectionsReturned, Requested
<1>1. ASSUME NEW r \in Requests, Start(r) PROVE SendInv'
  <2>1. /\ Goes(r, "trying") /\ phase[r] = "new"
        /\ UNCHANGED <<pool, attempt, accepted, refused>>
        BY <1>1 DEF Start, sending
  <2>2. pool' = pool \ {r}
        BY <1>0, <2>1 DEF Requested
  <2> QED BY <2>1, <2>2, MovesOnly DEF Requested, Undecided
<1>2. ASSUME NEW r \in Requests, Resume(r) PROVE SendInv'
  <2>1. /\ Goes(r, "trying") /\ phase[r] = "pause" /\ UNCHANGED <<pool, accepted, refused>>
        /\ attempt' = [attempt EXCEPT ![r] = attempt[r] + 1]
        BY <1>2 DEF Resume
  <2>2. pool' = pool \ {r}
        BY <1>0, <2>1 DEF Requested
  <2>3. CountsOf("trying", attempt[r] + 1, accepted[r], refused[r])
        BY <1>0, <2>1 DEF CountsOf, Undecided
  <2>4. attempt[r] + 1 \in Nat \ {0}
        BY <1>0
  <2>5. "trying" \notin Requested /\ "trying" \in Phases
        BY DEF Requested
  <2> QED BY <1>0, <2>1, <2>2, <2>3, <2>4, <2>5, Moves
<1>3. ASSUME NEW r \in Requests, Unconnected(r) PROVE SendInv'
  <2>1. PICK p \in {"pause", "bad"} : Goes(r, p)
        BY <1>3 DEF Unconnected, Retry
  <2>2. phase[r] = "trying" /\ UNCHANGED <<pool, attempt, accepted, refused>>
        BY <1>3 DEF Unconnected, sending
  <2>3. pool' = pool \ {r}
        BY <1>0, <2>2 DEF Requested
  <2> QED BY <2>1, <2>2, <2>3, MovesOnly DEF Requested, Undecided
<1>4. ASSUME NEW r \in Requests, Connected(r) PROVE SendInv'
  <2>1. /\ Goes(r, "awaiting") /\ phase[r] = "trying"
        /\ UNCHANGED <<attempt, accepted, refused>> /\ pool' = pool \cup {r}
        BY <1>4 DEF Connected, sending
  <2> QED BY <2>1, MovesOnly DEF Requested, Undecided
\* Begun or not, one attempt that is over.
<1>5. ASSUME NEW r \in Requests, MayHaveBegun(r), phase[r] = "awaiting"
      PROVE  \E c \in Nat : /\ accepted' = [accepted EXCEPT ![r] = c]
                            /\ c <= refused[r] + 1 /\ c <= attempt[r]
  <2>1. accepted[r] <= refused[r] /\ accepted[r] < attempt[r]
        BY <1>0, <1>5 DEF CountsOf, Undecided
  <2>2. CASE accepted' = accepted
        BY <1>0, <2>1, <2>2
  <2>3. CASE accepted' = [accepted EXCEPT ![r] = @ + 1]
    <3>1. /\ accepted[r] + 1 \in Nat
          /\ accepted[r] + 1 <= refused[r] + 1 /\ accepted[r] + 1 <= attempt[r]
          BY <1>0, <2>1
    <3> QED BY <2>3, <3>1
  <2> QED BY <1>5, <2>2, <2>3 DEF MayHaveBegun
<1>6. ASSUME NEW r \in Requests, CutOff(r) PROVE SendInv'
  <2>1. /\ Goes(r, "bad") /\ phase[r] = "awaiting" /\ pool' = pool \ {r}
        /\ MayHaveBegun(r) /\ UNCHANGED <<attempt, refused>>
        BY <1>6 DEF CutOff, Close
  <2>2. PICK c \in Nat : /\ accepted' = [accepted EXCEPT ![r] = c]
                         /\ c <= refused[r] + 1 /\ c <= attempt[r]
        BY <1>5, <2>1
  <2>3. CountsOf("bad", attempt[r], c, refused[r])
        BY <2>2 DEF CountsOf, Undecided
  <2>4. "bad" \notin Requested /\ "bad" \in Phases
        BY DEF Requested
  <2>6. /\ attempt[r] \in Nat \ {0} /\ refused[r] \in Nat
        /\ attempt' = [attempt EXCEPT ![r] = attempt[r]]
        /\ refused' = [refused EXCEPT ![r] = refused[r]]
        BY <1>0, <2>1
  <2> QED BY <2>1, <2>2, <2>3, <2>4, <2>6, Moves
<1>7. ASSUME NEW r \in Requests, Refused(r) PROVE SendInv'
  <2>1. /\ phase[r] = "awaiting" /\ r \in pool /\ MayHaveBegun(r) /\ UNCHANGED attempt
        BY <1>0, <1>7 DEF Refused, Requested
  <2>2. PICK c \in Nat : /\ accepted' = [accepted EXCEPT ![r] = c]
                         /\ c <= refused[r] + 1 /\ c <= attempt[r]
        BY <1>5, <2>1
  <2>3. CASE Goes(r, "pause") /\ Close(r) /\ refused' = [refused EXCEPT ![r] = @ + 1]
    <3>1. pool' = pool \ {r} /\ refused' = [refused EXCEPT ![r] = refused[r] + 1]
          BY <2>3 DEF Close
    <3>2. refused[r] + 1 \in Nat /\ CountsOf("pause", attempt[r], c, refused[r] + 1)
          BY <1>0, <2>2 DEF CountsOf, Undecided
    <3>3. "pause" \notin Requested /\ "pause" \in Phases
          BY DEF Requested
    <3> QED BY <1>0, <2>1, <2>2, <2>3, <3>1, <3>2, <3>3, Moves
  <2>4. CASE Goes(r, "reading") /\ UNCHANGED <<pool, refused>>
    <3>1. pool' = pool \cup {r}
          BY <2>1, <2>4
    <3>2. CountsOf("reading", attempt[r], c, refused[r])
          BY <2>2 DEF CountsOf, Undecided
    <3>3. "reading" \in Requested /\ "reading" \in Phases
          BY DEF Requested
    <3>4. /\ attempt[r] \in Nat \ {0} /\ refused[r] \in Nat
          /\ attempt' = [attempt EXCEPT ![r] = attempt[r]]
          /\ refused' = [refused EXCEPT ![r] = refused[r]]
          BY <1>0, <2>1, <2>4
    <3> QED BY <2>2, <2>4, <3>1, <3>2, <3>3, <3>4, Moves
  <2> QED BY <1>7, <2>3, <2>4 DEF Refused
<1>8. ASSUME NEW r \in Requests, Answered(r) PROVE SendInv'
  <2>1. /\ Goes(r, "reading") /\ phase[r] = "awaiting" /\ UNCHANGED <<pool, attempt, refused>>
        /\ accepted' = [accepted EXCEPT ![r] = @ + 1]
        BY <1>8 DEF Answered
  <2>2. PICK c \in Nat : /\ accepted' = [accepted EXCEPT ![r] = c]
                         /\ c <= refused[r] + 1 /\ c <= attempt[r]
        BY <1>5, <2>1 DEF MayHaveBegun
  <2>3. CountsOf("reading", attempt[r], c, refused[r])
        BY <2>2 DEF CountsOf, Undecided
  <2>4. pool' = pool \cup {r}
        BY <1>0, <2>1 DEF Requested
  <2>5. "reading" \in Requested /\ "reading" \in Phases
        BY DEF Requested
  <2>6. /\ attempt[r] \in Nat \ {0} /\ refused[r] \in Nat
        /\ attempt' = [attempt EXCEPT ![r] = attempt[r]]
        /\ refused' = [refused EXCEPT ![r] = refused[r]]
        BY <1>0, <2>1
  <2>7. Goes(r, "reading")
        BY <2>1
  <2> QED BY <2>2, <2>3, <2>4, <2>5, <2>6, <2>7, Moves
<1>9. ASSUME NEW r \in Requests, NEW p \in {"done", "broken", "gone"},
             End(r, p) \/ (p = "gone" /\ Left(r))
      PROVE  SendInv'
  <2>1. /\ Goes(r, p) /\ phase[r] = "reading" /\ pool' = pool \ {r}
        /\ UNCHANGED <<attempt, accepted, refused>>
        BY <1>9 DEF End, Left, Close, sending
  <2> QED BY <2>1, MovesOnly DEF Requested, Undecided
<1>10. CASE UNCHANGED <<phase, pool, attempt, accepted, refused>>
      BY <1>10 DEF SendInv, ConnectionsReturned
<1>11. ASSUME NEW r \in Requests, NEW k \in Kinds[r], Chunk(r, k) PROVE SendInv'
      BY <1>10, <1>11 DEF Chunk, sending
<1>12. CASE Over \/ UNCHANGED vars
      BY <1>10, <1>12 DEF Over, vars, sending
<1> QED BY <1>1, <1>2, <1>3, <1>4, <1>6, <1>7, <1>8, <1>9, <1>11, <1>12 DEF Next, Sends

\* SendInv holds of every reachable state.
LEMMA SendInductive == Spec => []SendInv
<1>1. Init => SendInv
      BY DEF Init, SendInv, CountsOf, ConnectionsReturned, Phases, Undecided
<1> QED BY <1>1, SendInvStep, PTL DEF Spec

\* A connection of the pool is held exactly while an answer is awaited or relayed:
\* not over the pause before a retry and not after any kind of end.
THEOREM ConnectionsComeBack == Spec => []ConnectionsReturned
<1>1. SendInv => ConnectionsReturned
      BY DEF SendInv
<1> QED BY <1>1, SendInductive, PTL

\* Work that the backend may have begun is repeated only on account of an answer 502,
\* 503 or 504 of its own, and never more often than the client is told.
THEOREM WorkRepeatedForRefusals == Spec => []RepeatedWhenRefused
<1>1. SendInv => RepeatedWhenRefused
      BY DEF SendInv, RepeatedWhenRefused, CountsOf
<1> QED BY <1>1, SendInductive, PTL

-----------------------------------------------------------------------------
(***************************************************************************)
(* An answer on its way.  The chunks sent and the chunks buffered are      *)
(* together those that have arrived, each once.  Without middle chunks     *)
(* they are also in a row: a stream then buffers nothing before its first  *)
(* flush.  With a middle chunk in the buffer the fast path of a small one  *)
(* overtakes it, as run relay_reorder shows.                               *)
(***************************************************************************)
Buffers == Seq(Nat \X AllKinds)
Plain(r) == "middle" \notin Kinds[r]

Sent(o) == {o[i] : i \in 1..Len(o)}
Kept(b) == {b[i][1] : i \in 1..Len(b)}

\* Sent o and buffered b are the chunks 1 to n.
AllOf(o, b, n) == Len(o) + Len(b) = n /\ Sent(o) \cup Kept(b) = 1..n

\* Sent o and buffered b are the chunks 1 to n in a row.
LineOf(o, b, n) ==
    /\ Len(o) + Len(b) = n
    /\ \A i \in 1..Len(o) : o[i] = i
    /\ \A i \in 1..Len(b) : b[i][1] = Len(o) + i

LineInv ==
    /\ first \in [Requests -> BOOLEAN] /\ got \in [Requests -> Nat]
    /\ buf \in [Requests -> Buffers] /\ out \in [Requests -> Seq(Nat)]
    /\ phase \in [Requests -> Phases] /\ mode \in [Requests -> Modes]
    /\ \A r \in Requests :
        /\ phase[r] # "gone" => AllOf(out[r], buf[r], got[r])
        /\ phase[r] # "gone" /\ Plain(r) => LineOf(out[r], buf[r], got[r])
        /\ mode[r] = "stream" /\ ~first[r] /\ Plain(r) => buf[r] = <<>>
        /\ mode[r] = "piped" => buf[r] = <<>>
        /\ phase[r] = "done" => buf[r] = <<>>
        /\ phase[r] = "broken" /\ mode[r] # "buffered" => buf[r] = <<>>

\* The three ways a chunk moves: into the buffer, to the client, from the one to the
\* other.
LEMMA AllBuffered ==
    ASSUME NEW o \in Seq(Nat), NEW b \in Buffers, NEW n \in Nat, AllOf(o, b, n),
           NEW k \in AllKinds
    PROVE  AllOf(o, Append(b, <<n + 1, k>>), n + 1)
<1> DEFINE c == <<n + 1, k>>
           d == Append(b, c)
<1>1. c \in Nat \X AllKinds /\ c[1] = n + 1 /\ Len(b) \in Nat /\ Len(o) \in Nat
      BY DEF Buffers
<1> HIDE DEF c
<1>2. /\ Len(d) = Len(b) + 1 /\ d[Len(b) + 1] = c
      /\ \A i \in 1..Len(b) : d[i] = b[i]
      BY <1>1 DEF Buffers
<1> HIDE DEF d
<1>3. 1..Len(d) = (1..Len(b)) \cup {Len(b) + 1}
      BY <1>1, <1>2
<1>4. Kept(d) = Kept(b) \cup {n + 1}
      BY <1>1, <1>2, <1>3 DEF Kept
<1>5. Len(o) + Len(d) = n + 1 /\ Sent(o) \cup Kept(b) = 1..n
      BY <1>1, <1>2 DEF AllOf
<1>6. (1..n) \cup {n + 1} = 1..(n + 1)
      OBVIOUS
<1>7. AllOf(o, d, n + 1)
      BY <1>4, <1>5, <1>6 DEF AllOf
<1> QED BY <1>7 DEF c, d

LEMMA AllPassed ==
    ASSUME NEW o \in Seq(Nat), NEW b \in Buffers, NEW n \in Nat, AllOf(o, b, n)
    PROVE  AllOf(Append(o, n + 1), b, n + 1)
<1> DEFINE e == Append(o, n + 1)
<1>1. Len(b) \in Nat /\ Len(o) \in Nat
      BY DEF Buffers
<1>2. /\ Len(e) = Len(o) + 1 /\ e[Len(o) + 1] = n + 1
      /\ \A i \in 1..Len(o) : e[i] = o[i]
      OBVIOUS
<1> HIDE DEF e
<1>3. 1..Len(e) = (1..Len(o)) \cup {Len(o) + 1}
      BY <1>1, <1>2
<1>4. Sent(e) = Sent(o) \cup {n + 1}
      BY <1>2, <1>3 DEF Sent
<1>5. Len(e) + Len(b) = n + 1 /\ Sent(o) \cup Kept(b) = 1..n
      BY <1>1, <1>2 DEF AllOf
<1>6. (1..n) \cup {n + 1} = 1..(n + 1)
      OBVIOUS
<1>7. AllOf(e, b, n + 1)
      BY <1>4, <1>5, <1>6 DEF AllOf
<1> QED BY <1>7 DEF e

LEMMA AllFlushed ==
    ASSUME NEW o \in Seq(Nat), NEW b \in Buffers, NEW n \in Nat, AllOf(o, b, n)
    PROVE  /\ o \o ChunksOf(b) \in Seq(Nat)
           /\ AllOf(o \o ChunksOf(b), <<>>, n)
<1> DEFINE c == ChunksOf(b)
           e == o \o c
<1>1. /\ DOMAIN b = 1..Len(b) /\ Len(b) \in Nat /\ Len(o) \in Nat
      /\ \A i \in 1..Len(b) : b[i] \in Nat \X AllKinds
      BY DEF Buffers
<1>2. c \in Seq(Nat) /\ Len(c) = Len(b) /\ \A i \in 1..Len(b) : c[i] = b[i][1]
      BY <1>1 DEF ChunksOf
<1> HIDE DEF c
<1>3. /\ e \in Seq(Nat) /\ Len(e) = Len(o) + Len(b)
      /\ \A i \in 1..Len(e) : e[i] = IF i <= Len(o) THEN o[i] ELSE c[i - Len(o)]
  <2>1. c \in Seq(Nat) /\ Len(c) = Len(b)
        BY <1>2
  <2>2. e \in Seq(Nat) /\ Len(e) = Len(o) + Len(b)
        BY <2>1
  <2>3. \A i \in 1..Len(e) : e[i] = IF i <= Len(o) THEN o[i] ELSE c[i - Len(o)]
        BY <2>1, <2>2
  <2> QED BY <2>2, <2>3
<1> HIDE DEF e
<1>4. ASSUME NEW i \in 1..Len(o) PROVE e[i] = o[i] /\ i \in 1..Len(e)
      BY <1>1, <1>3
<1>5. ASSUME NEW i \in 1..Len(b) PROVE e[Len(o) + i] = b[i][1] /\ Len(o) + i \in 1..Len(e)
  <2>1. Len(o) + i \in 1..Len(e) /\ ~(Len(o) + i <= Len(o)) /\ (Len(o) + i) - Len(o) = i
        BY <1>1, <1>3
  <2>2. e[Len(o) + i] = c[(Len(o) + i) - Len(o)]
        BY <1>3, <2>1
  <2> QED BY <1>2, <2>1, <2>2
<1>6. ASSUME NEW j \in 1..Len(e)
      PROVE  e[j] \in Sent(o) \cup Kept(b)
  <2>1. j \in 1..Len(o) \/ (j - Len(o) \in 1..Len(b) /\ Len(o) + (j - Len(o)) = j)
        BY <1>1, <1>3
  <2>2. CASE j \in 1..Len(o)
        BY <1>4, <2>2 DEF Sent
  <2>3. CASE j - Len(o) \in 1..Len(b) /\ Len(o) + (j - Len(o)) = j
    <3>1. e[Len(o) + (j - Len(o))] = b[j - Len(o)][1]
          BY <1>5, <2>3
    <3> QED BY <2>3, <3>1 DEF Kept
  <2> QED BY <2>1, <2>2, <2>3
<1>7. Sent(e) = Sent(o) \cup Kept(b)
  <2>1. Sent(e) \subseteq Sent(o) \cup Kept(b)
        BY <1>6 DEF Sent
  <2>2. Sent(o) \subseteq Sent(e)
        BY <1>4 DEF Sent
  <2>3. Kept(b) \subseteq Sent(e)
        BY <1>5 DEF Sent, Kept
  <2> QED BY <2>1, <2>2, <2>3
<1>8. Len(<<>>) = 0 /\ Kept(<<>>) = {}
      BY DEF Kept
<1>9. Len(e) + Len(<<>>) = n
      BY <1>1, <1>3, <1>8 DEF AllOf
<1>10. AllOf(e, <<>>, n)
      BY <1>7, <1>8, <1>9 DEF AllOf
<1> QED BY <1>3, <1>10 DEF e, c

\* The next chunk at the end of the buffer makes the line longer by one.
LEMMA LineGrows ==
    ASSUME NEW o \in Seq(Nat), NEW b \in Buffers, NEW n \in Nat, LineOf(o, b, n),
           NEW k \in AllKinds
    PROVE  /\ Append(b, <<n + 1, k>>) \in Buffers
           /\ LineOf(o, Append(b, <<n + 1, k>>), n + 1)
<1> DEFINE c == <<n + 1, k>>
           d == Append(b, c)
<1>1. c \in Nat \X AllKinds /\ c[1] = n + 1 /\ Len(b) \in Nat /\ Len(o) \in Nat
      BY DEF Buffers
<1> HIDE DEF c
<1>2. d \in Buffers /\ Len(d) = Len(b) + 1
      BY <1>1 DEF Buffers
<1>3. \A i \in 1..Len(b) : d[i] = b[i]
      BY <1>1 DEF Buffers
<1>4. d[Len(b) + 1] = c
      BY <1>1 DEF Buffers
<1> HIDE DEF d
<1>5. /\ Len(o) + Len(b) = n /\ \A i \in 1..Len(o) : o[i] = i
      /\ \A i \in 1..Len(b) : b[i][1] = Len(o) + i
      BY DEF LineOf
<1>6. Len(o) + Len(d) = n + 1
      BY <1>1, <1>2, <1>5
<1>7. ASSUME NEW i \in 1..Len(d) PROVE d[i][1] = Len(o) + i
  <2>1. i \in 1..Len(b) \/ i = Len(b) + 1
        BY <1>1, <1>2
  <2>2. CASE i \in 1..Len(b)
        BY <1>3, <1>5, <2>2
  <2>3. CASE i = Len(b) + 1
    <3>1. d[i][1] = n + 1
          BY <1>1, <1>4, <2>3
    <3>2. Len(o) + (Len(b) + 1) = n + 1
          BY <1>2, <1>6
    <3> QED BY <2>3, <3>1, <3>2
  <2> QED BY <2>1, <2>2, <2>3
<1>8. LineOf(o, d, n + 1)
      BY <1>5, <1>6, <1>7 DEF LineOf
<1> QED BY <1>2, <1>8 DEF c, d

\* Sending what is buffered leaves the line as it is.
LEMMA LineFlush ==
    ASSUME NEW o \in Seq(Nat), NEW b \in Buffers, NEW n \in Nat, LineOf(o, b, n)
    PROVE  /\ o \o ChunksOf(b) \in Seq(Nat)
           /\ LineOf(o \o ChunksOf(b), <<>>, n)
<1> DEFINE c == ChunksOf(b)
           e == o \o c
<1>1. /\ DOMAIN b = 1..Len(b) /\ Len(b) \in Nat /\ Len(o) \in Nat
      /\ \A i \in 1..Len(b) : b[i] \in Nat \X AllKinds
      BY DEF Buffers
<1>2. c = [i \in 1..Len(b) |-> b[i][1]]
      BY <1>1 DEF ChunksOf
<1>3. c \in Seq(Nat) /\ Len(c) = Len(b)
      BY <1>1, <1>2
<1>4. \A i \in 1..Len(b) : c[i] = Len(o) + i
      BY <1>1, <1>2 DEF LineOf
<1> HIDE DEF c
<1>5. e \in Seq(Nat) /\ Len(e) = Len(o) + Len(b)
      BY <1>3
<1>6. \A i \in 1..Len(e) : e[i] = IF i <= Len(o) THEN o[i] ELSE c[i - Len(o)]
      BY <1>3, <1>5
<1> HIDE DEF e
<1>7. ASSUME NEW i \in 1..Len(e) PROVE e[i] = i
  <2>1. /\ i \in 1..Len(o) \/ (i - Len(o) \in 1..Len(b) /\ ~(i <= Len(o)))
        /\ i \in 1..Len(o) => i <= Len(o)
        /\ Len(o) + (i - Len(o)) = i
        BY <1>1, <1>5
  <2>2. CASE i \in 1..Len(o)
    <3>1. e[i] = o[i]
          BY <1>6, <2>1, <2>2
    <3>2. o[i] = i
          BY <2>2 DEF LineOf
    <3> QED BY <3>1, <3>2
  <2>3. CASE i - Len(o) \in 1..Len(b) /\ ~(i <= Len(o))
    <3>1. e[i] = c[i - Len(o)]
          BY <1>6, <2>3
    <3>2. c[i - Len(o)] = Len(o) + (i - Len(o))
          BY <1>4, <2>3
    <3> QED BY <2>1, <3>1, <3>2
  <2> QED BY <2>1, <2>2, <2>3
<1>8. Len(<<>>) = 0 /\ Len(e) = n
      BY <1>5 DEF LineOf
<1>9. LineOf(e, <<>>, n)
      BY <1>1, <1>5, <1>7, <1>8 DEF LineOf
<1> QED BY <1>5, <1>9 DEF e, c

\* Sending the next chunk while nothing is buffered makes the line longer by one.
LEMMA LineSent ==
    ASSUME NEW o \in Seq(Nat), NEW n \in Nat, LineOf(o, <<>>, n)
    PROVE  Append(o, n + 1) \in Seq(Nat) /\ LineOf(Append(o, n + 1), <<>>, n + 1)
<1>1. Len(<<>>) = 0 /\ Len(o) = n
      BY DEF LineOf
<1>2. /\ Append(o, n + 1) \in Seq(Nat) /\ Len(Append(o, n + 1)) = n + 1
      /\ \A i \in 1..n : Append(o, n + 1)[i] = o[i]
      /\ Append(o, n + 1)[n + 1] = n + 1
      BY <1>1
<1> QED BY <1>1, <1>2 DEF LineOf

\* A step that leaves the chunks of every request alone and ends no request with a
\* buffer that must be empty.
LEMMA LineStays ==
    ASSUME LineInv, UNCHANGED <<mode, relaying>>, NEW r \in Requests,
           NEW p \in Phases, Goes(r, p),
           p \notin {"done", "broken"} \/ (p = "broken" /\ mode[r] = "buffered"),
           phase[r] # "gone"
    PROVE  LineInv'
<1>1. phase' = [phase EXCEPT ![r] = p] /\ phase' \in [Requests -> Phases]
      BY DEF Goes, LineInv
<1>2. UNCHANGED <<mode, first, buf, got, out>>
      BY DEF relaying
<1> QED BY <1>1, <1>2 DEF LineInv

\* A step that changes the chunks of one request that is read from.
LEMMA LineMoves ==
    ASSUME LineInv, NEW r \in Requests, NEW p \in Phases, Goes(r, p), UNCHANGED mode,
           NEW f \in BOOLEAN, NEW n \in Nat, NEW o \in Seq(Nat), NEW b \in Buffers,
           first' = [first EXCEPT ![r] = f], got' = [got EXCEPT ![r] = n],
           out' = [out EXCEPT ![r] = o], buf' = [buf EXCEPT ![r] = b],
           p # "gone" => AllOf(o, b, n) /\ (Plain(r) => LineOf(o, b, n)),
           \/ b = <<>>
           \/ mode[r] = "stream" /\ (Plain(r) => f) /\ p \notin {"done", "broken"}
           \/ mode[r] = "buffered" /\ p # "done"
    PROVE  LineInv'
<1>1. phase' = [phase EXCEPT ![r] = p] /\ phase' \in [Requests -> Phases]
      BY DEF Goes, LineInv
<1>2. /\ first' \in [Requests -> BOOLEAN] /\ got' \in [Requests -> Nat]
      /\ buf' \in [Requests -> Buffers] /\ out' \in [Requests -> Seq(Nat)]
      BY DEF LineInv
<1>3. ASSUME NEW s \in Requests
      PROVE  /\ phase'[s] # "gone" => AllOf(out[s], buf[s], got[s])'
             /\ phase'[s] # "gone" /\ Plain(s) => LineOf(out[s], buf[s], got[s])'
             /\ mode'[s] = "stream" /\ ~first'[s] /\ Plain(s) => buf'[s] = <<>>
             /\ mode'[s] = "piped" => buf'[s] = <<>>
             /\ phase'[s] = "done" => buf'[s] = <<>>
             /\ phase'[s] = "broken" /\ mode'[s] # "buffered" => buf'[s] = <<>>
  <2>1. CASE s = r
    <3>1. /\ phase'[s] = p /\ first'[s] = f /\ got'[s] = n /\ out'[s] = o
          /\ buf'[s] = b /\ mode'[s] = mode[r]
          BY <1>1, <2>1 DEF LineInv
    <3> QED BY <2>1, <3>1
  <2>2. CASE s # r
    <3>1. /\ phase'[s] = phase[s] /\ first'[s] = first[s] /\ got'[s] = got[s]
          /\ out'[s] = out[s] /\ buf'[s] = buf[s] /\ mode'[s] = mode[s]
          BY <1>1, <2>2 DEF LineInv
    <3> QED BY <3>1 DEF LineInv
  <2> QED BY <2>1, <2>2
<1> QED BY <1>1, <1>2, <1>3 DEF LineInv

\* A chunk that is not small makes a stream flush at once, if it never has and no
\* chunk is a middle one.
LEMMA FirstIsFlushed ==
    ASSUME NEW b \in Buffers, NEW c \in Nat, NEW k \in AllKinds, k \notin {"small", "middle"}
    PROVE  Has(Append(b, <<c, k>>), {"event", "large"})
<1>1. k \in {"event", "large"}
      BY DEF AllKinds
<1> DEFINE d == Append(b, <<c, k>>)
<1>2. /\ Len(b) \in Nat /\ d \in Buffers /\ Len(d) = Len(b) + 1
      /\ d[Len(b) + 1] = <<c, k>>
      BY DEF Buffers
<1>3. Len(b) + 1 \in DOMAIN d
      BY <1>2 DEF Buffers
<1> HIDE DEF d
<1>4. d[Len(b) + 1][2] \in {"event", "large"}
      BY <1>1, <1>2
<1>5. Has(d, {"event", "large"})
      BY <1>3, <1>4 DEF Has
<1> QED BY <1>5 DEF d

\* A chunk keeps the line, in whichever way answers are relayed.
LEMMA LineChunk ==
    ASSUME LineInv, NEW r \in Requests, NEW k \in Kinds[r], Chunk(r, k)
    PROVE  LineInv'
<1> DEFINE n == got[r] + 1
           o == out[r]
           d == Append(buf[r], <<n, k>>)
<1>1. /\ o \in Seq(Nat) /\ buf[r] \in Buffers /\ got[r] \in Nat /\ n \in Nat
      /\ first[r] \in BOOLEAN /\ mode[r] \in AllModes /\ k \in AllKinds
      /\ Plain(r) => k # "middle"
      /\ first = [first EXCEPT ![r] = first[r]] /\ out = [out EXCEPT ![r] = o]
      /\ buf = [buf EXCEPT ![r] = buf[r]]
      BY RelayAssumption DEF LineInv, Plain
<1>2. /\ phase[r] = "reading" /\ UNCHANGED mode
      /\ got' = [got EXCEPT ![r] = n] /\ got'[r] = n
      BY DEF Chunk, sending, LineInv
<1>3. Goes(r, "reading") /\ "reading" \in Phases
      BY <1>2 DEF Chunk, Goes, Phases, LineInv
<1>4. AllOf(o, buf[r], got[r]) /\ (Plain(r) => LineOf(o, buf[r], got[r]))
      BY <1>2 DEF LineInv
<1>5. d \in Buffers /\ AllOf(o, d, n) /\ (Plain(r) => LineOf(o, d, n))
  <2>1. <<n, k>> \in Nat \X AllKinds
        BY <1>1
  <2>2. d \in Buffers
        BY <1>1, <2>1 DEF Buffers
  <2> QED BY <1>1, <1>4, <2>2, AllBuffered, LineGrows
<1>6. /\ o \o ChunksOf(d) \in Seq(Nat)
      /\ AllOf(o \o ChunksOf(d), <<>>, n)
      /\ Plain(r) => LineOf(o \o ChunksOf(d), <<>>, n)
      BY <1>1, <1>5, AllFlushed, LineFlush
<1>7. /\ Append(o, n) \in Seq(Nat) /\ AllOf(Append(o, n), buf[r], n)
      /\ buf[r] = <<>> /\ Plain(r) => LineOf(Append(o, n), <<>>, n)
      BY <1>1, <1>4, AllPassed, LineSent
<1>8. <<>> \in Buffers
      BY DEF Buffers
<1> HIDE DEF n, o, d
<1>9. ASSUME NEW f \in BOOLEAN, first' = [first EXCEPT ![r] = f], Flushed(r, d)
      PROVE  LineInv'
  <2>1. /\ out' = [out EXCEPT ![r] = o \o ChunksOf(d)]
        /\ buf' = [buf EXCEPT ![r] = <<>>]
        BY <1>9 DEF Flushed, o
  <2> QED BY <1>1, <1>2, <1>3, <1>6, <1>8, <1>9, <2>1, LineMoves
<1>10. ASSUME NEW f \in BOOLEAN, first' = [first EXCEPT ![r] = f],
              \/ buf[r] = <<>>
              \/ mode[r] = "stream" /\ f /\ ~Plain(r),
              out' = [out EXCEPT ![r] = Append(o, n)], UNCHANGED buf
       PROVE  LineInv'
  <2>1. buf' = [buf EXCEPT ![r] = buf[r]]
        BY <1>1, <1>10
  <2>2. Plain(r) => buf[r] = <<>>
        BY <1>10
  <2>3. AllOf(Append(o, n), buf[r], n) /\ (Plain(r) => LineOf(Append(o, n), buf[r], n))
        BY <1>7, <2>2
  <2>4. "reading" \notin {"done", "broken"}
        OBVIOUS
  <2> QED BY <1>1, <1>2, <1>3, <1>7, <1>10, <2>1, <2>3, <2>4, LineMoves
<1>11. CASE mode[r] = "stream"
  <2>1. StreamTurn(r, n, k)
        BY <1>2, <1>11 DEF Chunk
  <2>2. CASE ~first[r] /\ k = "small"
    <3>1. buf[r] = <<>> \/ ~Plain(r)
          BY <1>11, <2>2 DEF LineInv
    <3>2. /\ out' = [out EXCEPT ![r] = Append(o, n)] /\ UNCHANGED buf
          /\ first' = [first EXCEPT ![r] = TRUE]
          BY <2>1, <2>2 DEF StreamTurn, o
    <3> QED BY <1>10, <1>11, <3>1, <3>2
  <2>3. CASE ~(~first[r] /\ k = "small")
    <3>1. \/ Flushed(r, d) /\ first' = [first EXCEPT ![r] = TRUE]
          \/ Flushed(r, d) /\ UNCHANGED first
          \/ /\ ~(~first[r] /\ (Has(d, {"event", "large"}) \/ Len(d) > 1))
             /\ buf' = [buf EXCEPT ![r] = d] /\ UNCHANGED <<first, out>>
          BY <2>1, <2>3 DEF StreamTurn, d
    <3>2. CASE Flushed(r, d) /\ first' = [first EXCEPT ![r] = TRUE]
          BY <1>9, <3>2
    <3>3. CASE Flushed(r, d) /\ UNCHANGED first
          BY <1>1, <1>9, <3>3
    <3>4. CASE /\ ~(~first[r] /\ (Has(d, {"event", "large"}) \/ Len(d) > 1))
               /\ buf' = [buf EXCEPT ![r] = d] /\ UNCHANGED <<first, out>>
      <4>1. Plain(r) => first[r]
            BY <1>1, <2>3, <3>4, FirstIsFlushed DEF d
      <4>2. first' = [first EXCEPT ![r] = first[r]] /\ out' = [out EXCEPT ![r] = o]
            BY <1>1, <3>4
      <4> QED BY <1>1, <1>2, <1>3, <1>5, <1>11, <3>4, <4>1, <4>2, LineMoves
    <3> QED BY <3>1, <3>2, <3>3, <3>4
  <2> QED BY <2>2, <2>3
<1>12. CASE mode[r] = "piped"
  <2>1. /\ out' = [out EXCEPT ![r] = Append(o, n)] /\ UNCHANGED <<first, buf>>
        BY <1>2, <1>12 DEF Chunk, o
  <2>2. buf[r] = <<>>
        BY <1>12 DEF LineInv
  <2> QED BY <1>1, <1>10, <2>1, <2>2
<1>13. CASE mode[r] = "buffered"
  <2>1. /\ buf' = [buf EXCEPT ![r] = d] /\ UNCHANGED <<first, out>>
        BY <1>2, <1>13 DEF Chunk, d
  <2>2. first' = [first EXCEPT ![r] = first[r]] /\ out' = [out EXCEPT ![r] = o]
        BY <1>1, <2>1
  <2> QED BY <1>1, <1>2, <1>3, <1>5, <1>13, <2>1, <2>2, LineMoves
<1> QED BY <1>1, <1>11, <1>12, <1>13 DEF AllModes

\* Ends and departures keep the line: what is buffered is sent, or lost with the client.
LEMMA LineEnds ==
    ASSUME LineInv, NEW r \in Requests, NEW p \in {"done", "broken", "gone"},
           End(r, p) \/ (p = "gone" /\ Left(r))
    PROVE  LineInv'
<1>1. /\ out[r] \in Seq(Nat) /\ buf[r] \in Buffers /\ got[r] \in Nat
      /\ first[r] \in BOOLEAN /\ p \in Phases /\ <<>> \in Buffers
      /\ first = [first EXCEPT ![r] = first[r]] /\ got = [got EXCEPT ![r] = got[r]]
      BY DEF LineInv, Phases, Ended, Buffers
<1>2. phase[r] = "reading" /\ Goes(r, p) /\ UNCHANGED <<mode, first, got>>
      BY DEF End, Left, sending
<1>3. /\ AllOf(out[r], buf[r], got[r])
      /\ Plain(r) => LineOf(out[r], buf[r], got[r])
      BY <1>2 DEF LineInv
<1>4. /\ out[r] \o ChunksOf(buf[r]) \in Seq(Nat)
      /\ AllOf(out[r] \o ChunksOf(buf[r]), <<>>, got[r])
      /\ Plain(r) => LineOf(out[r] \o ChunksOf(buf[r]), <<>>, got[r])
      BY <1>1, <1>3, AllFlushed, LineFlush
<1>5. CASE Flushed(r, buf[r])
  <2>1. /\ out' = [out EXCEPT ![r] = out[r] \o ChunksOf(buf[r])]
        /\ buf' = [buf EXCEPT ![r] = <<>>]
        BY <1>5 DEF Flushed
  <2>2. first' = [first EXCEPT ![r] = first[r]] /\ got' = [got EXCEPT ![r] = got[r]]
        BY <1>1, <1>2
  <2> QED BY <1>1, <1>2, <1>4, <2>1, <2>2, LineMoves
<1>6. CASE p = "broken" /\ mode[r] = "buffered" /\ UNCHANGED <<out, buf>>
      BY <1>1, <1>2, <1>6, LineStays DEF relaying
<1> QED BY <1>5, <1>6 DEF End, Left

\* Every step keeps LineInv.
LEMMA LineInvStep ==
    ASSUME LineInv, [Next]_vars
    PROVE  LineInv'
<1> DEFINE Quiet == {"trying", "pause", "awaiting", "reading", "bad"}
<1>1. ASSUME NEW r \in Requests, NEW p \in Quiet, Goes(r, p),
             phase[r] \in Undecided, UNCHANGED <<mode, relaying>>
      PROVE  LineInv'
      BY <1>1, LineStays DEF Undecided, Phases, Ended
<1>2. ASSUME NEW r \in Requests,
             Sends(r) \/ CutOff(r) \/ Refused(r) \/ Answered(r)
      PROVE  LineInv'
  <2>1. /\ \E p \in Quiet : Goes(r, p)
        /\ phase[r] \in Undecided /\ UNCHANGED <<mode, relaying>>
        BY <1>2 DEF Sends, Start, Resume, Unconnected, Connected, Retry, CutOff, Refused,
                    Answered, Undecided, sending
  <2> QED BY <1>1, <2>1
<1>3. CASE UNCHANGED vars
      BY <1>3 DEF vars, sending, relaying, LineInv
<1> QED BY <1>2, <1>3, LineChunk, LineEnds DEF Next, Over

\* LineInv holds of every reachable state.
LEMMA LineInductive == Spec => []LineInv
<1>1. Init => LineInv
  <2> SUFFICES ASSUME Init PROVE LineInv
      OBVIOUS
  <2>1. /\ phase = [r \in Requests |-> "new"] /\ mode \in [Requests -> Modes]
        /\ first = [r \in Requests |-> FALSE] /\ got = [r \in Requests |-> 0]
        /\ buf = [r \in Requests |-> <<>>] /\ out = [r \in Requests |-> <<>>]
        BY DEF Init
  <2>2. <<>> \in Buffers /\ <<>> \in Seq(Nat) /\ Len(<<>>) = 0
        BY DEF Buffers
  <2>3. LineOf(<<>>, <<>>, 0) /\ AllOf(<<>>, <<>>, 0)
        BY <2>2 DEF LineOf, AllOf, Sent, Kept
  <2> QED BY <2>1, <2>2, <2>3 DEF LineInv, Phases
<1>2. LineInv /\ [Next]_vars => LineInv'
      BY LineInvStep
<1> QED BY <1>1, <1>2, PTL DEF Spec

\* The client gets the chunks of an answer in the order in which the backend sent
\* them, if none has a length between FAST_PATH_BYTES and FIRST_FLUSH_BYTES.
THEOREM AnswersInOrder == Spec => []InOrder
<1>1. LineInv => InOrder
  <2> SUFFICES ASSUME LineInv, NEW r \in Requests, phase[r] # "gone", Plain(r),
                      NEW i \in DOMAIN out[r], NEW j \in DOMAIN out[r], i < j
               PROVE  out[r][i] < out[r][j]
      BY DEF InOrder, InSequence, Plain
  <2>1. out[r] \in Seq(Nat) /\ LineOf(out[r], buf[r], got[r])
        BY DEF LineInv
  <2>2. DOMAIN out[r] = 1..Len(out[r])
        BY <2>1
  <2> QED BY <2>1, <2>2 DEF LineOf
<1> QED BY <1>1, LineInductive, PTL

\* Every chunk the backend sent reaches the client exactly once, also when it is
\* overtaken, and when the answer breaks off in the middle.
THEOREM AnswersComplete == Spec => []NothingLost
<1>1. LineInv => NothingLost
  <2> SUFFICES ASSUME LineInv, NEW r \in Requests, phase[r] \in {"done", "broken"},
                      ~(phase[r] = "broken" /\ mode[r] = "buffered")
               PROVE  ToSet(out[r]) = 1..got[r] /\ Len(out[r]) = got[r]
      BY DEF NothingLost
  <2>1. /\ out[r] \in Seq(Nat) /\ AllOf(out[r], buf[r], got[r]) /\ buf[r] = <<>>
        /\ got[r] \in Nat
        BY DEF LineInv
  <2>2. Len(buf[r]) = 0 /\ Kept(buf[r]) = {} /\ Len(out[r]) \in Nat
        BY <2>1 DEF Kept
  <2>3. Len(out[r]) + Len(buf[r]) = got[r] /\ Sent(out[r]) \cup Kept(buf[r]) = 1..got[r]
        BY <2>1 DEF AllOf
  <2>5. Len(out[r]) = got[r]
        BY <2>1, <2>2, <2>3
  <2>6. Sent(out[r]) = 1..got[r]
        BY <2>2, <2>3, Zenon
  <2>4. DOMAIN out[r] = 1..Len(out[r])
        BY <2>1
  <2> QED BY <2>4, <2>5, <2>6 DEF ToSet, Sent
<1> QED BY <1>1, LineInductive, PTL
=============================================================================
