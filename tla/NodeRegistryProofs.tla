------------------------- MODULE NodeRegistryProofs -------------------------
(***************************************************************************)
(* No node is removed early, and none that is up is removed at all: for    *)
(* any set of nodes, any periods and limits, any outage and a restart of   *)
(* the master at any moment.                                               *)
(***************************************************************************)
EXTENDS NodeRegistry, SequencesExt, FiniteSetTheorems, TLAPS

\* Places that increase from 1 to n over n elements are taken by one element each.
LEMMA Enumeration ==
    ASSUME NEW kept \in SUBSET Nat, IsFiniteSet(kept),
           NEW n \in Nat, Cardinality(kept) = n,
           NEW place \in [kept -> 1..n],
           \A i, k \in kept : i < k => place[i] < place[k]
    PROVE  /\ \A i \in kept : (CHOOSE k \in kept : place[k] = place[i]) = i
           /\ \A j \in 1..n : \E i \in kept : place[i] = j
<1>1. \A i, k \in kept : place[i] = place[k] => i = k
  <2> SUFFICES ASSUME NEW i \in kept, NEW k \in kept, place[i] = place[k] PROVE i = k
      OBVIOUS
  <2>1. i < k \/ k < i \/ i = k
        OBVIOUS
  <2>2. place[i] \in Int
        OBVIOUS
  <2> QED BY <2>1, <2>2
<1>2. \A i \in kept : (CHOOSE k \in kept : place[k] = place[i]) = i
      BY <1>1
<1>3. place \in Injection(kept, 1..n)
      BY <1>1 DEF Injection, IsInjective
<1>4. IsFiniteSet(1..n) /\ Cardinality(1..n) = n
      BY FS_Interval
<1>5. place \in Surjection(kept, 1..n)
      BY <1>3, <1>4, FS_Injection
<1> QED BY <1>2, <1>5 DEF Surjection

LEMMA StrictSubset ==
    ASSUME NEW B, IsFiniteSet(B), NEW A, A \subseteq B, NEW k \in B, k \notin A
    PROVE  Cardinality(A) < Cardinality(B)
<1>1. /\ IsFiniteSet(A) /\ Cardinality(A) <= Cardinality(B)
      /\ Cardinality(B) = Cardinality(A) => B = A
      BY FS_Subset
<1>2. Cardinality(A) \in Nat /\ Cardinality(B) \in Nat
      BY <1>1, FS_CardinalityType
<1> QED BY <1>1, <1>2

\* The entries that are not deleted stay, and no others come in.
LEMMA WithoutKeeps ==
    ASSUME NEW s \in Seq(Ids), NEW gone
    PROVE  /\ Without(s, gone) \in Seq(Ids)
           /\ ToSet(Without(s, gone)) = ToSet(s) \ gone
<1> DEFINE kept == {i \in DOMAIN s : s[i] \notin gone}
           Upto(i) == {k \in kept : k <= i}
           n == Cardinality(kept)
           place == [i \in kept |-> Cardinality(Upto(i))]
           pos(j) == CHOOSE i \in kept : Cardinality(Upto(i)) = j
           t == [j \in 1..n |-> s[pos(j)]]
<1>1. DOMAIN s = 1..Len(s) /\ Len(s) \in Nat /\ kept \subseteq 1..Len(s)
     /\ \A i \in 1..Len(s) : s[i] \in Ids
      OBVIOUS
<1>2. IsFiniteSet(kept) /\ n \in Nat
  <2>1. IsFiniteSet(1..Len(s))
        BY <1>1, FS_Interval
  <2> QED BY <1>1, <2>1, FS_Subset, FS_CardinalityType
<1>3. ASSUME NEW i \in kept PROVE IsFiniteSet(Upto(i)) /\ Cardinality(Upto(i)) \in 1..n
  <2>1. Upto(i) \subseteq kept /\ i \in Upto(i)
        BY <1>1
  <2>2. IsFiniteSet(Upto(i)) /\ Cardinality(Upto(i)) <= n /\ Cardinality(Upto(i)) \in Nat
        BY <1>2, <2>1, FS_Subset, FS_CardinalityType
  <2>3. Cardinality(Upto(i)) # 0
        BY <2>1, <2>2, FS_EmptySet
  <2> QED BY <1>2, <2>2, <2>3
<1>4. ASSUME NEW i \in kept, NEW k \in kept, i < k
      PROVE  Cardinality(Upto(i)) < Cardinality(Upto(k))
  <2>1. Upto(i) \subseteq Upto(k) /\ k \in Upto(k) /\ k \notin Upto(i)
        BY <1>1, <1>4
  <2>2. IsFiniteSet(Upto(k))
        BY <1>3
  <2> HIDE DEF Upto
  <2> QED BY <2>1, <2>2, StrictSubset
<1>5. place \in [kept -> 1..n]
      BY <1>3
<1>6. \A i, k \in kept : i < k => place[i] < place[k]
      BY <1>4
<1>7. \A j \in 1..n : pos(j) = CHOOSE i \in kept : place[i] = j
  <2> SUFFICES ASSUME NEW j \in 1..n PROVE pos(j) = CHOOSE i \in kept : place[i] = j
      OBVIOUS
  <2>1. \A i \in kept : place[i] = Cardinality(Upto(i))
        OBVIOUS
  <2> HIDE DEF place, Upto, kept
  <2> QED BY <2>1
<1>8. Without(s, gone) = t
      BY DEF Without
<1>9. \A j \in 1..n : t[j] = s[pos(j)]
      OBVIOUS
<1>10. kept \in SUBSET Nat
      BY <1>1
<1>11. DOMAIN t = 1..n
      OBVIOUS
<1>12. \A i \in DOMAIN s : i \in kept <=> s[i] \notin gone
      OBVIOUS
<1>13. /\ \A i \in kept : (CHOOSE k \in kept : place[k] = place[i]) = i
       /\ \A j \in 1..n : \E i \in kept : place[i] = j
  <2> HIDE DEF place
  <2>1. Cardinality(kept) = n
        OBVIOUS
  <2> HIDE DEF kept, n
  <2> QED BY <1>2, <1>5, <1>6, <1>10, <2>1, Enumeration
<1> HIDE DEF kept, place, pos, t, n
<1>14. \A i \in kept : place[i] \in 1..n /\ pos(place[i]) = i
       BY <1>5, <1>7, <1>13
<1>15. \A j \in 1..n : pos(j) \in kept
       BY <1>7, <1>13
<1>16. \A j \in 1..n : t[j] \in Ids \ gone
       BY <1>1, <1>9, <1>12, <1>15
<1>17. t \in Seq(Ids)
  <2>1. \A j \in 1..n : s[pos(j)] \in Ids
        BY <1>9, <1>16
  <2>2. t \in [1..n -> Ids]
        BY <2>1 DEF t
  <2> QED BY <1>2, <2>2
<1>18. ToSet(t) \subseteq ToSet(s) \ gone
       BY <1>1, <1>9, <1>11, <1>15, <1>16 DEF ToSet
<1>19. ASSUME NEW i \in DOMAIN s, s[i] \notin gone PROVE s[i] \in ToSet(t)
  <2>1. place[i] \in 1..n /\ t[place[i]] = s[i]
        BY <1>9, <1>12, <1>14, <1>19
  <2> QED BY <1>11, <2>1 DEF ToSet
<1> QED BY <1>8, <1>17, <1>18, <1>19 DEF ToSet

-----------------------------------------------------------------------------
\* A node that missed heartbeats is in the registry, and each of its misses but the
\* first has cost it a whole period of checks: what of the current period is over
\* (CheckInterval - check) counts as well.
Silent(n) ==
    missed[n] > 0 =>
        /\ Known(n)
        /\ silence[n] > SilenceLimit + (missed[n] - 1) * CheckInterval
                            + (CheckInterval - check)

RInv ==
    /\ nodes \in Seq(Ids)
    /\ missed \in [Ids -> Nat] /\ silence \in [Ids -> 0..SilenceBound]
    /\ check \in 0..CheckInterval
    /\ \A n \in Ids : missed[n] < MaxMissed /\ Silent(n)

LEMMA Constants ==
    /\ CheckInterval \in Nat /\ CheckInterval > 0 /\ SilenceLimit \in Nat /\ SilenceLimit > 0
    /\ MaxMissed \in Nat /\ MaxMissed > 0 /\ SilenceBound \in Nat
    /\ SilenceBound > SilenceLimit + MaxMissed * CheckInterval
BY RegistryAssumption

LEMMA KnownIsInSet == \A n \in Ids : Known(n) <=> n \in ToSet(nodes)
BY DEF Known, ToSet

LEMMA KnownIsInSetNext == \A n \in Ids : Known(n)' <=> n \in ToSet(nodes')
BY DEF Known, ToSet

\* Fewer misses than the limit were counted in less time than the model measures.
LEMMA Measured ==
    ASSUME NEW k \in Nat, 0 < k, k < MaxMissed
    PROVE  SilenceLimit + (k - 1) * CheckInterval + CheckInterval < SilenceBound
<1>1. (k - 1) * CheckInterval + CheckInterval = k * CheckInterval
      BY Constants
<1>2. k * CheckInterval <= MaxMissed * CheckInterval
  <2>1. MaxMissed = k + (MaxMissed - k) /\ MaxMissed - k \in Nat
        BY Constants
  <2>2. MaxMissed * CheckInterval = k * CheckInterval + (MaxMissed - k) * CheckInterval
        BY <2>1, Constants
  <2>3. (MaxMissed - k) * CheckInterval >= 0
        BY <2>1, Constants
  <2>4. k * CheckInterval \in Int /\ (MaxMissed - k) * CheckInterval \in Int
        BY <2>1, Constants
  <2> QED BY <2>2, <2>3, <2>4
<1>3. k * CheckInterval \in Int /\ MaxMissed * CheckInterval \in Int
      BY Constants
<1> QED BY <1>1, <1>2, <1>3, Constants

LEMMA TickKeeps == ASSUME RInv, Tick PROVE RInv'
<1>1. /\ nodes' = nodes /\ missed' = missed /\ check' = check - 1 /\ check > 0
      /\ silence' = [n \in Ids |-> IF Known(n) THEN AtMost(silence[n] + 1, SilenceBound) ELSE 0]
      BY DEF Tick
<1>2. check' \in 0..CheckInterval
      BY <1>1, Constants DEF RInv
<1>3. silence' \in [Ids -> 0..SilenceBound]
      BY <1>1, Constants DEF RInv, AtMost
<1>4. \A n \in Ids : Known(n)' <=> Known(n)
      BY <1>1 DEF Known
<1>5. ASSUME NEW n \in Ids, missed'[n] > 0
      PROVE  Known(n)' /\ silence'[n] > SilenceLimit + (missed'[n] - 1) * CheckInterval
                                             + (CheckInterval - check')
  <2> DEFINE gap == (missed[n] - 1) * CheckInterval
  <2>1. missed[n] > 0 /\ missed[n] < MaxMissed /\ missed[n] \in Nat /\ missed'[n] = missed[n]
        BY <1>1, <1>5 DEF RInv
  <2>2. Known(n) /\ silence[n] > SilenceLimit + gap + (CheckInterval - check)
        BY <2>1 DEF RInv, Silent
  <2>3. SilenceLimit + gap + CheckInterval < SilenceBound /\ gap \in Int
        BY <2>1, Measured, Constants
  <2>4. silence'[n] = AtMost(silence[n] + 1, SilenceBound) /\ silence[n] \in Nat /\ check \in Nat
        BY <1>1, <2>2 DEF RInv
  <2> HIDE DEF gap
  <2>5. silence'[n] > SilenceLimit + gap + (CheckInterval - check')
        BY <1>1, <2>2, <2>3, <2>4, Constants DEF AtMost
  <2> QED BY <1>4, <2>1, <2>2, <2>5 DEF gap
<1> QED BY <1>1, <1>2, <1>3, <1>5 DEF RInv, Silent

\* A round of checks: a node over the limit with a miss already counted was over it
\* a period ago, and one that is not over the limit has no miss.
LEMMA CheckCounts ==
    ASSUME RInv, check = 0, NEW n \in Ids
    PROVE  /\ Missed(n) \in Nat
           /\ Missed(n) > 0 => /\ Overdue(n)
                               /\ silence[n] > SilenceLimit + (Missed(n) - 1) * CheckInterval
<1> DEFINE gap == (missed[n] - 1) * CheckInterval
<1>1. missed[n] \in Nat /\ silence[n] \in Nat /\ silence[n] \in Int
      BY Constants DEF RInv
<1>2. CASE missed[n] = 0
  <2>1. CASE Overdue(n)
    <3>1. Missed(n) = 1 /\ (Missed(n) - 1) * CheckInterval = 0
          BY <1>2, <2>1, Constants DEF Missed
    <3> QED BY <2>1, <3>1, Constants DEF Overdue
  <2>2. CASE ~Overdue(n)
        BY <1>2, <2>2 DEF Missed
  <2> QED BY <2>1, <2>2
<1>3. CASE missed[n] > 0
  <2>1. Known(n) /\ silence[n] > SilenceLimit + gap + CheckInterval
        BY <1>3, Constants DEF RInv, Silent
  <2>2. gap \in Int /\ gap >= 0 /\ gap + CheckInterval = missed[n] * CheckInterval
        BY <1>1, <1>3, Constants
  <2> HIDE DEF gap
  <2>3. Overdue(n)
        BY <1>1, <2>1, <2>2, Constants DEF Overdue
  <2>4. Missed(n) = missed[n] + 1 /\ Missed(n) - 1 = missed[n]
        BY <1>1, <2>3 DEF Missed
  <2>5. missed[n] * CheckInterval \in Int
        BY <1>1, Constants
  <2>6. silence[n] > SilenceLimit + missed[n] * CheckInterval
        BY <1>1, <2>1, <2>2, <2>5, Constants
  <2> QED BY <1>1, <2>3, <2>4, <2>6
<1> QED BY <1>1, <1>2, <1>3

LEMMA CheckKeeps == ASSUME RInv, Check PROVE RInv'
<1> DEFINE gone == {n \in Ids : Expired(n)}
<1>1. /\ check = 0 /\ check' = CheckInterval /\ nodes' = Without(nodes, gone)
      /\ missed' = [n \in Ids |-> IF Expired(n) THEN 0 ELSE Missed(n)]
      /\ silence' = [n \in Ids |-> IF Expired(n) THEN 0 ELSE silence[n]]
      BY DEF Check
<1>2. nodes' \in Seq(Ids) /\ ToSet(nodes') = ToSet(nodes) \ gone
  <2>1. nodes \in Seq(Ids)
        BY DEF RInv
  <2> HIDE DEF gone
  <2> QED BY <1>1, <2>1, WithoutKeeps
<1>3. \A n \in Ids : Known(n)' <=> Known(n) /\ ~Expired(n)
      BY <1>2, KnownIsInSet, KnownIsInSetNext
<1>4. silence' \in [Ids -> 0..SilenceBound] /\ check' \in 0..CheckInterval
      BY <1>1, Constants DEF RInv
<1>5. missed' \in [Ids -> Nat]
      BY <1>1, CheckCounts
<1>6. ASSUME NEW n \in Ids PROVE missed'[n] < MaxMissed /\ Silent(n)'
  <2>1. CASE Expired(n)
        BY <1>1, <2>1, Constants DEF Silent
  <2>2. CASE ~Expired(n)
    <3>1. missed'[n] = Missed(n) /\ silence'[n] = silence[n] /\ CheckInterval - check' = 0
          BY <1>1, <2>2, Constants
    <3>2. Missed(n) \in Nat /\ missed[n] < MaxMissed
          BY <1>1, CheckCounts DEF RInv
    <3>3. Missed(n) < MaxMissed
          BY <2>2, <3>2, Constants DEF Expired, Missed
    <3>4. ASSUME Missed(n) > 0
          PROVE  Known(n)' /\ silence[n] > SilenceLimit + (Missed(n) - 1) * CheckInterval
          BY <1>1, <1>3, <2>2, <3>4, CheckCounts DEF Overdue
    <3>5. (Missed(n) - 1) * CheckInterval \in Int
          BY <3>2, Constants
    <3> QED BY <3>1, <3>3, <3>4, <3>5, Constants DEF Silent
  <2> QED BY <2>1, <2>2
<1> QED BY <1>2, <1>4, <1>5, <1>6 DEF RInv

\* A node that is heard from has no miss left.
LEMMA HearingKeeps ==
    ASSUME RInv, NEW n \in Ids, check' = check,
           nodes' \in Seq(Ids), ToSet(nodes) \subseteq ToSet(nodes'),
           missed' = [missed EXCEPT ![n] = 0], silence' = [silence EXCEPT ![n] = 0]
    PROVE  RInv'
<1>1. \A m \in Ids : Known(m) => Known(m)'
      BY KnownIsInSet, KnownIsInSetNext
<1>2. missed' \in [Ids -> Nat] /\ silence' \in [Ids -> 0..SilenceBound]
      BY Constants DEF RInv
<1>3. ASSUME NEW m \in Ids PROVE missed'[m] < MaxMissed /\ Silent(m)'
  <2>1. CASE m = n
        BY <2>1, Constants DEF RInv, Silent
  <2>2. CASE m # n
    <3>1. missed'[m] = missed[m] /\ silence'[m] = silence[m]
          BY <2>2 DEF RInv
    <3>2. missed[m] < MaxMissed /\ Silent(m)
          BY DEF RInv
    <3> QED BY <1>1, <3>1, <3>2 DEF Silent
  <2> QED BY <2>1, <2>2
<1> QED BY <1>2, <1>3 DEF RInv

LEMMA RInvStep == ASSUME RInv, [Next]_vars PROVE RInv'
<1>1. CASE Tick
      BY <1>1, TickKeeps
<1>2. CASE Check
      BY <1>2, CheckKeeps
<1>3. CASE MasterRestarts
  <2>1. nodes' = <<>> /\ check' = 0
        /\ missed' = [n \in Ids |-> 0] /\ silence' = [n \in Ids |-> 0]
        BY <1>3 DEF MasterRestarts
  <2> QED BY <2>1, Constants DEF RInv, Silent
<1>4. ASSUME NEW n \in Ids, Register(n) PROVE RInv'
  <2>1. /\ nodes' = IF Known(n) THEN nodes ELSE Append(nodes, n)
        /\ missed' = [missed EXCEPT ![n] = 0] /\ silence' = [silence EXCEPT ![n] = 0]
        /\ check' = check
        BY <1>4 DEF Register
  <2>2. nodes' \in Seq(Ids) /\ ToSet(nodes) \subseteq ToSet(nodes')
    <3>1. nodes \in Seq(Ids)
          BY DEF RInv
    <3> QED BY <2>1, <3>1 DEF ToSet
  <2> QED BY <2>1, <2>2, HearingKeeps
<1>5. ASSUME NEW n \in Ids, Beat(n) PROVE RInv'
  <2>1. nodes' = nodes /\ check' = check
        BY <1>5 DEF Beat
  <2>2. CASE Known(n)
    <3>1. missed' = [missed EXCEPT ![n] = 0] /\ silence' = [silence EXCEPT ![n] = 0]
          BY <1>5, <2>2 DEF Beat, Heard
    <3>2. nodes' \in Seq(Ids) /\ ToSet(nodes) \subseteq ToSet(nodes')
          BY <2>1 DEF RInv
    <3> QED BY <2>1, <3>1, <3>2, HearingKeeps
  <2>3. CASE ~Known(n)
        BY <1>5, <2>1, <2>3 DEF Beat, Heard, RInv, Silent, Known
  <2> QED BY <2>2, <2>3
<1>6. ASSUME UNCHANGED master PROVE RInv'
      BY <1>6 DEF master, RInv, Silent, Known
<1>7. ASSUME NEW n \in Ids, Starts(n) \/ Unreachable(n) \/ BeatFails(n) \/ Dies(n)
      PROVE  UNCHANGED master
      BY <1>7 DEF Starts, Unreachable, BeatFails, Dies
<1>8. CASE Ask \/ Dispatch \/ UNCHANGED vars
      BY <1>6, <1>8 DEF Ask, Dispatch, vars
<1> QED BY <1>1, <1>2, <1>3, <1>4, <1>5, <1>6, <1>7, <1>8 DEF Next

LEMMA RInvAlways == Spec => []RInv
<1>1. Init => RInv
      BY Constants DEF Init, RInv, Silent
<1> QED BY <1>1, RInvStep, PTL DEF Spec

\* Only a round of checks removes a node, and only one that is over the limit.
LEMMA OnlyExpiredRemoved ==
    ASSUME RInv, [Next]_vars, NEW n \in Ids, Removed(n)
    PROVE  /\ Check /\ check = 0
           /\ silence[n] > SilenceLimit + (MaxMissed - 1) * CheckInterval
<1>1. n \in ToSet(nodes) /\ n \notin ToSet(nodes') /\ restarted' = restarted
      BY KnownIsInSet DEF Removed, ToSet
<1>2. ASSUME NEW m \in Ids PROVE ~Register(m) /\ ~Beat(m)
  <2>1. nodes \in Seq(Ids)
        BY DEF RInv
  <2>2. Register(m) => ToSet(nodes) \subseteq ToSet(nodes')
        BY <2>1 DEF Register, ToSet
  <2> QED BY <1>1, <2>2 DEF Beat
<1>3. Check
  <2>1. nodes' # nodes
        BY <1>1
  <2> QED BY <1>1, <1>2, <2>1
          DEF Next, Tick, MasterRestarts, Ask, Dispatch, Starts, Unreachable, BeatFails,
              Dies, vars, master
<1>4. check = 0 /\ nodes' = Without(nodes, {m \in Ids : Expired(m)})
      BY <1>3 DEF Check
<1>5. nodes \in Seq(Ids)
      BY DEF RInv
<1>6. ToSet(nodes') = ToSet(nodes) \ {m \in Ids : Expired(m)}
      BY <1>4, <1>5, WithoutKeeps
<1>7. Missed(n) >= MaxMissed
      BY <1>1, <1>6 DEF Expired
<1>8. Missed(n) \in Nat /\ missed[n] < MaxMissed /\ missed[n] \in Nat
      BY <1>4, CheckCounts DEF RInv
<1>9. Missed(n) = MaxMissed
      BY <1>7, <1>8, Constants DEF Missed
<1> QED BY <1>3, <1>4, <1>9, CheckCounts, Constants

\* A node is removed only after a long silence: MaxMissed checks that each found it
\* silent for more than SilenceLimit, however checks, heartbeats, registrations and
\* the deaths of workers interleave (monitor.py lines 118-138).
THEOREM RemovedForSilence == Spec => NeverRemovedEarly
<1>1. RInv /\ [Next]_vars =>
        [\A n \in Ids : Removed(n) =>
            silence[n] > SilenceLimit + (MaxMissed - 1) * CheckInterval]_vars
      BY OnlyExpiredRemoved
<1> QED BY <1>1, RInvAlways, PTL DEF Spec, NeverRemovedEarly

-----------------------------------------------------------------------------
(* A worker that is up is heard from in time.                                *)

\* What a worker's thread is at: it registers at most MaxAttempts times and an outage
\* is at most Outage heartbeats long.
Thread(n) ==
    /\ worker[n] = "new" => failures[n] = 0 /\ ~Known(n)
    /\ worker[n] = "registering" => failures[n] < MaxAttempts
    /\ worker[n] = "running" => failures[n] <= Outage

\* The next call of a worker in the registry comes before its silence is too long: each
\* attempt since the one that put it there took its part of boot.
InTime(boot, span, n) ==
    Known(n) =>
        /\ worker[n] = "registering" => silence[n] + due[n] <= boot[failures[n]]
        /\ worker[n] = "running" => silence[n] + due[n] <= boot[MaxAttempts - 1] + span[failures[n]]

Threads ==
    /\ worker \in [Ids -> {"new", "registering", "running", "dead"}]
    /\ failures \in [Ids -> Nat] /\ due \in [Ids -> Nat]

KInv(boot, span) == Threads /\ \A n \in Ids : Thread(n) /\ InTime(boot, span, n)

LEMMA Limits ==
    /\ BeatInterval \in Nat /\ CallTime \in Nat /\ MaxAttempts \in Nat /\ MaxAttempts > 0 /\ Outage \in Nat
    /\ \A k \in 0..Outage : Backoff(k) \in Nat
    /\ AttemptTime \in Nat
<1>1. /\ BeatInterval \in Nat /\ MaxAttempts \in Nat /\ MaxAttempts > 0 /\ Outage \in Nat
      /\ CallTime \in Nat /\ BackoffMax \in Nat /\ AttemptTime \in Nat
      BY RegistryAssumption
<1>2. ASSUME NEW k \in 0..Outage PROVE Backoff(k) \in Nat
  <2>1. BeatInterval * 2 ^ k \in Nat
        BY <1>1, PowersAreNumbers
  <2> QED BY <1>1, <2>1 DEF Backoff, AtMost
<1> QED BY <1>1, <1>2

LEMMA BootGrows ==
    ASSUME NEW boot, NEW span, OutageIsShort(boot, span)
    PROVE  /\ \A k \in 0..(MaxAttempts - 1) : boot[k] \in Nat
           /\ \A k \in Nat : k + 1 < MaxAttempts => boot[k + 1] >= boot[k] + AttemptTime
<1>1. \A k \in 0..(MaxAttempts - 1) : boot[k] \in Nat
      BY DEF OutageIsShort
<1>2. ASSUME NEW k \in Nat, k + 1 < MaxAttempts PROVE boot[k + 1] >= boot[k] + AttemptTime
  <2>1. k + 1 \in 1..(MaxAttempts - 1) /\ (k + 1) - 1 = k
        BY <1>2, Limits
  <2>2. boot[k + 1] >= boot[(k + 1) - 1] + AttemptTime
        BY <2>1 DEF OutageIsShort
  <2> QED BY <2>1, <2>2
<1> QED BY <1>1, <1>2

\* Whom a step leaves alone is still in time.
LEMMA OthersInTime ==
    ASSUME NEW boot, NEW span, NEW m \in Ids, KInv(boot, span),
           worker'[m] = worker[m], failures'[m] = failures[m], due'[m] = due[m],
           Known(m)' => Known(m) /\ silence'[m] = silence[m]
    PROVE  Thread(m)' /\ InTime(boot, span, m)'
BY DEF KInv, Thread, InTime

LEMMA SilenceIsNumber == ASSUME RInv, NEW n \in Ids PROVE silence[n] \in Nat
BY Constants DEF RInv

LEMMA TickInTime ==
    ASSUME NEW boot, NEW span, OutageIsShort(boot, span), RInv, KInv(boot, span), Tick
    PROVE  KInv(boot, span)'
<1>1. /\ nodes' = nodes /\ UNCHANGED <<worker, failures>>
      /\ silence' = [n \in Ids |-> IF Known(n) THEN AtMost(silence[n] + 1, SilenceBound) ELSE 0]
      /\ due' = [n \in Ids |-> IF Up(n) THEN due[n] - 1 ELSE due[n]]
      /\ \A n \in Ids : ~Due(n)
      BY DEF Tick, workers
<1>2. \A n \in Ids : Known(n)' <=> Known(n)
      BY <1>1 DEF Known
<1>3. \A n \in Ids : due[n] \in Nat /\ (Up(n) => due[n] > 0)
      BY <1>1 DEF KInv, Threads, Due
<1>4. Threads'
      BY <1>1, <1>3 DEF KInv, Threads
<1>5. ASSUME NEW n \in Ids PROVE Thread(n)' /\ InTime(boot, span, n)'
  <2>1. Thread(n)'
        BY <1>1, <1>2 DEF KInv, Thread
  <2>2. ASSUME Known(n), Up(n) PROVE silence'[n] + due'[n] <= silence[n] + due[n]
    <3>1. silence'[n] <= silence[n] + 1
          BY <1>1, <2>2, SilenceIsNumber, Constants DEF AtMost
    <3>2. due'[n] = due[n] - 1
          BY <1>1, <2>2
    <3>3. silence'[n] \in Int /\ silence[n] \in Int /\ due[n] \in Int
          BY <1>1, <1>3, <2>2, SilenceIsNumber, Constants DEF AtMost
    <3> QED BY <3>1, <3>2, <3>3
  <2>3. InTime(boot, span, n)'
    <3> SUFFICES ASSUME Known(n), Up(n)
                 PROVE  /\ worker[n] = "registering" => silence'[n] + due'[n] <= boot[failures[n]]
                        /\ worker[n] = "running" =>
                              silence'[n] + due'[n] <= boot[MaxAttempts - 1] + span[failures[n]]
        BY <1>1, <1>2 DEF InTime, Up
    <3>1. /\ silence[n] \in Nat /\ due[n] \in Nat /\ failures[n] \in Nat
          /\ silence'[n] \in Int /\ due'[n] \in Int
          BY <1>1, <1>3, SilenceIsNumber, Constants DEF KInv, Threads, AtMost
    <3>2. ASSUME worker[n] = "registering"
          PROVE  silence[n] + due[n] <= boot[failures[n]] /\ boot[failures[n]] \in Nat
      <4>1. failures[n] \in 0..(MaxAttempts - 1)
            BY <3>1, <3>2, Limits DEF KInv, Thread
      <4> QED BY <3>2, <4>1, BootGrows DEF KInv, InTime
    <3>3. ASSUME worker[n] = "running"
          PROVE  /\ silence[n] + due[n] <= boot[MaxAttempts - 1] + span[failures[n]]
                 /\ span[failures[n]] \in Nat
          BY <3>1, <3>3 DEF KInv, InTime, Thread, OutageIsShort
    <3>4. silence'[n] + due'[n] <= silence[n] + due[n]
          BY <2>2
    <3>5. boot[MaxAttempts - 1] \in Nat
          BY Limits, BootGrows
    <3> QED BY <3>1, <3>2, <3>3, <3>4, <3>5, Limits
  <2> QED BY <2>1, <2>3
<1> QED BY <1>4, <1>5 DEF KInv

LEMMA CheckInTime ==
    ASSUME NEW boot, NEW span, RInv, KInv(boot, span), Check
    PROVE  KInv(boot, span)'
<1> DEFINE gone == {n \in Ids : Expired(n)}
<1>1. /\ nodes' = Without(nodes, gone) /\ UNCHANGED <<worker, failures, due>>
      /\ silence' = [n \in Ids |-> IF Expired(n) THEN 0 ELSE silence[n]]
      BY DEF Check, workers
<1>2. nodes \in Seq(Ids)
      BY DEF RInv
<1>3. ToSet(nodes') = ToSet(nodes) \ gone
  <2> HIDE DEF gone
  <2> QED BY <1>1, <1>2, WithoutKeeps
<1>4. \A n \in Ids : Known(n)' => Known(n) /\ ~Expired(n)
      BY <1>3, KnownIsInSet, KnownIsInSetNext
<1>5. \A n \in Ids : Thread(n)' /\ InTime(boot, span, n)'
      BY <1>1, <1>4, OthersInTime
<1> QED BY <1>1, <1>5 DEF KInv, Threads

\* A worker whose attempt to register fails, with or without the master having heard it.
LEMMA AttemptInTime ==
    ASSUME NEW boot, NEW span, OutageIsShort(boot, span), RInv, KInv(boot, span), NEW n \in Ids,
           worker[n] = "registering", due[n] = 0, AttemptFails(n),
           silence'[n] \in Nat,
           Known(n)' => silence'[n] <= boot[failures[n]]
    PROVE  Threads' /\ Thread(n)' /\ InTime(boot, span, n)'
<1>1. failures[n] \in Nat /\ failures[n] < MaxAttempts
      BY DEF KInv, Threads, Thread
<1>2. CASE failures[n] + 1 < MaxAttempts
  <2>1. PICK t \in 1..AttemptTime :
           /\ failures' = [failures EXCEPT ![n] = failures[n] + 1] /\ due' = [due EXCEPT ![n] = t]
           /\ worker' = [worker EXCEPT ![n] = "registering"]
        BY <1>2 DEF AttemptFails
  <2>2. Threads' /\ failures'[n] = failures[n] + 1 /\ due'[n] = t /\ worker'[n] = "registering"
        BY <1>1, <2>1, Limits DEF KInv, Threads
  <2>3. Thread(n)'
        BY <1>2, <2>2 DEF Thread
  <2>4. /\ boot[failures[n]] \in Nat /\ boot[failures[n] + 1] \in Nat
        /\ boot[failures[n] + 1] >= boot[failures[n]] + AttemptTime
        BY <1>1, <1>2, BootGrows, Limits
  <2>5. t \in Nat /\ t <= AttemptTime
        BY Limits
  <2>6. InTime(boot, span, n)'
        BY <1>1, <2>2, <2>4, <2>5, Limits DEF InTime
  <2> QED BY <2>2, <2>3, <2>6
<1>3. CASE ~(failures[n] + 1 < MaxAttempts)
  <2>1. PICK t \in 0..CallTime :
           /\ failures' = [failures EXCEPT ![n] = 0] /\ due' = [due EXCEPT ![n] = 0 + t]
           /\ worker' = [worker EXCEPT ![n] = "running"]
        BY <1>3 DEF AttemptFails, Waits
  <2>2. Threads' /\ failures'[n] = 0 /\ due'[n] = t /\ worker'[n] = "running"
        BY <2>1, Limits DEF KInv, Threads
  <2>3. Thread(n)'
        BY <2>2, Limits DEF Thread
  <2>4. failures[n] = MaxAttempts - 1 /\ boot[MaxAttempts - 1] \in Nat
        BY <1>1, <1>3, Limits, BootGrows
  <2>5. span[0] \in Nat /\ t \in Nat /\ t <= span[0]
        BY <1>1, Limits DEF OutageIsShort
  <2>6. InTime(boot, span, n)'
        BY <1>1, <2>2, <2>4, <2>5, Limits DEF InTime
  <2> QED BY <2>2, <2>3, <2>6
<1> QED BY <1>2, <1>3

LEMMA RegisterInTime ==
    ASSUME NEW boot, NEW span, OutageIsShort(boot, span), RInv, KInv(boot, span), NEW n \in Ids, Register(n)
    PROVE  KInv(boot, span)'
<1>1. /\ worker[n] = "registering" /\ due[n] = 0
      /\ nodes' = IF Known(n) THEN nodes ELSE Append(nodes, n)
      /\ silence' = [silence EXCEPT ![n] = 0]
      /\ Registered(n) \/ AttemptFails(n)
      BY DEF Register, Due
<1>2. silence'[n] = 0
      BY <1>1 DEF RInv
<1>3. Threads' /\ Thread(n)' /\ InTime(boot, span, n)'
  <2>1. CASE Registered(n)
    <3>1. PICK t \in 0..CallTime :
             /\ worker' = [worker EXCEPT ![n] = "running"]
             /\ failures' = [failures EXCEPT ![n] = 0] /\ due' = [due EXCEPT ![n] = 0 + t]
          BY <2>1 DEF Registered, Waits
    <3>2. Threads' /\ worker'[n] = "running" /\ failures'[n] = 0 /\ due'[n] = t
          BY <1>1, <3>1, Limits DEF KInv, Threads
    <3>3. span[0] \in Nat /\ t \in Nat /\ t <= span[0]
          BY Limits DEF OutageIsShort
    <3>4. boot[MaxAttempts - 1] \in Nat
          BY Limits, BootGrows
    <3> QED BY <1>2, <3>2, <3>3, <3>4, Limits DEF Thread, InTime
  <2>2. CASE AttemptFails(n)
    <3>1. failures[n] \in 0..(MaxAttempts - 1)
          BY <1>1, Limits DEF KInv, Threads, Thread
    <3>2. boot[failures[n]] \in Nat
          BY <3>1, BootGrows
    <3> QED BY <1>1, <1>2, <2>2, <3>2, AttemptInTime
  <2> QED BY <1>1, <2>1, <2>2
<1>4. ASSUME NEW m \in Ids, m # n PROVE Thread(m)' /\ InTime(boot, span, m)'
  <2>1. nodes \in Seq(Ids)
        BY DEF RInv
  <2>2. Known(m)' => Known(m)
        BY <1>1, <1>4, <2>1 DEF Known
  <2>3. silence'[m] = silence[m]
        BY <1>1, <1>4 DEF RInv
  <2>4. worker'[m] = worker[m] /\ failures'[m] = failures[m] /\ due'[m] = due[m]
        BY <1>1, <1>4 DEF KInv, Threads, Registered, AttemptFails, Waits
  <2> QED BY <2>2, <2>3, <2>4, OthersInTime
<1> QED BY <1>3, <1>4 DEF KInv

\* A step of a worker that the master does not notice.
LEMMA UnnoticedInTime ==
    ASSUME NEW boot, NEW span, OutageIsShort(boot, span), RInv, KInv(boot, span), NEW n \in Ids,
           Starts(n) \/ Unreachable(n) \/ BeatFails(n) \/ Dies(n)
    PROVE  KInv(boot, span)'
<1>1. UNCHANGED <<nodes, silence>>
      BY DEF Starts, Unreachable, BeatFails, Dies, master
<1>2. \A m \in Ids : Known(m)' <=> Known(m)
      BY <1>1 DEF Known
<1>3. Threads' /\ Thread(n)' /\ InTime(boot, span, n)'
  <2>1. CASE Starts(n)
    <3>1. /\ worker[n] = "new" /\ worker' = [worker EXCEPT ![n] = "registering"]
          /\ UNCHANGED <<failures, due>>
          BY <2>1 DEF Starts
    <3>2. failures[n] = 0 /\ ~Known(n)
          BY <3>1 DEF KInv, Thread
    <3> QED BY <1>2, <3>1, <3>2, Limits DEF KInv, Threads, Thread, InTime
  <2>2. CASE Unreachable(n)
    <3>1. worker[n] = "registering" /\ due[n] = 0 /\ AttemptFails(n)
          BY <2>2 DEF Unreachable, Due
    <3>2. failures[n] \in Nat /\ (Known(n) => silence[n] + due[n] <= boot[failures[n]])
          BY <3>1 DEF KInv, Threads, InTime
    <3>3. silence'[n] \in Nat /\ (Known(n)' => silence'[n] <= boot[failures[n]])
          BY <1>1, <1>2, <3>1, <3>2, SilenceIsNumber
    <3> QED BY <3>1, <3>3, AttemptInTime
  <2>3. CASE BeatFails(n)
    <3> DEFINE k == failures[n] + 1
    <3>1. PICK t \in 0..CallTime :
             /\ worker[n] = "running" /\ due[n] = 0 /\ failures[n] < Outage
             /\ failures' = [failures EXCEPT ![n] = k]
             /\ due' = [due EXCEPT ![n] = Backoff(failures'[n]) + t] /\ worker' = worker
          BY <2>3 DEF BeatFails, Due, Waits
    <3>2. failures[n] \in Nat /\ k \in 1..Outage /\ k - 1 = failures[n]
          BY <3>1, Limits DEF KInv, Threads
    <3>3. /\ failures'[n] = k /\ due'[n] = Backoff(k) + t /\ Backoff(k) \in Nat
          /\ t \in Nat /\ t <= CallTime /\ worker'[n] = "running"
          BY <3>1, <3>2, Limits DEF KInv, Threads
    <3>4. Threads'
          BY <3>1, <3>2, <3>3 DEF KInv, Threads
    <3>5. /\ span[k] \in Nat /\ span[failures[n]] \in Nat
          /\ span[k] >= span[failures[n]] + Backoff(k) + CallTime
      <4>1. span[k] >= span[k - 1] + Backoff(k) + CallTime
            BY <3>2 DEF OutageIsShort
      <4>2. k \in 0..Outage /\ failures[n] \in 0..Outage
            BY <3>1, <3>2, Limits
      <4>3. \A j \in 0..Outage : span[j] \in Nat
            BY DEF OutageIsShort
      <4> HIDE DEF k
      <4>4. span[k - 1] = span[failures[n]]
            BY <3>2
      <4> QED BY <4>1, <4>2, <4>3, <4>4
    <3>6. Known(n) => silence[n] + 0 <= boot[MaxAttempts - 1] + span[failures[n]]
          BY <3>1 DEF KInv, InTime
    <3>7. boot[MaxAttempts - 1] \in Nat
          BY Limits, BootGrows
    <3>8. Known(n)' => silence'[n] + due'[n] <= boot[MaxAttempts - 1] + span[failures'[n]]
          BY <1>1, <1>2, <3>3, <3>5, <3>6, <3>7, SilenceIsNumber, Limits
    <3> QED BY <3>2, <3>3, <3>4, <3>8 DEF Thread, InTime
  <2>4. CASE Dies(n)
        BY <2>4 DEF Dies, KInv, Threads, Thread, InTime
  <2> QED BY <2>1, <2>2, <2>3, <2>4
<1>4. ASSUME NEW m \in Ids, m # n PROVE Thread(m)' /\ InTime(boot, span, m)'
  <2>1. worker'[m] = worker[m] /\ failures'[m] = failures[m] /\ due'[m] = due[m]
        BY <1>4 DEF KInv, Threads, Starts, Unreachable, AttemptFails, BeatFails, Dies, Waits
  <2> QED BY <1>1, <1>2, <2>1, OthersInTime
<1> QED BY <1>3, <1>4 DEF KInv

LEMMA BeatInTime ==
    ASSUME NEW boot, NEW span, OutageIsShort(boot, span), RInv, KInv(boot, span), NEW n \in Ids, Beat(n)
    PROVE  KInv(boot, span)'
<1>1. PICK t \in 0..CallTime :
         /\ worker[n] = "running" /\ Heard(n) /\ UNCHANGED <<nodes, worker>>
         /\ failures' = [failures EXCEPT ![n] = 0] /\ due' = [due EXCEPT ![n] = BeatInterval + t]
      BY DEF Beat, Waits
<1>2. \A m \in Ids : Known(m)' <=> Known(m)
      BY <1>1 DEF Known
<1>3. Threads' /\ failures'[n] = 0 /\ due'[n] = BeatInterval + t
      BY <1>1, Limits DEF KInv, Threads
<1>4. Known(n)' => silence'[n] = 0
      BY <1>1, <1>2 DEF Heard, RInv
<1>5. span[0] \in Nat /\ t \in Nat /\ span[0] >= BeatInterval + t
      BY Limits DEF OutageIsShort
<1>6. boot[MaxAttempts - 1] \in Nat
      BY Limits, BootGrows
<1>7. Thread(n)' /\ InTime(boot, span, n)'
      BY <1>1, <1>3, <1>4, <1>5, <1>6, Limits DEF Thread, InTime
<1>8. ASSUME NEW m \in Ids, m # n PROVE Thread(m)' /\ InTime(boot, span, m)'
  <2>1. worker'[m] = worker[m] /\ failures'[m] = failures[m] /\ due'[m] = due[m]
        BY <1>1, <1>8 DEF KInv, Threads
  <2>2. silence'[m] = silence[m]
        BY <1>1, <1>8 DEF Heard, RInv
  <2> QED BY <1>2, <2>1, <2>2, OthersInTime
<1> QED BY <1>3, <1>7, <1>8 DEF KInv

LEMMA KInvStep ==
    ASSUME NEW boot, NEW span, OutageIsShort(boot, span), RInv, KInv(boot, span), [Next]_vars
    PROVE  KInv(boot, span)'
<1>1. CASE MasterRestarts
  <2>1. nodes' = <<>> /\ UNCHANGED <<worker, failures, due>>
        BY <1>1 DEF MasterRestarts, workers
  <2>2. \A n \in Ids : ~Known(n)'
        BY <2>1 DEF Known
  <2>3. \A n \in Ids : Thread(n)' /\ InTime(boot, span, n)'
        BY <2>1, <2>2, OthersInTime
  <2> QED BY <2>1, <2>3 DEF KInv, Threads
<1>2. CASE Ask \/ Dispatch \/ UNCHANGED vars
  <2>1. UNCHANGED <<nodes, silence, worker, failures, due>>
        BY <1>2 DEF Ask, Dispatch, vars, master, workers
  <2>2. \A n \in Ids : Thread(n)' /\ InTime(boot, span, n)'
        BY <2>1, OthersInTime DEF Known
  <2> QED BY <2>1, <2>2 DEF KInv, Threads
<1> QED BY <1>1, <1>2, TickInTime, CheckInTime, RegisterInTime, UnnoticedInTime, BeatInTime
        DEF Next

\* A worker that is up is never removed from the registry, through an outage of up to
\* Outage heartbeats in a row and a registration whose answers are lost, if the backoff
\* of worker.py is over before the limit of monitor.py: each call comes in time, so
\* no round of checks finds the worker silent for as long as a removal takes.
THEOREM RunningWorkersAreKept ==
    ASSUME NEW boot, NEW span, OutageIsShort(boot, span)
    PROVE  Spec => RunningIsKept
<1>1. Init => KInv(boot, span)
  <2> SUFFICES ASSUME Init PROVE KInv(boot, span)
      OBVIOUS
  <2>1. \A n \in Ids : ~Known(n)
        BY DEF Init, Known
  <2> QED BY <2>1 DEF Init, KInv, Threads, Thread, InTime
<1>2. RInv /\ KInv(boot, span) /\ [Next]_vars => KInv(boot, span)'
      BY KInvStep
<1>3. ASSUME RInv, KInv(boot, span), [Next]_vars, NEW n \in Ids, Removed(n) PROVE ~Up(n)
  <2>1. Known(n) /\ silence[n] > SilenceLimit + (MaxMissed - 1) * CheckInterval
        BY <1>3, OnlyExpiredRemoved DEF Removed
  <2>2. /\ silence[n] \in Nat /\ due[n] \in Nat /\ failures[n] \in Nat
        BY <1>3, SilenceIsNumber DEF KInv, Threads
  <2>3. \A k \in 0..(MaxAttempts - 1), j \in 0..Outage :
           /\ boot[k] \in Nat /\ span[j] \in Nat
           /\ boot[k] + span[j] <= SilenceLimit + (MaxMissed - 1) * CheckInterval
        BY <1>3 DEF OutageIsShort
  <2>4. (MaxMissed - 1) * CheckInterval \in Int
        BY Constants
  <2>5. CASE worker[n] = "registering"
    <3>1. silence[n] + due[n] <= boot[failures[n]] /\ failures[n] < MaxAttempts
          BY <1>3, <2>1, <2>5 DEF KInv, InTime, Thread
    <3>2. /\ boot[failures[n]] \in Nat /\ span[0] \in Nat
          /\ boot[failures[n]] + span[0] <= SilenceLimit + (MaxMissed - 1) * CheckInterval
          BY <2>2, <2>3, <3>1, Limits
    <3> QED BY <2>1, <2>2, <2>4, <3>1, <3>2, Limits, Constants
  <2>6. CASE worker[n] = "running"
    <3>1. silence[n] + due[n] <= boot[MaxAttempts - 1] + span[failures[n]] /\ failures[n] <= Outage
          BY <1>3, <2>1, <2>6 DEF KInv, InTime, Thread
    <3>2. /\ boot[MaxAttempts - 1] \in Nat /\ span[failures[n]] \in Nat
          /\ boot[MaxAttempts - 1] + span[failures[n]]
                <= SilenceLimit + (MaxMissed - 1) * CheckInterval
          BY <2>2, <2>3, <3>1, Limits
    <3> QED BY <2>1, <2>2, <2>4, <3>1, <3>2, Limits, Constants
  <2> QED BY <2>5, <2>6 DEF Up
<1>4. RInv /\ KInv(boot, span) /\ [Next]_vars => [\A n \in Ids : Removed(n) => ~Up(n)]_vars
      BY <1>3
<1> QED BY <1>1, <1>2, <1>4, RInvAlways, PTL DEF Spec, RunningIsKept
=============================================================================
