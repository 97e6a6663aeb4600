-------------------------- MODULE ClusterStartProofs --------------------------
(***************************************************************************)
(* Ranks and roll call of a distributed start, for any number of workers,  *)
(* restarts, polls and attempts, and whatever becomes of a start request.  *)
(***************************************************************************)
EXTENDS ClusterStart, FiniteSetTheorems, TLAPS

LEMMA WorkersFacts ==
    /\ Workers \in Seq(Addresses) /\ Len(Workers) \in Nat \ {0}
    /\ DOMAIN Workers = 1..Len(Workers) /\ Total = Len(Workers) + 1
    /\ \A w \in Addresses : \E i \in DOMAIN Workers : Workers[i] = w
    /\ \A i \in DOMAIN Workers : Workers[i] \in Addresses
    /\ "delivered" \in Losses
BY ClusterAssumption DEF Addresses, ToSet, Total

\* A registry never forgets an address.
LEMMA RegistryGrows ==
    ASSUME NEW r \in Seq(Addresses), NEW w \in Addresses
    PROVE  /\ Append(r, w) \in Seq(Addresses)
           /\ ToSet(r) \subseteq ToSet(Append(r, w))
BY DEF ToSet

-----------------------------------------------------------------------------
\* Where the dispatcher is, and that it told the workers below rank and nobody else,
\* as long as no client has told them something of its own.
Dispatched ==
    /\ registry \in Seq(Addresses)
    /\ rank \in 1..Total
    /\ dispatcher \in {"waiting", "gave_up"} => rank = 1
    /\ dispatcher \notin {"waiting", "gave_up"} => Addresses \subseteq ToSet(registry)
    /\ dispatcher = "sending" => rank \in DOMAIN Workers
    /\ ~asked =>
        /\ inflight = {}
        /\ script \in [Addresses -> [nnodes : Nat, rank : Nat]]
        /\ \A i \in DOMAIN Workers :
             Told(Workers[i]) => i < rank /\ script[Workers[i]] = [nnodes |-> Total, rank |-> i]

LEMMA DispatchedInit == Init => Dispatched
BY WorkersFacts DEF Init, Dispatched, Told, NoScript

\* The dispatcher tells the next worker, or fails to: rank moves on in either case.
LEMMA DispatchedSend ==
    ASSUME Dispatched, Send
    PROVE  Dispatched'
<1>1. PICK fate \in Losses : Receive(Workers[rank], [nnodes |-> Total, rank |-> rank], fate)
      BY DEF Send
<1>2. /\ dispatcher = "sending" /\ rank' = rank + 1
      /\ dispatcher' = IF rank < Len(Workers) THEN "sending" ELSE "done"
      /\ UNCHANGED <<registry, asked, inflight>>
      BY DEF Send, clients
<1>3. rank \in DOMAIN Workers /\ rank \in 1..Len(Workers)
      BY <1>2, WorkersFacts DEF Dispatched
<1>4. rank' \in 1..Total /\ (dispatcher' = "sending" => rank' \in DOMAIN Workers)
      BY <1>2, <1>3, WorkersFacts
<1>5. ASSUME ~asked
      PROVE  /\ script' \in [Addresses -> [nnodes : Nat, rank : Nat]]
             /\ \A i \in DOMAIN Workers : Told(Workers[i])' =>
                  i < rank' /\ script'[Workers[i]] = [nnodes |-> Total, rank |-> i]
  <2>1. script \in [Addresses -> [nnodes : Nat, rank : Nat]]
        BY <1>5 DEF Dispatched
  <2>2. \/ script' = script
        \/ script' = [script EXCEPT ![Workers[rank]] = [nnodes |-> Total, rank |-> rank]]
        BY <1>1, <2>1 DEF Receive
  <2>3. script' \in [Addresses -> [nnodes : Nat, rank : Nat]]
    <3>1. [nnodes |-> Total, rank |-> rank] \in [nnodes : Nat, rank : Nat]
          BY <1>3, WorkersFacts
    <3> QED BY <2>1, <2>2, <3>1
  <2>4. ASSUME NEW i \in DOMAIN Workers, Told(Workers[i])'
        PROVE  i < rank' /\ script'[Workers[i]] = [nnodes |-> Total, rank |-> i]
    <3>1. Workers[i] \in Addresses
          BY WorkersFacts
    <3>2. CASE i = rank /\ script' # script
          BY <1>2, <1>3, <2>1, <2>2, <3>1, <3>2
    <3>3. CASE i # rank \/ script' = script
      <4>1. Workers[i] # Workers[rank] \/ script' = script
            BY <1>3, <3>3, ClusterAssumption
      <4>2. script'[Workers[i]] = script[Workers[i]]
            BY <2>1, <2>2, <3>1, <4>1
      <4>3. i < rank /\ script[Workers[i]] = [nnodes |-> Total, rank |-> i]
            BY <1>5, <2>4, <4>2 DEF Dispatched, Told
      <4> QED BY <1>2, <1>3, <4>2, <4>3, WorkersFacts
    <3> QED BY <3>2, <3>3
  <2> QED BY <2>3, <2>4
<1> QED BY <1>2, <1>4, <1>5 DEF Dispatched

\* Every other step leaves what the dispatcher told as it is.
LEMMA DispatchedStep ==
    ASSUME Dispatched, [Next]_vars
    PROVE  Dispatched'
<1>1. ASSUME UNCHANGED <<rank, dispatcher, script, asked, inflight>>,
             registry' \in Seq(Addresses), ToSet(registry) \subseteq ToSet(registry')
      PROVE  Dispatched'
      BY <1>1 DEF Dispatched, Told
<1>2. registry \in Seq(Addresses)
      BY DEF Dispatched
<1>3. ASSUME UNCHANGED <<registry, rank, dispatcher, script, asked, inflight>>
      PROVE  Dispatched'
      BY <1>1, <1>2, <1>3
<1>4. CASE ApiUp
      BY <1>3, <1>4 DEF ApiUp, dispatching, clients
<1>5. CASE Poll
  <2>1. /\ UNCHANGED <<registry, rank, script, asked, inflight>>
        /\ dispatcher = "waiting"
        /\ \/ AllRegistered /\ dispatcher' = "sending"
           \/ dispatcher' \in {"waiting", "gave_up"}
        BY <1>5 DEF Poll, clients
  <2>2. 1 \in DOMAIN Workers
        BY WorkersFacts
  <2> QED BY <2>1, <2>2 DEF Dispatched, AllRegistered, Told
<1>6. CASE Send
      BY <1>6, DispatchedSend
<1>7. CASE ClientStart
      BY <1>7 DEF ClientStart, Dispatched, dispatching
<1>8. CASE Arrive
  <2>1. asked
        BY <1>8 DEF Arrive, Dispatched
  <2> QED BY <1>8, <2>1 DEF Arrive, Dispatched, dispatching
<1>9. ASSUME NEW w \in Addresses, Steps(w) \/ Restart(w) PROVE Dispatched'
  <2>1. CASE Register(w)
        BY <1>1, <1>2, <2>1, RegistryGrows DEF Register, dispatching, clients
  <2>2. CASE Boot(w) \/ AttemptFails(w) \/ Serve(w) \/ Restart(w)
        BY <1>3, <2>2 DEF Boot, AttemptFails, Serve, Restart, dispatching, clients
  <2> QED BY <1>9, <2>1, <2>2 DEF Steps
<1>10. CASE Over \/ UNCHANGED vars
       BY <1>3, <1>10 DEF Over, vars, dispatching, clients
<1> QED BY <1>4, <1>5, <1>6, <1>7, <1>8, <1>9, <1>10 DEF Next

\* The invariant of the dispatcher.
LEMMA DispatchedAlways == Spec => []Dispatched
BY DispatchedInit, DispatchedStep, PTL DEF Spec

\* As long as no client interferes, the workers that have a script form one cluster:
\* one size, distinct ranks, none of them the master's (wings_control.py lines
\* 478-567), whatever was lost, refused or restarted.
THEOREM RanksFit == Spec => []RanksAgree
<1>1. Dispatched => RanksAgree
  <2> SUFFICES ASSUME Dispatched, ~asked, NEW w \in Addresses, NEW v \in Addresses,
                      Told(w), Told(v)
               PROVE  /\ script[w].nnodes = Total
                      /\ script[w].rank \in 1..Len(Workers)
                      /\ script[w].rank = script[v].rank => w = v
      BY DEF RanksAgree
  <2>1. PICK i \in DOMAIN Workers, j \in DOMAIN Workers : Workers[i] = w /\ Workers[j] = v
        BY WorkersFacts
  <2>2. script[w] = [nnodes |-> Total, rank |-> i] /\ script[v] = [nnodes |-> Total, rank |-> j]
        BY <2>1 DEF Dispatched
  <2> QED BY <2>1, <2>2, WorkersFacts
<1> QED BY <1>1, DispatchedAlways, PTL

\* No worker is told to start before every worker has registered (the waiting of
\* _wait_and_distribute_to_workers).
THEOREM RollCall == Spec => []RollCallFirst
<1>1. Dispatched => RollCallFirst
  <2> SUFFICES ASSUME Dispatched, ~asked, NEW w \in Addresses, Told(w)
               PROVE  Addresses \subseteq ToSet(registry)
      BY DEF RollCallFirst
  <2>1. PICK i \in DOMAIN Workers : Workers[i] = w
        BY WorkersFacts
  <2>2. i < rank /\ i \in Nat /\ i >= 1
    <3>1. i < rank
          BY <2>1 DEF Dispatched
    <3>2. i \in 1..Len(Workers)
          BY WorkersFacts
    <3> QED BY <3>1, <3>2, WorkersFacts
  <2>3. rank # 1
        BY <2>2 DEF Dispatched
  <2> QED BY <2>3 DEF Dispatched
<1> QED BY <1>1, DispatchedAlways, PTL

-----------------------------------------------------------------------------
\* Until a worker restarts, a worker that still has to register is not in the
\* registry, and nobody is in it twice.
RegisteredOnce ==
    /\ registry \in Seq(Addresses) /\ restarts \in Nat
    /\ worker \in [Addresses -> {"off", "registering", "registered", "serving"}]
    /\ restarts = 0 =>
        /\ \A i \in DOMAIN registry : worker[registry[i]] \in {"registered", "serving"}
        /\ \A i, j \in DOMAIN registry : registry[i] = registry[j] => i = j

\* Only the answer to a registration adds to the registry, and that only once.
LEMMA RegisteredOnceStep ==
    ASSUME RegisteredOnce, [Next]_vars
    PROVE  RegisteredOnce'
<1>1. ASSUME UNCHANGED <<registry, restarts, worker>> PROVE RegisteredOnce'
      BY <1>1 DEF RegisteredOnce
<1>2. ASSUME NEW w \in Addresses, NEW s \in {"registering", "registered", "serving"},
             worker' = [worker EXCEPT ![w] = s], UNCHANGED <<registry, restarts>>,
             worker[w] \in {"registered", "serving"} => s \in {"registered", "serving"}
      PROVE  RegisteredOnce'
      BY <1>2 DEF RegisteredOnce
<1>3. ASSUME NEW w \in Addresses, Register(w) PROVE RegisteredOnce'
  <2>1. /\ registry' = Append(registry, w) /\ worker[w] = "registering"
        /\ worker' = [worker EXCEPT ![w] = "registered"] /\ UNCHANGED restarts
        BY <1>3 DEF Register
  <2>2. /\ registry' \in Seq(Addresses) /\ DOMAIN registry = 1..Len(registry)
        /\ DOMAIN registry' = 1..(Len(registry) + 1) /\ Len(registry) \in Nat
        /\ registry'[Len(registry) + 1] = w
        /\ \A i \in 1..Len(registry) : registry'[i] = registry[i] /\ registry[i] \in Addresses
        BY <2>1 DEF RegisteredOnce
  <2>3. worker' \in [Addresses -> {"off", "registering", "registered", "serving"}]
        BY <2>1 DEF RegisteredOnce
  <2>4. ASSUME restarts = 0
        PROVE  /\ \A i \in DOMAIN registry' : worker'[registry'[i]] \in {"registered", "serving"}
               /\ \A i, j \in DOMAIN registry' : registry'[i] = registry'[j] => i = j
    <3>1. \A i \in 1..Len(registry) :
            worker[registry[i]] \in {"registered", "serving"} /\ registry[i] # w
          BY <2>1, <2>2, <2>4 DEF RegisteredOnce
    <3>2. \A i, j \in 1..Len(registry) : registry[i] = registry[j] => i = j
          BY <2>2, <2>4 DEF RegisteredOnce
    <3>3. \A i \in DOMAIN registry' : worker'[registry'[i]] \in {"registered", "serving"}
          BY <2>1, <2>2, <3>1 DEF RegisteredOnce
    <3>4. \A i, j \in DOMAIN registry' : registry'[i] = registry'[j] => i = j
          BY <2>2, <3>1, <3>2
    <3> QED BY <3>3, <3>4
  <2> QED BY <2>1, <2>2, <2>3, <2>4 DEF RegisteredOnce
<1>4. ASSUME NEW w \in Addresses, Boot(w) \/ AttemptFails(w) \/ Serve(w) PROVE RegisteredOnce'
  <2>1. CASE Boot(w)
        BY <1>2, <2>1 DEF Boot
  <2>2. CASE AttemptFails(w)
    <3>1. worker' = worker \/ worker' = [worker EXCEPT ![w] = "registered"]
          BY <2>2 DEF AttemptFails, RegisteredOnce
    <3> QED BY <1>1, <1>2, <2>2, <3>1 DEF AttemptFails
  <2>3. CASE Serve(w)
        BY <1>2, <2>3 DEF Serve
  <2> QED BY <1>4, <2>1, <2>2, <2>3
<1>5. ASSUME NEW w \in Addresses, Restart(w) PROVE RegisteredOnce'
      BY <1>5 DEF Restart, RegisteredOnce
<1>6. CASE ApiUp \/ Poll \/ Send \/ ClientStart \/ Arrive \/ Over \/ UNCHANGED vars
      BY <1>1, <1>6 DEF ApiUp, Poll, Send, ClientStart, Arrive, Over, vars
<1> QED BY <1>3, <1>4, <1>5, <1>6 DEF Next, Steps

LEMMA RegisteredOnceAlways == Spec => []RegisteredOnce
<1>1. Init => RegisteredOnce
      BY DEF Init, RegisteredOnce
<1> QED BY <1>1, RegisteredOnceStep, PTL DEF Spec

\* A sequence without repetitions has as many elements as places.
LEMMA Distinct ==
    ASSUME NEW s \in Seq(Addresses), \A i, j \in DOMAIN s : s[i] = s[j] => i = j
    PROVE  Cardinality({s[i] : i \in DOMAIN s}) = Len(s)
<1> DEFINE T == {s[i] : i \in DOMAIN s}
<1>1. DOMAIN s = 1..Len(s) /\ Len(s) \in Nat
      OBVIOUS
<1>2. s \in [1..Len(s) -> T]
      BY <1>1
<1>3. s \in Surjection(1..Len(s), T)
      BY <1>1, <1>2 DEF Surjection
<1>4. s \in Injection(1..Len(s), T)
      BY <1>1, <1>2 DEF Injection, IsInjective
<1>5. IsFiniteSet(1..Len(s)) /\ Cardinality(1..Len(s)) = Len(s)
      BY <1>1, FS_Interval
<1> QED BY <1>3, <1>5, <1>4, FS_Surjection

\* As long as no worker restarted, a client's call tells every registered node once,
\* with a rank of its own, and the number it calls the size of the cluster is that of
\* the nodes told (master.py lines 160-197).
THEOREM OneRank == Spec => OneRankEach
<1>1. ASSUME RegisteredOnce, [Next]_vars, inflight = {}, restarts = 0, NEW m \in inflight'
      PROVE  /\ m.nnodes = Cardinality({x.to : x \in inflight'})
             /\ \A x \in inflight' : x.to = m.to => x = m
  <2> DEFINE Request(i) ==
          [to |-> registry[i], id |-> i, nnodes |-> Len(registry), rank |-> i - 1]
  <2>1. ClientStart
        BY <1>1 DEF Next, Steps, ApiUp, Poll, Send, Arrive, Over, Boot, Register, AttemptFails,
           Serve, Restart, clients, vars
  <2>2. inflight' = {Request(i) : i \in DOMAIN registry}
        BY <2>1 DEF ClientStart
  <2>3. \A i, j \in DOMAIN registry : registry[i] = registry[j] => i = j
        BY <1>1 DEF RegisteredOnce
  <2>4. PICK k \in DOMAIN registry : m = Request(k)
        BY <1>1, <2>2
  <2>5. {x.to : x \in inflight'} = {registry[i] : i \in DOMAIN registry}
    <3>1. \A i \in DOMAIN registry : Request(i).to = registry[i]
          OBVIOUS
    <3>2. \A x \in inflight' : x.to \in {registry[i] : i \in DOMAIN registry}
          BY <2>2, <3>1
    <3>3. \A i \in DOMAIN registry : registry[i] \in {x.to : x \in inflight'}
      <4> SUFFICES ASSUME NEW i \in DOMAIN registry
                   PROVE  \E x \in inflight' : x.to = registry[i]
          OBVIOUS
      <4> QED BY <2>2, <3>1
    <3> HIDE DEF Request
    <3> QED BY <3>2, <3>3
  <2>6. Cardinality({registry[i] : i \in DOMAIN registry}) = Len(registry)
        BY <1>1, <2>3, Distinct DEF RegisteredOnce
  <2>7. \A x \in inflight' : x.to = m.to => x = m
        BY <2>2, <2>3, <2>4
  <2> QED BY <2>4, <2>5, <2>6, <2>7
<1>2. RegisteredOnce /\ [Next]_vars =>
        [inflight = {} /\ restarts = 0 => \A m \in inflight' :
           /\ m.nnodes = Cardinality({x.to : x \in inflight'})
           /\ \A x \in inflight' : x.to = m.to => x = m]_vars
      BY <1>1
<1> QED BY <1>2, RegisteredOnceAlways, PTL DEF Spec, OneRankEach
=============================================================================
