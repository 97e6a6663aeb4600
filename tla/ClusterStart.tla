---------------------------- MODULE ClusterStart ----------------------------
(***************************************************************************)
(* How the nodes of a distributed engine get their start scripts:          *)
(* wings_control.py (_run_master_mode, _wait_and_distribute_to_workers,    *)
(* _run_worker_mode), distributed/worker.py (start_worker, the             *)
(* registration, /api/start_engine) and distributed/master.py              *)
(* (/api/nodes and /api/start_engine in distributed mode).                 *)
(*                                                                         *)
(* Workers[i] is NODE_IPS[i], the master's own node is NODE_IPS[0].  A     *)
(* worker may restart at any moment: its new incarnation registers under a *)
(* new id and the same address, and its shared volume keeps the script.    *)
(* Polls and attempts are counted instead of timed.                        *)
(***************************************************************************)
EXTENDS Integers, Sequences, FiniteSets, SequencesExt

CONSTANTS
    Workers,      \* worker addresses in the order of NODE_IPS
    MaxPolls,     \* polls in one round of waiting: max_wait_sec / poll_interval
    MaxAttempts,  \* max_retries of register_with_master
    MaxRestarts,  \* bound: worker restarts
    Losses,       \* what may happen to a start request, a subset of Fates
    ClientStarts  \* clients use the master's /api/start_engine

Fates == {"delivered", "refused", "unanswered", "build_error"}
Addresses == ToSet(Workers)

ASSUME ClusterAssumption ==
    /\ Workers \in Seq(Addresses) /\ Len(Workers) > 0
    /\ \A i, j \in DOMAIN Workers : Workers[i] = Workers[j] => i = j
    /\ {MaxPolls, MaxAttempts} \subseteq Nat \ {0} /\ MaxRestarts \in Nat
    /\ "delivered" \in Losses /\ Losses \subseteq Fates
    /\ ClientStarts \in BOOLEAN

VARIABLES
    api,        \* the master's API is up
    registry,   \* addresses of the nodes the master knows, in dict order
    dispatcher, \* the background thread: "waiting", "sending", "done", "gave_up"
    round,      \* rounds of waiting begun
    polls,      \* polls of this round
    rank,       \* the rank of the next worker to be told
    worker,     \* "off", "registering", "registered", "serving"
    attempts,   \* registration attempts of this incarnation
    restarts,
    script,     \* the parameters in the worker's start_command.sh, or NoScript
    asked,      \* a client has used /api/start_engine (history)
    inflight    \* start requests its call has the master send

vars == <<api, registry, dispatcher, round, polls, rank,
          worker, attempts, restarts, script, asked, inflight>>
dispatching == <<dispatcher, round, polls, rank>>
clients == <<asked, inflight>>

NoScript == [nnodes |-> 0, rank |-> 0]
Total == Len(Workers) + 1

Init ==
    /\ api = FALSE /\ registry = <<>>
    /\ dispatcher = "waiting" /\ round = 1 /\ polls = 0 /\ rank = 1
    /\ worker = [w \in Addresses |-> "off"] /\ attempts = [w \in Addresses |-> 0]
    /\ restarts = 0
    /\ script = [w \in Addresses |-> NoScript]
    /\ asked = FALSE /\ inflight = {}

-----------------------------------------------------------------------------
\* The uvicorn thread of the master is ready; the dispatcher polls regardless.
ApiUp ==
    /\ ~api /\ api' = TRUE
    /\ UNCHANGED <<registry, dispatching, worker, attempts, restarts, script, clients>>

\* _distribute_requests waits for its requests inside an async handler: until they
\* are answered the master serves nobody else.
Responsive == api /\ inflight = {}

\* start_worker: registration comes first, the API of the worker starts after it.
Boot(w) ==
    /\ worker[w] = "off"
    /\ worker' = [worker EXCEPT ![w] = "registering"]
    /\ UNCHANGED <<api, registry, dispatching, attempts, restarts, script, clients>>

RegisterEachAttempt(w) ==
    /\ worker[w] = "registering" /\ Responsive
    /\ Len(registry) <= Len(Workers) + MaxRestarts
    /\ registry' = Append(registry, w)
    /\ worker' \in {worker, [worker EXCEPT ![w] = "registered"]}
    /\ UNCHANGED <<api, dispatching, attempts, restarts, script, clients>>

Register(w) ==
    /\ worker[w] = "registering" /\ Responsive
    /\ registry' = Append(registry, w)
    /\ worker' = [worker EXCEPT ![w] = "registered"]
    /\ UNCHANGED <<api, dispatching, attempts, restarts, script, clients>>

\* The master's API does not answer; after the last attempt the worker goes on
\* unregistered.  (Answers that are lost are in NodeRegistry.)
AttemptFails(w) ==
    /\ worker[w] = "registering" /\ ~Responsive
    /\ attempts' = [attempts EXCEPT ![w] = @ + 1]
    /\ worker' = [worker EXCEPT ![w] = IF attempts'[w] < MaxAttempts THEN @ ELSE "registered"]
    /\ UNCHANGED <<api, registry, dispatching, restarts, script, clients>>

Serve(w) ==
    /\ worker[w] = "registered"
    /\ worker' = [worker EXCEPT ![w] = "serving"]
    /\ UNCHANGED <<api, registry, dispatching, attempts, restarts, script, clients>>

Restart(w) ==
    /\ worker[w] # "off" /\ restarts < MaxRestarts
    /\ restarts' = restarts + 1
    /\ worker' = [worker EXCEPT ![w] = "off"]
    /\ attempts' = [attempts EXCEPT ![w] = 0]
    /\ UNCHANGED <<api, registry, dispatching, script, clients>>

-----------------------------------------------------------------------------
AnyRegistered == Responsive /\ registry # <<>>
AllRegistered == Responsive /\ Addresses \subseteq ToSet(registry)

PollForever ==
    /\ dispatcher = "waiting"
    /\ IF AllRegistered
       THEN dispatcher' = "sending" /\ UNCHANGED <<round, polls>>
       ELSE polls' = (polls + 1) % MaxPolls /\ UNCHANGED <<dispatcher, round>>
    /\ UNCHANGED <<api, registry, rank, worker, attempts, restarts, script, clients>>

\* _wait_and_distribute_to_workers, waiting: poll /api/nodes until every worker is
\* there; a round that ends without that is repeated once.
Poll ==
    /\ dispatcher = "waiting"
    /\ IF AllRegistered
       THEN dispatcher' = "sending" /\ UNCHANGED <<round, polls>>
       ELSE IF polls + 1 < MaxPolls
       THEN polls' = polls + 1 /\ UNCHANGED <<dispatcher, round>>
       ELSE IF round = 1
       THEN round' = 2 /\ polls' = 0 /\ UNCHANGED dispatcher
       ELSE dispatcher' = "gave_up" /\ polls' = MaxPolls /\ UNCHANGED round
    /\ UNCHANGED <<api, registry, rank, worker, attempts, restarts, script, clients>>

\* /api/start_engine of worker w: the script is written unless it cannot be built.
\* The answer has status 200 in both cases.  A worker that does not serve yet
\* refuses the connection.
Receive(w, params, fate) ==
    script' = [script EXCEPT ![w] =
        IF worker[w] = "serving" /\ fate \in {"delivered", "unanswered"} THEN params ELSE @]

SendFromZero ==
    /\ dispatcher = "sending"
    /\ \E fate \in Losses :
           Receive(Workers[rank], [nnodes |-> Total, rank |-> rank - 1], fate)
    /\ rank' = rank + 1
    /\ dispatcher' = IF rank < Len(Workers) THEN "sending" ELSE "done"
    /\ UNCHANGED <<api, registry, round, polls, worker, attempts, restarts, clients>>

\* The same thread, sending: each worker is told once, in the order of its rank,
\* and a failure is logged and passed over.
Send ==
    /\ dispatcher = "sending"
    /\ \E fate \in Losses :
           Receive(Workers[rank], [nnodes |-> Total, rank |-> rank], fate)
    /\ rank' = rank + 1
    /\ dispatcher' = IF rank < Len(Workers) THEN "sending" ELSE "done"
    /\ UNCHANGED <<api, registry, round, polls, worker, attempts, restarts, clients>>

-----------------------------------------------------------------------------
\* _handle_distributed_mode without an explicit node list: every registered node is
\* told, concurrently, with its place in the registry as its rank.
ClientStart ==
    /\ ClientStarts /\ Responsive /\ registry # <<>>
    /\ asked' = TRUE
    /\ inflight' = {[to |-> registry[i], id |-> i, nnodes |-> Len(registry), rank |-> i - 1] :
                        i \in DOMAIN registry}
    /\ UNCHANGED <<api, registry, dispatching, worker, attempts, restarts, script>>

Arrive ==
    /\ \E m \in inflight, fate \in Losses :
           /\ Receive(m.to, [nnodes |-> m.nnodes, rank |-> m.rank], fate)
           /\ inflight' = inflight \ {m}
    /\ UNCHANGED <<api, registry, dispatching, worker, attempts, restarts, asked>>

Steps(w) == Boot(w) \/ Register(w) \/ AttemptFails(w) \/ Serve(w)

Over == /\ dispatcher \in {"done", "gave_up"} /\ inflight = {}
        /\ \A w \in Addresses : worker[w] = "serving"
        /\ UNCHANGED vars

Next ==
    \/ ApiUp \/ Poll \/ Send \/ ClientStart \/ Arrive \/ Over
    \/ \E w \in Addresses : Steps(w) \/ Restart(w)

\* Every thread goes on, the API comes up and every pod boots.
Spec == Init /\ [][Next]_vars
FairSpec == Spec /\ WF_vars(ApiUp) /\ WF_vars(Poll \/ Send) /\ WF_vars(Arrive)
                 /\ \A w \in Addresses : WF_vars(Steps(w))

-----------------------------------------------------------------------------
Scripts == [nnodes : 0..Len(registry) \cup {Total}, rank : 0..Len(registry) \cup 0..Total]

\* Each variable has its type.
TypeOK ==
    /\ api \in BOOLEAN /\ registry \in Seq(Addresses)
    /\ dispatcher \in {"waiting", "sending", "done", "gave_up"}
    /\ round \in 1..2 /\ polls \in 0..MaxPolls /\ rank \in 1..Total
    /\ (dispatcher = "sending") => rank \in DOMAIN Workers
    /\ worker \in [Addresses -> {"off", "registering", "registered", "serving"}]
    /\ attempts \in [Addresses -> 0..MaxAttempts] /\ restarts \in 0..MaxRestarts
    /\ script \in [Addresses -> Scripts] /\ asked \in BOOLEAN
    /\ \A m \in inflight :
          m.to \in Addresses /\ [nnodes |-> m.nnodes, rank |-> m.rank] \in Scripts

Told(w) == script[w] # NoScript

\* Without a client's call, the nodes that have a script form one cluster: they agree
\* on its size, no two of them have the same rank, and none has rank 0, which the
\* master has given to its own engine (wings_control.py lines 536-547 against
\* 584-593), whatever was lost, refused or restarted on the way.
RanksAgree ==
    ~asked => \A w, v \in Addresses : Told(w) /\ Told(v) =>
        /\ script[w].nnodes = Total
        /\ script[w].rank \in 1..Len(Workers)
        /\ script[w].rank = script[v].rank => w = v

\* The dispatcher tells no worker to start before every worker has registered.
RollCallFirst == ~asked /\ (\E w \in Addresses : Told(w)) => Addresses \subseteq ToSet(registry)

\* The dispatcher comes to an end: told everyone or gave up.
DispatcherEnds == <>(dispatcher \in {"done", "gave_up"})

\* When nothing is lost and no node restarts, a dispatcher that is done has told
\* every worker: it waited until all of them were ready (wings_control.py line 441).
AllTold == dispatcher = "done" => \A w \in Addresses : Told(w)

\* A worker that serves has registered: retrying makes sure of it (worker.py
\* docstring of register_with_master).
ServingIsRegistered ==
    \A w \in Addresses : worker[w] = "serving" => \E i \in DOMAIN registry : registry[i] = w

\* The dispatcher waits max_retries + 1 = 3 rounds before it gives up (comment at
\* wings_control.py line 464).
ThreeRounds == dispatcher = "gave_up" => round = 3

\* As long as no worker has restarted, a client's call tells every node once, so
\* that it has one rank, and nnodes is the number of nodes told.
OneRankEach ==
    [][inflight = {} /\ restarts = 0 => \A m \in inflight' :
          /\ m.nnodes = Cardinality({x.to : x \in inflight'})
          /\ \A x \in inflight' : x.to = m.to => x = m]_vars

\* nnodes is the number of nodes (master.py line 184).
NnodesIsTotal ==
    [][inflight = {} => \A m \in inflight' :
          m.nnodes = Cardinality({x.to : x \in inflight'})]_vars
=============================================================================
