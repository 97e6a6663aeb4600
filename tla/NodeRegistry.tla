---------------------------- MODULE NodeRegistry ----------------------------
(***************************************************************************)
(* The master's view of its workers: wings_control/distributed/monitor.py  *)
(* (MonitorService), the endpoints of master.py that use it, the scheduler *)
(* (scheduler.py) and the registration and heartbeat loop of a worker      *)
(* (worker.py).                                                            *)
(*                                                                         *)
(* A node id stands for one incarnation of a worker: WorkerConfig draws a  *)
(* new uuid when the process starts.  Time is in units of 15 s, the        *)
(* greatest common divisor of the periods in the code; it stands still     *)
(* while a check or a heartbeat is due.  A call takes up to CallTime, and  *)
(* the master hears it, if at all, when it begins.                         *)
(***************************************************************************)
EXTENDS Integers, Sequences, FiniteSets

CONSTANTS
    Ids,            \* node ids
    CheckInterval,  \* MonitorService.check_interval, and 1.5 of it
    SilenceLimit,
    MaxMissed,      \* max_missed_heartbeats
    BeatInterval,   \* WorkerConfig.heartbeat_interval
    BackoffMax,     \* max_backoff of send_heartbeat
    CallTime,       \* a heartbeat or a registration at the longest, rounded up
    AttemptTime,    \* and the same with the pause of register_with_master after it
    MaxAttempts,    \* max_retries of register_with_master
    MaxRetries,     \* TaskScheduler.max_retries
    Tasks,          \* what clients ask of the master: subset of TaskKinds
    Outage,         \* bound: heartbeats of a node that fail in a row
    MayRestart,     \* the master process may restart (once)
    SilenceBound    \* bound: where this model stops measuring a silence

TaskKinds == {"inference", "start_engine"}

ASSUME RegistryAssumption ==
    /\ IsFiniteSet(Ids)
    /\ {CheckInterval, SilenceLimit, MaxMissed, BeatInterval, BackoffMax, MaxAttempts,
         MaxRetries}
         \subseteq Nat \ {0}
    /\ {Outage, CallTime} \subseteq Nat /\ AttemptTime \in Nat \ {0} /\ SilenceBound \in Nat /\ MayRestart \in BOOLEAN
    /\ Tasks \subseteq TaskKinds /\ BeatInterval <= BackoffMax
    /\ SilenceBound > SilenceLimit + MaxMissed * CheckInterval

\* A fact of arithmetic, for the backoff.
ASSUME PowersAreNumbers == \A k \in 0..Outage : 2 ^ k \in Nat

VARIABLES
    nodes,      \* MonitorService.nodes, in the order of insertion
    missed,     \* missed_heartbeats of each node
    silence,    \* time since last_heartbeat
    check,      \* time until the next round of _check_nodes
    restarted,  \* the master has restarted
    worker,     \* "new", "registering", "running" or "dead"
    due,        \* time until the node's next registration attempt or heartbeat
    failures,   \* failed attempts, then consecutive_failures of send_heartbeat
    task, tries \* the client's request and its attempts

master == <<nodes, missed, silence, check, restarted>>
workers == <<worker, due, failures>>
tasks == <<task, tries>>
vars == <<master, workers, tasks>>

Known(n) == \E i \in DOMAIN nodes : nodes[i] = n
AtMost(x, bound) == IF x < bound THEN x ELSE bound

Init ==
    /\ nodes = <<>> /\ check = 0 /\ restarted = FALSE
    /\ missed = [n \in Ids |-> 0] /\ silence = [n \in Ids |-> 0]
    /\ worker = [n \in Ids |-> "new"]
    /\ due = [n \in Ids |-> 0] /\ failures = [n \in Ids |-> 0]
    /\ task = "none" /\ tries = 0

-----------------------------------------------------------------------------
Up(n) == worker[n] \in {"registering", "running"}
Due(n) == Up(n) /\ due[n] = 0

\* Time passes for everyone.
Tick ==
    /\ check > 0 /\ \A n \in Ids : ~Due(n)
    /\ check' = check - 1
    /\ silence' = [n \in Ids |-> IF Known(n) THEN AtMost(silence[n] + 1, SilenceBound) ELSE 0]
    /\ due' = [n \in Ids |-> IF Up(n) THEN due[n] - 1 ELSE due[n]]
    /\ UNCHANGED <<nodes, missed, restarted, worker, failures, tasks>>

-----------------------------------------------------------------------------
\* update_heartbeat of a node the master knows; an unknown one is only logged, and
\* receive_heartbeat answers success all the same.
HeardButStillMissed(n) ==
    IF Known(n) THEN /\ silence' = [silence EXCEPT ![n] = 0]
                     /\ UNCHANGED missed
                ELSE UNCHANGED <<silence, missed>>
Heard(n) ==
    IF Known(n) THEN /\ silence' = [silence EXCEPT ![n] = 0]
                     /\ missed' = [missed EXCEPT ![n] = 0]
                ELSE UNCHANGED <<silence, missed>>

Starts(n) ==
    /\ worker[n] = "new"
    /\ worker' = [worker EXCEPT ![n] = "registering"]
    /\ UNCHANGED <<master, due, failures, tasks>>

\* The worker waits for the given time after a call that has taken some.
Waits(n, time) == \E t \in 0..CallTime : due' = [due EXCEPT ![n] = time + t]

\* register_with_master: the next attempt comes after a pause, and after the last one the
\* worker carries on as if it had been registered.
AttemptFails(n) ==
    /\ failures' = [failures EXCEPT ![n] = IF @ + 1 < MaxAttempts THEN @ + 1 ELSE 0]
    /\ IF failures[n] + 1 < MaxAttempts
       THEN \E t \in 1..AttemptTime : due' = [due EXCEPT ![n] = t]
       ELSE Waits(n, 0)
    /\ worker' = [worker EXCEPT ![n] = IF failures[n] + 1 < MaxAttempts THEN @ ELSE "running"]

Registered(n) ==
    /\ worker' = [worker EXCEPT ![n] = "running"]
    /\ failures' = [failures EXCEPT ![n] = 0]
    /\ Waits(n, 0)

\* register_node and update_heartbeat on the master: a node that is there already,
\* because an earlier answer was lost, is not inserted again.
Register(n) ==
    /\ worker[n] = "registering" /\ Due(n)
    /\ nodes' = IF Known(n) THEN nodes ELSE Append(nodes, n)
    /\ silence' = [silence EXCEPT ![n] = 0]
    /\ missed' = [missed EXCEPT ![n] = 0]
    /\ Registered(n) \/ AttemptFails(n)
    /\ UNCHANGED <<check, restarted, tasks>>

Unreachable(n) ==
    /\ worker[n] = "registering" /\ Due(n)
    /\ AttemptFails(n)
    /\ UNCHANGED <<master, tasks>>

\* send_heartbeat
Beat(n) ==
    /\ worker[n] = "running" /\ Due(n)
    /\ Heard(n)
    /\ failures' = [failures EXCEPT ![n] = 0]
    /\ Waits(n, BeatInterval)
    /\ UNCHANGED <<nodes, check, restarted, worker, tasks>>

Backoff(k) == AtMost(BeatInterval * 2 ^ k, BackoffMax)

BeatFails(n) ==
    /\ worker[n] = "running" /\ Due(n) /\ failures[n] < Outage
    /\ failures' = [failures EXCEPT ![n] = @ + 1]
    /\ Waits(n, Backoff(failures'[n]))
    /\ UNCHANGED <<master, worker, tasks>>

\* What the worker's threads knew ends with its process.
Dies(n) ==
    /\ worker[n] # "dead"
    /\ worker' = [worker EXCEPT ![n] = "dead"]
    /\ due' = [due EXCEPT ![n] = 0] /\ failures' = [failures EXCEPT ![n] = 0]
    /\ UNCHANGED <<master, tasks>>

-----------------------------------------------------------------------------
\* One round of _check_nodes, under the lock.
Overdue(n) == Known(n) /\ silence[n] > SilenceLimit
Missed(n) == IF Overdue(n) THEN missed[n] + 1 ELSE missed[n]
Expired(n) == Overdue(n) /\ Missed(n) >= MaxMissed

\* What is left of a dict when the entries of some nodes are deleted.
Without(dict, gone) ==
    LET kept == {i \in DOMAIN dict : dict[i] \notin gone}
        Place(i) == Cardinality({k \in kept : k <= i})
    IN  [j \in 1..Cardinality(kept) |-> dict[CHOOSE i \in kept : Place(i) = j]]

CheckRemovesOverdue ==
    /\ check = 0
    /\ nodes' = Without(nodes, {n \in Ids : Overdue(n)})
    /\ missed' = [n \in Ids |-> IF Overdue(n) THEN 0 ELSE Missed(n)]
    /\ check' = CheckInterval
    /\ UNCHANGED <<silence, restarted, workers, tasks>>

CheckForgivesExpired ==
    /\ check = 0
    /\ missed' = [n \in Ids |-> IF Expired(n) THEN 0 ELSE Missed(n)]
    /\ check' = CheckInterval
    /\ UNCHANGED <<nodes, silence, restarted, workers, tasks>>

Check ==
    /\ check = 0
    /\ nodes' = Without(nodes, {n \in Ids : Expired(n)})
    /\ missed' = [n \in Ids |-> IF Expired(n) THEN 0 ELSE Missed(n)]
    /\ silence' = [n \in Ids |-> IF Expired(n) THEN 0 ELSE silence[n]]
    /\ check' = CheckInterval
    /\ UNCHANGED <<restarted, workers, tasks>>

\* The master's container restarts: its registry is empty.
MasterRestarts ==
    /\ MayRestart /\ ~restarted
    /\ restarted' = TRUE
    /\ nodes' = <<>> /\ check' = 0
    /\ missed' = [n \in Ids |-> 0] /\ silence' = [n \in Ids |-> 0]
    /\ UNCHANGED <<workers, tasks>>

-----------------------------------------------------------------------------
\* _select_node, policy least_load.  Every worker reports workload 0.0, so min()
\* takes the first node of the dict; none of the nodes is ever not active.
Selected == nodes[1]

Ask ==
    /\ task = "none"
    /\ task' \in Tasks
    /\ UNCHANGED <<master, workers, tries>>

\* The routes of worker.py: a worker answers 404 to anything else.
Answers(n) == worker[n] = "running" /\ task = "start_engine"

\* TaskScheduler.schedule (up to max_retries attempts) for an inference request and
\* _handle_single_mode (one) for an engine start.
Dispatch ==
    /\ task \in TaskKinds
    /\ IF nodes = <<>> THEN task' = "failed" /\ UNCHANGED tries
       ELSE IF Answers(Selected) THEN task' = "served" /\ UNCHANGED tries
       ELSE /\ tries' = tries + 1
            /\ task' = IF task = "inference" /\ tries' < MaxRetries THEN task ELSE "failed"
    /\ UNCHANGED <<master, workers>>

Next ==
    \/ Tick \/ Check \/ MasterRestarts \/ Ask \/ Dispatch
    \/ \E n \in Ids : Starts(n) \/ Register(n) \/ Unreachable(n)
                      \/ Beat(n) \/ BeatFails(n) \/ Dies(n)

\* Clocks run, the monitor thread checks and the workers' threads go on.
Spec == Init /\ [][Next]_vars
FairSpec ==
    /\ Spec /\ WF_vars(Tick) /\ WF_vars(Check)
    /\ \A n \in Ids : WF_vars(Register(n) \/ Unreachable(n) \/ Beat(n) \/ BeatFails(n))

-----------------------------------------------------------------------------
\* Each variable has its type; a node is in the registry once.
TypeOK ==
    /\ nodes \in Seq(Ids) /\ \A i, j \in DOMAIN nodes : nodes[i] = nodes[j] => i = j
    /\ missed \in [Ids -> 0..MaxMissed] /\ silence \in [Ids -> 0..SilenceBound]
    /\ check \in 0..CheckInterval /\ restarted \in BOOLEAN
    /\ worker \in [Ids -> {"new", "registering", "running", "dead"}]
    /\ due \in [Ids -> 0..(BackoffMax + CallTime + AttemptTime)] /\ failures \in [Ids -> Nat]
    /\ task \in TaskKinds \cup {"none", "served", "failed"} /\ tries \in 0..MaxRetries

\* The master goes on and forgets the node.
Removed(n) == Known(n) /\ restarted' = restarted /\ n \notin {nodes'[i] : i \in DOMAIN nodes'}

\* A node is removed only after a long silence, however its heartbeats and the
\* checks interleave: MaxMissed checks in a row that each found it silent for more
\* than SilenceLimit (monitor.py lines 118-138).
NeverRemovedEarly ==
    [][\A n \in Ids : Removed(n) =>
          silence[n] > SilenceLimit + (MaxMissed - 1) * CheckInterval]_vars

\* boot[k] is as long as k attempts to register that fail, and span[k] as a heartbeat, the
\* interval after it and the first k failures in a row with their backoffs; an outage of
\* Outage heartbeats, after a registration whose answers were all lost, is over before the
\* misses add up.
OutageIsShort(boot, span) ==
    /\ boot \in [0..(MaxAttempts - 1) -> Nat]
    /\ \A k \in 1..(MaxAttempts - 1) : boot[k] >= boot[k - 1] + AttemptTime
    /\ span \in [0..Outage -> Nat] /\ span[0] >= BeatInterval + CallTime
    /\ \A k \in 1..Outage : span[k] >= span[k - 1] + Backoff(k) + CallTime
    /\ \A k \in 0..(MaxAttempts - 1), j \in 0..Outage :
          boot[k] + span[j] <= SilenceLimit + (MaxMissed - 1) * CheckInterval

\* A worker that is up stays registered, through lost answers to its registration
\* and any outage of at most Outage heartbeats with the backoff that makes it take.
RunningIsKept ==
    [][\A n \in Ids : Removed(n) => ~Up(n)]_vars

\* A worker that died is eventually removed: the misses of a silent node add up.
DeadIsForgotten == \A n \in Ids : worker[n] = "dead" ~> ~Known(n)

\* A worker not heard from for 60 s is removed, give or take one check interval
\* (test/st.md line 557).
SilentIsRemoved == \A n \in Ids : Known(n) => silence[n] <= 4 + CheckInterval

\* GET /api/nodes lists every active node (master.py line 8 and the docstring): a
\* worker that runs and whose heartbeats the master answers is listed.
AnsweredIsListed ==
    \A n \in Ids : worker[n] = "running" /\ due[n] > 0 /\ failures[n] = 0 => Known(n)

\* An inference request fails only if no worker that runs is registered (master.py
\* line 10, the scheduler's retries).
InferenceIsDispatched ==
    [][task = "inference" /\ task' = "failed" =>
          ~ \E n \in Ids : Known(n) /\ worker[n] = "running"]_vars
=============================================================================
