# Formal models of the infer-control sidecar

This directory holds TLA+ models of `wings_control`, the control sidecar that runs beside an LLM
inference engine: it merges the configuration of the engine, starts and guards the proxy and the
health service, forwards requests to the engine, watches its health and, in a cluster, has one
node hand the start parameters to the others. The models are checked with TLC on small instances;
every safety property and every action property of the passing runs is also a theorem, proved for
every value of the constants and checked by TLAPS. Paths below are relative to `src/wings_control/`,
but for `k8s/`, `docs/` and `test/`.

    tlc -config QueueGate_gate.cfg MCQueueGate      # every run is named in PROJECT.json
    tlapm QueueGateProofs.tla

## 1. Inventory

| component | state it keeps | operations | talks to |
|---|---|---|---|
| Admission gate (`proxy/queueing.py`) | two semaphores, a bounded `asyncio.Queue` of waiters with futures | `acquire`, `release`, queue timeout | called by the gateway, one instance per proxy worker process |
| Gateway (`proxy/gateway.py`, `proxy/http_client.py`) | httpx pool, per-request retry counter and flush buffer | forward a stream or a one-piece answer, retry, relay | gate, backend engine, clients |
| Health monitor (`proxy/health_router.py`) | `h`: status, counters, scores, time stamps | probe and advance, map to a status code | probes the engine; read by `/health` |
| Health service (`proxy/health_service.py`) | an `h` of its own, lost with its process | the same loop in another process | engine, Kubernetes probes |
| Pod (`k8s/overlays/`, `wings_control.py`, `utils/file_utils.py`) | `start_command.sh` on the shared volume, two containers, the probes' counters | write the script, wait for it and run it, probe, restart a container, route | launcher, health service, engine |
| Launcher (`wings_control.py`) | `ManagedProc` of each child: handle, crash count, backoff deadline | start, poll, restart with backoff, stop on a signal | child processes, start script on the shared volume |
| Node registry (`distributed/monitor.py`, `master.py`, `scheduler.py`) | dict of nodes, misses, last heartbeat, in memory only | register, heartbeat, check, dispatch | workers, clients, the launcher of the master |
| Worker agent (`distributed/worker.py`) | node id, heartbeat failures | register with retries, heartbeat with backoff, write the start script | master |
| Distributed start (`wings_control.py`, master and worker role) | what has been told to whom | roll call, distribution of ranks, give up | registry, workers |
| RAG acceleration (`rag_acc/`) | a queue per chunk and one for the combining request, buffers | collect, combine, monitor, stream | backend, client |
| Quotas (`proxy/proxy_config.py`) | none: computed at import | split limits among worker processes | environment; read by the gate |
| Configuration merge (`core/`), engine adapters (`engines/`) | none: a plan is built once | merge arguments, environment and files; write the start command | launcher, worker agent |
| Utilities, logging (`utils/`, `proxy/tags.py`, `proxy/speaker_logging.py`) | log filters | helpers | everyone |

How they interact. A client's request enters the gateway, which acquires a ticket of the gate,
gives it back and then sends the request on over a pool of connections, relaying the answer chunk
by chunk; a request with document chunks goes through the RAG collectors instead. The health
monitor of the proxy and that of the health service probe the same engine and keep separate
verdicts. The launcher keeps both processes alive. In a cluster the launcher of the master also
runs the registry's API in a thread and a second thread that polls it; workers register, send
heartbeats from a thread of their own and write what they are told into a script that the engine's
container waits for.

Which behaviours are hard. Waiters of the gate time out while tickets are being handed to them;
dead waiters stay in the queue; `put()` on a full queue suspends. Answers are cut into chunks whose
sizes decide whether they are buffered. The health verdict depends on several counters that are
reset at different places. Crashes, failed starts and signals meet in one polling loop. In a
cluster messages and their answers get lost, processes restart and forget, timeouts of one side are
longer than those of the other, and an async handler blocks its own event loop. The list at their
lines is in `PROJECT.json`, "hazards".

What makes each component correct:

* gate: no ticket is lost or made; nobody waits beside a free ticket; an accepted waiter keeps its
  place; every request is answered.
* gateway: connections come back; a request the backend may have begun is sent again only if the backend
  refuses it; every chunk arrives once, in order;
  waiting and retrying end.
* health: no false alarm, every lasting failure detected, every recovery reported, verdict and
  state agree.
* pod: the engine container runs the script in the end; a starting engine is no reason for a restart;
  a lasting failure takes the traffic away and a lasting recovery brings it back.
* launcher: crash loops back off, a process that is down comes back, a signal ends everything.
* registry: only nodes long silent are removed, running ones stay, dead ones go.
* distributed start: the nodes that were told form one cluster; nobody is told too early; the
  dispatcher ends; a client's call tells each node once.
* RAG: order, completeness, `[DONE]` last and always.
* quotas: the shares of workers that know their index add up to the limits exactly, and a worker's gates
  have its share between them.
* configuration: the engine listens where the proxy sends; no feature is lost; the devices are used;
  the scripts of a cluster fit together.

## 2. Modules

| module | models | an action is |
|---|---|---|
| `Admission` | what the gate promises its callers (abstract) | an admission, a wait, a refusal, a departure |
| `QueueGate` | `QueueGate` in every policy and overflow mode | the code a task runs between two suspensions |
| `EarlyRelease` | `QueueGate` as `gateway.py` uses it, beside callers that hold their ticket | the same, and acquire and release in one turn of the event loop |
| `Relay` | retry loop and relaying of `gateway.py` over httpx's pool | one attempt or one turn of the relaying loop |
| `HealthMonitor` | probe loop, state machine and `/health` | a whole `tick_observe_and_advance`; time passing |
| `Pod` | launcher, engine container and kubelet of one pod, around `HealthMonitor` as its health service | a step of the launcher, a probe, an end of a container; time passing |
| `Supervisor` | the launcher's guard loop | the turn of one process in the loop |
| `NodeRegistry` | registry, scheduler, registration and heartbeats | one request and its handling; one round of the checks |
| `ClusterStart` | boot of a cluster and start calls of clients | one poll, one start request, one registration |
| `RagStream` | `StreamCollector.collect_and_stream` | the code a task runs between two suspensions |
| `Quota` | `proxy_config.py` limits per worker process, capacities of its gates | (operators only; computed once at import) |
| `LaunchPlan` | arguments, environment, hardware and files to the start script of every pod (`core/`, `engines/`) | a whole `build_launcher_plan` in one pod, with the script written |

`MC*` modules give the constants values; the `*Proofs` modules hold the theorems. `EarlyRelease`
EXTENDS `QueueGate`, `QueueGate` instantiates `Admission`, and `MCQueueGate` takes the capacities of
its gates from `Quota`; `Pod` EXTENDS `HealthMonitor`. `NodeRegistry` and `ClusterStart` look
at the same endpoints with different questions: the first at time and the life of one worker, the
second at addresses and ranks.

Correspondence worth knowing:

* **QueueGate.** `pc` is where a task is in `acquire()`, together with the state of its future;
  `queue` is `asyncio.Queue`, in which waiters that timed out stay until they are popped; `putters`
  are the tasks suspended in `put()`. `conf` is the settings, chosen at the start and never
  changed, so that one run covers all of them. asyncio's queue and semaphores are modelled from
  their documented behaviour (`Pop`, `Advance`, `WokenBy` are external). Cancellation of a request
  task inside `acquire()` is left out.
* **EarlyRelease.** `gateway.py` awaits nothing between `acquire()` and `release()`, so no other
  task runs in between (`LoopIsFree`). It follows that the queue is never used there. The variable
  `use` says which caller is meant: "early" is the gateway, "held" a caller that keeps its ticket
  while it works, for which the class is written; what is shown about the queue concerns the latter.
* **Relay.** A chunk is its number and its kind, the kind being what the flush rules look at.
  `FIRST_FLUSH_MS` has its default 0, so that rule is off; `STREAM_FLUSH_MS` may be over at any turn.
  `accepted` counts how often the backend began to work on a request. An answer 502, 503 or 504 does not
  say whether it had (`MayHaveBegun`), and the code sends the request again after any of them, so work
  may be done twice: `RepeatedWhenRefused` says on account of what, and how often at most, and not that
  it is done once. Only HTTP/1.1 is negotiated with a plain-http backend, so a connection serves one
  request. The read timeout is `None`: no fairness is assumed of the backend. A client that vanishes
  while the task is suspended in a send (gateway.py lines 707-709) is not modelled.
* **HealthMonitor.** Times are in units of `HEALTH_TIMEOUT_MS`, scores in quarters; ages saturate
  where the code no longer tells them apart. `engine` is what a probe would find; it may change at
  any moment.
* **Pod.** One unit of time is `HEALTH_TIMEOUT_MS`, 5 s, as in `HealthMonitor`, whose variables are
  the health service here: `ForgetHealth` is the end of its process. `script` is what a reader of
  `start_command.sh` finds: "none", "empty" between `open()` and `close()` and after a failed write,
  "whole". The launcher writes it once and then starts its children; `RestartControl` is the kubelet
  starting the control container anew, which keeps the volume and the engine. The kubelet is
  external, modelled by the fields of the manifests that configure it (`failureThreshold` and so on);
  a manifest is a member of `Deployments`. That the engine container is Ready follows from its
  running, so `routed` speaks of the control container alone.
* **Supervisor.** One unit of time is one round of the loop. `ran`, `streak` and `down` are history
  variables that say what really happened, independent of the code's own counters.
* **NodeRegistry.** One unit is 15 s, the greatest common divisor of the periods of the code. An
  id is one incarnation of a worker, as in the code (`uuid` at start). The dict of nodes is the
  sequence of its keys; `Without` is what `del` leaves of it. A call takes any time up to
  `CallTime`, 2 units: `timeout=10` bounds connecting and reading each, so a call may last 20 s (the
  resolution of the master's name is not bounded by it and not counted). The wait that follows starts
  when the call is over; `AttemptTime`, 2 units as well, is such a call and the 5 s between attempts
  to register.
* **ClusterStart.** Polls and attempts are counted instead of timed. `asked` records that a client
  has used `/api/start_engine`; the explicit node list such a call may carry is not modelled.
* **RagStream.** A result is its number; parsing and pauses are left out. `only_combine`, which no
  caller sets, is left out.
* **LaunchPlan.** `setting` is everything a deployment's launchers are told, `plan[n]` what the
  script of pod `n` says. An engine's configuration is a function from names to values, and each
  step of `_merge_vllm_params` and its kin is one `AddIf` or `Without` over it, in the code's order;
  `dict.update` is `++`, an operator of the module, because the prover cannot expand `@@` and `:>`
  of TLC. The pods have the same hardware and environment; `NNODES` and
  `--node-rank` are unset where `MASTER_IP` is. Left out: the check of the video memory (it only
  logs), the permissions of files, the size of CUDA graphs, exported environment variables, the rank
  table, and the schedule parameters of mindie.

## 3. Runs

Nine runs pass.

| run | module, cfg | instance | shows |
|---|---|---|---|
| `queue_gate` | `MCQueueGate`, `QueueGate_gate` | 5 requests, the two tickets of one of two workers, five settings, two uses | `TicketConservation`, `QueueConsistent`, `NoIdleTicket`, `KeepsItsPlace`, `Answered`, `ImplementsAdmission`, `NeverWaits` |
| `health_monitor` | `MCHealthMonitor`, `HealthMonitor_monitor` | sglang and other engines, budgets scaled down | `DegradedIs503`, `NoFalseAlarm`, `Detects`, `Recovers` |
| `pod_probes` | `MCPod`, `Pod_probes` | a pod with both probes, one without liveness, one crash of the service, failing writes | `EngineRuns`, `StartupIsTolerated`, `EvictedByRestart`, `PodDetects`, `PodRecovers` |
| `supervisor_guard` | `MCSupervisor`, `Supervisor_guard` | proxy and health service, backoff up to 4 rounds | `CrashLoopBacksOff`, `Restarted`, `ShutsDown` |
| `registry_workers` | `MCNodeRegistry`, `NodeRegistry_workers` | one worker with the real periods, outages of 4 heartbeats, calls of up to two units, one master restart | `NeverRemovedEarly`, `RunningIsKept`, `DeadIsForgotten` |
| `cluster_start` | `MCClusterStart`, `ClusterStart_cluster` | a master and two workers, one restart, every fate of a request | `RanksAgree`, `RollCallFirst`, `DispatcherEnds`, `OneRankEach` |
| `relay_answers` | `MCRelay`, `Relay_answers` | two requests, one connection, two tries, up to 3 chunks | `ConnectionsReturned`, `RepeatedWhenRefused`, `NothingLost`, `InOrder`, `WaitsAreBounded` |
| `rag_answers` | `MCRagStream`, `RagStream_answers` | three chunks, up to 2 results each | `InOrder`, `DoneIsLast`, `CombinesEverything`, `DoneIsSent` |
| `launch_plan` | `MCLaunchPlan`, `LaunchPlan_merge` | 18816 deployments of one to three pods | `ListensWhereProxySends`, `OneCluster`, `FeaturesHonoured`, `DevicesMatch` |

The `TypeOK` of each module holds in these instances too; it is part of no run, and a theorem for
`QueueGate` and `HealthMonitor`. The other proofs carry the types they need in their invariants.

Three runs show the code doing something else than its documentation says:

| run | property violated | what happens |
|---|---|---|
| `relay_reorder` | `AlwaysInOrder` | a chunk between `FAST_PATH_BYTES` and `FIRST_FLUSH_BYTES` is buffered, the small chunk after it takes the fast path past it |
| `pod_ready` | `ReadyBy200` | an engine that is still starting is answered 201 (health_router.py 439), which is a success to the kubelet: the pod is Ready before there is an engine, although docs/deploy/deploy-vllm-ascend-dist-ray.md line 347 has it wait for 200 |
| `rag_combine_fails` | `DoneIsSent` | the combining request cannot be sent, no end mark is ever put, and the client waits for ever |

**Bounds and why they are enough.**

* `queue_gate`: two layers of one ticket leave three requests to wait, time out, be dropped and be
  suspended in `put()` together, with a queue of two and of one; a sixth request would only repeat
  one of these. The settings are one of every kind the code's tests tell apart. The capacities are
  those `Quota` gives the second of two workers for a limit of 4.
* `health_monitor`: the thresholds are scaled down but stay different from one another, so that
  every order in which the budgets can run out occurs. `ScoreBound` is above twice `FailBudget`,
  where one more failure changes no verdict.
* `pod_probes`: the manifests' numbers scaled down: the liveness probe has three times the period of
  the readiness probe, as deployed, and gives up after 3 failures, which take less time than the 14
  of the readiness probe; a crash of the service is over (`DownMax`) before either counts enough.
  `ManifestsKeepTheirOrder` in `MCPod` says that these numbers satisfy the hypotheses of the theorems.
  One crash is enough to have one at any moment; the theorems allow as many as the probes tolerate.
* `supervisor_guard`: `CountBound` is where the backoff has reached `MaxBackoff`; two processes
  interact only through the order of the loop.
* `registry_workers`: the numbers of the code themselves, because `RunningIsKept` is a statement about
  them. Thirty attempts to register whose answers are all lost take at most 29 * 2 = 58 units, a
  heartbeat and four that fail after it 60 with their backoff and with calls that time out, and 118
  units are less than the 3 + 59 * 2 = 121 that a removal takes (`ShortOutage`). The margin is that
  thin: all of it is rounded up to 15 s, and with a fifth heartbeat, 22 units more, nothing is shown.
  `SilenceBound` is beyond the time it takes to be removed. One node is enough, as nodes do not interact
  there.
* `cluster_start`: two workers are the least with two ranks to confuse; two polls per round and two
  attempts reach every branch of the loops.
* `relay_answers`: three chunks allow a first flush, something buffered after it, and a small chunk
  next; two tries, one refusal after which the work is begun a second time. One connection for two
  requests makes one of them wait.
* `rag_answers`: three chunks can end in six orders, before or after the client takes them.
* `launch_plan`: every engine, or none, on each of three kinds of hardware, with each of four models
  that the code treats differently, alone, without a known master and in one to three pods with
  either backend (`Deployments`); each of these with every combination of the switches that change
  the engine (`Envs`), and with each of a dozen oddities one at a time (`Oddities`). Three pods are
  the least with two workers. The shipped defaults are cut down to one section of each shape that
  `_get_model_specific_config` tells apart.

**Fairness.** Everywhere it is that of the code's own scheduling, and no more:

* asyncio runs every ready task and every timer fires: `Progress` in `QueueGate`, the tasks of
  `RagStream` (its requests have a timeout, so that a source ends), `Sends` in `Relay` (connecting,
  the wait for a connection and the pauses all have an end). The backend is not assumed to answer.
* threads run and clocks tick: the monitor and worker threads in `NodeRegistry`, the dispatcher,
  the API thread and the pods in `ClusterStart`, the loop of `Supervisor`, whose waits all have
  timeouts, and the probe loop of `HealthMonitor`.
* Strong fairness is used for what is tried again and again and cannot fail for ever: a start in
  `Supervisor` (an error of `Popen` is transient), and in `Pod` the write of the script (a full
  volume) and the engine container's look at it, which finds it empty only in the moment of the
  write. The rest of the pod (`Boots`, `ServiceTicks`, `Probe`, `PodTimePasses`) is weakly fair: the
  launcher, the service's loop and the kubelet go on.

The assumption in a property's own left side (`Detects`, `Recovers`) is the engine's behaviour, not
fairness.

`CHECK_DEADLOCK FALSE` is set where `put()` may hang for good (`queue_gate`, block mode), which is
one of the disagreements below, and in `launch_plan`, where a pod whose script is written, or whose
planning ended with an error, has nothing left to do.

### Further disagreements

These cfgs are not among the runs; each of them can be run by hand and ends with the counterexample
named. They concern a doc, a comment or a docstring that the code does not keep.

| cfg (module) | property | the code |
|---|---|---|
| `QueueGate_inflight` (`MCQueueGate`) | `InFlightBounded` | the ticket is given back before the request is sent on (gateway.py 529), so the gate is not the "最大并发请求数" of queueing.py 115, nor the "全局并发限制" of docs/code-cleanup-log.md 144 |
| `QueueGate_default_drops` | `DropsOnlyInDropMode` | the oldest waiter is dropped in every overflow mode, as the reject policy is tested first (queueing.py 305; docstring 109-112) |
| `QueueGate_full_empty` | `FullMeansFull` | a newcomer is refused as "queue full" after the loop has emptied the queue of dead waiters (queueing.py 317) |
| `QueueGate_block_hangs` | `AlwaysAnswered` | a task suspended in `put()` is not under the queue timeout and may never be woken (queueing.py 335; test/st.md 959) |
| `QueueGate_block_idle` | `NobodyWaitsIdly` | a task suspended in `put()` waits on beside free tickets (queueing.py 335; docstring 106) |
| `HealthMonitor_sglang_degraded` | `VerdictsAgree` | for sglang the answer comes from the scores and not from the state (health_router.py 461; docs/architecture.md 127) |
| `HealthMonitor_sglang_blip` | `NoSingleBlip` | after an outage one good probe only halves the score: the next single failure is answered 503 (health_router.py 454; comment at 27) |
| `Supervisor_first_run` | `StableRunForgiven` | the first start records no time, so a first run of any length counts as a crash (wings_control.py 223; docstring 203) |
| `NodeRegistry_amnesia` | `AnsweredIsListed` | a restarted master answers success to heartbeats of nodes it does not know; they never register again and are not among "所有活跃节点" (master.py 285 and 8) |
| `NodeRegistry_silent` | `SilentIsRemoved` | a silent worker is removed after about half an hour, not 60 s (monitor.py 130; test/st.md 557) |
| `NodeRegistry_inference` | `InferenceIsDispatched` | inference is forwarded to a route that workers do not have (master.py 276 and 10) |
| `ClusterStart_ready` | `AllTold` | a worker registers before it listens, and its refusal is not tried again (wings_control.py 561; docstring 441) |
| `ClusterStart_unregistered` | `ServingIsRegistered` | after its last attempt a worker serves unregistered (worker.py 238; docstring 213) |
| `ClusterStart_rounds` | `ThreeRounds` | the dispatcher gives up after two rounds, not three (wings_control.py 495; comment 464) |
| `ClusterStart_nnodes` | `NnodesIsTotal` | a worker that restarted counts twice (master.py 189; comment 184) |
| `Relay_ordinary` | `OrdinaryNotRetried` | ordinary requests are retried on 502, 503 and 504 too (gateway.py 472; comment 138) |
| `LaunchPlan_merge` with the invariant named here in place of its own | `LongContextIsSplit` | the log line of the long-context split names `_LONG_CTX_THRESHOLD`, which is defined nowhere: the planning ends with a NameError (config_loader.py 729; docstring 676) |
| | `FallsBackToStandalone` | without `MASTER_IP` the launcher runs alone, but plans tensor parallelism over all of `NODE_IPS` (config_loader.py 840; wings_control.py 353) |
| | `BackendIsChosen` | the backend the merge chooses is overwritten by the argument, which defaults to ray (wings_entry.py 172; docstring config_loader.py 1327-1328) |
| | `CardsAreNotOptions` | without a matching H20 card the names of the cards become options of sglang (config_loader.py 1465; comment 1464) |
| | `WorkersStayPrivate` | a mindie worker's address is that of the arguments, 0.0.0.0 by default (mindie_adapter.py 444; comment 441) |
| | `WorldSizeIsTp` | where the shipped defaults fix `tp` 4 and `dp` 4 of mindie (ascend_default.json 42-43, 51-52, 74-75, 86-87, 139-140, 151-152), `worldSize` is the number of devices all the same: 16 ranks beside a `worldSize` of 8 (mindie_adapter.py 489-506; comment config_loader.py 734) |
| | `UnnamedIsSelected` | the argument defaults to vllm, so that the automatic choice is never made (start_args_compat.py; docstring config_loader.py 1021) |

What the models show in passing and no cfg is about:

* A gate share of nothing: with a limit below the number of workers every worker still has its one
  ticket of Gate-0, so the limit of the pod is exceeded (proxy_config.py 138; the comment at 124 has
  it kept). `GatesHaveTheShare` states exactly that.
* The shares add up (`SharesAddUp`) only if each worker is told its index. Nothing under `src/` sets
  `WORKER_INDEX`, and uvicorn does not: unless a deployment sets it itself, every worker has index -1
  and takes the rounded share, so that up to `PROXY_WORKERS` - 1 tickets of the limit go unused
  (proxy_config.py 91; the docstring at 99 has the shares add up).
* The docstring at gateway.py 513-519 reckons with a full queue when many requests arrive at once;
  `NeverWaits` shows that the queue is not used at any rate of arrival.
* A restart by the liveness probe concerns the control container only, never the engine it judged;
  after it, with the engine still down, the fresh health service answers 201 for `STARTUP_GRACE_MS`
  (an hour), and the pod is Ready again for that time. `PodDetects` therefore speaks of traffic that
  is taken away again and again.
* With the deployed thresholds the readiness probe never gives up first: 36 failures at 10 s are
  more than 5 at 30 s (`EvictedByRestart`; `RestartComesFirst` says of which thresholds it holds).
* A Dify request with a matching context reads `doc_chunks` before it is assigned
  (rag_acc/extract_dify_info.py, in the part that is not modelled).

## 4. Proofs

Assumptions are those the modules declare on their constants, which TLC evaluates on every run:

* `GateAssumption`, `RelayAssumption`, `RagAssumption`, `HealthAssumption`, `PodAssumption`,
  `SupervisorAssumption`, `RegistryAssumption`, `ClusterAssumption`, `SettingsAssumption`: types,
  finiteness, a positive number of tries, chunks or periods, and for `NodeRegistry` that silences
  are measured for long enough.
* `ClusterAssumption` and `NodesAssumption`: every pod has an address of its own.
* `PowersGrow` (`Supervisor`) and `PowersAreNumbers` (`NodeRegistry`): facts of arithmetic about
  powers of two, as the provers know nothing of `^`.
* `DefaultsAssumption` (`LaunchPlan`): no section of the shipped defaults that a deployment selects
  names one of the degrees that the merge works out from the devices, `tensor_parallel_size`,
  `tp_size`, `worldSize` and `pipeline_parallel_size`. It holds of the JSON files in `config/`. They do
  name others: `tp` 4 and `dp` 4 of mindie for DeepSeek and Qwen3-235B, and `dp` 8 of sglang for
  DeepSeek on an H20-141G, where it shares out the tensor ranks.

Three theorems depend on the numbers that are deployed. They have them as hypotheses, which are
stated with the property and hold in the runs (`ShortOutage` in `MCNodeRegistry`,
`ManifestsKeepTheirOrder` in `MCPod`): `OutageIsShort`, `ComesUpInTime` and `ReadinessWaits`.

**QueueGateProofs**: any finite set of requests, any capacities, any settings. `TypeCorrect`;
`TicketsConserved`; `QueueKeepsShape`; `NobodyWaitsBesideATicket`; `WaitersKeepTheirPlace`;
`GateImplementsAdmission`. The invariant is `IInv`: types, the shape of `_putters`, ticket conservation
and that a live waiter is in the queue. The last part is what makes conservation inductive: without it
`release()` could hand a ticket to a request that is not waiting. `QInv` adds that whoever is in the
queue waits or has timed out, so that nobody is stored twice, and that the queue keeps its size although
`put_nowait` is called after a clearing. `JInv` adds, for settings under which nobody is ever suspended
in `put()`, that nobody waits beside a ticket; the two depend on each other, because a handover needs
the queue to hold every waiter. The refinement maps every step to a step of `Admission` or a stutter; a
free ticket of the one pool there corresponds to a free ticket in either layer by conservation. Of the
gateway's own use: `GatewayNeverWaits`, from an invariant saying that at most one request holds a ticket
and exactly that one is missing from its layer. `UsesTheGate`: both uses are behaviours of `QueueGate`,
so that its theorems hold of them. With `Quota` beside it: `SharesAddUp`, for any limit and number of
workers that have an index each, by a telescoping sum: the first k workers have k times the quotient and
one more each while the remainder lasts. `GatesHaveTheShare`: Gate-0 and Gate-1 together have the share,
or one ticket if it is nothing. `NoWorkerWaits` puts both together: whatever the limits are, no request
of any worker waits.

**SupervisorProofs**: any processes, threshold and bound, `Popen` failing or not. `BacksOff` from
`SInv`, which compares what the loop measures with what happened: the measured uptime is at most the
real one, but for the round in which an exit has not been noticed, so a run that is forgiven was not
short; every short run has been counted; and the time a process has been down and what is left of
its backoff make up the whole backoff its short runs call for. `PowersGrow` is needed because the
loop may count more crashes than there were short runs, and then waits for longer.

**RelayProofs**: any requests, pool size, tries, modes and answers of any length. `ConnectionsComeBack`
and `WorkRepeatedForRefusals` from `SendInv`: who has a connection, and that the backend has begun at
most once for every answer after which a request was sent again, and once more when its last attempt is
over; an attempt that has not been sent has begun nothing. `AnswersComplete` and `AnswersInOrder` from
`LineInv`: what was sent and what is buffered are together the chunks that have arrived, each once, and
without middle chunks they are in a row, because then nothing is buffered before the first flush.

**RagStreamProofs**: any number of chunks and results. `CombinesWholeAnswers` from `SeenInv`;
`ResultsInOrder` from `QueueInv` and `OutInv`: the queues are ordered and every result sent is below
what its queue still holds; `NothingAfterDone` from `LostInv`: every result received is in its queue
or was sent, and the queues before the one being sent are empty for good.

**PodProofs**: any thresholds, any results of the probes; for the pod any manifests, crashes and
timing.

* The monitor: `HealthTypes`, `VerdictIsTheState`, `AlarmIsTrue` from `HInv`: types, and how the
  state machine relates to its own counters. The counter of failures never exceeds the true number of
  failures in a row (`missed`), whatever resets it; a degraded engine has failed as often as the
  threshold says; and the status decides the answer of every engine that was ever ready, since
  `ever_ready` and the status are set together. `PodVerdicts`: the same for the service of a pod,
  which crashes, loses its state and starts again with a new container.
* `StartingIsTolerated`, under `ComesUpInTime` (a service is up before the first liveness probe, is
  back before the next, and crashes less often than the probe tolerates). `Tolerated` accounts for the
  failures of the liveness probe: a service that is up and has not seen its engine yet answers 201, so
  a failure means a crash, and a crash costs at most one failure. The manifests have 5 failures at 30 s.
* `RestartComesFirst`, under `ReadinessWaits`: the readiness probe's patience is longer than the time
  in which the liveness probe gives up (`Life`), with room for every crash. The invariant `Evicted`
  weighs two clocks against each other: while the service is down, the age of the readiness probe's
  failures in a row (`Age`) and what is left to the liveness probe (`Left`) make up at most `Life`; a
  service that answers with success has done so only since the last readiness probe and does until the
  next (`Brief`), because no verdict changes to and fro within a readiness period; a crash loses at
  most its own duration and one period (`Lost`). In units of 5 s the manifests with a liveness probe
  have `LivePeriod` 6, `live` 5, `ReadyPeriod` 2 and, for `LiveDelay` 12, 24, 36 and 48, `ready` 30, 36,
  54 and 72: (30 - 1) * 2 = 58 is more than 24 + 12, 70 more than 24 + 24, 106 more than 24 + 36, 142 more
  than 24 + 48, and the least that is left, 22, has room for three crashes with `DownMax` below a
  liveness period. The manifests of sglang have a readiness probe only, hence `backend = "other"`: the
  scores of sglang can change the verdict with every probe.

**NodeRegistryProofs**: any nodes, periods and limits, any outages, a restart of the master at any
moment. `RemovedForSilence` from `RInv`: of a node with k misses, a whole period of checks lies
between any two of them, and the part of the current period that is over counts as well, so its
silence exceeds the limit by k - 1 periods and that part. A node that is heard from has no miss
left; one that is not over the limit has none. `WithoutKeeps` shows that a round of checks deletes
the expired nodes from the dict and no others, by counting places.
`RunningWorkersAreKept` from `KInv`, under `OutageIsShort(boot, span)`: the silence of a worker that is up
and what is left until its next call are together at most the time its lost answers and failures so
far account for, `boot[MaxAttempts - 1]` and `span[failures]`. `boot[k]` bounds the
length of k attempts to register and `span[k]` that of k failures in a row; they are functions that
the theorem is given, since a sum over the outage would need an induction, and the runs have them as
the sums themselves. So no round of checks finds a worker that is up
silent for as long as `RemovedForSilence` says a removal takes.

**ClusterStartProofs**: any number of workers, restarts, polls and attempts, any fate of a request.
`RanksFit` and `RollCall` from `Dispatched`: until a client interferes only workers whose turn has
come have a script, each with its own place, and if any has one the roll call is over and the
registry, which never forgets an address, has everybody. `OneRank` from `RegisteredOnce`: until a
worker restarts, a worker that still has to register is not in the registry, so nobody is in it
twice, and a client's call counts places and nodes alike.

**LaunchPlanProofs**: any pods, settings, tables of defaults within the assumptions, and environment.
`PlansAreOfThePlace`: `PlanInv`, a script is a function of the setting and of the pod's place, and only
the members of a cluster beside the first pod have one. All else is about that function, the merge.
Its lemmas say which keys a step can touch: a step leaves alone every parameter it does not name
(`Alike`), so that a value follows from the one step that sets it and from the absence of its name in
all the later ones. `EngineIsReached` follows the address and the port through the merge;
`FeaturesGetThrough` the configurations of the features and the choice of the engine;
`ClusterFitsTogether` compares two pods of one setting, whose shares are intervals of the ranks that
their places cut out; `CommandUsesTheDevices` follows the degrees of parallelism. Those of `Degrees` only
the adjustment for the devices and the stages of Qwen3Moe set. The `tp` and `dp` that the adapter of
mindie writes beside `worldSize` (`MindieOptions`) have no argument of their own, and the long-context
split, which would set them, ends the planning with an error: so without a section that fixes them a
model of experts has a `tp` of `worldSize` and no `dp`, any other neither. Where the shipped section
fixes them they do not multiply to the devices; the property leaves the case out, and
`WorldSizeIsTp` shows it.

Two of these properties were too strong as they stood, and the attempt to prove them showed it where
the settings of the run did not: a user's file that names `node_ips` decides what a mindie pod calls
itself (`OneCluster`), and one that names `pipeline_parallel_size` decides the stages (`DevicesMatch`).
Both say so now.

Only model-checked: the twelve liveness properties (`Answered`, `Detects`, `Recovers`, `Restarted`,
`ShutsDown`, `DeadIsForgotten`, `DispatcherEnds`, `WaitsAreBounded`, `DoneIsSent`, `EngineRuns`,
`PodDetects`, `PodRecovers`), which the prover does not do under fairness. That the properties hold of
the deployed numbers, and that the shipped defaults name none of `Degrees`, are evaluations, not proofs.

## 5. Not modelled

Prompt splitting (functions on text), logging and headers (no behaviour depends on them),
`proxy/gateway_bac.py` (a backup nobody imports), the wings-accel installer (outside the sidecar), the
Kubernetes manifests beyond the probes and the two containers (of the containers' restarts the back-off;
the shared volume and the loop of the engine container are part of `Pod`). Within the modelled
components: metrics and version pass-through, request validation, warm-up requests, the scheduler's
round-robin policy that no endpoint selects, cancellation of a task inside an await, and jumps of the
wall clock (in `Supervisor` they were tried and multiply the states beyond what TLC can go through; the
hazard keeps its note).

What `LaunchPlan` shows in passing and no property is about: the user's file wins over the arguments
although the docstring (config_loader.py 1512-1516) has it the other way round; soft FP8 of DeepSeek
is always 4 x 4, as `params` never holds the `device_count` it is limited by (438); mindie's 4 x 4 for
DeepSeek and Qwen3-235B is 16 ranks whatever the number of devices; DeepSeek on
Ascend is split for exactly two pods, and the head of a ray cluster waits for two nodes, whatever
their number; `ENABLE_...=1` is on for the command and off for the patches; the arguments' own
default of expert parallelism overrides that of the model. `DevicesMatch` and `OneCluster` name the
cases they leave out for these reasons.

## 6. Plan

Done, in the order of importance to a request's life: gate and its use, relay, health, launcher; the
cluster, the RAG stream, the quotas and the launch plan; then the pod, which composes launcher,
health service, engine container and kubelet; and the proofs of section 4. Left:

1. **A blocked event loop** of the master in `NodeRegistry`: the scheduler's calls without a
   timeout, as `ClusterStart` has it for start calls (`Responsive`).
2. **Cancellation**: a request task that is cancelled inside `acquire()` or while it relays.
3. **Jumps of the clock** in `Supervisor`, over an abstraction that keeps fewer histories.
4. **Proofs**: lemmas that liveness rests on (what a step of a fair action decreases), as far as
   they can be said without fairness; types of the modules that have none as a theorem.
