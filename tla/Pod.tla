---------------------------------- MODULE Pod ----------------------------------
(***************************************************************************)
(* One pod: the control container, the engine container and the kubelet.   *)
(* The launcher writes start_command.sh into the shared volume and then    *)
(* starts the health service (wings_control.py, safe_write_file); the      *)
(* engine container waits for the file and runs it; the kubelet asks       *)
(* /health, restarts the control container and decides whether the pod     *)
(* gets traffic (k8s/overlays).                                            *)
(*                                                                         *)
(* HealthMonitor is the health service here.  Its state is lost whenever   *)
(* its process ends; the volume and the engine outlive that.  Of the file  *)
(* it is kept whether it is whole: it is truncated when it is opened and   *)
(* gets its contents when it is closed.                                    *)
(***************************************************************************)
EXTENDS HealthMonitor

CONSTANTS
    Deployments,               \* the manifests considered, see PodAssumption
    LiveDelay, LivePeriod,     \* initialDelaySeconds and periodSeconds of the probes,
    ReadyDelay, ReadyPeriod,   \* in units of HEALTH_TIMEOUT_MS
    DownMax                    \* the longest time the health service is not up

\* A deployment: its engine, the failureThreshold of each probe, 0 without a probe, and
\* a bound on the crashes of the health service.
ASSUME PodAssumption ==
    /\ Deployments \subseteq [backend : Backends, live : Nat, ready : Nat, crashes : Nat]
    /\ {LiveDelay, LivePeriod, ReadyDelay, ReadyPeriod} \subseteq Nat \ {0}
    /\ DownMax \in Nat

VARIABLES
    deploy,      \* the deployment of this pod
    control,     \* the launcher: "planning", "writing", "starting" a service that is not
                 \* up, or "up" when the health service answers
    script,      \* start_command.sh: "none", "empty" or "whole"
    container,   \* the engine container: "running" the file, or "polling" for it, which
                 \* stands for its restart, too
    down_for,    \* time since the health service went down
    live_due, live_fails, ready_due, ready_fails,   \* the probes of the kubelet
    routed,      \* the control container is Ready: while the engine container is not
                 \* being restarted, the Service sends requests to the pod
    crashes,
    started      \* history: since the control container started, the engine was ready
                 \* once or STARTUP_GRACE_MS was over

probes == <<live_due, live_fails, ready_due, ready_fails, routed>>
launcher == <<control, script, down_for, crashes, started>>
podVars == <<vars, deploy, launcher, container, probes>>

PodInit ==
    /\ Init /\ engine = "connect_error"
    /\ deploy \in Deployments /\ backend = deploy.backend
    /\ control = "planning" /\ script = "none" /\ container = "polling"
    /\ down_for = 0 /\ crashes = 0 /\ started = FALSE
    /\ live_due = LiveDelay /\ live_fails = 0
    /\ ready_due = ReadyDelay /\ ready_fails = 0 /\ routed = FALSE

-----------------------------------------------------------------------------
\* The health service ends, and its state with it.
ForgetHealth ==
    /\ status' = 0 /\ ever_ready' = FALSE /\ backend_ok' = FALSE
    /\ consecutive_failures' = 0
    /\ fail_score' = 0 /\ accum_fail_ms' = 0 /\ consecutive_timeouts' = 0
    /\ elapsed' = 0 /\ since_ok' = 0 /\ since_probe' = 0 /\ missed' = 0
    /\ UNCHANGED <<backend, engine>>

\* The kubelet starts the control container anew: only the volume stays.
RestartControl ==
    /\ control' = "planning" /\ down_for' = 0 /\ started' = FALSE
    /\ ForgetHealth
    /\ live_due' = LiveDelay /\ live_fails' = 0
    /\ ready_due' = ReadyDelay /\ ready_fails' = 0 /\ routed' = FALSE
    /\ UNCHANGED <<deploy, script, container, crashes>>

\* open() with O_TRUNC
OpenScript ==
    /\ control = "planning"
    /\ control' = "writing" /\ script' = "empty"
    /\ UNCHANGED <<vars, deploy, container, down_for, crashes, started, probes>>

WriteScript ==
    /\ control = "writing"
    /\ control' = "starting" /\ script' = "whole"
    /\ UNCHANGED <<vars, deploy, container, down_for, crashes, started, probes>>

WriteFailsQuietly ==
    /\ control = "writing"
    /\ control' = "starting"
    /\ UNCHANGED <<vars, deploy, script, container, down_for, crashes, started, probes>>

\* The volume is full: safe_write_file returns False, the launcher ends with a
\* RuntimeError and leaves the empty file behind.
WriteFails == control = "writing" /\ RestartControl

\* The health service starts, or the guard loop starts it again.
ServiceStarts ==
    /\ control = "starting" /\ control' = "up"
    /\ UNCHANGED <<vars, deploy, script, container, down_for, crashes, started, probes>>

ServiceCrashes ==
    /\ control = "up" /\ crashes < deploy.crashes
    /\ control' = "starting" /\ down_for' = 0 /\ crashes' = crashes + 1
    /\ ForgetHealth
    /\ UNCHANGED <<deploy, script, container, started, probes>>

ServiceTicks ==
    /\ control = "up" /\ Tick
    /\ started' = (started \/ ever_ready')
    /\ UNCHANGED <<deploy, control, script, down_for, crashes, container, probes>>

-----------------------------------------------------------------------------
\* The loop of the engine container finds the file and runs it.  An empty file ends
\* at once, and the container starts over.
RunScript ==
    /\ container = "polling" /\ script = "whole"
    /\ container' = "running"
    /\ UNCHANGED <<vars, deploy, launcher, probes>>

EngineWorks ==
    /\ container = "running" /\ EngineChanges
    /\ UNCHANGED <<deploy, launcher, container, probes>>

\* The engine is the last command of the script: the container ends with it.
EngineEnds ==
    /\ container = "running" /\ container' = "polling"
    /\ engine' = "connect_error"
    /\ UNCHANGED <<backend, h, ages, missed, deploy, launcher, probes>>

-----------------------------------------------------------------------------
\* What the kubelet makes of an answer: a status from 200 to 399 is a success.
Answers(codes) == control = "up" /\ Code \in codes
SuccessIs200 == {200}
Success == 200..399

LiveOkWhileUp == control = "up"
LiveOk == Answers(Success)

LivenessKills == live_due = 0 /\ ~LiveOk /\ live_fails + 1 >= deploy.live

LivenessProbe ==
    /\ deploy.live > 0 /\ live_due = 0
    /\ IF LivenessKills
       THEN RestartControl
       ELSE /\ live_due' = LivePeriod
            /\ live_fails' = IF LiveOk THEN 0 ELSE live_fails + 1
            /\ UNCHANGED <<vars, deploy, launcher, container, ready_due, ready_fails, routed>>

ReadinessProbe ==
    /\ deploy.ready > 0 /\ ready_due = 0
    /\ ready_due' = ReadyPeriod
    /\ IF Answers(Success)
       THEN ready_fails' = 0 /\ routed' = TRUE
       ELSE /\ ready_fails' = AtMost(ready_fails + 1, deploy.ready)
            /\ routed' = (routed /\ ready_fails' < deploy.ready)
    /\ UNCHANGED <<vars, deploy, launcher, container, live_due, live_fails>>

\* Time passes for everybody, but not beyond a probe that is due.
RunsDown(due, threshold) == due' = IF threshold > 0 THEN due - 1 ELSE due
PodTimePasses ==
    /\ deploy.live > 0 => live_due > 0
    /\ deploy.ready > 0 => ready_due > 0
    /\ RunsDown(live_due, deploy.live) /\ RunsDown(ready_due, deploy.ready)
    /\ \/ control = "up" /\ TimePasses /\ UNCHANGED down_for
       \/ /\ control # "up" /\ down_for < DownMax
          /\ down_for' = down_for + 1
          /\ UNCHANGED vars
    /\ started' = (started \/ elapsed' >= StartupGrace)
    /\ UNCHANGED <<deploy, control, script, crashes, container, live_fails, ready_fails, routed>>

Boots == OpenScript \/ ServiceStarts \/ WriteFails
Probe == LivenessProbe \/ ReadinessProbe

PodNext ==
    \/ Boots \/ WriteScript \/ ServiceCrashes \/ ServiceTicks
    \/ RunScript \/ EngineWorks \/ EngineEnds
    \/ Probe \/ PodTimePasses

PodSpec == PodInit /\ [][PodNext]_podVars

\* The launcher and the kubelet do not stop.  A write does not fail for ever, and the
\* engine container does not for ever come in the moments in which the file is empty.
PodFairSpec ==
    /\ PodSpec
    /\ WF_podVars(Boots) /\ SF_podVars(WriteScript) /\ SF_podVars(RunScript)
    /\ WF_podVars(ServiceTicks) /\ WF_podVars(Probe) /\ WF_podVars(PodTimePasses)

-----------------------------------------------------------------------------
\* However the script was written and rewritten, and however often the launcher or the
\* engine ended, the engine container runs it again (wings_control.py lines 308-318).
EngineRuns == []<>(container = "running")

\* A health service is up before a liveness probe asks for the first time and back before
\* the next, and does not crash as often as the probe tolerates.
ComesUpInTime ==
    \A d \in Deployments : d.live > 0 =>
        d.crashes < d.live /\ DownMax < LiveDelay /\ DownMax < LivePeriod

\* The control container is not restarted for an engine that is still starting: its
\* 201 passes the liveness probe until STARTUP_GRACE_MS is over (lines 438-439).
StartupIsTolerated ==
    [][LivenessProbe /\ LivenessKills => started]_podVars

\* The longest time until a liveness probe gives up a service that stays down.
Life(d) ==
    (d.live - 1) * LivePeriod + (IF LivePeriod < LiveDelay THEN LiveDelay ELSE LivePeriod)

\* The readiness probe has patience for longer than that, and for every crash beside it;
\* it asks more often than the verdict of an engine other than sglang can change to and fro.
ReadinessWaits ==
    /\ ReadyPeriod < StartupGrace /\ (ReadyPeriod < FailThreshold \/ ReadyPeriod < FailGrace)
    /\ \A d \in Deployments : d.live > 0 =>
          /\ d.backend = "other" /\ DownMax <= Life(d)
          /\ d.ready > 0 =>
                (d.ready - 1) * ReadyPeriod > Life(d) + d.crashes * (DownMax + ReadyPeriod)

\* Where there is a liveness probe, the control container stops being Ready by its
\* restart only: the readiness probe tolerates more failures than the time of a
\* liveness probe that gives up has room for (the thresholds of the manifests).
EvictedByRestart ==
    [][deploy.live > 0 /\ routed /\ ~routed' => control' = "planning"]_podVars

\* An engine that stays unhealthy is reported for good; a liveness probe makes that
\* again and again a restart, which takes the traffic off the pod.
PodDetects ==
    <>[](engine # "ok") =>
        IF deploy.live = 0 THEN <>[](Code \in {502, 503}) ELSE []<>~routed

\* An engine that stays healthy is reported ready and gets traffic for good.
PodRecovers == <>[](engine = "ok") => <>[](Code = 200 /\ (deploy.ready > 0 => routed))

\* A pod becomes Ready by an answer 200 only, once the engine is completely up
\* (docs/deploy/deploy-vllm-ascend-dist-ray.md line 347).
ReadyBy200 == [][~routed /\ routed' => Code = 200]_podVars
===============================================================================
