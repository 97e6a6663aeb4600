------------------------------- MODULE PodProofs -------------------------------
(***************************************************************************)
(* The verdicts of the health monitor, for any thresholds, any course of   *)
(* probe results and any timing: what holds of every engine but sglang,    *)
(* and that the counters stay within their bounds for every engine.  Then  *)
(* the pod around it: what its probes do to it, for any manifests that     *)
(* keep their order, any crashes and any timing.                           *)
(***************************************************************************)
EXTENDS Pod, TLAPS

\* The state machine: "starting" ends with the first good probe, for good; it calls
\* the engine degraded exactly while the failures it counted exceed the thresholds;
\* and a count never runs ahead of the probes that really failed in a row.
Machine ==
    /\ ever_ready <=> status # 0
    /\ backend_ok => status = 1
    /\ status = 0 => consecutive_failures = 0
    /\ status = -1 <=> Exceeded(consecutive_failures)
    /\ missed \in Nat
    /\ consecutive_failures <= missed

HInv == TypeOK /\ Machine

\* The monitor starts in a state of the invariant.
LEMMA HInit == Init => HInv
<1> SUFFICES ASSUME Init PROVE HInv
    OBVIOUS
<1>1. engine \in Probes
      BY DEF Init, Found, Probes
<1>2. /\ 0 \in 0..ScoreBound /\ 0 \in 0..TimeoutMax /\ 0 \in 0..StartupGrace
      /\ 0 \in 0..Oldest /\ 0 \in 0..ProbeGap
      BY HealthAssumption DEF Oldest
<1>3. ~Exceeded(0) /\ 0 <= FailThreshold
      BY HealthAssumption DEF Exceeded
<1>4. TypeOK
      BY <1>1, <1>2, <1>3 DEF Init, TypeOK
<1>5. Machine
      BY <1>3 DEF Init, Machine
<1> QED BY <1>4, <1>5 DEF HInv

\* AtMost is the smaller of two numbers.
LEMMA AtMostFacts ==
    ASSUME NEW x \in Nat, NEW bound \in Nat
    PROVE  /\ AtMost(x, bound) \in 0..bound
           /\ AtMost(x, bound) <= x
           /\ \A y \in Nat : y <= x /\ y <= bound => y <= AtMost(x, bound)
BY DEF AtMost

\* What every step but a probe result does to the counters.
LEMMA HQuiet ==
    ASSUME HInv, EngineChanges \/ TimePasses \/ UNCHANGED vars
    PROVE  HInv'
<1>1. Machine'
      BY DEF HInv, Machine, EngineChanges, TimePasses, vars, h, ages, Exceeded
<1>2. CASE EngineChanges
      BY <1>1, <1>2 DEF HInv, TypeOK, EngineChanges, h, ages, Found, Probes
<1>3. CASE TimePasses
  <2>1. /\ since_probe' \in 0..ProbeGap
        /\ elapsed' \in 0..StartupGrace
        /\ since_ok' \in 0..Oldest
    <3>1. /\ since_probe \in 0..ProbeGap /\ elapsed \in 0..StartupGrace
          /\ since_ok \in 0..Oldest
          BY DEF HInv, TypeOK
    <3>2. ProbeGap \in Nat /\ StartupGrace \in Nat /\ Oldest \in Nat
          BY HealthAssumption DEF Oldest
    <3>3. /\ since_probe < ProbeGap /\ since_probe' = since_probe + 1
          /\ elapsed' \in {elapsed, AtMost(elapsed + 1, StartupGrace)}
          /\ since_ok' \in {since_ok, AtMost(since_ok + 1, Oldest)}
          BY <1>3 DEF TimePasses
    <3>4. /\ AtMost(elapsed + 1, StartupGrace) \in 0..StartupGrace
          /\ AtMost(since_ok + 1, Oldest) \in 0..Oldest
          BY <3>1, <3>2 DEF AtMost
    <3> QED BY <3>1, <3>2, <3>3, <3>4
  <2> QED BY <1>1, <1>3, <2>1 DEF HInv, TypeOK, TimePasses, h
<1>4. CASE UNCHANGED vars
      BY <1>1, <1>4 DEF HInv, TypeOK, vars, h, ages
<1> QED BY <1>1, <1>2, <1>3, <1>4 DEF HInv

\* The scores of sglang stay within their bounds.
LEMMA HScores ==
    ASSUME HInv, Tick
    PROVE  /\ fail_score' \in 0..ScoreBound /\ accum_fail_ms' \in 0..ScoreBound
           /\ consecutive_timeouts' \in 0..TimeoutMax
<1>1. CASE ~Sglang
      BY <1>1 DEF Tick, HInv, TypeOK
<1>2. CASE Sglang
  <2>1. SglangSpecifics(engine) /\ engine \in Probes
        BY <1>2 DEF Tick, HInv, TypeOK
  <2>2. consecutive_timeouts' \in 0..TimeoutMax
        BY <2>1, HealthAssumption, AtMostFacts DEF SglangSpecifics, HInv, TypeOK
  <2>3. CASE engine = "ok"
        BY <2>1, <2>2, <2>3, HealthAssumption DEF SglangSpecifics, HInv, TypeOK
  <2>4. CASE engine # "ok"
    <3>1. PICK latency \in Latencies(engine) :
             LET w == IF InPidGrace(engine) THEN 0 ELSE Weight(engine) IN
             /\ fail_score' = AtMost(fail_score + w, ScoreBound)
             /\ accum_fail_ms' = AtMost(accum_fail_ms + w * latency, ScoreBound)
          BY <2>1, <2>4 DEF SglangSpecifics
    <3>2. Weight(engine) \in 0..4
          BY <2>1, <2>4 DEF Weight, Probes
    <3>3. latency \in {0, 1}
          BY <2>1, <2>4 DEF Latencies, Probes
    <3> DEFINE w == IF InPidGrace(engine) THEN 0 ELSE Weight(engine)
    <3>4. w \in 0..4 /\ w * latency \in 0..4
          BY <3>2, <3>3
    <3>5. fail_score \in Nat /\ accum_fail_ms \in Nat
          BY DEF HInv, TypeOK
    <3>6. /\ AtMost(fail_score + w, ScoreBound) \in 0..ScoreBound
          /\ AtMost(accum_fail_ms + w * latency, ScoreBound) \in 0..ScoreBound
      <4> HIDE DEF w
      <4>1. ScoreBound \in Nat /\ fail_score + w \in Nat /\ accum_fail_ms + w * latency \in Nat
            BY <3>4, <3>5, HealthAssumption
      <4> QED BY <4>1, AtMostFacts
    <3> QED BY <2>2, <3>1, <3>6
  <2> QED BY <2>3, <2>4
<1> QED BY <1>1, <1>2

\* A probe result.
LEMMA HTick ==
    ASSUME HInv, Tick
    PROVE  HInv'
<1>1. Advance(engine = "ok") /\ backend_ok' = (engine = "ok")
      BY DEF Tick
<1>2. /\ missed' = IF engine = "ok" THEN 0 ELSE AtMost(missed + 1, FailThreshold + FailGrace)
      /\ UNCHANGED <<backend, engine, elapsed>> /\ since_probe' = 0
      BY DEF Tick
<1>3. /\ FailThreshold \in Nat \ {0} /\ FailGrace \in Nat \ {0}
      /\ consecutive_failures \in Nat /\ missed \in Nat
      BY HealthAssumption DEF HInv, TypeOK, Machine
<1>4. CASE engine = "ok"
  <2>1. /\ status' = 1 /\ ever_ready' = TRUE /\ consecutive_failures' = 0 /\ since_ok' = 0
        /\ missed' = 0
        BY <1>1, <1>2, <1>4 DEF Advance
  <2>2. Machine'
        BY <1>3, <2>1 DEF Machine, Exceeded
  <2>3. TypeOK'
        BY <1>1, <1>2, <2>1, HScores, HealthAssumption DEF HInv, TypeOK, Oldest
  <2> QED BY <2>2, <2>3 DEF HInv
<1>5. CASE engine # "ok" /\ status = 1
  <2>1. /\ consecutive_failures' = consecutive_failures + 1
        /\ status' = IF Exceeded(consecutive_failures + 1) THEN -1 ELSE 1
        /\ UNCHANGED <<ever_ready, since_ok>> /\ backend_ok' = FALSE
        BY <1>1, <1>5 DEF Advance
  <2>2. ~Exceeded(consecutive_failures)
        BY <1>5 DEF HInv, Machine
  <2>3. missed' \in Nat /\ consecutive_failures' <= missed'
    <3>1. consecutive_failures + 1 <= FailThreshold + FailGrace
          BY <1>3, <2>2 DEF Exceeded
    <3> QED BY <1>2, <1>3, <1>5, <2>1, <3>1, AtMostFacts DEF HInv, Machine
  <2>4. Machine'
        BY <1>5, <2>1, <2>3 DEF HInv, Machine, Exceeded
  <2>5. consecutive_failures' <= FailThreshold \/ consecutive_failures' <= FailGrace
        BY <1>3, <2>1, <2>2 DEF Exceeded
  <2>6. TypeOK'
        BY <1>1, <1>2, <1>3, <2>1, <2>5, HScores, HealthAssumption DEF HInv, TypeOK
  <2> QED BY <2>4, <2>6 DEF HInv
<1>6. CASE engine # "ok" /\ status # 1
  <2>1. /\ UNCHANGED <<consecutive_failures, status, ever_ready, since_ok>>
        /\ backend_ok' = FALSE
        BY <1>1, <1>6 DEF Advance
  <2>2. missed' \in Nat /\ consecutive_failures' <= missed'
    <3>1. consecutive_failures <= FailThreshold + FailGrace
          BY <1>3 DEF HInv, TypeOK
    <3> QED BY <1>2, <1>3, <1>6, <2>1, <3>1, AtMostFacts DEF HInv, Machine
  <2>3. Machine'
        BY <1>6, <2>1, <2>2 DEF HInv, Machine, Exceeded
  <2>4. TypeOK'
        BY <1>1, <1>2, <2>1, HScores, HealthAssumption DEF HInv, TypeOK
  <2> QED BY <2>3, <2>4 DEF HInv
<1> QED BY <1>4, <1>5, <1>6

\* Every step keeps the invariant.
LEMMA HStep == HInv /\ [Next]_vars => HInv'
BY HQuiet, HTick DEF Next

\* The invariant of the monitor.
LEMMA HAlways == Spec => []HInv
BY HInit, HStep, PTL DEF Spec

\* Every counter stays within the bounds the thresholds give it.
THEOREM HealthTypes == Spec => []TypeOK
<1>1. HInv => TypeOK
      BY DEF HInv
<1> QED BY <1>1, HAlways, PTL

\* The answer of any other engine follows the state machine, and a failure is true.
LEMMA HInvVerdicts == HInv => DegradedIs503 /\ NoFalseAlarm
<1>1. ASSUME HInv, ~Sglang, ever_ready PROVE Code = 503 <=> status = -1
  <2>1. CASE IsReady
        BY <1>1, <2>1 DEF Code, IsReady
  <2>2. CASE ~IsReady
    <3>1. Code = IF Exceeded(consecutive_failures) THEN 503 ELSE 200
          BY <1>1, <2>2 DEF Code
    <3> QED BY <1>1, <3>1 DEF HInv, Machine
  <2> QED BY <2>1, <2>2
<1>2. ASSUME HInv, ~Sglang, Code = 503 PROVE Exceeded(missed)
  <2>1. Exceeded(consecutive_failures)
    <3>1. ~IsReady
          BY <1>2 DEF Code
    <3>2. ever_ready
          BY <1>2, <3>1 DEF Code
    <3> QED BY <1>2, <3>1, <3>2 DEF Code
  <2>2. consecutive_failures \in Nat /\ missed \in Nat /\ consecutive_failures <= missed
        BY <1>2 DEF HInv, TypeOK, Machine
  <2> QED BY <2>1, <2>2, HealthAssumption DEF Exceeded
<1> QED BY <1>1, <1>2 DEF DegradedIs503, VerdictsAgree, NoFalseAlarm

\* For every engine but sglang /health answers 503 exactly while the state machine
\* calls the engine degraded (map_http_code_from_state against
\* _advance_state_machine).
THEOREM VerdictIsTheState == Spec => []DegradedIs503
BY HInvVerdicts, HAlways, PTL

\* Such an engine is never reported down before FAIL_THRESHOLD probes in a row,
\* spanning FAIL_GRACE_MS, have failed.
THEOREM AlarmIsTrue == Spec => []NoFalseAlarm
BY HInvVerdicts, HAlways, PTL

-----------------------------------------------------------------------------
(* The pod.                                                                  *)

LEMMA Spans ==
    /\ LiveDelay \in Nat /\ LivePeriod \in Nat /\ ReadyDelay \in Nat /\ ReadyPeriod \in Nat
    /\ LivePeriod > 0 /\ ReadyPeriod > 0 /\ DownMax \in Nat
    /\ StartupGrace \in Nat /\ StartupGrace > 0
    /\ FailThreshold \in Nat /\ FailGrace \in Nat /\ FailThreshold > 0 /\ FailGrace > 0
BY PodAssumption, HealthAssumption

LEMMA ManifestTypes ==
    ASSUME NEW d \in Deployments
    PROVE  d.backend \in Backends /\ d.live \in Nat /\ d.ready \in Nat /\ d.crashes \in Nat
BY PodAssumption

\* The end of the health service leaves its monitor as a new one.
LEMMA ForgottenHealth ==
    ASSUME HInv, ForgetHealth
    PROVE  HInv'
<1>1. Machine'
  <2>1. ~Exceeded(0)
        BY HealthAssumption DEF Exceeded
  <2> QED BY <2>1 DEF ForgetHealth, Machine, Exceeded
<1>2. /\ 0 \in 0..ScoreBound /\ 0 \in 0..TimeoutMax /\ 0 \in 0..StartupGrace
      /\ 0 \in 0..Oldest /\ 0 \in 0..ProbeGap /\ 0 <= FailThreshold
      BY HealthAssumption DEF Oldest
<1>3. TypeOK'
      BY <1>2 DEF ForgetHealth, HInv, TypeOK
<1> QED BY <1>1, <1>3 DEF HInv

\* The steps that leave the health service alone, or only its engine changes.
LEMMA OnlyEngine ==
    ASSUME HInv, UNCHANGED <<backend, h, ages, missed>>, engine' \in Probes
    PROVE  HInv'
BY DEF HInv, TypeOK, Machine, Exceeded, h, ages

LEMMA PodHealth == ASSUME HInv, [PodNext]_podVars PROVE HInv'
<1>1. CASE UNCHANGED vars
      BY <1>1, OnlyEngine DEF vars, HInv, TypeOK
<1>2. CASE RestartControl \/ ServiceCrashes
      BY <1>2, ForgottenHealth DEF RestartControl, ServiceCrashes
<1>3. CASE ServiceTicks
      BY <1>3, HTick DEF ServiceTicks
<1>4. CASE EngineWorks
      BY <1>4, HQuiet DEF EngineWorks
<1>5. CASE EngineEnds
      BY <1>5, OnlyEngine DEF EngineEnds, Probes
<1>6. CASE PodTimePasses
      BY <1>1, <1>6, HQuiet DEF PodTimePasses
<1>7. OpenScript \/ WriteScript \/ ServiceStarts \/ RunScript \/ ReadinessProbe
        \/ UNCHANGED podVars => UNCHANGED vars
      BY DEF OpenScript, WriteScript, ServiceStarts, RunScript, ReadinessProbe, podVars
<1>8. LivenessProbe => RestartControl \/ UNCHANGED vars
      BY DEF LivenessProbe
<1>9. WriteFails => RestartControl
      BY DEF WriteFails
<1> QED BY <1>1, <1>2, <1>3, <1>4, <1>5, <1>6, <1>7, <1>8, <1>9 DEF PodNext, Boots, Probe

LEMMA PodHealthAlways == PodSpec => []HInv
<1>1. PodInit => HInv
      BY HInit DEF PodInit
<1> QED BY <1>1, PodHealth, PTL DEF PodSpec

\* What the monitor answers is true in the pod, too, although its process ends and forgets:
\* 503 exactly while it calls the engine degraded, and only after failures in a row.
THEOREM PodVerdicts == PodSpec => [](DegradedIs503 /\ NoFalseAlarm)
BY HInvVerdicts, PodHealthAlways, PTL

\* The probes' counters and the bounds of what the pod counts.
Counted ==
    /\ deploy \in Deployments /\ backend = deploy.backend
    /\ control \in {"planning", "writing", "starting", "up"}
    /\ down_for \in 0..DownMax /\ crashes \in 0..deploy.crashes
    /\ started \in BOOLEAN /\ routed \in BOOLEAN
    /\ live_due \in Nat /\ live_fails \in Nat /\ ready_due \in Nat /\ ready_fails \in Nat

LEMMA CountedStep ==
    ASSUME Counted, [PodNext]_podVars
    PROVE  Counted'
<1> USE Spans
<1>1. deploy.live \in Nat /\ deploy.ready \in Nat /\ deploy.crashes \in Nat
      BY ManifestTypes DEF Counted
<1>2. CASE RestartControl
  <2>1. /\ control' = "planning" /\ down_for' = 0 /\ started' = FALSE /\ routed' = FALSE
        /\ live_due' = LiveDelay /\ live_fails' = 0 /\ ready_due' = ReadyDelay /\ ready_fails' = 0
        /\ UNCHANGED <<deploy, crashes, backend>>
        BY <1>2 DEF RestartControl, ForgetHealth
  <2>2. deploy' \in Deployments /\ backend' = deploy'.backend /\ crashes' \in 0..deploy'.crashes
        BY <2>1 DEF Counted
  <2>3. 0 \in Nat /\ 0 \in 0..DownMax
        OBVIOUS
  <2> QED BY <2>1, <2>2, <2>3 DEF Counted
<1>3. CASE OpenScript \/ WriteScript \/ ServiceStarts
      BY <1>1, <1>3 DEF OpenScript, WriteScript, ServiceStarts, Counted, vars, probes
<1>4. CASE ServiceCrashes
      BY <1>1, <1>4 DEF ServiceCrashes, ForgetHealth, Counted, probes
<1>5. CASE ServiceTicks
  <2>1. backend' = backend
        BY <1>5 DEF ServiceTicks, Tick
  <2> QED BY <1>1, <1>5, <2>1 DEF ServiceTicks, Counted, probes
<1>6. CASE RunScript \/ EngineWorks \/ EngineEnds
      BY <1>1, <1>6 DEF RunScript, EngineWorks, EngineChanges, EngineEnds, Counted, vars, probes,
                        launcher
<1>7. CASE LivenessProbe /\ ~LivenessKills
      BY <1>1, <1>7 DEF LivenessProbe, Counted, vars, launcher
<1>8. CASE ReadinessProbe
  <2>1. /\ UNCHANGED <<backend, deploy, control, down_for, crashes, started, live_due, live_fails>>
        /\ ready_due' = ReadyPeriod
        BY <1>8 DEF ReadinessProbe, vars, launcher
  <2>2. routed' \in BOOLEAN /\ ready_fails' \in {0, AtMost(ready_fails + 1, deploy.ready)}
        BY <1>8 DEF ReadinessProbe, Counted
  <2>3. AtMost(ready_fails + 1, deploy.ready) \in Nat
        BY <1>1 DEF Counted, AtMost
  <2> QED BY <2>1, <2>2, <2>3 DEF Counted
<1>9. CASE PodTimePasses
      BY <1>1, <1>9 DEF PodTimePasses, RunsDown, TimePasses, Counted, vars
<1>10. CASE UNCHANGED podVars
      BY <1>1, <1>10 DEF Counted, podVars, vars, launcher, probes
<1>11. (WriteFails => RestartControl) /\ (LivenessProbe /\ LivenessKills => RestartControl)
       BY DEF WriteFails, LivenessProbe
<1> QED BY <1>2, <1>3, <1>4, <1>5, <1>6, <1>7, <1>8, <1>9, <1>10, <1>11 DEF PodNext, Boots, Probe

\* Before it has started, a health service that is up answers 201; one that is not up is
\* up before the next probe, or it has crashed once more than the probe has noticed.
Tolerated ==
    deploy.live > 0 /\ ~started =>
        /\ ~ever_ready /\ elapsed < StartupGrace
        /\ live_fails <= crashes
        /\ control # "up" => live_due + down_for > DownMax \/ live_fails < crashes


\* An engine that is starting is answered 201.
LEMMA StartingIsSuccess ==
    ASSUME ~ever_ready, elapsed < StartupGrace
    PROVE  Code \in Success
<1>1. Code = 201
      BY DEF Code, IsReady
<1> QED BY <1>1 DEF Success

LEMMA KillsOnlyStarted ==
    ASSUME ComesUpInTime, Counted, Tolerated, LivenessProbe, LivenessKills
    PROVE  started
<1> SUFFICES ASSUME ~started PROVE FALSE
    OBVIOUS
<1>1. deploy.live > 0 /\ live_due = 0 /\ ~LiveOk /\ live_fails + 1 >= deploy.live
      BY DEF LivenessProbe, LivenessKills
<1>2. deploy.live \in Nat /\ deploy.crashes \in Nat /\ deploy.crashes < deploy.live
      BY <1>1, ManifestTypes DEF Counted, ComesUpInTime
<1>3. ~ever_ready /\ elapsed < StartupGrace
      BY <1>1 DEF Tolerated
<1>4. control # "up"
      BY <1>1, <1>3, StartingIsSuccess DEF LiveOk, Answers
<1>5. live_due + down_for > DownMax \/ live_fails < crashes
      BY <1>1, <1>4 DEF Tolerated
<1>6. /\ live_fails \in Nat /\ crashes \in Nat /\ crashes <= deploy.crashes
      /\ down_for \in Nat /\ down_for <= DownMax
      BY <1>2, Spans DEF Counted
<1> QED BY <1>1, <1>2, <1>5, <1>6, Spans

LEMMA ToleratedStep ==
    ASSUME ComesUpInTime, HInv, Counted, Tolerated, [PodNext]_podVars
    PROVE  Tolerated'
<1> SUFFICES ASSUME deploy'.live > 0, ~started'
             PROVE  /\ ~ever_ready' /\ elapsed' < StartupGrace
                    /\ live_fails' <= crashes'
                    /\ control' # "up" =>
                          live_due' + down_for' > DownMax \/ live_fails' < crashes'
    BY DEF Tolerated
<1>1. deploy' = deploy
      BY DEF PodNext, Boots, Probe, OpenScript, WriteScript, WriteFails, ServiceStarts,
             ServiceCrashes, ServiceTicks, RunScript, EngineWorks, EngineEnds, LivenessProbe,
             ReadinessProbe, PodTimePasses, RestartControl, podVars
<1>2. /\ deploy.live \in Nat /\ DownMax < LiveDelay /\ DownMax < LivePeriod
      /\ live_fails \in Nat /\ crashes \in Nat /\ live_due \in Nat
      /\ down_for \in Nat /\ down_for <= DownMax
      BY <1>1, ManifestTypes, Spans DEF Counted, ComesUpInTime
<1>3. CASE RestartControl
  <2>1. /\ live_fails' = 0 /\ live_due' = LiveDelay /\ down_for' = 0 /\ crashes' = crashes
        /\ ever_ready' = FALSE /\ elapsed' = 0
        BY <1>3 DEF RestartControl, ForgetHealth
  <2> QED BY <1>2, <2>1, Spans
<1>4. ASSUME ~started
      PROVE  /\ ~ever_ready /\ elapsed < StartupGrace /\ live_fails <= crashes
             /\ control # "up" => live_due + down_for > DownMax \/ live_fails < crashes
      BY <1>1, <1>4 DEF Tolerated
<1>5. ASSUME UNCHANGED <<ever_ready, elapsed, live_fails, crashes, live_due, down_for, started>>,
             control' = control \/ control' = "up" \/ control # "up"
      PROVE  /\ ~ever_ready' /\ elapsed' < StartupGrace
             /\ live_fails' <= crashes'
             /\ control' # "up" => live_due' + down_for' > DownMax \/ live_fails' < crashes'
      BY <1>4, <1>5
<1>6. CASE OpenScript \/ WriteScript \/ ServiceStarts
      BY <1>5, <1>6 DEF OpenScript, WriteScript, ServiceStarts, vars, h, ages, probes
<1>7. CASE ServiceCrashes
  <2>1. /\ live_fails' = live_fails /\ crashes' = crashes + 1 /\ started' = started
        /\ ever_ready' = FALSE /\ elapsed' = 0
        BY <1>7 DEF ServiceCrashes, ForgetHealth, probes
  <2> QED BY <1>2, <1>4, <2>1, Spans
<1>8. CASE ServiceTicks
  <2>1. /\ control = "up" /\ control' = control /\ elapsed' = elapsed
        /\ UNCHANGED <<live_fails, crashes>>
        /\ started' = (started \/ ever_ready')
        BY <1>8 DEF ServiceTicks, Tick, probes
  <2> QED BY <1>4, <2>1
<1>9. CASE RunScript \/ EngineWorks \/ EngineEnds \/ UNCHANGED podVars
      BY <1>5, <1>9 DEF RunScript, EngineWorks, EngineChanges, EngineEnds, vars, h, ages, probes,
                        launcher, podVars
<1>10. CASE LivenessProbe /\ ~LivenessKills
  <2>1. /\ live_due = 0 /\ live_due' = LivePeriod
        /\ live_fails' = IF LiveOk THEN 0 ELSE live_fails + 1
        /\ UNCHANGED <<ever_ready, elapsed, crashes, down_for, started, control>>
        BY <1>10 DEF LivenessProbe, vars, h, ages, launcher
  <2>2. CASE control = "up"
    <3>1. LiveOk
          BY <1>4, <2>1, <2>2, StartingIsSuccess DEF LiveOk, Answers
    <3> QED BY <1>2, <1>4, <2>1, <2>2, <3>1
  <2>3. CASE control # "up"
        BY <1>2, <1>4, <2>1, <2>3, Spans DEF LiveOk, Answers
  <2> QED BY <2>2, <2>3
<1>11. CASE ReadinessProbe
      BY <1>5, <1>11 DEF ReadinessProbe, vars, h, ages, launcher
<1>12. CASE PodTimePasses
  <2>1. /\ live_due > 0 /\ live_due' = live_due - 1 /\ UNCHANGED <<control, crashes, live_fails>>
        /\ started' = (started \/ elapsed' >= StartupGrace)
        BY <1>1, <1>12 DEF PodTimePasses, RunsDown
  <2>2. ~started /\ ~(elapsed' >= StartupGrace)
        BY <2>1
  <2>3. CASE control = "up"
    <3>1. ever_ready' = ever_ready /\ elapsed' \in {elapsed, AtMost(elapsed + 1, StartupGrace)}
          BY <1>12, <2>3 DEF PodTimePasses, TimePasses, h
    <3>2. elapsed' \in Nat
          BY <3>1, Spans DEF HInv, TypeOK, AtMost
    <3>3. live_fails <= crashes
          BY <1>4, <2>2
    <3> QED BY <1>4, <2>1, <2>3, <2>2, <3>1, <3>2, <3>3, Spans
  <2>4. CASE control # "up"
    <3>1. down_for' = down_for + 1 /\ UNCHANGED <<ever_ready, elapsed>>
          BY <1>12, <2>4 DEF PodTimePasses, vars, h, ages
    <3>2. live_due' + down_for' = live_due + down_for
          BY <1>2, <2>1, <3>1
    <3> QED BY <1>4, <2>1, <2>2, <2>4, <3>1, <3>2
  <2> QED BY <2>3, <2>4
<1>13. (WriteFails => RestartControl) /\ (LivenessProbe /\ LivenessKills => RestartControl)
       BY DEF WriteFails, LivenessProbe
<1> QED BY <1>3, <1>6, <1>7, <1>8, <1>9, <1>10, <1>11, <1>12, <1>13 DEF PodNext, Boots, Probe

LEMMA PodStarts == PodInit => Counted
<1> SUFFICES ASSUME PodInit PROVE Counted
    OBVIOUS
<1>1. deploy.crashes \in Nat
      BY ManifestTypes DEF PodInit
<1>2. /\ deploy \in Deployments /\ backend = deploy.backend /\ control = "planning"
      /\ down_for = 0 /\ crashes = 0 /\ started = FALSE /\ routed = FALSE
      /\ live_due = LiveDelay /\ live_fails = 0 /\ ready_due = ReadyDelay /\ ready_fails = 0
      BY DEF PodInit
<1>3. 0 \in 0..DownMax /\ 0 \in 0..deploy.crashes /\ 0 \in Nat
      BY <1>1, Spans
<1> QED BY <1>2, <1>3, Spans DEF Counted

\* The kubelet does not restart the control container of an engine that is starting, as
\* long as the launcher is up before the first probe and crashes less often than the
\* probe tolerates: until STARTUP_GRACE_MS is over or the engine is ready, every answer is
\* 201, and only a probe that finds no service fails (health_router.py lines 438-439).
THEOREM StartingIsTolerated == ComesUpInTime /\ PodSpec => StartupIsTolerated
<1> DEFINE J == Counted /\ Tolerated
<1>1. ComesUpInTime /\ PodInit => J
      BY PodStarts, Spans DEF PodInit, Init, Tolerated, ComesUpInTime
<1>2. ComesUpInTime /\ HInv /\ J /\ [PodNext]_podVars => J'
      BY CountedStep, ToleratedStep
<1>3. ComesUpInTime /\ J /\ [PodNext]_podVars => [LivenessProbe /\ LivenessKills => started]_podVars
      BY KillsOnlyStarted
<1> HIDE DEF J
<1>4. CASE ComesUpInTime
      BY <1>1, <1>2, <1>3, <1>4, PodHealthAlways, PTL DEF PodSpec, StartupIsTolerated
<1> QED BY <1>4

-----------------------------------------------------------------------------
(* Which of the two probes gives up first.                                   *)

\* What the health service answers is not a success.
Down == IF ever_ready THEN Exceeded(consecutive_failures) ELSE elapsed >= StartupGrace

\* It has answered with success since the last readiness probe only, and goes on with it
\* until the next: a degradation, or the end of the grace, takes longer.
Brief ==
    IF ever_ready
    THEN consecutive_failures + ready_due + (IF since_probe > 0 THEN 1 ELSE 0) <= ReadyPeriod
    ELSE elapsed + ready_due <= ReadyPeriod

\* The time that the liveness probe still gives a service that stays down.
Left == (deploy.live - 1 - live_fails) * LivePeriod + live_due

\* The age of the readiness probe's failures in a row.
Age == ready_fails * ReadyPeriod - ready_due

\* Each crash has cost at most the time the service was not up and one readiness period.
Lost == crashes * (DownMax + ReadyPeriod)

Patience ==
    deploy.live > 0 =>
        /\ live_fails < deploy.live /\ Left <= Life(deploy)
        /\ control # "up" => ~ever_ready /\ elapsed = 0
        /\ ready_fails > 0 => ready_due <= ReadyPeriod

\* While a pod that gets traffic fails readiness probes, either its service has been down
\* all the time and the liveness probe counts as well, or it is about to pass the next
\* readiness probe, or it is not up, for as long as a crash takes.
Evicted ==
    deploy.live > 0 /\ deploy.ready > 0 /\ routed /\ ready_fails > 0 =>
        /\ control = "up" /\ Down => Age + Left <= Life(deploy)
        /\ control = "up" /\ ~Down =>
              Brief /\ ready_fails * ReadyPeriod <= Life(deploy) + Lost + ReadyPeriod
        /\ control # "up" => Age + (DownMax - down_for) <= Life(deploy) + Lost

LEMMA Product == ASSUME NEW k \in Nat, NEW c \in Nat
                 PROVE  k * c \in Nat /\ (k + 1) * c = k * c + c
OBVIOUS

LEMMA ProductGrows == ASSUME NEW j \in Nat, NEW k \in Nat, NEW c \in Nat, j <= k
                      PROVE  j * c <= k * c
<1>1. PICK d \in Nat : k = j + d
      OBVIOUS
<1>2. k * c = j * c + d * c
      BY <1>1
<1> QED BY <1>2, Product

LEMMA LifeType == ASSUME Counted, deploy.live > 0 PROVE Life(deploy) \in Nat
<1>1. deploy.live - 1 \in Nat
      BY ManifestTypes DEF Counted
<1>2. (deploy.live - 1) * LivePeriod \in Nat
      BY <1>1, Spans, Product
<1> QED BY <1>2, Spans DEF Life

LEMMA LeftType ==
    ASSUME Counted, Patience, deploy.live > 0
    PROVE  Left \in Nat
<1>1. deploy.live - 1 - live_fails \in Nat /\ live_due \in Nat
      BY ManifestTypes DEF Counted, Patience
<1>2. (deploy.live - 1 - live_fails) * LivePeriod \in Nat
      BY <1>1, Spans, Product
<1> QED BY <1>1, <1>2 DEF Left

LEMMA AgeType == ASSUME Counted PROVE Age \in Int /\ Lost \in Nat /\ ready_fails * ReadyPeriod \in Nat
<1>1. /\ crashes \in Nat /\ DownMax + ReadyPeriod \in Nat /\ ready_fails \in Nat /\ ready_due \in Nat
      BY Spans, ManifestTypes DEF Counted
<1>2. ready_fails * ReadyPeriod \in Nat /\ crashes * (DownMax + ReadyPeriod) \in Nat
      BY <1>1, Spans, Product
<1> QED BY <1>1, <1>2 DEF Age, Lost

LEMMA DeploymentStays == [PodNext]_podVars => deploy' = deploy
BY DEF PodNext, Boots, Probe, OpenScript, WriteScript, WriteFails, ServiceStarts,
       ServiceCrashes, ServiceTicks, RunScript, EngineWorks, EngineEnds, LivenessProbe,
       ReadinessProbe, PodTimePasses, RestartControl, podVars

\* A failing answer of an engine other than sglang.
LEMMA DownIsNoSuccess ==
    ASSUME HInv, ~Sglang
    PROVE  Code \in Success <=> ~Down
<1>1. CASE ~ever_ready
  <2>1. Code = IF elapsed < StartupGrace THEN 201 ELSE 502
        BY <1>1 DEF Code, IsReady
  <2>2. elapsed \in Nat
        BY Spans DEF HInv, TypeOK
  <2> QED BY <1>1, <2>1, <2>2, Spans DEF Down, Success
<1>2. CASE ever_ready
  <2>1. CASE IsReady
    <3>1. Code = 200 /\ status = 1
          BY <2>1 DEF Code, IsReady
    <3>2. ~Exceeded(consecutive_failures)
          BY <3>1 DEF HInv, Machine
    <3> QED BY <1>2, <3>1, <3>2 DEF Down, Success
  <2>2. CASE ~IsReady
    <3>1. Code = IF Exceeded(consecutive_failures) THEN 503 ELSE 200
          BY <1>2, <2>2 DEF Code
    <3> QED BY <1>2, <3>1 DEF Down, Success
  <2> QED BY <2>1, <2>2
<1> QED BY <1>1, <1>2

LEMMA OtherEngine == ASSUME ReadinessWaits, Counted, deploy.live > 0 PROVE ~Sglang
<1>1. backend = "other"
      BY DEF ReadinessWaits, Counted
<1> QED BY <1>1 DEF Sglang

\* What lasts for less than the period of the readiness probe is no outage to the monitor.
LEMMA TooBrief ==
    ASSUME ReadinessWaits, NEW n \in Nat, NEW due \in Nat, NEW p \in 0..1
    PROVE  /\ ~(n + due + p <= ReadyPeriod /\ n >= FailThreshold /\ n >= FailGrace)
           /\ ~(n + due <= ReadyPeriod /\ n >= StartupGrace)
<1>1. /\ ReadyPeriod < StartupGrace
      /\ ReadyPeriod < FailThreshold \/ ReadyPeriod < FailGrace
      BY DEF ReadinessWaits
<1> QED BY <1>1, Spans

LEMMA PatienceStep ==
    ASSUME HInv, Counted, Patience, [PodNext]_podVars
    PROVE  Patience'
<1> SUFFICES ASSUME deploy'.live > 0
             PROVE  /\ live_fails' < deploy'.live /\ Left' <= Life(deploy')
                    /\ control' # "up" => ~ever_ready' /\ elapsed' = 0
                    /\ ready_fails' > 0 => ready_due' <= ReadyPeriod
    BY DEF Patience
<1>1. deploy' = deploy
      BY DeploymentStays
<1>2. /\ deploy.live \in Nat /\ deploy.live > 0 /\ live_fails < deploy.live
      /\ live_fails \in Nat /\ live_due \in Nat /\ ready_due \in Nat /\ ready_fails \in Nat
      /\ Left \in Nat /\ Life(deploy) \in Nat /\ Left <= Life(deploy)
      /\ control # "up" => ~ever_ready /\ elapsed = 0
      /\ ready_fails > 0 => ready_due <= ReadyPeriod
      BY <1>1, ManifestTypes, LeftType, LifeType DEF Counted, Patience
<1>3. \A f \in 0..(deploy.live - 1) :
        /\ (deploy.live - 1 - f) * LivePeriod \in Nat
        /\ f < deploy.live - 1 =>
             (deploy.live - 1 - f) * LivePeriod = (deploy.live - 1 - (f + 1)) * LivePeriod + LivePeriod
  <2> SUFFICES ASSUME NEW f \in 0..(deploy.live - 1)
               PROVE  /\ (deploy.live - 1 - f) * LivePeriod \in Nat
                      /\ f < deploy.live - 1 =>
                           (deploy.live - 1 - f) * LivePeriod
                             = (deploy.live - 1 - (f + 1)) * LivePeriod + LivePeriod
      OBVIOUS
  <2>1. deploy.live - 1 - f \in Nat /\ f \in Nat
        BY <1>2
  <2>2. CASE f < deploy.live - 1
    <3>1. PICK k \in Nat : k = deploy.live - 1 - (f + 1)
          BY <1>2, <2>1, <2>2
    <3>2. deploy.live - 1 - f = k + 1
          BY <1>2, <2>1, <3>1
    <3> QED BY <3>1, <3>2, <2>1, Product, Spans
  <2> QED BY <2>1, <2>2, Product, Spans
<1>4. Life(deploy) >= (deploy.live - 1) * LivePeriod + LivePeriod
      /\ Life(deploy) >= (deploy.live - 1) * LivePeriod + LiveDelay
  <2>1. (deploy.live - 1 - 0) * LivePeriod \in Nat
        BY <1>2, <1>3
  <2>2. deploy.live - 1 - 0 = deploy.live - 1
        BY <1>2
  <2> QED BY <2>1, <2>2, Spans DEF Life
<1>5. ASSUME live_fails' = 0, live_due' <= LivePeriod \/ live_due' <= LiveDelay, live_due' \in Nat
      PROVE  live_fails' < deploy.live /\ Left' <= Life(deploy)
  <2>1. Left' = (deploy.live - 1) * LivePeriod + live_due'
        BY <1>1, <1>2, <1>5 DEF Left
  <2>2. (deploy.live - 1) * LivePeriod \in Nat
        BY <1>2, Spans, Product
  <2> QED BY <1>2, <1>4, <1>5, <2>1, <2>2, Spans
<1>6. ASSUME UNCHANGED <<live_fails, live_due>>
      PROVE  live_fails' < deploy.live /\ Left' <= Life(deploy)
      BY <1>1, <1>2, <1>6 DEF Left
<1>7. CASE RestartControl
  <2>1. /\ live_fails' = 0 /\ live_due' = LiveDelay /\ ready_fails' = 0
        /\ ever_ready' = FALSE /\ elapsed' = 0
        BY <1>7 DEF RestartControl, ForgetHealth
  <2> QED BY <1>1, <1>5, <2>1, Spans
<1>8. CASE OpenScript \/ WriteScript \/ ServiceStarts
      BY <1>1, <1>2, <1>6, <1>8 DEF OpenScript, WriteScript, ServiceStarts, vars, h, ages, probes
<1>9. CASE ServiceCrashes
  <2>1. /\ UNCHANGED <<live_fails, live_due, ready_fails, ready_due>>
        /\ ever_ready' = FALSE /\ elapsed' = 0
        BY <1>9 DEF ServiceCrashes, ForgetHealth, probes
  <2> QED BY <1>1, <1>2, <1>6, <2>1
<1>10. CASE ServiceTicks
  <2>1. UNCHANGED <<live_fails, live_due, ready_fails, ready_due, control>> /\ control = "up"
        BY <1>10 DEF ServiceTicks, probes
  <2> QED BY <1>1, <1>2, <1>6, <2>1
<1>11. CASE RunScript \/ EngineWorks \/ EngineEnds \/ UNCHANGED podVars
      BY <1>1, <1>2, <1>6, <1>11 DEF RunScript, EngineWorks, EngineChanges, EngineEnds, vars, h,
                                     ages, probes, launcher, podVars
<1>12. CASE LivenessProbe /\ ~LivenessKills
  <2>1. /\ live_due = 0 /\ live_due' = LivePeriod
        /\ live_fails' = IF LiveOk THEN 0 ELSE live_fails + 1
        /\ LiveOk \/ live_fails + 1 < deploy.live
        /\ UNCHANGED <<ever_ready, elapsed, control, ready_fails, ready_due>>
        BY <1>2, <1>12 DEF LivenessProbe, LivenessKills, vars, h, ages, launcher
  <2>2. CASE LiveOk
        BY <1>1, <1>2, <1>5, <2>1, <2>2, Spans
  <2>3. CASE ~LiveOk
    <3>1. live_fails' = live_fails + 1 /\ live_fails' < deploy.live
          BY <2>1, <2>3
    <3>2. Left' = (deploy.live - 1 - (live_fails + 1)) * LivePeriod + LivePeriod
          BY <1>1, <2>1, <3>1 DEF Left
    <3>3. Left = (deploy.live - 1 - live_fails) * LivePeriod
          BY <1>2, <1>3, <2>1 DEF Left
    <3>4. Left' = Left
          BY <1>2, <1>3, <3>1, <3>2, <3>3
    <3> QED BY <1>1, <1>2, <2>1, <3>1, <3>4
  <2> QED BY <2>2, <2>3
<1>13. CASE ReadinessProbe
      BY <1>1, <1>2, <1>6, <1>13, Spans DEF ReadinessProbe, vars, h, ages, launcher
<1>14. CASE PodTimePasses
  <2>1. /\ live_due > 0 /\ live_due' = live_due - 1 /\ UNCHANGED <<control, live_fails, ready_fails>>
        /\ ready_due' <= ready_due
        BY <1>1, <1>2, <1>14 DEF PodTimePasses, RunsDown
  <2>2. control # "up" => ~ever_ready' /\ elapsed' = 0
        BY <1>2, <1>14 DEF PodTimePasses, vars, h, ages
  <2>3. Left' <= Left
    <3>1. (deploy.live - 1 - live_fails) * LivePeriod \in Nat
          BY <1>2, <1>3
    <3> QED BY <1>1, <1>2, <2>1, <3>1 DEF Left
  <2>4. ready_due' \in Int /\ Left' \in Int
    <3>1. (deploy.live - 1 - live_fails) * LivePeriod \in Nat
          BY <1>2, <1>3
    <3> QED BY <1>1, <1>2, <1>14, <2>1, <3>1 DEF Left, PodTimePasses, RunsDown
  <2> QED BY <1>1, <1>2, <2>1, <2>2, <2>3, <2>4, Spans
<1>15. (WriteFails => RestartControl) /\ (LivenessProbe /\ LivenessKills => RestartControl)
       BY DEF WriteFails, LivenessProbe
<1> QED BY <1>7, <1>8, <1>9, <1>10, <1>11, <1>12, <1>13, <1>14, <1>15 DEF PodNext, Boots, Probe

LEMMA EvictedStep ==
    ASSUME ReadinessWaits, HInv, Counted, Patience, Evicted, [PodNext]_podVars
    PROVE  Evicted'
<1> DEFINE Same == UNCHANGED <<ever_ready, consecutive_failures, elapsed, since_probe>>
           Kept == UNCHANGED <<ready_fails, ready_due, live_fails, live_due>>
<1> SUFFICES ASSUME deploy'.live > 0, deploy'.ready > 0, routed', ready_fails' > 0
             PROVE  /\ control' = "up" /\ Down' => Age' + Left' <= Life(deploy')
                    /\ control' = "up" /\ ~Down' =>
                          /\ Brief'
                          /\ ready_fails' * ReadyPeriod <= Life(deploy') + Lost' + ReadyPeriod
                    /\ control' # "up" =>
                          Age' + (DownMax - down_for') <= Life(deploy') + Lost'
    BY DEF Evicted
<1>1. deploy' = deploy
      BY DeploymentStays
<1>2. /\ deploy.live \in Nat /\ deploy.live > 0 /\ deploy.ready \in Nat /\ deploy.ready > 0
      /\ live_fails \in Nat /\ live_due \in Nat /\ ready_due \in Nat /\ ready_fails \in Nat
      /\ Left \in Nat /\ Life(deploy) \in Nat /\ Left <= Life(deploy)
      /\ Age \in Int /\ Lost \in Nat /\ ready_fails * ReadyPeriod \in Nat
      /\ Age = ready_fails * ReadyPeriod - ready_due
      /\ down_for \in Nat /\ down_for <= DownMax /\ DownMax <= Life(deploy)
      BY <1>1, ManifestTypes, LeftType, LifeType, AgeType, Spans
         DEF Counted, Patience, Age, ReadinessWaits
<1>3. /\ consecutive_failures \in Nat /\ elapsed \in Nat /\ since_probe \in Nat
      /\ elapsed <= StartupGrace
      BY Spans, HealthAssumption DEF HInv, TypeOK
<1>4. /\ control # "up" => ~ever_ready /\ elapsed = 0
      /\ ready_fails > 0 => ready_due <= ReadyPeriod
      BY <1>1, <1>2 DEF Patience
<1>5. ready_due' \in Nat
      BY CountedStep DEF Counted
<1>6. Brief' => ~Down'
  <2> SUFFICES ASSUME Brief', Down' PROVE FALSE
      OBVIOUS
  <2>1. HInv'
        BY PodHealth
  <2>2. /\ consecutive_failures' \in Nat /\ elapsed' \in Nat
        BY <2>1, Spans DEF HInv, TypeOK
  <2>3. CASE ever_ready'
    <3>1. PICK p \in 0..1 : p = IF since_probe' > 0 THEN 1 ELSE 0
          OBVIOUS
    <3>2. /\ consecutive_failures' >= FailThreshold /\ consecutive_failures' >= FailGrace
          /\ consecutive_failures' + ready_due' + p <= ReadyPeriod
          BY <2>3, <3>1 DEF Brief, Down, Exceeded
    <3> QED BY <1>5, <2>2, <3>2, TooBrief
  <2>4. CASE ~ever_ready'
    <3>1. elapsed' >= StartupGrace /\ elapsed' + ready_due' <= ReadyPeriod
          BY <2>4 DEF Brief, Down
    <3> QED BY <1>5, <2>2, <3>1, TooBrief
  <2> QED BY <2>3, <2>4
<1>7. ASSUME routed, ready_fails > 0
      PROVE  /\ control = "up" /\ Down => Age + Left <= Life(deploy)
             /\ control = "up" /\ ~Down =>
                   Brief /\ ready_fails * ReadyPeriod <= Life(deploy) + Lost + ReadyPeriod
             /\ control # "up" => Age + (DownMax - down_for) <= Life(deploy) + Lost
      BY <1>1, <1>7 DEF Evicted
<1>8. ASSUME Same, Kept, UNCHANGED <<crashes, down_for, routed>>,
             control' = control \/ (control # "up" /\ control' # "up")
      PROVE  /\ control' = "up" /\ Down' => Age' + Left' <= Life(deploy')
             /\ control' = "up" /\ ~Down' =>
                   /\ Brief'
                   /\ ready_fails' * ReadyPeriod <= Life(deploy') + Lost' + ReadyPeriod
             /\ control' # "up" => Age' + (DownMax - down_for') <= Life(deploy') + Lost'
  <2>1. /\ Age' = Age /\ Left' = Left /\ Lost' = Lost /\ Down' = Down /\ Brief' = Brief
        /\ ready_fails' = ready_fails
        BY <1>1, <1>8 DEF Age, Left, Lost, Down, Brief, Exceeded
  <2>2. routed /\ ready_fails > 0
        BY <1>8
  <2> QED BY <1>1, <1>7, <1>8, <2>1, <2>2
<1>9. CASE OpenScript \/ WriteScript
      BY <1>8, <1>9 DEF OpenScript, WriteScript, vars, h, ages, probes
<1>10. CASE ServiceStarts
  <2>1. /\ Same /\ Kept /\ UNCHANGED <<crashes, routed>> /\ control' = "up" /\ control = "starting"
        BY <1>10 DEF ServiceStarts, vars, h, ages, probes
  <2>2. routed /\ ready_fails > 0
        BY <2>1
  <2>3. Brief'
        BY <1>4, <2>1, <2>2, <1>2 DEF Brief
  <2>4. Age <= Life(deploy) + Lost
        BY <1>2, <1>7, <2>1, <2>2, Spans
  <2>5. ready_fails' * ReadyPeriod <= Life(deploy') + Lost' + ReadyPeriod
    <3>1. ready_fails' * ReadyPeriod = ready_fails * ReadyPeriod /\ Lost' = Lost
          BY <2>1 DEF Lost
    <3> QED BY <1>1, <1>2, <1>4, <2>2, <2>4, <3>1, Spans
  <2> QED BY <1>6, <2>1, <2>3, <2>5
<1>11. CASE ServiceCrashes
  <2>1. /\ Kept /\ UNCHANGED routed /\ control = "up" /\ control' = "starting"
        /\ down_for' = 0 /\ crashes' = crashes + 1
        BY <1>11 DEF ServiceCrashes, probes
  <2>2. routed /\ ready_fails > 0
        BY <2>1
  <2>3. Age <= Life(deploy) + Lost + ReadyPeriod
        BY <1>2, <1>7, <2>1, <2>2, Spans
  <2>4. Age' = Age
        BY <2>1 DEF Age
  <2>5. Lost' = Lost + (DownMax + ReadyPeriod)
    <3>1. crashes \in Nat
          BY <1>1, ManifestTypes DEF Counted
    <3> QED BY <2>1, <3>1, Product, Spans DEF Lost
  <2> QED BY <1>1, <1>2, <2>1, <2>3, <2>4, <2>5, Spans
<1>12. CASE ServiceTicks
  <2>1. /\ Kept /\ UNCHANGED <<routed, crashes>> /\ control = "up" /\ control' = "up" /\ Tick
        BY <1>12 DEF ServiceTicks, probes
  <2>2. routed /\ ready_fails > 0
        BY <2>1
  <2>3. /\ Age' = Age /\ Left' = Left /\ Lost' = Lost
        /\ ready_fails' * ReadyPeriod = ready_fails * ReadyPeriod
        BY <1>1, <2>1 DEF Age, Left, Lost
  <2>4. since_probe > 0 /\ since_probe' = 0 /\ elapsed' = elapsed /\ Advance(engine = "ok")
        BY <2>1 DEF Tick
  <2>5. ready_fails * ReadyPeriod <= Life(deploy) + Lost + ReadyPeriod
    <3>1. CASE Down
      <4>1. Age <= Life(deploy)
            BY <1>2, <1>7, <2>1, <2>2, <3>1
      <4> QED BY <1>2, <1>4, <2>2, <4>1, Spans
    <3>2. CASE ~Down
          BY <1>7, <2>1, <2>2, <3>2
    <3> QED BY <3>1, <3>2
  <2>6. CASE engine = "ok"
    <3>1. ever_ready' = TRUE /\ consecutive_failures' = 0
          BY <2>4, <2>6 DEF Advance
    <3>2. Brief'
          BY <1>2, <1>4, <2>1, <2>2, <2>4, <3>1, Spans DEF Brief
    <3> QED BY <1>1, <1>6, <2>1, <2>3, <2>5, <3>2
  <2>7. CASE engine # "ok"
    <3>1. /\ ever_ready' = ever_ready
          /\ consecutive_failures' =
                IF status = 1 THEN consecutive_failures + 1 ELSE consecutive_failures
          BY <2>4, <2>7 DEF Advance
    <3>2. CASE Down
      <4>1. Down'
        <5>1. CASE ever_ready
          <6>1. status # 1
                BY <3>2, <5>1 DEF HInv, Machine, Down
          <6> QED BY <3>1, <3>2, <5>1, <6>1 DEF Down, Exceeded
        <5>2. CASE ~ever_ready
              BY <2>4, <3>1, <3>2, <5>2 DEF Down
        <5> QED BY <5>1, <5>2
      <4> QED BY <1>1, <1>7, <2>1, <2>2, <2>3, <3>2, <4>1
    <3>3. CASE ~Down
      <4>1. Brief
            BY <1>7, <2>1, <2>2, <3>3
      <4>2. Brief'
            BY <1>2, <1>3, <2>1, <2>4, <3>1, <4>1, Spans DEF Brief
      <4> QED BY <1>1, <1>6, <2>1, <2>3, <2>5, <4>2
    <3> QED BY <3>2, <3>3
  <2> QED BY <2>6, <2>7
<1>13. CASE RunScript \/ EngineWorks \/ EngineEnds \/ UNCHANGED podVars
       BY <1>8, <1>13 DEF RunScript, EngineWorks, EngineChanges, EngineEnds, vars, h, ages,
                          launcher, probes, podVars
<1>14. CASE LivenessProbe /\ ~LivenessKills
  <2>1. /\ Same /\ UNCHANGED <<control, ready_fails, ready_due, crashes, down_for, routed>>
        /\ live_due = 0 /\ live_due' = LivePeriod
        /\ live_fails' = IF LiveOk THEN 0 ELSE live_fails + 1
        /\ LiveOk \/ live_fails + 1 < deploy.live
    <3>1. /\ live_due = 0 /\ live_due' = LivePeriod
          /\ live_fails' = IF LiveOk THEN 0 ELSE live_fails + 1
          /\ UNCHANGED <<vars, deploy, launcher, container, ready_due, ready_fails, routed>>
          BY <1>14 DEF LivenessProbe
    <3>2. LiveOk \/ ~(live_fails + 1 >= deploy.live)
          BY <1>14, <3>1 DEF LivenessKills
    <3>3. ~(live_fails + 1 >= deploy.live) => live_fails + 1 < deploy.live
          BY <1>2
    <3> QED BY <3>1, <3>2, <3>3 DEF vars, h, ages, launcher
  <2>2. /\ Age' = Age /\ Lost' = Lost /\ Down' = Down /\ Brief' = Brief
        BY <1>1, <2>1 DEF Age, Lost, Down, Brief, Exceeded
  <2>3. routed /\ ready_fails > 0
        BY <2>1
  <2>4. ASSUME control = "up", Down PROVE Left' = Left
    <3>1. ~LiveOk
          BY <1>1, <2>4, OtherEngine, DownIsNoSuccess DEF LiveOk, Answers
    <3>2. live_fails' = live_fails + 1 /\ live_fails' < deploy.live
          BY <2>1, <3>1
    <3>3. PICK k \in Nat : k = deploy.live - 1 - (live_fails + 1)
          BY <1>2, <3>2
    <3>4. deploy.live - 1 - live_fails = k + 1
          BY <1>2, <3>3
    <3>5. (k + 1) * LivePeriod = k * LivePeriod + LivePeriod /\ (k + 1) * LivePeriod \in Nat
          BY Product, Spans
    <3>6. Left = (k + 1) * LivePeriod
          BY <2>1, <3>4, <3>5 DEF Left
    <3>7. Left' = k * LivePeriod + LivePeriod
          BY <1>1, <2>1, <3>2, <3>3 DEF Left
    <3> QED BY <3>5, <3>6, <3>7
  <2> QED BY <1>1, <1>7, <2>1, <2>2, <2>3, <2>4
<1>15. CASE ReadinessProbe
  <2>1. /\ Same /\ UNCHANGED <<deploy, control, crashes, down_for, live_fails, live_due>>
        /\ ready_due = 0 /\ ready_due' = ReadyPeriod
        BY <1>15 DEF ReadinessProbe, vars, h, ages, launcher
  <2>2. /\ ~Answers(Success)
        /\ ready_fails' = AtMost(ready_fails + 1, deploy.ready)
        /\ routed /\ ready_fails' < deploy.ready
    <3>1. ready_fails' # 0
          OBVIOUS
    <3>2. ~Answers(Success)
          BY <1>15, <3>1 DEF ReadinessProbe
    <3> QED BY <1>1, <1>15, <3>2 DEF ReadinessProbe
  <2>3. ready_fails' = ready_fails + 1
        BY <1>2, <2>2 DEF AtMost
  <2>4. Left' = Left /\ Lost' = Lost /\ Down' = Down
        BY <2>1 DEF Left, Lost, Down, Exceeded
  <2>5. Age' = ready_fails * ReadyPeriod
    <3>1. (ready_fails + 1) * ReadyPeriod = ready_fails * ReadyPeriod + ReadyPeriod
          BY <1>2, Spans, Product
    <3>2. Age' = (ready_fails + 1) * ReadyPeriod - ReadyPeriod
          BY <2>1, <2>3 DEF Age
    <3> QED BY <1>2, <3>1, <3>2, Spans
  <2>6. control = "up" => Down
        BY <1>1, <2>2, OtherEngine, DownIsNoSuccess DEF Answers
  <2>7. CASE ready_fails = 0
    <3>1. Age' = 0
          BY <2>5, <2>7, Spans
    <3> QED BY <1>1, <1>2, <2>1, <2>4, <2>6, <3>1, Spans
  <2>8. CASE ready_fails > 0
    <3>1. Age' = Age
          BY <1>2, <2>1, <2>5
    <3> QED BY <1>1, <1>7, <2>1, <2>2, <2>4, <2>6, <2>8, <3>1
  <2> QED BY <1>2, <2>7, <2>8
<1>16. CASE PodTimePasses
  <2>1. /\ live_due' = live_due - 1 /\ ready_due' = ready_due - 1
        /\ UNCHANGED <<control, crashes, live_fails, ready_fails, routed>>
        BY <1>1, <1>2, <1>16 DEF PodTimePasses, RunsDown
  <2>2. routed /\ ready_fails > 0
        BY <2>1
  <2>3. Lost' = Lost /\ ready_fails' * ReadyPeriod = ready_fails * ReadyPeriod
        BY <2>1 DEF Lost
  <2>4. Age' = Age + 1
        BY <1>2, <2>1 DEF Age
  <2>5. Left' = Left - 1
    <3>1. deploy.live - 1 - live_fails \in Nat
          BY <1>1, <1>2 DEF Patience
    <3>2. (deploy.live - 1 - live_fails) * LivePeriod \in Nat
          BY <3>1, Product, Spans
    <3> QED BY <1>1, <1>2, <2>1, <3>2 DEF Left
  <2>6. CASE control = "up"
    <3>1. /\ since_probe' = since_probe + 1 /\ UNCHANGED <<ever_ready, consecutive_failures>>
          /\ elapsed' = IF ever_ready THEN elapsed ELSE AtMost(elapsed + 1, StartupGrace)
          BY <1>16, <2>6 DEF PodTimePasses, TimePasses, h
    <3>2. CASE Down
      <4>1. Down'
            BY <1>3, <3>1, <3>2, Spans DEF Down, Exceeded, AtMost
      <4>2. Age + Left <= Life(deploy)
            BY <1>7, <2>2, <2>6, <3>2
      <4> QED BY <1>1, <1>2, <2>1, <2>4, <2>5, <2>6, <4>1, <4>2
    <3>3. CASE ~Down
      <4>1. Brief /\ ready_fails * ReadyPeriod <= Life(deploy) + Lost + ReadyPeriod
            BY <1>7, <2>2, <2>6, <3>3
      <4>2. Brief'
        <5>1. CASE ever_ready
              BY <1>2, <1>3, <2>1, <3>1, <4>1, <5>1, Spans DEF Brief
        <5>2. CASE ~ever_ready
          <6>1. elapsed' \in Nat /\ elapsed' <= elapsed + 1
                BY <1>3, <3>1, <5>2, Spans DEF AtMost
          <6> QED BY <1>2, <1>3, <2>1, <3>1, <4>1, <5>2, <6>1, Spans DEF Brief
        <5> QED BY <5>1, <5>2
      <4> QED BY <1>1, <1>6, <2>1, <2>3, <2>6, <4>1, <4>2
    <3> QED BY <3>2, <3>3
  <2>7. CASE control # "up"
    <3>1. down_for' = down_for + 1
          BY <1>16, <2>7 DEF PodTimePasses
    <3>2. Age + (DownMax - down_for) <= Life(deploy) + Lost
          BY <1>7, <2>2, <2>7
    <3> QED BY <1>1, <1>2, <2>1, <2>3, <2>4, <2>7, <3>1, <3>2, Spans
  <2> QED BY <2>6, <2>7
<1>17. ~RestartControl
       BY DEF RestartControl
<1>18. (WriteFails => RestartControl) /\ (LivenessProbe /\ LivenessKills => RestartControl)
       BY DEF WriteFails, LivenessProbe
<1> QED BY <1>9, <1>10, <1>11, <1>12, <1>13, <1>14, <1>15, <1>16, <1>17, <1>18
        DEF PodNext, Boots, Probe

\* A readiness probe that gives up would have found a service that the liveness probe has
\* restarted before.
LEMMA EvictsByRestart ==
    ASSUME ReadinessWaits, HInv, Counted, Patience, Evicted, [PodNext]_podVars,
           deploy.live > 0, routed, ~routed'
    PROVE  control' = "planning"
<1>1. RestartControl => control' = "planning"
      BY DEF RestartControl
<1>2. ~ReadinessProbe
  <2> SUFFICES ASSUME ReadinessProbe PROVE FALSE
      OBVIOUS
  <2>1. /\ deploy.ready > 0 /\ ready_due = 0 /\ ~Answers(Success)
        /\ ~(AtMost(ready_fails + 1, deploy.ready) < deploy.ready)
        BY DEF ReadinessProbe
  <2>2. /\ deploy.ready \in Nat /\ ready_fails \in Nat /\ Life(deploy) \in Nat
        /\ deploy.crashes \in Nat /\ crashes \in Nat /\ crashes <= deploy.crashes
        /\ Lost \in Nat /\ Age \in Int /\ Left \in Nat /\ ready_fails * ReadyPeriod \in Nat
        /\ down_for \in Nat /\ down_for <= DownMax
        BY ManifestTypes, LifeType, AgeType, LeftType, Spans DEF Counted
  <2>3. ready_fails + 1 >= deploy.ready
        BY <2>1, <2>2 DEF AtMost
  <2>4. (deploy.ready - 1) * ReadyPeriod > Life(deploy) + deploy.crashes * (DownMax + ReadyPeriod)
        BY <2>1 DEF ReadinessWaits, Counted
  <2>5. deploy.crashes * (DownMax + ReadyPeriod) >= Lost
        /\ deploy.crashes * (DownMax + ReadyPeriod) \in Nat
    <3>1. DownMax + ReadyPeriod \in Nat
          BY Spans
    <3> QED BY <2>2, <3>1, Product, ProductGrows DEF Lost
  <2>6. PICK k \in Nat : k = deploy.ready - 1
        BY <2>1, <2>2
  <2>7. k * ReadyPeriod <= ready_fails * ReadyPeriod /\ k * ReadyPeriod \in Nat
        BY <2>2, <2>3, <2>6, ProductGrows, Product, Spans
  <2>8. ready_fails * ReadyPeriod > Life(deploy) + Lost
        BY <2>2, <2>4, <2>5, <2>6, <2>7
  <2>9. ready_fails > 0
        BY <2>2, <2>8, Spans
  <2>10. Age = ready_fails * ReadyPeriod
         BY <2>1, <2>2 DEF Age
  <2>11. CASE control = "up"
    <3>1. Down
          BY <2>1, <2>11, OtherEngine, DownIsNoSuccess DEF Answers
    <3>2. Age + Left <= Life(deploy)
          BY <2>1, <2>9, <2>11, <3>1 DEF Evicted
    <3> QED BY <2>2, <2>8, <2>10, <3>2
  <2>12. CASE control # "up"
    <3>1. Age + (DownMax - down_for) <= Life(deploy) + Lost
          BY <2>1, <2>9, <2>12 DEF Evicted
    <3> QED BY <2>2, <2>8, <2>10, <3>1, Spans
  <2> QED BY <2>11, <2>12
<1>3. LivenessProbe => RestartControl \/ routed' = routed
      BY DEF LivenessProbe
<1>4. WriteFails => RestartControl
      BY DEF WriteFails
<1> QED BY <1>1, <1>2, <1>3, <1>4
        DEF PodNext, Boots, Probe, OpenScript, WriteScript, ServiceStarts, ServiceCrashes,
            ServiceTicks, RunScript, EngineWorks, EngineEnds, PodTimePasses, launcher, probes,
            podVars

\* Where there is a liveness probe, it is the restart by it that takes the traffic off a
\* pod, whatever the engine and the monitor do and whenever the service crashes: the
\* readiness probe of the manifests waits for longer than the liveness probe has patience
\* and the crashes can add, and no answer in between is too short for it to see.
THEOREM RestartComesFirst == ReadinessWaits /\ PodSpec => EvictedByRestart
<1> DEFINE J == Counted /\ Patience /\ Evicted
<1>1. ReadinessWaits /\ PodInit => J
  <2> SUFFICES ASSUME PodInit PROVE Counted /\ Patience /\ Evicted
      OBVIOUS
  <2>1. Counted
        BY PodStarts
  <2>2. /\ live_fails = 0 /\ live_due = LiveDelay /\ ready_fails = 0 /\ ~ever_ready /\ elapsed = 0
        BY DEF PodInit, Init
  <2>3. ASSUME deploy.live > 0 PROVE live_fails < deploy.live /\ Left <= Life(deploy)
    <3>1. PICK k \in Nat : k = deploy.live - 1
          BY <2>1, <2>3, ManifestTypes DEF Counted
    <3>2. k * LivePeriod \in Nat /\ deploy.live \in Nat
          BY <2>1, Product, Spans, ManifestTypes DEF Counted
    <3>3. Left = k * LivePeriod + LiveDelay
          BY <2>2, <3>1, <3>2 DEF Left
    <3> QED BY <2>2, <2>3, <3>1, <3>2, <3>3, Spans DEF Life
  <2>4. Patience /\ Evicted
        BY <2>2, <2>3 DEF Patience, Evicted
  <2> QED BY <2>1, <2>4
<1>2. ReadinessWaits /\ HInv /\ J /\ [PodNext]_podVars => J'
      BY CountedStep, PatienceStep, EvictedStep
<1>3. ReadinessWaits /\ HInv /\ J /\ [PodNext]_podVars =>
         [deploy.live > 0 /\ routed /\ ~routed' => control' = "planning"]_podVars
      BY EvictsByRestart
<1> HIDE DEF J
<1>4. CASE ReadinessWaits
      BY <1>1, <1>2, <1>3, <1>4, PodHealthAlways, PTL DEF PodSpec, EvictedByRestart
<1> QED BY <1>4
=============================================================================
