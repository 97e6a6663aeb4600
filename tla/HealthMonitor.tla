---------------------------- MODULE HealthMonitor ----------------------------
(***************************************************************************)
(* wings_control/proxy/health_router.py: the loop that probes the engine's *)
(* /health and the state h that /health of the proxy and of the health     *)
(* service is answered from.  The gateway process and the health service   *)
(* each run one instance, with its own h.                                  *)
(*                                                                         *)
(* Time passes in units of HEALTH_TIMEOUT_MS.  A request may read h at any *)
(* moment between two probes, so time passes in steps of its own and the   *)
(* ages kept here saturate at the largest value the code compares them to. *)
(* Weights and scores are in quarters: 1.0 is 4.                           *)
(***************************************************************************)
EXTENDS Integers

CONSTANTS
    Backends,          \* the engines considered: "sglang" and the "other" ones
    PidAlive,          \* the engine's PID is visible; FALSE in a sidecar
    FailThreshold,     \* FAIL_THRESHOLD
    FailGrace,         \* FAIL_GRACE_MS / HEALTH_TIMEOUT_MS
    StartupGrace,      \* STARTUP_GRACE_MS / HEALTH_TIMEOUT_MS
    FailBudget,        \* SGLANG_FAIL_BUDGET, in quarters
    SilenceMax,        \* SGLANG_SILENCE_MAX_MS / HEALTH_TIMEOUT_MS
    PidGrace,          \* SGLANG_PID_GRACE_MS / HEALTH_TIMEOUT_MS
    TimeoutMax,        \* SGLANG_CONSEC_TIMEOUT_MAX
    ProbeGap,          \* the longest time between two probe results
    ScoreBound         \* where this model stops counting a score

ASSUME HealthAssumption ==
    /\ Backends \subseteq {"sglang", "other"} /\ PidAlive \in BOOLEAN
    /\ {FailThreshold, FailGrace, StartupGrace, SilenceMax, TimeoutMax, ProbeGap}
         \subseteq Nat \ {0}
    /\ {FailBudget, PidGrace, ScoreBound} \subseteq Nat

\* What a probe may find: the engine is healthy, refuses the connection, does not
\* complete it, does not answer, answers 503, another 5xx, or any other code.  (Any
\* other error of the client weighs as much as http_5xx, which stands for it.)
Probes == {"ok", "connect_error", "connect_timeout", "read_timeout",
           "http_503", "http_5xx", "http_other"}

VARIABLES
    backend,     \* the engine in use, which the second line of the PID file names
    engine,      \* what a probe finds at this moment
    status,      \* h["status"]: 0 starting, 1 ready, -1 degraded
    ever_ready, backend_ok, consecutive_failures,
    fail_score, accum_fail_ms, consecutive_timeouts,
    elapsed,     \* time since first_seen
    since_ok,    \* time since last_success_ts
    since_probe, \* time since the last probe result
    missed       \* history: probes that failed since the last good one

h == <<status, ever_ready, backend_ok, consecutive_failures,
       fail_score, accum_fail_ms, consecutive_timeouts>>
ages == <<elapsed, since_ok, since_probe>>
vars == <<backend, engine, h, ages, missed>>

Sglang == backend = "sglang"   \* _is_sglang()

\* Only sglang is judged by the kind of a failure: connect_error stands for all others.
Found == IF Sglang THEN Probes ELSE {"ok", "connect_error"}
AtMost(x, bound) == IF x < bound THEN x ELSE bound
Oldest == SilenceMax + PidGrace

Init ==
    /\ backend \in Backends
    /\ engine \in Found
    /\ status = 0 /\ ever_ready = FALSE /\ backend_ok = FALSE
    /\ consecutive_failures = 0
    /\ fail_score = 0 /\ accum_fail_ms = 0 /\ consecutive_timeouts = 0
    /\ elapsed = 0 /\ since_ok = 0 /\ since_probe = 0
    /\ missed = 0

-----------------------------------------------------------------------------
EngineChanges ==
    /\ engine' \in Found \ {engine}
    /\ UNCHANGED <<backend, h, ages, missed>>

\* The loop sleeps and the probe is under way; a timeout bounds the probe.  Ages that
\* no verdict looks at any more stand still.
TimePasses ==
    /\ since_probe < ProbeGap
    /\ since_probe' = since_probe + 1
    /\ elapsed' = IF ever_ready THEN elapsed ELSE AtMost(elapsed + 1, StartupGrace)
    /\ since_ok' = IF Sglang THEN AtMost(since_ok + 1, Oldest) ELSE since_ok
    /\ UNCHANGED <<backend, engine, h, missed>>

-----------------------------------------------------------------------------
\* _advance_state_machine and _should_degrade
Exceeded(failures) == failures >= FailThreshold /\ failures >= FailGrace

AdvanceKeepsCount(ok) ==
    IF ok
    THEN /\ status' = 1 /\ ever_ready' = TRUE
         /\ since_ok' = 0
         /\ UNCHANGED consecutive_failures
    ELSE /\ consecutive_failures' =
              IF status = 1 THEN consecutive_failures + 1 ELSE consecutive_failures
         /\ status' = IF status = 1 /\ Exceeded(consecutive_failures') THEN -1 ELSE status
         /\ UNCHANGED <<ever_ready, since_ok>>

AdvanceOneWay(ok) ==
    IF ok /\ status # -1
    THEN /\ status' = 1 /\ ever_ready' = TRUE
         /\ consecutive_failures' = 0
         /\ since_ok' = 0
    ELSE /\ consecutive_failures' =
              IF status = 1 THEN consecutive_failures + 1 ELSE consecutive_failures
         /\ status' = IF status = 1 /\ Exceeded(consecutive_failures') THEN -1 ELSE status
         /\ UNCHANGED <<ever_ready, since_ok>>

AdvanceRestartsCount(ok) ==
    IF ok
    THEN /\ status' = 1 /\ ever_ready' = TRUE
         /\ consecutive_failures' = 0
         /\ since_ok' = 0
    ELSE LET n == consecutive_failures + 1
             degrade == status = 1 /\ Exceeded(n) IN
         /\ consecutive_failures' =
              IF degrade THEN 0 ELSE IF status = 1 THEN n ELSE consecutive_failures
         /\ status' = IF degrade THEN -1 ELSE status
         /\ UNCHANGED <<ever_ready, since_ok>>

Advance(ok) ==
    IF ok
    THEN /\ status' = 1 /\ ever_ready' = TRUE
         /\ consecutive_failures' = 0
         /\ since_ok' = 0
    ELSE /\ consecutive_failures' =
              IF status = 1 THEN consecutive_failures + 1 ELSE consecutive_failures
         /\ status' = IF status = 1 /\ Exceeded(consecutive_failures') THEN -1 ELSE status
         /\ UNCHANGED <<ever_ready, since_ok>>

\* _sglang_weight, _sglang_pid_grace, and the latency of a failed probe in units
\* of the timeout: an answer may take any time up to it, a refusal takes none.
Weight(p) ==
    CASE p \in {"connect_error", "http_503"} -> 4
      [] p = "connect_timeout" -> 3
      [] p = "http_5xx" -> 2
      [] p = "read_timeout" -> 1
      [] p = "http_other" -> 0
Latencies(p) ==
    CASE p = "connect_error" -> {0}
      [] p \in {"connect_timeout", "read_timeout"} -> {1}
      [] OTHER -> {0, 1}
InPidGrace(p) == PidAlive /\ p = "read_timeout" /\ ever_ready /\ since_ok <= PidGrace

\* _handle_sglang_specifics.  int() of the decayed duration rounds down, and so
\* does the decay of the score here; both stop at ScoreBound.
SglangSpecifics(p) ==
    /\ consecutive_timeouts' =
         CASE p = "ok" -> 0
           [] p = "read_timeout" -> AtMost(consecutive_timeouts + 1, TimeoutMax)
           [] OTHER -> consecutive_timeouts
    /\ IF p = "ok"
       THEN /\ fail_score' = fail_score \div 2
            /\ accum_fail_ms' = accum_fail_ms \div 2
       ELSE \E latency \in Latencies(p) :
              LET w == IF InPidGrace(p) THEN 0 ELSE Weight(p) IN
              /\ fail_score' = AtMost(fail_score + w, ScoreBound)
              /\ accum_fail_ms' = AtMost(accum_fail_ms + w * latency, ScoreBound)

\* tick_observe_and_advance
Tick ==
    /\ since_probe > 0
    /\ since_probe' = 0
    /\ backend_ok' = (engine = "ok")
    /\ Advance(engine = "ok")
    /\ IF Sglang THEN SglangSpecifics(engine)
                 ELSE UNCHANGED <<fail_score, accum_fail_ms, consecutive_timeouts>>
    /\ missed' = IF engine = "ok" THEN 0 ELSE AtMost(missed + 1, FailThreshold + FailGrace)
    /\ UNCHANGED <<backend, engine, elapsed>>

Next == EngineChanges \/ TimePasses \/ Tick

\* The loop never stops: every probe has a timeout and every sleep an end.
Spec == Init /\ [][Next]_vars /\ WF_vars(Tick) /\ WF_vars(TimePasses)

-----------------------------------------------------------------------------
\* map_http_code_from_state
IsReady == backend_ok /\ ever_ready /\ status = 1
SilenceIgnored == FALSE
SilenceHit == since_ok >= SilenceMax
TimeoutsHit == consecutive_timeouts >= TimeoutMax /\ since_ok >= PidGrace
BudgetHit == fail_score >= FailBudget \/ accum_fail_ms >= 4 * FailGrace

Code ==
    CASE IsReady -> 200
      [] ~IsReady /\ ~ever_ready -> IF elapsed < StartupGrace THEN 201 ELSE 502
      [] OTHER -> IF \/ Sglang /\ (SilenceHit \/ TimeoutsHit \/ BudgetHit)
                     \/ ~Sglang /\ Exceeded(consecutive_failures)
                  THEN 503 ELSE 200

-----------------------------------------------------------------------------
\* The counters stay within what the code can reach: a count of failures stops at
\* the thresholds, because a degraded engine is not counted any further.
TypeOK ==
    /\ backend \in Backends /\ engine \in Probes /\ status \in {-1, 0, 1}
    /\ ever_ready \in BOOLEAN /\ backend_ok \in BOOLEAN
    /\ consecutive_failures \in Nat
    /\ consecutive_failures <= FailThreshold \/ consecutive_failures <= FailGrace
    /\ fail_score \in 0..ScoreBound /\ accum_fail_ms \in 0..ScoreBound
    /\ consecutive_timeouts \in 0..TimeoutMax
    /\ elapsed \in 0..StartupGrace /\ since_ok \in 0..Oldest /\ since_probe \in 0..ProbeGap

\* The two verdicts agree: an engine that was ready once is reported 503 exactly
\* while the state machine calls it degraded (docs/architecture.md lines 121-128).
VerdictsAgree == ever_ready => (Code = 503 <=> status = -1)

\* They do for every engine but sglang, which is judged by scores of its own.
DegradedIs503 == ~Sglang => VerdictsAgree

\* Any other engine that was ready is not reported down before FAIL_THRESHOLD probes
\* in a row, spanning FAIL_GRACE_MS, have failed (_should_degrade).
NoFalseAlarm == ~Sglang /\ Code = 503 => Exceeded(missed)

\* One failed probe after a good one is not enough: sglang is judged more
\* tolerantly than the other engines, not less (comment at line 27).
NoSingleBlip == Code = 503 => missed > 1

\* An engine that stays unhealthy, in whatever way, is reported down for good,
\* whether it was ever ready (503) or not (502 after STARTUP_GRACE_MS).
Detects == <>[](engine # "ok") => <>[](Code \in {502, 503})

\* An engine that stays healthy is reported ready for good, however long it was
\* down or starting before.
Recovers == <>[](engine = "ok") => <>[](Code = 200)
=============================================================================
