----------------------------- MODULE Supervisor -----------------------------
(***************************************************************************)
(* wings_control/wings_control.py: the launcher's guard loop.  It starts   *)
(* the proxy and the health service, polls them every PROCESS_POLL_SEC,    *)
(* starts a process that exited again, with an exponential backoff after a *)
(* run that was too short, and stops them all on SIGTERM or SIGINT.  The   *)
(* three roles run the same loop over different processes.                 *)
(*                                                                         *)
(* Time passes while the loop sleeps, one unit per round.  A child may     *)
(* exit at any moment.  The signal handler is installed when the loop      *)
(* begins; an earlier signal is not modelled (the launcher is PID 1 of its *)
(* container there, and ignores a signal it has no handler for).           *)
(***************************************************************************)
EXTENDS Integers, Sequences

CONSTANTS
    Procs,          \* the managed processes, in the order they are polled
    CrashThreshold, \* crash_threshold_sec, in rounds
    MaxBackoff,     \* max_backoff_sec, in rounds
    CountBound,     \* where this model stops counting crashes
    SpawnMayFail    \* Popen may raise OSError

Names == {Procs[i] : i \in DOMAIN Procs}

ASSUME SupervisorAssumption ==
    /\ Procs \in Seq(Names) /\ Len(Procs) > 0
    /\ CrashThreshold \in Nat \ {0} /\ MaxBackoff \in Nat /\ CountBound \in Nat \ {0}
    /\ 2 ^ CountBound >= MaxBackoff
    /\ SpawnMayFail \in BOOLEAN

\* Arithmetic that the proofs take from here: powers of two are naturals and grow.
ASSUME PowersGrow ==
    \A m, n \in 0..CountBound : 2 ^ m \in Nat /\ (m <= n => 2 ^ m <= 2 ^ n)

VARIABLES
    phase,       \* "starting", "polling", "sleeping", "stopping" or "done"
    turn,        \* the process the current loop has come to
    stop_event,  \* set by the signal handler
    proc,        \* proc[p]: the handle is "none", or the child "runs" or is "exited"
    crash_count,
    started,     \* last_start_ts # 0
    uptime,      \* time since last_start_ts, at most CrashThreshold
    backoff,     \* time left until backoff_until
    ran,         \* history: how long the current run has really lasted
    streak,      \* history: runs in a row that were clearly too short
    down         \* history: how long ago the last exit was noticed

clocks == <<uptime, backoff>>
history == <<ran, streak, down>>
vars == <<phase, turn, stop_event, proc, crash_count, started, clocks, history>>

AtMost(x, bound) == IF x < bound THEN x ELSE bound
Backoff(n) == AtMost(2 ^ n, MaxBackoff)
Spawned == IF SpawnMayFail THEN {"runs", "none"} ELSE {"runs"}
Current == Procs[turn]

Init ==
    /\ phase = "starting" /\ turn = 1 /\ stop_event = FALSE
    /\ proc = [p \in Names |-> "none"]
    /\ crash_count = [p \in Names |-> 0] /\ streak = crash_count
    /\ started = [p \in Names |-> FALSE]
    /\ uptime = [p \in Names |-> 0] /\ backoff = uptime /\ ran = uptime /\ down = uptime

-----------------------------------------------------------------------------
\* The loops over the processes: the next one, or what follows the last one.
NextTurn(after) ==
    IF turn < Len(Procs) THEN turn' = turn + 1 /\ UNCHANGED phase
                         ELSE turn' = 1 /\ phase' = after

\* _start: a failed Popen leaves the handle as it was.
Start(p) ==
    /\ \E s \in Spawned : proc' = [proc EXCEPT ![p] = s]
    /\ ran' = [ran EXCEPT ![p] = 0]

\* run(), _run_master_mode(), _run_worker_mode(): the first start of each process
\* does not record a start time.
FirstStart ==
    /\ phase = "starting"
    /\ Start(Current)
    /\ NextTurn("polling")
    /\ UNCHANGED <<stop_event, crash_count, started, clocks, streak, down>>

-----------------------------------------------------------------------------
\* _restart_if_needed
Polling == phase = "polling" /\ NextTurn("sleeping") /\ UNCHANGED stop_event

Nothing ==
    /\ Polling
    /\ proc[Current] = "runs" \/ (proc[Current] = "none" /\ backoff[Current] > 0)
    /\ UNCHANGED <<proc, crash_count, started, clocks, history>>

StampedStart(p) ==
    /\ Start(p)
    /\ started' = [started EXCEPT ![p] = TRUE]
    /\ uptime' = [uptime EXCEPT ![p] = 0]

RespawnGivesUp ==
    /\ Polling
    /\ proc[Current] = "none" /\ backoff[Current] = 0
    /\ crash_count[Current] < CountBound
    /\ StampedStart(Current)
    /\ UNCHANGED <<crash_count, backoff, streak, down>>

Respawn ==
    /\ Polling
    /\ proc[Current] = "none" /\ backoff[Current] = 0
    /\ StampedStart(Current)
    /\ UNCHANGED <<crash_count, backoff, streak, down>>

\* A process whose start time is not recorded counts as having run for 0 s.
MeasuredRun(p) == IF started[p] THEN uptime[p] ELSE 0

\* The exit may have happened up to one round before it is noticed.
Note(p) ==
    /\ streak' = [streak EXCEPT ![p] =
           IF ran[p] + 1 < CrashThreshold THEN AtMost(@ + 1, CountBound) ELSE 0]
    /\ down' = [down EXCEPT ![p] = 0]

CrashNotCounted ==
    /\ Polling
    /\ proc[Current] = "exited" /\ MeasuredRun(Current) < CrashThreshold
    /\ proc' = [proc EXCEPT ![Current] = "none"]
    /\ backoff' = [backoff EXCEPT ![Current] = Backoff(crash_count[Current])]
    /\ Note(Current)
    /\ UNCHANGED <<crash_count, started, uptime, ran>>

CountCrash ==
    /\ Polling
    /\ proc[Current] = "exited" /\ MeasuredRun(Current) < CrashThreshold
    /\ proc' = [proc EXCEPT ![Current] = "none"]
    /\ crash_count' = [crash_count EXCEPT ![Current] = AtMost(@ + 1, CountBound)]
    /\ backoff' = [backoff EXCEPT ![Current] = Backoff(crash_count'[Current])]
    /\ Note(Current)
    /\ UNCHANGED <<started, uptime, ran>>

Forgive ==
    /\ Polling
    /\ proc[Current] = "exited" /\ MeasuredRun(Current) >= CrashThreshold
    /\ crash_count' = [crash_count EXCEPT ![Current] = 0]
    /\ StampedStart(Current)
    /\ Note(Current)
    /\ UNCHANGED backoff

Sleep ==
    /\ phase = "sleeping"
    /\ phase' = IF stop_event THEN "stopping" ELSE "polling"
    /\ uptime' = [p \in Names |-> AtMost(uptime[p] + 1, CrashThreshold)]
    /\ backoff' = [p \in Names |-> IF backoff[p] > 0 THEN backoff[p] - 1 ELSE 0]
    /\ ran' = [p \in Names |-> IF proc[p] = "runs" THEN AtMost(ran[p] + 1, CrashThreshold)
                                                   ELSE ran[p]]
    /\ down' = [p \in Names |-> AtMost(down[p] + 1, MaxBackoff)]
    /\ UNCHANGED <<turn, stop_event, proc, crash_count, started, streak>>

-----------------------------------------------------------------------------
Exits(p) ==
    /\ proc[p] = "runs"
    /\ proc' = [proc EXCEPT ![p] = "exited"]
    /\ UNCHANGED <<phase, turn, stop_event, crash_count, started, clocks, history>>

Signal ==
    /\ phase \in {"polling", "sleeping"} /\ ~stop_event
    /\ stop_event' = TRUE
    /\ UNCHANGED <<phase, turn, proc, crash_count, started, clocks, history>>

StopFirst ==
    /\ phase = "stopping"
    /\ proc' = [proc EXCEPT ![Current] = "none"]
    /\ phase' = "done"
    /\ UNCHANGED <<turn, stop_event, crash_count, started, clocks, history>>

\* _stop, for each process once the loop has ended: SIGTERM, then SIGKILL, and the
\* handle is dropped even if the process did not react to either.
Stop ==
    /\ phase = "stopping"
    /\ proc' = [proc EXCEPT ![Current] = "none"]
    /\ NextTurn("done")
    /\ UNCHANGED <<stop_event, crash_count, started, clocks, history>>

Done == phase = "done" /\ UNCHANGED vars

Loop == FirstStart \/ Nothing \/ Respawn \/ CountCrash \/ Forgive \/ Sleep \/ Stop

Next == Loop \/ Signal \/ Done \/ \E p \in Names : Exits(p)

\* The loop never blocks for long: every wait in it has a timeout.
Spec == Init /\ [][Next]_vars /\ WF_vars(Loop)

\* An error of Popen passes: it does not fail at every attempt for ever.
Respawned(p) == Respawn /\ Current = p /\ proc'[p] = "runs"
FairSpec == Spec /\ \A p \in Names : SF_vars(Respawned(p))

-----------------------------------------------------------------------------
\* Each variable has its type; counters and clocks stop at the bounds of the model.
TypeOK ==
    /\ phase \in {"starting", "polling", "sleeping", "stopping", "done"}
    /\ turn \in DOMAIN Procs /\ stop_event \in BOOLEAN
    /\ proc \in [Names -> {"none", "runs", "exited"}]
    /\ crash_count \in [Names -> 0..CountBound] /\ streak \in [Names -> 0..CountBound]
    /\ started \in [Names -> BOOLEAN]
    /\ uptime \in [Names -> 0..CrashThreshold] /\ ran \in [Names -> 0..CrashThreshold]
    /\ backoff \in [Names -> 0..MaxBackoff] /\ down \in [Names -> 0..MaxBackoff]

\* A process that keeps crashing is started ever more rarely: after its n-th short
\* run in a row it stays down for at least min(2^n, MaxBackoff), whatever became of
\* the counter and the deadline in between (lines 208-215 against 223-244).
CrashLoopBacksOff ==
    [][\A p \in Names : phase = "polling" /\ proc[p] # "runs" /\ proc'[p] = "runs"
          /\ streak'[p] > 0 => down'[p] >= Backoff(streak'[p])]_vars

\* A process that ran for CrashThreshold before it exited has its crash counter
\* reset (docstring of _restart_if_needed, line 203).
StableRunForgiven ==
    [][\A p \in Names : proc[p] = "exited" /\ proc'[p] # "exited" /\ phase = "polling"
          /\ ran[p] >= CrashThreshold => crash_count'[p] = 0]_vars

\* A process that is down is started again, however often it has crashed or could
\* not be started, unless the launcher is told to stop.
Restarted == \A p \in Names : proc[p] # "runs" ~> proc[p] = "runs" \/ stop_event

\* A signal ends the launcher with no process left behind its back.
ShutsDown == stop_event ~> (phase = "done" /\ \A p \in Names : proc[p] = "none")
=============================================================================
