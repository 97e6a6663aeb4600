--------------------------- MODULE SupervisorProofs ---------------------------
(***************************************************************************)
(* A process that keeps crashing is restarted ever more rarely, for any    *)
(* list of processes, any threshold, any bound of the backoff and any      *)
(* behaviour of Popen.  What the loop measures (uptime, crash_count, the   *)
(* deadline of the backoff) is compared with what really happened (ran,    *)
(* streak, down): the measures are never more favourable to the process.   *)
(***************************************************************************)
EXTENDS Supervisor, TLAPS

\* The current round of polling has been past process p.
Polled(p) == phase = "sleeping" \/ \E i \in 1..(turn - 1) : Procs[i] = p

\* The time measured for a run is its real one, but for the round in which its end
\* has not been noticed yet.
UptimeIsReal(p) ==
    started[p] =>
      /\ proc[p] = "runs" => uptime[p] <= ran[p]
      /\ proc[p] = "exited" => uptime[p] <= ran[p] + 1
      /\ proc[p] = "exited" /\ Polled(p) => uptime[p] <= ran[p]

\* Every short run has been counted.
Counted(p) == streak[p] <= crash_count[p]

\* The time a process has been down and the rest of its backoff make up what the
\* number of its short runs calls for.
BackoffLeft(p) ==
    proc[p] = "none" /\ streak[p] > 0 => down[p] + backoff[p] >= Backoff(streak[p])

SInv ==
    /\ TypeOK
    /\ phase = "sleeping" => turn = 1
    /\ phase = "starting" => \A p \in Names : streak[p] = 0 /\ ~started[p]
    /\ phase \in {"polling", "sleeping"} =>
         \A p \in Names : UptimeIsReal(p) /\ Counted(p) /\ BackoffLeft(p)

\* The backoff grows with the number of crashes, up to its bound.
LEMMA BackoffGrows ==
    \A m, n \in 0..CountBound :
      /\ m <= n => Backoff(m) <= Backoff(n)
      /\ Backoff(m) \in 0..MaxBackoff
BY SupervisorAssumption, PowersGrow DEF Backoff, AtMost

\* The processes are numbered from 1, and the bounds are numbers.
LEMMA Sizes ==
    /\ Len(Procs) \in Nat \ {0} /\ DOMAIN Procs = 1..Len(Procs)
    /\ CrashThreshold \in Nat \ {0} /\ MaxBackoff \in Nat /\ CountBound \in Nat \ {0}
<1>1. Procs \in Seq(Names) /\ Len(Procs) > 0
      BY SupervisorAssumption
<1> QED BY <1>1, SupervisorAssumption

LEMMA BackoffTyped == \A n \in 0..CountBound : Backoff(n) \in 0..MaxBackoff
BY BackoffGrows, Sizes

\* Every process has its turn.
LEMMA Turns ==
    /\ \A i \in 1..Len(Procs) : Procs[i] \in Names
    /\ \A p \in Names : \E i \in 1..Len(Procs) : Procs[i] = p
BY Sizes DEF Names

\* The type invariant in three parts: where the loop is, what it has counted, and
\* the clocks.
ControlOK ==
    /\ phase \in {"starting", "polling", "sleeping", "stopping", "done"}
    /\ turn \in 1..Len(Procs) /\ stop_event \in BOOLEAN
    /\ proc \in [Names -> {"none", "runs", "exited"}]

CountsOK ==
    /\ crash_count \in [Names -> 0..CountBound] /\ streak \in [Names -> 0..CountBound]
    /\ started \in [Names -> BOOLEAN]

ClocksOK ==
    /\ uptime \in [Names -> 0..CrashThreshold] /\ ran \in [Names -> 0..CrashThreshold]
    /\ backoff \in [Names -> 0..MaxBackoff] /\ down \in [Names -> 0..MaxBackoff]

LEMMA Types == TypeOK <=> ControlOK /\ CountsOK /\ ClocksOK
<1>1. DOMAIN Procs = 1..Len(Procs)
      BY Sizes
<1> QED BY <1>1, Zenon DEF TypeOK, ControlOK, CountsOK, ClocksOK

\* Nothing is started, counted or waited for at first.
LEMMA SInvInit == Init => SInv
<1> SUFFICES ASSUME Init PROVE SInv
    OBVIOUS
<1> USE Sizes DEF Init
<1>1. ControlOK
  <2>1. turn \in 1..Len(Procs)
        OBVIOUS
  <2> QED BY <2>1 DEF ControlOK
<1>2. CountsOK
      BY DEF CountsOK
<1>3. ClocksOK
      BY DEF ClocksOK
<1>4. phase = "starting" /\ \A p \in Names : streak[p] = 0 /\ ~started[p]
      OBVIOUS
<1> QED BY <1>1, <1>2, <1>3, <1>4, Types DEF SInv

\* A loop over the processes stays among them.
LEMMA Turning ==
    ASSUME ControlOK, NEW after, NextTurn(after)
    PROVE  turn' \in 1..Len(Procs) /\ phase' \in {phase, after}
BY Sizes DEF NextTurn, ControlOK

\* Whose turn it is has a name.
LEMMA CurrentIsNamed == ASSUME ControlOK PROVE Current \in Names
BY Turns DEF Current, ControlOK

\* The handles and the phase keep their types.
LEMMA ControlKept == ASSUME ControlOK, Next PROVE ControlOK'
<1> USE CurrentIsNamed DEF ControlOK
<1>1. ASSUME FirstStart PROVE ControlOK'
      BY <1>1, Turning DEF FirstStart, Start, Spawned
<1>2. ASSUME Nothing PROVE ControlOK'
      BY <1>2, Turning DEF Nothing, Polling
<1>3. ASSUME Respawn \/ Forgive PROVE ControlOK'
      BY <1>3, Turning DEF Respawn, Forgive, StampedStart, Start, Spawned, Polling
<1>4. ASSUME CountCrash PROVE ControlOK'
      BY <1>4, Turning DEF CountCrash, Polling
<1>5. ASSUME Sleep PROVE ControlOK'
      BY <1>5 DEF Sleep
<1>6. ASSUME Stop PROVE ControlOK'
      BY <1>6, Turning DEF Stop
<1>7. ASSUME Signal PROVE ControlOK'
      BY <1>7 DEF Signal
<1>8. ASSUME Done PROVE ControlOK'
      BY <1>8 DEF Done, vars
<1>9. ASSUME NEW p \in Names, Exits(p) PROVE ControlOK'
      BY <1>9 DEF Exits
<1> QED BY <1>1, <1>2, <1>3, <1>4, <1>5, <1>6, <1>7, <1>8, <1>9 DEF Next, Loop

\* The counters keep theirs.
LEMMA CountsKept == ASSUME ControlOK, CountsOK, Next PROVE CountsOK'
<1> USE CurrentIsNamed, Sizes DEF CountsOK
<1>1. ASSUME Respawn PROVE CountsOK'
      BY <1>1 DEF Respawn, StampedStart
<1>2. ASSUME CountCrash PROVE CountsOK'
      BY <1>2 DEF CountCrash, Note, AtMost
<1>3. ASSUME Forgive PROVE CountsOK'
      BY <1>3 DEF Forgive, StampedStart, Note, AtMost
<1>4. ASSUME UNCHANGED <<crash_count, streak, started>> PROVE CountsOK'
      BY <1>4
<1> QED BY <1>1, <1>2, <1>3, <1>4
        DEF Next, Loop, FirstStart, Nothing, Sleep, Stop, Signal, Done, Exits, vars, history

\* The clocks stay within their bounds.
LEMMA ClocksKept == ASSUME ControlOK, CountsOK, ClocksOK, Next PROVE ClocksOK'
<1> USE CurrentIsNamed, Sizes DEF ClocksOK
<1>1. ASSUME FirstStart PROVE ClocksOK'
      BY <1>1 DEF FirstStart, Start, clocks
<1>2. ASSUME Respawn PROVE ClocksOK'
      BY <1>2 DEF Respawn, StampedStart, Start
<1>3. ASSUME CountCrash PROVE ClocksOK'
  <2>1. crash_count'[Current] \in 0..CountBound
        BY <1>3, CountsKept DEF CountsOK, Next, Loop
  <2> QED BY <1>3, <2>1, BackoffTyped DEF CountCrash, Note
<1>4. ASSUME Forgive PROVE ClocksOK'
      BY <1>4 DEF Forgive, StampedStart, Start, Note
<1>5. ASSUME Sleep PROVE ClocksOK'
  <2>1. uptime' \in [Names -> 0..CrashThreshold]
        BY <1>5 DEF Sleep, AtMost
  <2>2. ran' \in [Names -> 0..CrashThreshold]
        BY <1>5 DEF Sleep, AtMost
  <2>3. backoff' \in [Names -> 0..MaxBackoff]
        BY <1>5 DEF Sleep
  <2>4. down' \in [Names -> 0..MaxBackoff]
        BY <1>5 DEF Sleep, AtMost
  <2> QED BY <2>1, <2>2, <2>3, <2>4
<1>6. ASSUME UNCHANGED <<uptime, ran, backoff, down>> PROVE ClocksOK'
      BY <1>6
<1> QED BY <1>1, <1>2, <1>3, <1>4, <1>5, <1>6
        DEF Next, Loop, Nothing, Stop, Signal, Done, Exits, vars, clocks, history

\* The loop has been past a process after a step of polling only if it was past it
\* before or the step was about it.
LEMMA PolledGrows ==
    ASSUME ControlOK, Polling, NEW p \in Names, Polled(p)'
    PROVE  Polled(p) \/ p = Current
<1>1. phase = "polling" /\ NextTurn("sleeping")
      BY DEF Polling
<1>2. turn \in Nat
      BY Sizes DEF ControlOK
<1>3. PICK i \in 1..turn : Procs[i] = p
  <2>1. CASE turn < Len(Procs)
    <3>1. turn' = turn + 1 /\ phase' = "polling"
          BY <1>1, <2>1 DEF NextTurn
    <3> QED BY <1>2, <3>1 DEF Polled
  <2>2. CASE ~(turn < Len(Procs))
    <3>1. turn = Len(Procs)
      <4>1. turn \in 1..Len(Procs) /\ Len(Procs) \in Nat
            BY Sizes DEF ControlOK
      <4> QED BY <2>2, <4>1
    <3> QED BY <3>1, Turns
  <2> QED BY <2>1, <2>2
<1>4. i \in 1..(turn - 1) \/ i = turn
      BY <1>2
<1> QED BY <1>3, <1>4 DEF Polled, Current

\* What a step of polling does to a process whose turn it is not: nothing.
OthersKept(p) ==
    /\ proc'[p] = proc[p] /\ crash_count'[p] = crash_count[p] /\ streak'[p] = streak[p]
    /\ started'[p] = started[p] /\ uptime'[p] = uptime[p] /\ ran'[p] = ran[p]
    /\ backoff'[p] = backoff[p] /\ down'[p] = down[p]

Measures(p) == UptimeIsReal(p) /\ Counted(p) /\ BackoffLeft(p)

\* What holds of a process holds on while the others have their turn.
LEMMA OthersMeasured ==
    ASSUME ControlOK, Polling, NEW p \in Names, p # Current, OthersKept(p), Measures(p)
    PROVE  Measures(p)'
<1>1. Polled(p)' => Polled(p)
      BY PolledGrows
<1>2. UptimeIsReal(p)'
      BY <1>1 DEF OthersKept, Measures, UptimeIsReal
<1>3. Counted(p)' /\ BackoffLeft(p)'
      BY DEF OthersKept, Measures, Counted, BackoffLeft
<1> QED BY <1>2, <1>3 DEF Measures

\* The four steps of polling keep what holds of every process.
LEMMA PollingKept ==
    ASSUME ControlOK, CountsOK, ClocksOK, \A p \in Names : Measures(p),
           Nothing \/ Respawn \/ CountCrash \/ Forgive
    PROVE  \A p \in Names : Measures(p)'
<1>0. PICK c \in Names : c = Current
      BY CurrentIsNamed
<1>1. c \in Names /\ Measures(c)
      OBVIOUS
<1>2. Polling
      BY DEF Nothing, Respawn, CountCrash, Forgive
<1>3. ASSUME NEW p \in Names, p # c PROVE Measures(p)'
  <2>1. OthersKept(p)
        BY <1>0, <1>3 DEF OthersKept, ControlOK, CountsOK, ClocksOK, Nothing, Respawn, CountCrash,
           Forgive, StampedStart, Start, Note, clocks, history
  <2> QED BY <1>0, <1>2, <1>3, <2>1, OthersMeasured
<1>4. Measures(c)'
  <2>0. /\ c \in DOMAIN proc /\ c \in DOMAIN crash_count /\ c \in DOMAIN streak
        /\ c \in DOMAIN started /\ c \in DOMAIN uptime /\ c \in DOMAIN ran
        /\ c \in DOMAIN backoff /\ c \in DOMAIN down
        /\ crash_count[c] \in 0..CountBound /\ streak[c] \in 0..CountBound
        /\ started[c] \in BOOLEAN /\ uptime[c] \in Nat /\ ran[c] \in Nat
        /\ backoff[c] \in Nat /\ down[c] \in Nat
        BY <1>1, Sizes DEF ControlOK, CountsOK, ClocksOK
  <2> USE <1>0, <1>1, <2>0
  <2>1. CASE Nothing
    <3>1. OthersKept(c) /\ proc[c] # "exited"
          BY <2>1 DEF Nothing, OthersKept, clocks, history
    <3> QED BY <3>1 DEF OthersKept, Measures, UptimeIsReal, Counted, BackoffLeft
  <2>2. CASE Respawn
    <3>1. /\ uptime'[c] = 0 /\ ran'[c] = 0 /\ backoff[c] = 0
          /\ proc'[c] \in {"runs", "none"} /\ proc[c] = "none"
          /\ UNCHANGED <<crash_count, backoff, streak, down>>
          BY <2>2 DEF Respawn, StampedStart, Start, Spawned
    <3> QED BY <3>1 DEF Measures, UptimeIsReal, Counted, BackoffLeft
  <2>3. CASE CountCrash
    <3>1. /\ proc'[c] = "none" /\ down'[c] = 0
          /\ crash_count'[c] = AtMost(crash_count[c] + 1, CountBound)
          /\ backoff'[c] = Backoff(crash_count'[c])
          /\ streak'[c] \in {0, AtMost(streak[c] + 1, CountBound)}
          BY <2>3 DEF CountCrash, Note
    <3>2. streak'[c] <= crash_count'[c]
          BY <3>1, Sizes DEF Measures, Counted, AtMost
    <3>3. streak'[c] \in 0..CountBound /\ crash_count'[c] \in 0..CountBound
          BY <3>1, Sizes DEF AtMost
    <3>4. /\ Backoff(streak'[c]) <= Backoff(crash_count'[c])
          /\ Backoff(streak'[c]) \in Nat /\ Backoff(crash_count'[c]) \in Nat
      <4> DEFINE m == streak'[c]
                 n == crash_count'[c]
      <4>1. m \in 0..CountBound /\ n \in 0..CountBound /\ m <= n
            BY <3>2, <3>3
      <4> HIDE DEF m, n
      <4>2. Backoff(m) <= Backoff(n)
            BY <4>1, BackoffGrows
      <4>3. Backoff(m) \in Nat /\ Backoff(n) \in Nat
            BY <4>1, BackoffTyped, Sizes
      <4> QED BY <4>2, <4>3 DEF m, n
    <3> QED BY <3>1, <3>2, <3>4 DEF Measures, UptimeIsReal, Counted, BackoffLeft
  <2>4. CASE Forgive
    <3>1. /\ uptime'[c] = 0 /\ ran'[c] = 0 /\ proc'[c] \in {"runs", "none"}
          /\ crash_count'[c] = 0 /\ proc[c] = "exited"
          /\ streak'[c] = IF ran[c] + 1 < CrashThreshold
                            THEN AtMost(streak[c] + 1, CountBound) ELSE 0
          BY <2>4 DEF Forgive, StampedStart, Start, Spawned, Note
    <3>2. started[c] /\ uptime[c] >= CrashThreshold
      <4>1. MeasuredRun(c) >= CrashThreshold
            BY <2>4 DEF Forgive
      <4> QED BY <4>1, Sizes DEF MeasuredRun
    <3>3. uptime[c] <= ran[c] + 1
          BY <3>1, <3>2 DEF Measures, UptimeIsReal
    <3>4. streak'[c] = 0
          BY <3>1, <3>2, <3>3, Sizes
    <3> QED BY <3>1, <3>4 DEF Measures, UptimeIsReal, Counted, BackoffLeft
  <2> QED BY <2>1, <2>2, <2>3, <2>4
<1> QED BY <1>3, <1>4

\* So does the time that passes while the loop sleeps: the deadline comes nearer by
\* as much as the process has been down longer.
LEMMA SleepKept ==
    ASSUME ControlOK, CountsOK, ClocksOK, turn = 1, \A p \in Names : Measures(p), Sleep
    PROVE  \A p \in Names : Measures(p)'
<1> SUFFICES ASSUME NEW p \in Names PROVE Measures(p)'
    OBVIOUS
<1>0. /\ streak[p] \in 0..CountBound /\ backoff[p] \in Nat /\ down[p] \in 0..MaxBackoff
      /\ uptime[p] \in Nat /\ ran[p] \in Nat
      /\ Backoff(streak[p]) \in 0..MaxBackoff
      BY Sizes, BackoffTyped DEF CountsOK, ClocksOK
<1>1. /\ phase = "sleeping" /\ UNCHANGED <<proc, crash_count, started, streak>>
      /\ uptime'[p] = AtMost(uptime[p] + 1, CrashThreshold)
      /\ backoff'[p] = IF backoff[p] > 0 THEN backoff[p] - 1 ELSE 0
      /\ ran'[p] = IF proc[p] = "runs" THEN AtMost(ran[p] + 1, CrashThreshold) ELSE ran[p]
      /\ down'[p] = AtMost(down[p] + 1, MaxBackoff)
      BY DEF Sleep
<1>2. Polled(p) /\ Measures(p)
      BY <1>1 DEF Polled
<1>3. ~Polled(p)'
      BY DEF Sleep, Polled
<1>4. UptimeIsReal(p)'
      BY <1>0, <1>1, <1>2, <1>3, Sizes DEF Measures, UptimeIsReal, AtMost
<1>5. Counted(p)'
      BY <1>1, <1>2 DEF Measures, Counted
<1>6. BackoffLeft(p)'
      BY <1>0, <1>1, <1>2, Sizes DEF Measures, BackoffLeft, AtMost
<1> QED BY <1>4, <1>5, <1>6 DEF Measures

\* The invariant survives every step.
LEMMA SInvStep == ASSUME SInv, [Next]_vars PROVE SInv'
<1>1. ControlOK /\ CountsOK /\ ClocksOK
      BY Types DEF SInv
<1>2. CASE UNCHANGED vars
      BY <1>2 DEF SInv, TypeOK, UptimeIsReal, Counted, BackoffLeft, Polled, vars, clocks, history
<1>3. CASE Next
  <2>1. TypeOK'
    <3>1. ControlOK' /\ CountsOK' /\ ClocksOK'
          BY <1>1, <1>3, ControlKept, CountsKept, ClocksKept
    <3> QED BY <3>1, Sizes, Zenon DEF TypeOK, ControlOK, CountsOK, ClocksOK
  <2>2. phase' = "sleeping" => turn' = 1
        BY <1>3 DEF SInv, Next, Loop, FirstStart, Nothing, Respawn, CountCrash, Forgive, Polling,
           NextTurn, Sleep, Stop, Signal, Done, Exits, vars
  <2> DEFINE Fresh == \A p \in Names : streak[p] = 0 /\ ~started[p]
             Measured == \A p \in Names : Measures(p)
             Goal == /\ phase' = "starting" => Fresh'
                     /\ phase' \in {"polling", "sleeping"} => Measured'
  <2>3. ASSUME FirstStart PROVE Goal
    <3>1. phase = "starting" /\ Fresh /\ UNCHANGED <<crash_count, started, streak>>
          BY <2>3 DEF FirstStart, SInv
    <3>2. Fresh'
          BY <3>1
    <3>3. ASSUME NEW p \in Names PROVE Measures(p)'
          BY <1>1, <3>1, <3>2 DEF Measures, UptimeIsReal, Counted, BackoffLeft, CountsOK
    <3> QED BY <3>2, <3>3
  <2>4. ASSUME Nothing \/ Respawn \/ CountCrash \/ Forgive PROVE Goal
    <3>1. phase = "polling" /\ phase' \in {"polling", "sleeping"}
          BY <2>4 DEF Nothing, Respawn, CountCrash, Forgive, Polling, NextTurn
    <3>2. Measured
          BY <3>1 DEF SInv, Measures
    <3>3. Measured'
          BY <1>1, <2>4, <3>2, PollingKept
    <3> QED BY <3>1, <3>3
  <2>5. ASSUME Sleep PROVE Goal
    <3>1. phase = "sleeping" /\ phase' # "starting" /\ turn = 1
          BY <2>5 DEF Sleep, SInv
    <3>2. Measured
          BY <3>1 DEF SInv, Measures
    <3>3. Measured'
          BY <1>1, <2>5, <3>1, <3>2, SleepKept
    <3> QED BY <3>1, <3>3
  <2>6. ASSUME Stop PROVE Goal
        BY <2>6 DEF Stop, NextTurn
  <2>7. ASSUME Signal PROVE Goal
    <3>1. UNCHANGED <<phase, turn, proc, crash_count, started, clocks, history>>
          BY <2>7 DEF Signal
    <3> QED BY <3>1 DEF SInv, Measures, UptimeIsReal, Counted, BackoffLeft, Polled, clocks, history
  <2>8. ASSUME Done PROVE Goal
        BY <2>8 DEF Done, vars
  <2>9. ASSUME NEW q \in Names, Exits(q) PROVE Goal
    <3>1. /\ UNCHANGED <<phase, turn, crash_count, started, streak, uptime, ran, backoff, down>>
          /\ proc[q] = "runs" /\ proc'[q] = "exited"
          /\ \A p \in Names : p # q => proc'[p] = proc[p]
          BY <1>1, <2>9 DEF Exits, ControlOK, clocks, history
    <3>2. phase' = "starting" => Fresh'
          BY <3>1 DEF SInv
    <3>3. ASSUME phase' \in {"polling", "sleeping"}, NEW p \in Names PROVE Measures(p)'
      <4>1. Measures(p) /\ (Polled(p)' <=> Polled(p))
            BY <3>1, <3>3 DEF SInv, Measures, Polled
      <4>2. uptime[p] \in Nat /\ ran[p] \in Nat
            BY <1>1, Sizes DEF ClocksOK
      <4> QED BY <3>1, <4>1, <4>2 DEF Measures, UptimeIsReal, Counted, BackoffLeft
    <3> QED BY <3>2, <3>3
  <2>10. Goal
        BY <1>3, <2>3, <2>4, <2>5, <2>6, <2>7, <2>8, <2>9 DEF Next, Loop
  <2> QED BY <2>1, <2>2, <2>10 DEF SInv, Measures
<1> QED BY <1>2, <1>3

\* Only the end of a run of backoff starts a process that crashed, whose n-th short run
\* in a row this was: it has then been down for Backoff(n) (lines 208-215, 223-244).
LEMMA BacksOffStep ==
    ASSUME SInv, [Next]_vars, NEW p \in Names, phase = "polling",
           proc[p] # "runs", proc'[p] = "runs", streak'[p] > 0
    PROVE  down'[p] >= Backoff(streak'[p])
<1>1. ControlOK /\ CountsOK /\ ClocksOK /\ Measures(p)
      BY Types DEF SInv, Measures
<1>2. streak[p] \in 0..CountBound /\ down[p] \in Nat /\ Backoff(streak[p]) \in Nat
      /\ uptime[p] \in Nat /\ ran[p] \in Nat
      BY <1>1, Sizes, BackoffTyped DEF CountsOK, ClocksOK
<1>3. Current = p /\ (Respawn \/ Forgive)
      BY <1>1 DEF Next, Loop, FirstStart, Nothing, Respawn, CountCrash, Forgive, StampedStart, Start,
         Spawned, Sleep, Stop, Signal, Done, Exits, vars, ControlOK
<1>4. CASE Respawn
  <2>1. proc[p] = "none" /\ backoff[p] = 0 /\ UNCHANGED <<streak, down>>
        BY <1>3, <1>4 DEF Respawn
  <2> QED BY <1>1, <1>2, <2>1 DEF Measures, BackoffLeft
<1>5. CASE Forgive
  <2>1. proc[p] = "exited" /\ MeasuredRun(p) >= CrashThreshold
        BY <1>3, <1>5 DEF Forgive
  <2>2. started[p] /\ uptime[p] >= CrashThreshold
        BY <2>1, Sizes DEF MeasuredRun
  <2>3. ran[p] + 1 >= CrashThreshold
        BY <1>1, <1>2, <2>1, <2>2, Sizes DEF Measures, UptimeIsReal
  <2>4. streak'[p] = 0
    <3>1. streak' = [streak EXCEPT ![Current] =
              IF ran[Current] + 1 < CrashThreshold THEN AtMost(@ + 1, CountBound) ELSE 0]
          BY <1>5 DEF Forgive, Note
    <3>2. ~(ran[p] + 1 < CrashThreshold)
          BY <1>2, <2>3, Sizes
    <3> QED BY <1>1, <1>3, <3>1, <3>2 DEF CountsOK
  <2> QED BY <2>4
<1> QED BY <1>3, <1>4, <1>5

\* What the loop measures never flatters a process, in any run of the launcher.
THEOREM MeasuresHold == Spec => []SInv
<1> QED BY SInvInit, SInvStep, PTL DEF Spec

\* A process that keeps crashing is started ever more rarely, up to one start per
\* MaxBackoff, whatever the loop's own counter and deadline do in between
\* (_restart_if_needed, lines 208-215 against 223-244).
THEOREM BacksOff == Spec => CrashLoopBacksOff
<1>1. SInv /\ [Next]_vars =>
        [\A p \in Names : phase = "polling" /\ proc[p] # "runs" /\ proc'[p] = "runs"
           /\ streak'[p] > 0 => down'[p] >= Backoff(streak'[p])]_vars
      BY BacksOffStep
<1> QED BY <1>1, MeasuresHold, PTL DEF Spec, CrashLoopBacksOff
=============================================================================
