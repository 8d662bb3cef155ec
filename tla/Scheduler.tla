------------------------------- MODULE Scheduler -------------------------------
(***************************************************************************)
(* SchedulerEngine and FixedIntervalSequentialPolicy of                    *)
(* src/src/core/scheduler.cpp: one thread polls every collection group at  *)
(* a fixed interval, one poll at a time.  Times are relative to the        *)
(* start_time that GatewayRuntime::start reads; a task is named by its     *)
(* stable_order, its index in the configuration.                           *)
(*                                                                         *)
(* The engine holds mutex_ except while it sleeps and while it polls, so a *)
(* pass of the loop up to one of these is a single step.                   *)
(***************************************************************************)
EXTENDS Integers

CONSTANTS
  N,          \* number of tasks
  Interval,   \* interval of each task
  Horizon     \* bound on the clock

Task == 1..N

ASSUME SchedulerAssumption ==
  /\ N \in Nat
  /\ Interval \in [Task -> Nat \ {0}]
  /\ Horizon \in Nat

VARIABLES
  now,                   \* SchedulerClock::now()
  next_due, skipped,     \* of each task
  engine, selected,      \* where run() is, and the task it polls
  finished_at,           \* finished_at of run(), kept for each task
  started, stopping,
  stats,                 \* SchedulerStats, without the timing fields
  stopper,               \* the thread that calls stop()
  runs, overtaken        \* history: polls of t; polls of u since t fell due

vars == <<now, next_due, skipped, engine, selected, finished_at, started,
          stopping, stats, stopper, runs, overtaken>>

Init ==
  /\ now = 0
  /\ next_due = [t \in Task |-> Interval[t]]
  /\ skipped = [t \in Task |-> 0]
  /\ engine = "off"
  /\ selected = 0
  /\ finished_at = [t \in Task |-> 0]
  /\ started = FALSE
  /\ stopping = FALSE
  /\ stats = [executed |-> 0, errors |-> 0, skipped_cycles |-> 0]
  /\ stopper = "idle"
  /\ runs = [t \in Task |-> 0]
  /\ overtaken = [t \in Task |-> [u \in Task |-> 0]]

-----------------------------------------------------------------------------
(* The policy *)

Due(t) == next_due[t] <= now

(* Mutant: ties and lateness are ignored, the first due task is taken *)
BeforeByIndex(t, u) == t < u

(* The order both select_due and next_wakeup use *)
Before(t, u) == \/ next_due[t] < next_due[u]
                \/ next_due[t] = next_due[u] /\ t < u

(* select_due(now) returns t *)
SelectDue(t) == Due(t) /\ \A u \in Task \ {t} : Due(u) => Before(t, u)

(* Mutant: the engine waits for a notification only, without a deadline *)
WakeupTimeNever == FALSE

(* Sleep is over: next_wakeup() has come.  It is TimePoint::max() without  *)
(* tasks.                                                                  *)
WakeupTime == \E t \in Task : Due(t)

(* Mutant: the catch-up loop stops at finished_at itself *)
SkippedCyclesLess(due, finished, interval) ==
  IF due + interval >= finished THEN 0
  ELSE (finished - due - interval - 1) \div interval + 1

(* The iterations of the loop of on_complete(): the cycles after the first *)
(* one that begin at or before finished_at                                 *)
SkippedCycles(due, finished, interval) ==
  IF due + interval > finished THEN 0 ELSE (finished - due) \div interval

(* Mutant: the interval is counted from the end of the poll *)
OnCompleteDrift(t) ==
  /\ next_due' = [next_due EXCEPT ![t] = finished_at[t] + Interval[t]]
  /\ UNCHANGED skipped
  /\ stats' = [stats EXCEPT !.executed = @ + 1]

Errors == IF engine = "failed" THEN 1 ELSE 0

(* on_complete(), and the engine's statistics *)
OnComplete(t) ==
  LET k == SkippedCycles(next_due[t], finished_at[t], Interval[t])
  IN /\ next_due' = [next_due EXCEPT ![t] = @ + (k + 1) * Interval[t]]
     /\ skipped' = [skipped EXCEPT ![t] = @ + k]
     /\ stats' = [stats EXCEPT !.executed = @ + 1, !.errors = @ + Errors,
                               !.skipped_cycles = @ + k]

-----------------------------------------------------------------------------
(* The engine *)

(* GatewayRuntime calls start() before any stop() *)
Start ==
  /\ ~started
  /\ stopper = "idle"
  /\ started' = TRUE
  /\ stopping' = FALSE
  /\ engine' = "loop"
  /\ UNCHANGED <<now, next_due, skipped, selected, finished_at, stats,
                 stopper, runs, overtaken>>

(* One pass of the loop of run(), up to the poll *)
SelectTask(t) ==
  /\ engine = "loop"
  /\ ~stopping
  /\ SelectDue(t)
  /\ engine' = "poll"
  /\ selected' = t
  /\ runs' = [runs EXCEPT ![t] = @ + 1]
  /\ overtaken' = [x \in Task |-> [u \in Task |->
                     IF x = t THEN 0
                     ELSE IF u = t /\ Due(x) THEN overtaken[x][u] + 1
                     ELSE overtaken[x][u]]]
  /\ UNCHANGED <<now, next_due, skipped, finished_at, started, stopping,
                 stats, stopper>>

(* Nothing is due: wait or wait_until *)
Sleep ==
  /\ engine = "loop"
  /\ ~stopping
  /\ \A t \in Task : ~Due(t)
  /\ engine' = "asleep"
  /\ UNCHANGED <<now, next_due, skipped, selected, finished_at, started,
                 stopping, stats, stopper, runs, overtaken>>

Wake ==
  /\ engine = "asleep"
  /\ WakeupTime
  /\ engine' = "loop"
  /\ UNCHANGED <<now, next_due, skipped, selected, finished_at, started,
                 stopping, stats, stopper, runs, overtaken>>

(* poll_ returns or throws; finished_at is read before mutex_ is taken *)
PollReturn ==
  /\ engine = "poll"
  /\ engine' \in {"polled", "failed"}
  /\ finished_at' = [finished_at EXCEPT ![selected] = now]
  /\ UNCHANGED <<now, next_due, skipped, selected, started, stopping, stats,
                 stopper, runs, overtaken>>

Complete ==
  /\ engine \in {"polled", "failed"}
  /\ OnComplete(selected)
  /\ engine' = "loop"
  /\ UNCHANGED <<now, selected, finished_at, started, stopping, stopper,
                 runs, overtaken>>

Exit ==
  /\ engine = "loop"
  /\ stopping
  /\ engine' = "exited"
  /\ UNCHANGED <<now, next_due, skipped, selected, finished_at, started,
                 stopping, stats, stopper, runs, overtaken>>

-----------------------------------------------------------------------------
(* stop(): request_stop() and join(), by GatewayRuntime *)

(* Mutant: request_stop() does not notify *)
NoNotify == engine' = engine

NotifyEngine == engine' = IF engine = "asleep" THEN "loop" ELSE engine

(* mutex_ is free whenever a step of the engine is over *)
RequestStop ==
  /\ started
  /\ stopper = "idle"
  /\ stopping' = TRUE
  /\ NotifyEngine
  /\ stopper' = "joining"
  /\ UNCHANGED <<now, next_due, skipped, selected, finished_at, started,
                 stats, runs, overtaken>>

Join ==
  /\ stopper = "joining"
  /\ engine = "exited"
  /\ stopper' = "returned"
  /\ UNCHANGED <<now, next_due, skipped, engine, selected, finished_at,
                 started, stopping, stats, runs, overtaken>>

Tick ==
  /\ now < Horizon
  /\ now' = now + 1
  /\ UNCHANGED <<next_due, skipped, engine, selected, finished_at, started,
                 stopping, stats, stopper, runs, overtaken>>

Terminated == stopper = "returned" /\ UNCHANGED vars

EngineStep == \/ \E t \in Task : SelectTask(t)
              \/ Sleep \/ Wake \/ PollReturn \/ Complete \/ Exit

Next == Start \/ EngineStep \/ RequestStop \/ Join \/ Tick \/ Terminated

Spec == Init /\ [][Next]_vars

(* The engine's thread runs, a poll returns (poll_group gives drivers a    *)
(* deadline), a waiting join() is served.  Nothing forces a stop.          *)
FairSpec == Spec /\ WF_vars(EngineStep) /\ WF_vars(Join) /\ WF_vars(Tick)

-----------------------------------------------------------------------------
(* Properties *)

(* The state has its types; in particular no cycle count is negative.      *)
TypeOK ==
  /\ now \in 0..Horizon
  /\ next_due \in [Task -> Nat]
  /\ skipped \in [Task -> Nat]
  /\ engine \in {"off", "loop", "asleep", "poll", "polled", "failed", "exited"}
  /\ selected \in Task \cup {0}
  /\ finished_at \in [Task -> 0..Horizon]
  /\ started \in BOOLEAN /\ stopping \in BOOLEAN
  /\ stats \in [executed: Nat, errors: Nat, skipped_cycles: Nat]
  /\ stopper \in {"idle", "joining", "returned"}
  /\ runs \in [Task -> Nat]
  /\ overtaken \in [Task -> [Task -> Nat]]

Polling(t) == engine \in {"poll", "polled", "failed"} /\ selected = t

(* Finished polls of t *)
Finished(t) == IF Polling(t) THEN runs[t] - 1 ELSE runs[t]

(* Polls never drift from the grid start_time + k * interval: every cycle  *)
(* of a task was polled once or counted as skipped once, so next_due is    *)
(* the first cycle that was neither (on_complete).                         *)
NoDrift ==
  \A t \in Task :
    next_due[t] = Interval[t] * (1 + Finished(t) + skipped[t])

(* A cycle of t begins after one time and not after the other *)
CycleBetween(t, from, to) ==
  \E k \in 1..to : from < k * Interval[t] /\ k * Interval[t] <= to

(* No burst of catch-up polls after a slow one: a poll of t begins only    *)
(* when a new cycle of t has begun since the last poll of t ended, so in   *)
(* no cycle does more than one begin (the loop of on_complete, which goes  *)
(* beyond finished_at, and select_due).                                    *)
NoBurst ==
  [][\A t \in Task : runs'[t] # runs[t] => CycleBetween(t, finished_at[t], now)]_vars

(* A task is due within one interval from now, or it is late: next_due     *)
(* does not run ahead of the clock (on_complete).                          *)
DueWithinInterval == \A t \in Task : next_due[t] <= now + Interval[t]

(* No starvation: while a task is due, each other task is polled before it *)
(* at most once, however long the polls take (select_due's order, and      *)
(* on_complete moving next_due beyond finished_at).                        *)
OvertakenOnce ==
  \A t, u \in Task : overtaken[t][u] <= 1

(* A due task is polled, unless the scheduler is stopped.                  *)
DueIsPolled ==
  \A t \in Task : (started /\ Due(t)) ~> (Polling(t) \/ stopping)

(* stop() returns, even when the engine sleeps until a far wakeup.         *)
StopReturns == (stopper = "joining") ~> (stopper = "returned")
=============================================================================
