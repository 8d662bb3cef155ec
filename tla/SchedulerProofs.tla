---------------------------- MODULE SchedulerProofs ----------------------------
(***************************************************************************)
(* Proofs about Scheduler, for any number of tasks, any intervals and any  *)
(* time.                                                                   *)
(***************************************************************************)
EXTENDS Scheduler, TLAPS

InPoll == engine \in {"poll", "polled", "failed"}

(* What a poll in progress has read of the clock and of the policy *)
PollInv ==
  /\ \A t \in Task : finished_at[t] <= now
  /\ InPoll => selected \in Task /\ runs[selected] > 0 /\ next_due[selected] <= now
  /\ engine = "off" <=> ~started

(* The moment up to which a poll in progress has let other tasks fall due *)
PollTime == IF engine = "poll" THEN now ELSE finished_at[selected]

(* A task u was polled before t at most once since t fell due, because its *)
(* next cycle then lies after t's                                          *)
OvertakenInv ==
  \A t, u \in Task :
    /\ overtaken[t][u] \in {0, 1}
    /\ Polling(t) => overtaken[t][u] = 0
    /\ overtaken[t][u] = 1 =>
         IF Polling(u) THEN next_due[t] <= PollTime ELSE next_due[t] < next_due[u]

(* The next cycle of a task lies after its last poll *)
EndInv == \A t \in Task : ~Polling(t) => finished_at[t] < next_due[t]

SchedInv ==
  TypeOK /\ PollInv /\ NoDrift /\ EndInv /\ DueWithinInterval /\ OvertakenInv

-----------------------------------------------------------------------------
(* Arithmetic *)

(* What the loop of on_complete() computes: the number of cycles it skips  *)
(* is natural, they lead to finished_at at most, and one more cycle leads  *)
(* beyond it.                                                              *)
LEMMA SkippedLemma ==
  ASSUME NEW due \in Nat, NEW fin \in Nat, NEW int \in Nat \ {0}
  PROVE  /\ SkippedCycles(due, fin, int) \in Nat
         /\ due + (SkippedCycles(due, fin, int) + 1) * int > fin
         /\ \/ SkippedCycles(due, fin, int) = 0
            \/ due + (SkippedCycles(due, fin, int) + 1) * int <= fin + int
<1> DEFINE k == SkippedCycles(due, fin, int)
<1>1. CASE due + int > fin
  <2>1. k = 0
    BY <1>1 DEF SkippedCycles
  <2> QED BY <1>1, <2>1
<1>2. CASE ~(due + int > fin)
  <2>1. k = (fin - due) \div int
    BY <1>2 DEF SkippedCycles
  <2>2. PICK n \in Nat : n = fin - due /\ n >= int
    BY <1>2
  <2>3. /\ n \div int \in Nat
        /\ n < (n \div int + 1) * int /\ (n \div int + 1) * int <= n + int
    <3>1. n = int * (n \div int) + (n % int) /\ n % int \in 0..(int - 1)
      OBVIOUS
    <3>2. n \div int \in Nat
      BY <2>2
    <3> QED BY <3>1, <3>2
  <2> QED BY <2>1, <2>2, <2>3
<1> QED BY <1>1, <1>2

(* Cycles are counted in intervals: the grid that next_due is on.          *)
LEMMA GridLemma ==
  ASSUME NEW a \in Nat, NEW f \in Nat, NEW s \in Nat, NEW k \in Nat
  PROVE  /\ a * (1 + f + s) + (k + 1) * a = a * (1 + (f + 1) + (s + k))
         /\ (k + 1) * a \in Nat
<1>1. a * (1 + f + s) + (k + 1) * a = a * (1 + (f + 1) + (s + k))
  OBVIOUS
<1>2. (k + 1) * a \in Nat
  OBVIOUS
<1> QED BY <1>1, <1>2

(* A multiple of a positive interval is not less than its factor.          *)
LEMMA FactorLemma ==
  ASSUME NEW a \in Nat \ {0}, NEW m \in Nat
  PROVE  m <= a * m
OBVIOUS

-----------------------------------------------------------------------------
(* One step of each part *)

(* Types: the interesting step is Complete, which adds whole cycles.       *)
LEMMA TypeStep == SchedInv /\ [Next]_vars => TypeOK'
<1> SUFFICES ASSUME SchedInv, [Next]_vars PROVE TypeOK'
  OBVIOUS
<1> USE SchedulerAssumption DEF SchedulerAssumption, SchedInv, TypeOK
<1>1. CASE Start
  BY <1>1 DEF Start
<1>2. ASSUME NEW t \in Task, SelectTask(t) PROVE TypeOK'
  <2>1. runs' \in [Task -> Nat] /\ overtaken' \in [Task -> [Task -> Nat]]
    BY <1>2 DEF SelectTask
  <2> QED BY <1>2, <2>1 DEF SelectTask
<1>3. CASE Sleep \/ Wake \/ Exit
  BY <1>3 DEF Sleep, Wake, Exit
<1>4. CASE PollReturn
  BY <1>4 DEF PollReturn
<1>5. CASE Complete
  <2>1. selected \in Task /\ Interval[selected] \in Nat \ {0}
    BY <1>5 DEF Complete, PollInv, InPoll
  <2> DEFINE k == SkippedCycles(next_due[selected], finished_at[selected], Interval[selected])
  <2>2. k \in Nat
    <3>1. next_due[selected] \in Nat /\ finished_at[selected] \in Nat
      BY <2>1
    <3> QED BY <2>1, <3>1, SkippedLemma
  <2>3. (k + 1) * Interval[selected] \in Nat
    BY <2>1, <2>2, GridLemma
  <2>4. next_due' = [next_due EXCEPT ![selected] = @ + (k + 1) * Interval[selected]]
    BY <1>5 DEF Complete, OnComplete
  <2>5. skipped' = [skipped EXCEPT ![selected] = @ + k]
    BY <1>5 DEF Complete, OnComplete
  <2>6. stats' = [stats EXCEPT !.executed = @ + 1, !.errors = @ + Errors,
                               !.skipped_cycles = @ + k]
    BY <1>5 DEF Complete, OnComplete
  <2> HIDE DEF k
  <2>7. next_due' \in [Task -> Nat]
    BY <2>1, <2>3, <2>4
  <2>8. skipped' \in [Task -> Nat]
    BY <2>1, <2>2, <2>5
  <2>9. stats' \in [executed: Nat, errors: Nat, skipped_cycles: Nat]
    <3>1. Errors \in Nat
      BY DEF Errors
    <3>2. stats.executed \in Nat /\ stats.errors \in Nat /\ stats.skipped_cycles \in Nat
      OBVIOUS
    <3>3. stats' = [executed |-> stats.executed + 1, errors |-> stats.errors + Errors,
                    skipped_cycles |-> stats.skipped_cycles + k]
      BY <2>6
    <3> QED BY <2>2, <3>1, <3>2, <3>3
  <2> QED BY <1>5, <2>7, <2>8, <2>9 DEF Complete
<1>6. CASE RequestStop \/ Join
  BY <1>6 DEF RequestStop, NotifyEngine, Join
<1>7. CASE Tick
  BY <1>7 DEF Tick
<1>8. CASE UNCHANGED vars
  BY <1>8 DEF vars
<1> QED BY <1>1, <1>2, <1>3, <1>4, <1>5, <1>6, <1>7, <1>8
        DEF Next, EngineStep, Terminated

(* Only PollReturn reads the clock, and only SelectTask begins a poll.     *)
LEMMA PollStep == SchedInv /\ [Next]_vars => PollInv'
<1> SUFFICES ASSUME SchedInv, [Next]_vars PROVE PollInv'
  OBVIOUS
<1> USE SchedulerAssumption
    DEF SchedulerAssumption, SchedInv, TypeOK, PollInv, InPoll
<1>1. CASE Start
  BY <1>1 DEF Start
<1>2. ASSUME NEW t \in Task, SelectTask(t) PROVE PollInv'
  BY <1>2 DEF SelectTask, SelectDue, Due
<1>3. CASE Sleep \/ Wake \/ Exit
  BY <1>3 DEF Sleep, Wake, Exit
<1>4. CASE PollReturn
  BY <1>4 DEF PollReturn
<1>5. CASE Complete
  BY <1>5 DEF Complete
<1>6. CASE RequestStop \/ Join
  BY <1>6 DEF RequestStop, NotifyEngine, Join
<1>7. CASE Tick
  BY <1>7 DEF Tick
<1>8. CASE UNCHANGED vars
  BY <1>8 DEF vars
<1> QED BY <1>1, <1>2, <1>3, <1>4, <1>5, <1>6, <1>7, <1>8
        DEF Next, EngineStep, Terminated

(* A step that neither begins nor ends a poll leaves the policy alone, and *)
(* the time up to which tasks may have overtaken others only grows.        *)
LEMMA QuietStep ==
  ASSUME SchedInv, [Next]_vars,
         ~Complete, \A t \in Task : ~SelectTask(t)
  PROVE  /\ UNCHANGED <<next_due, skipped, runs, overtaken, selected>>
         /\ InPoll' <=> InPoll
         /\ now <= now' /\ (InPoll => PollTime <= PollTime')
<1> USE SchedulerAssumption
    DEF SchedulerAssumption, SchedInv, TypeOK, PollInv, InPoll, PollTime
<1>1. CASE Start
  BY <1>1 DEF Start
<1>2. CASE Sleep \/ Wake \/ Exit
  BY <1>2 DEF Sleep, Wake, Exit
<1>3. CASE PollReturn
  BY <1>3 DEF PollReturn
<1>4. CASE RequestStop \/ Join
  BY <1>4 DEF RequestStop, NotifyEngine, Join
<1>5. CASE Tick
  BY <1>5 DEF Tick
<1>6. CASE UNCHANGED vars
  BY <1>6 DEF vars
<1> QED BY <1>1, <1>2, <1>3, <1>4, <1>5, <1>6 DEF Next, EngineStep, Terminated

(* What the end of a poll does to the task that was polled.                *)
LEMMA CompleteLemma ==
  ASSUME SchedInv, Complete
  PROVE  \E k \in Nat :
           /\ selected \in Task
           /\ next_due' = [next_due EXCEPT ![selected] = @ + (k + 1) * Interval[selected]]
           /\ skipped' = [skipped EXCEPT ![selected] = @ + k]
           /\ next_due[selected] + (k + 1) * Interval[selected] > finished_at[selected]
           /\ next_due[selected] + (k + 1) * Interval[selected] <= now + Interval[selected]
<1> USE SchedulerAssumption DEF SchedulerAssumption, SchedInv, TypeOK
<1> DEFINE k == SkippedCycles(next_due[selected], finished_at[selected], Interval[selected])
<1>1. selected \in Task
  BY DEF Complete, PollInv, InPoll
<1>2. /\ next_due[selected] \in Nat /\ finished_at[selected] \in Nat
      /\ Interval[selected] \in Nat \ {0}
  BY <1>1
<1>3. /\ k \in Nat /\ next_due[selected] + (k + 1) * Interval[selected] > finished_at[selected]
      /\ \/ k = 0
         \/ next_due[selected] + (k + 1) * Interval[selected]
              <= finished_at[selected] + Interval[selected]
  BY <1>2, SkippedLemma
<1>4. /\ next_due' = [next_due EXCEPT ![selected] = @ + (k + 1) * Interval[selected]]
      /\ skipped' = [skipped EXCEPT ![selected] = @ + k]
  BY DEF Complete, OnComplete
<1> HIDE DEF k
<1>5. finished_at[selected] <= now /\ next_due[selected] <= now /\ now \in Nat
  BY <1>1 DEF Complete, PollInv, InPoll
<1>6. (k + 1) * Interval[selected] \in Nat /\ (k = 0 => (k + 1) * Interval[selected] = Interval[selected])
  BY <1>2, <1>3, GridLemma
<1>7. next_due[selected] + (k + 1) * Interval[selected] <= now + Interval[selected]
  BY <1>2, <1>3, <1>5, <1>6
<1> QED BY <1>1, <1>3, <1>4, <1>7

(* Every cycle is polled once or skipped once.                             *)
LEMMA NoDriftStep == SchedInv /\ [Next]_vars => NoDrift'
<1> SUFFICES ASSUME SchedInv, [Next]_vars, NEW x \in Task
             PROVE  next_due'[x] = Interval[x] * (1 + Finished(x)' + skipped'[x])
  BY DEF NoDrift
<1> USE SchedulerAssumption DEF SchedulerAssumption, SchedInv, TypeOK
<1>1. next_due[x] = Interval[x] * (1 + Finished(x) + skipped[x])
  BY DEF NoDrift
<1>2. ASSUME NEW t \in Task, SelectTask(t)
      PROVE  next_due'[x] = Interval[x] * (1 + Finished(x)' + skipped'[x])
  <2>1. Finished(x)' = Finished(x)
    BY <1>2 DEF SelectTask, Finished, Polling
  <2> QED BY <1>1, <1>2, <2>1 DEF SelectTask
<1>3. CASE Complete
  <2>1. PICK k \in Nat :
           /\ selected \in Task
           /\ next_due' = [next_due EXCEPT ![selected] = @ + (k + 1) * Interval[selected]]
           /\ skipped' = [skipped EXCEPT ![selected] = @ + k]
    BY <1>3, CompleteLemma
  <2>2. CASE x = selected
    <3>1. Finished(x) = runs[x] - 1 /\ Finished(x)' = runs[x]
      BY <1>3, <2>2 DEF Complete, Finished, Polling
    <3>2. Finished(x) \in Nat
      BY <1>3, <2>2, <3>1 DEF Complete, PollInv, InPoll
    <3>3. /\ next_due'[x] = next_due[x] + (k + 1) * Interval[x]
          /\ skipped'[x] = skipped[x] + k
      BY <2>1, <2>2
    <3>4. Interval[x] \in Nat /\ skipped[x] \in Nat /\ runs[x] \in Nat
      OBVIOUS
    <3>5. Interval[x] * (1 + Finished(x) + skipped[x]) + (k + 1) * Interval[x]
            = Interval[x] * (1 + (Finished(x) + 1) + (skipped[x] + k))
      BY <3>2, <3>4, GridLemma
    <3>6. Finished(x)' = Finished(x) + 1
      BY <3>1, <3>4
    <3> QED BY <1>1, <3>3, <3>5, <3>6
  <2>3. CASE x # selected
    <3>1. Finished(x)' = Finished(x)
      BY <1>3, <2>3 DEF Complete, Finished, Polling
    <3> QED BY <1>1, <2>1, <2>3, <3>1
  <2> QED BY <2>2, <2>3
<1>4. CASE ~Complete /\ \A t \in Task : ~SelectTask(t)
  <2>1. /\ UNCHANGED <<next_due, skipped, runs, overtaken, selected>>
        /\ InPoll' <=> InPoll
    BY <1>4, QuietStep
  <2>2. Finished(x)' = Finished(x)
    BY <2>1 DEF Finished, Polling, InPoll
  <2> QED BY <1>1, <2>1, <2>2
<1> QED BY <1>2, <1>3, <1>4

(* on_complete() moves a task beyond the end of its poll, but by no more   *)
(* than an interval beyond the clock.                                      *)
LEMMA DueStep == SchedInv /\ [Next]_vars => EndInv' /\ DueWithinInterval'
<1> SUFFICES ASSUME SchedInv, [Next]_vars, NEW x \in Task
             PROVE  /\ ~Polling(x)' => finished_at'[x] < next_due'[x]
                    /\ next_due'[x] <= now' + Interval[x]
  BY DEF EndInv, DueWithinInterval
<1> USE SchedulerAssumption DEF SchedulerAssumption, SchedInv, TypeOK
<1>1. /\ ~Polling(x) => finished_at[x] < next_due[x]
      /\ next_due[x] <= now + Interval[x]
  BY DEF EndInv, DueWithinInterval
<1>2. ASSUME NEW t \in Task, SelectTask(t)
      PROVE  /\ ~Polling(x)' => finished_at'[x] < next_due'[x]
             /\ next_due'[x] <= now' + Interval[x]
  BY <1>1, <1>2 DEF SelectTask, Polling
<1>3. CASE Complete
  <2>1. PICK k \in Nat :
           /\ selected \in Task
           /\ next_due' = [next_due EXCEPT ![selected] = @ + (k + 1) * Interval[selected]]
           /\ next_due[selected] + (k + 1) * Interval[selected] > finished_at[selected]
           /\ next_due[selected] + (k + 1) * Interval[selected] <= now + Interval[selected]
    BY <1>3, CompleteLemma
  <2>2. UNCHANGED <<finished_at, now>>
    BY <1>3 DEF Complete
  <2>3. CASE x = selected
    <3>1. next_due'[x] > finished_at[x] /\ next_due'[x] <= now + Interval[x]
      BY <2>1, <2>3
    <3>2. next_due'[x] \in Nat /\ finished_at[x] \in Nat
      BY TypeStep
    <3> QED BY <2>2, <3>1, <3>2
  <2>4. CASE x # selected
    BY <1>1, <2>1, <2>2, <2>4 DEF Polling
  <2> QED BY <2>3, <2>4
<1>4. CASE ~Complete /\ \A t \in Task : ~SelectTask(t)
  <2>1. /\ UNCHANGED <<next_due, selected>> /\ (InPoll' <=> InPoll) /\ now <= now'
    BY <1>4, QuietStep
  <2>2. ~Polling(x) => finished_at'[x] = finished_at[x]
    BY <1>4 DEF Polling, Next, EngineStep, Terminated, vars, Start, Sleep, Wake, Exit,
                PollReturn, RequestStop, Join, Tick
  <2>3. Polling(x)' <=> Polling(x)
    BY <2>1 DEF Polling, InPoll
  <2>4. now' \in Nat /\ now \in Nat /\ next_due[x] \in Nat /\ Interval[x] \in Nat
    BY TypeStep
  <2> QED BY <1>1, <2>1, <2>2, <2>3, <2>4
<1> QED BY <1>2, <1>3, <1>4

(* While t is due and waits, a task that is polled before it moves behind  *)
(* it.                                                                     *)
LEMMA OvertakenStep == SchedInv /\ [Next]_vars => OvertakenInv'
<1> SUFFICES ASSUME SchedInv, [Next]_vars, NEW t \in Task, NEW u \in Task
             PROVE  /\ overtaken'[t][u] \in {0, 1}
                    /\ Polling(t)' => overtaken'[t][u] = 0
                    /\ overtaken'[t][u] = 1 =>
                         IF Polling(u)' THEN next_due'[t] <= PollTime'
                         ELSE next_due'[t] < next_due'[u]
  BY DEF OvertakenInv
<1> USE SchedulerAssumption DEF SchedulerAssumption, SchedInv, TypeOK
<1>1. /\ overtaken[t][u] \in {0, 1}
      /\ Polling(t) => overtaken[t][u] = 0
      /\ overtaken[t][u] = 1 =>
           IF Polling(u) THEN next_due[t] <= PollTime ELSE next_due[t] < next_due[u]
  BY DEF OvertakenInv
<1>2. next_due[t] \in Nat /\ next_due[u] \in Nat /\ now \in Nat
  OBVIOUS
<1>3. ASSUME NEW x \in Task, SelectTask(x)
      PROVE  /\ overtaken'[t][u] \in {0, 1}
             /\ Polling(t)' => overtaken'[t][u] = 0
             /\ overtaken'[t][u] = 1 =>
                  IF Polling(u)' THEN next_due'[t] <= PollTime'
                  ELSE next_due'[t] < next_due'[u]
  <2>1. /\ next_due' = next_due /\ PollTime' = now
        /\ \A y \in Task : ~Polling(y) /\ (Polling(y)' <=> y = x)
    BY <1>3 DEF SelectTask, Polling, PollTime
  <2>2. overtaken'[t][u] = IF t = x THEN 0
                           ELSE IF u = x /\ Due(t) THEN overtaken[t][u] + 1
                           ELSE overtaken[t][u]
    BY <1>3 DEF SelectTask
  <2>3. CASE t # x /\ u = x /\ Due(t)
    <3>1. next_due[u] <= next_due[t] /\ next_due[t] <= now
      <4>1. SelectDue(x)
        BY <1>3 DEF SelectTask
      <4>2. Due(t) /\ Before(u, t)
        BY <2>3, <4>1 DEF SelectDue
      <4> QED BY <1>2, <4>2 DEF Before, Due
    <3>2. overtaken[t][u] = 0
      BY <1>1, <1>2, <2>1, <3>1
    <3> QED BY <2>1, <2>2, <2>3, <3>1, <3>2
  <2>4. CASE t = x
    BY <2>2, <2>4
  <2>5. CASE t # x /\ u # x
    BY <1>1, <2>1, <2>2, <2>5
  <2>6. CASE t # x /\ u = x /\ ~Due(t)
    <3>1. overtaken[t][u] = 0
      BY <1>1, <1>2, <1>3, <2>1, <2>6 DEF SelectTask, SelectDue, Due
    <3> QED BY <2>2, <2>1, <2>6, <3>1
  <2> QED BY <2>3, <2>4, <2>5, <2>6
<1>4. CASE Complete
  <2>1. PICK k \in Nat :
           /\ selected \in Task
           /\ next_due' = [next_due EXCEPT ![selected] = @ + (k + 1) * Interval[selected]]
           /\ next_due[selected] + (k + 1) * Interval[selected] > finished_at[selected]
    BY <1>4, CompleteLemma
  <2>2. /\ overtaken' = overtaken /\ PollTime = finished_at[selected]
        /\ Polling(selected) /\ \A y \in Task : ~Polling(y)'
        /\ \A y \in Task : Polling(y) => y = selected
    BY <1>4 DEF Complete, Polling, PollTime
  <2>3. CASE t = selected
    BY <1>1, <2>2, <2>3
  <2>4. CASE t # selected /\ u = selected
    <3>1. next_due'[t] = next_due[t] /\ next_due'[u] > finished_at[u] /\ next_due'[u] \in Nat
      BY <1>2, <2>1, <2>4, TypeStep
    <3>2. overtaken[t][u] = 1 => next_due[t] <= finished_at[u]
      BY <1>1, <2>2, <2>4
    <3>3. finished_at[u] \in Nat
      OBVIOUS
    <3> QED BY <1>1, <1>2, <2>2, <3>1, <3>2, <3>3
  <2>5. CASE t # selected /\ u # selected
    <3>1. next_due'[t] = next_due[t] /\ next_due'[u] = next_due[u]
      BY <2>1, <2>5
    <3> QED BY <1>1, <2>2, <2>5, <3>1
  <2> QED BY <2>3, <2>4, <2>5
<1>5. CASE ~Complete /\ \A x \in Task : ~SelectTask(x)
  <2>1. /\ UNCHANGED <<next_due, overtaken, selected>>
        /\ InPoll' <=> InPoll
        /\ InPoll => PollTime <= PollTime'
    BY <1>5, QuietStep
  <2>2. \A y \in Task : Polling(y)' <=> Polling(y)
    BY <2>1 DEF Polling, InPoll
  <2>3. InPoll => PollTime \in Nat /\ PollTime' \in Nat
    <3>1. InPoll => selected \in Task /\ selected' \in Task
      BY <2>1 DEF PollInv
    <3> QED BY <3>1, TypeStep DEF PollTime
  <2>4. Polling(u) /\ next_due[t] <= PollTime => next_due[t] <= PollTime'
    BY <1>2, <2>1, <2>3 DEF Polling, InPoll
  <2> QED BY <1>1, <2>1, <2>2, <2>4
<1> QED BY <1>3, <1>4, <1>5

-----------------------------------------------------------------------------
(* The inductive invariant of the scheduler: where next_due lies, when     *)
(* polls began and who may have been overtaken, for any tasks and times.   *)
THEOREM SchedulerInvariant == Spec => []SchedInv
<1>1. Init => SchedInv
  <2> SUFFICES ASSUME Init PROVE SchedInv
    OBVIOUS
  <2> USE SchedulerAssumption DEF SchedulerAssumption, Init
  <2>1. TypeOK
    <3>1. next_due \in [Task -> Nat] /\ overtaken \in [Task -> [Task -> Nat]]
      OBVIOUS
    <3>2. stats \in [executed: Nat, errors: Nat, skipped_cycles: Nat]
      OBVIOUS
    <3>3. skipped \in [Task -> Nat] /\ runs \in [Task -> Nat]
      OBVIOUS
    <3>4. now \in 0..Horizon /\ finished_at \in [Task -> 0..Horizon] /\ selected \in Task \cup {0}
      OBVIOUS
    <3> HIDE DEF SchedulerAssumption
    <3> QED BY <3>1, <3>2, <3>3, <3>4, Zenon DEF TypeOK
  <2>2. PollInv
    BY DEF PollInv, InPoll
  <2>3. NoDrift /\ EndInv /\ DueWithinInterval
    BY DEF NoDrift, Finished, Polling, EndInv, DueWithinInterval
  <2>4. OvertakenInv
    BY DEF OvertakenInv
  <2> QED BY <2>1, <2>2, <2>3, <2>4 DEF SchedInv
<1>2. SchedInv /\ [Next]_vars => SchedInv'
  BY TypeStep, PollStep, NoDriftStep, DueStep, OvertakenStep DEF SchedInv
<1> QED BY <1>1, <1>2, PTL DEF Spec

(* All variables keep their types; next_due and the counters never become  *)
(* negative (on_complete).                                                 *)
THEOREM SchedulerTypes == Spec => []TypeOK
<1>1. SchedInv => TypeOK
  BY DEF SchedInv
<1> QED BY <1>1, SchedulerInvariant, PTL

(* Polls never drift from the grid of their interval, however late they    *)
(* begin and however long they take (on_complete).                         *)
THEOREM PollsNeverDrift == Spec => []NoDrift
<1>1. SchedInv => NoDrift
  BY DEF SchedInv
<1> QED BY <1>1, SchedulerInvariant, PTL

(* No burst: a poll begins only after a cycle of its task has begun since  *)
(* the task's last poll ended, however slow that one was (on_complete,     *)
(* select_due).                                                            *)
THEOREM PollsComeInCycles == Spec => NoBurst
<1>1. ASSUME SchedInv, [Next]_vars, NEW t \in Task, runs'[t] # runs[t]
      PROVE  CycleBetween(t, finished_at[t], now)
  <2> USE SchedulerAssumption DEF SchedulerAssumption, SchedInv, TypeOK
  <2>1. SelectTask(t)
    <3>1. PICK x \in Task : SelectTask(x)
      <4>1. Complete => UNCHANGED runs
        BY DEF Complete
      <4> QED BY <1>1, <4>1, QuietStep
    <3> QED BY <1>1, <3>1 DEF SelectTask
  <2>2. next_due[t] <= now /\ ~Polling(t)
    BY <2>1 DEF SelectTask, SelectDue, Due, Polling
  <2>3. finished_at[t] < next_due[t]
    BY <1>1, <2>2 DEF EndInv
  <2> DEFINE m == 1 + runs[t] + skipped[t]
  <2>4. m \in Nat /\ m >= 1 /\ Interval[t] \in Nat \ {0}
    BY <1>1
  <2>5. next_due[t] = Interval[t] * m
    BY <1>1, <2>2 DEF NoDrift, Finished
  <2> HIDE DEF m
  <2>6. m <= next_due[t] /\ next_due[t] = m * Interval[t] /\ now \in Nat /\ next_due[t] \in Nat
    <3>1. now \in Nat /\ next_due[t] \in Nat
      BY <1>1
    <3>2. m <= Interval[t] * m /\ Interval[t] * m = m * Interval[t]
      BY <2>4, FactorLemma
    <3> QED BY <2>5, <3>1, <3>2
  <2>7. m \in 1..now
    BY <2>2, <2>4, <2>6
  <2>8. finished_at[t] < m * Interval[t] /\ m * Interval[t] <= now
    BY <2>2, <2>3, <2>6
  <2> HIDE DEF SchedInv, TypeOK, SchedulerAssumption
  <2> QED BY <2>7, <2>8, Zenon DEF CycleBetween
<1>2. SchedInv /\ [Next]_vars =>
        [\A t \in Task : runs'[t] # runs[t] => CycleBetween(t, finished_at[t], now)]_vars
  BY <1>1
<1> QED BY <1>2, SchedulerInvariant, PTL DEF Spec, NoBurst

(* next_due does not run ahead of the clock by more than an interval, so   *)
(* that it overflows only if an interval from now does (on_complete).      *)
THEOREM DueTimesAreNear == Spec => []DueWithinInterval
<1>1. SchedInv => DueWithinInterval
  BY DEF SchedInv
<1> QED BY <1>1, SchedulerInvariant, PTL

(* No task starves: with any number of tasks, each of the others is polled *)
(* at most once before a due task gets its turn (select_due).              *)
THEOREM NobodyOvertakesTwice == Spec => []OvertakenOnce
<1>1. SchedInv => OvertakenOnce
  BY DEF SchedInv, OvertakenInv, OvertakenOnce
<1> QED BY <1>1, SchedulerInvariant, PTL
=============================================================================
