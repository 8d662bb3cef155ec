----------------------- MODULE ControlDispatcherProofs -----------------------
(***************************************************************************)
(* Proofs about ControlDispatcher, for any sets of requests, devices and   *)
(* stopping threads, any queue capacity and any time horizon.              *)
(***************************************************************************)
EXTENDS ControlDispatcher, TLAPS

-----------------------------------------------------------------------------
(* Sequences without repetition *)

(* The empty sequence holds nothing (a queue nothing was pushed to).       *)
LEMMA EmptyLemma ==
  /\ \A q : q = <<>> => q \in Seq(Request) /\ Len(q) <= Capacity
  /\ Distinct(<<>>)
  /\ \A x : ~In(<<>>, x)
<1>1. Len(<<>>) = 0 /\ <<>> \in Seq(Request)
  OBVIOUS
<1>2. 0 <= Capacity
  BY ControlAssumption DEF ControlAssumption
<1>3. ASSUME NEW q, q = <<>> PROVE q \in Seq(Request) /\ Len(q) <= Capacity
  <2>1. Len(q) = Len(<<>>) /\ q \in Seq(Request)
    BY <1>1, <1>3, Zenon
  <2>2. Len(q) = 0
    BY <1>1, <2>1, Zenon
  <2> QED BY <1>2, <2>1, <2>2, Zenon
<1>4. Distinct(<<>>) /\ \A x : ~In(<<>>, x)
  BY <1>1 DEF Distinct, In
<1> QED BY <1>3, <1>4, Zenon

(* What push_back does to the members of a queue.                          *)
LEMMA AppendLemma ==
  ASSUME NEW S, NEW q \in Seq(S), NEW r \in S, ~In(q, r), Distinct(q)
  PROVE  /\ Append(q, r) \in Seq(S)
         /\ Len(Append(q, r)) = Len(q) + 1
         /\ Distinct(Append(q, r))
         /\ \A x : In(Append(q, r), x) <=> In(q, x) \/ x = r
<1>1. \A i \in 1..Len(q) : q[i] # r
  BY DEF In
<1>2. /\ Append(q, r) \in Seq(S)
      /\ Len(Append(q, r)) = Len(q) + 1
      /\ \A i \in 1..Len(q) : Append(q, r)[i] = q[i]
      /\ Append(q, r)[Len(q) + 1] = r
  OBVIOUS
<1>3. Distinct(Append(q, r))
  BY <1>1, <1>2 DEF Distinct
<1>4. \A x : In(Append(q, r), x) <=> In(q, x) \/ x = r
  BY <1>2 DEF In
<1> QED BY <1>2, <1>3, <1>4

(* What pop_front does to the members of a queue.                          *)
LEMMA TailLemma ==
  ASSUME NEW S, NEW q \in Seq(S), q # <<>>, Distinct(q)
  PROVE  /\ Tail(q) \in Seq(S)
         /\ Head(q) \in S
         /\ Len(Tail(q)) = Len(q) - 1
         /\ Distinct(Tail(q))
         /\ In(q, Head(q))
         /\ ~In(Tail(q), Head(q))
         /\ \A x : In(q, x) <=> x = Head(q) \/ In(Tail(q), x)
<1>1. /\ Len(q) \in Nat \ {0}
      /\ Head(q) = q[1] /\ Head(q) \in S
      /\ Tail(q) \in Seq(S)
      /\ Len(Tail(q)) = Len(q) - 1
      /\ \A i \in 1..(Len(q) - 1) : Tail(q)[i] = q[i + 1]
  OBVIOUS
<1>2. Distinct(Tail(q))
  BY <1>1 DEF Distinct
<1>3. In(q, Head(q))
  BY <1>1 DEF In
<1>4. ~In(Tail(q), Head(q))
  BY <1>1 DEF Distinct, In
<1>5. \A x : In(q, x) => x = Head(q) \/ In(Tail(q), x)
  <2> SUFFICES ASSUME NEW x, NEW i \in 1..Len(q), q[i] = x, i # 1
               PROVE  In(Tail(q), x)
    BY <1>1 DEF In
  <2>1. i - 1 \in 1..(Len(q) - 1) /\ Tail(q)[i - 1] = q[i]
    BY <1>1
  <2> QED BY <2>1, <1>1 DEF In
<1>6. \A x : In(Tail(q), x) => In(q, x)
  <2> SUFFICES ASSUME NEW x, NEW i \in 1..(Len(q) - 1), Tail(q)[i] = x
               PROVE  In(q, x)
    BY <1>1 DEF In
  <2>1. i + 1 \in 1..Len(q) /\ q[i + 1] = x
    BY <1>1
  <2> QED BY <2>1 DEF In
<1> QED BY <1>1, <1>2, <1>3, <1>4, <1>5, <1>6

-----------------------------------------------------------------------------
(* The invariant holds initially *)

(* A dispatcher that has just been constructed satisfies the invariant.    *)
LEMMA InitInv == Init => ControlInv
<1> SUFFICES ASSUME Init PROVE ControlInv
  OBVIOUS
<1> USE ControlAssumption DEF Init, ControlAssumption
<1>1. QueueType
  BY EmptyLemma DEF QueueType
<1>2. StatsType
  BY DEF StatsType, Status, StatName, QueueStatName
<1>3. LifecycleType
  BY DEF LifecycleType
<1>4. ThreadType
  BY DEF ThreadType, Status, SubmitState, WorkerState, StopperState
<1>5. GateType
  BY DEF GateType
<1>6. LockInv
  BY DEF LockInv, Returned
<1>7. StopInv
  BY DEF StopInv, Canceller
<1>8. WorkerInv
  BY DEF WorkerInv, Busy
<1>9. PlaceInv
  BY EmptyLemma DEF PlaceInv, WasAccepted
<1>10. GateInv
  BY DEF GateInv
<1>11. CountInv
  <2>1. Len(queue) = 0 /\ Len(cancelled) = 0
    OBVIOUS
  <2>2. Completed = 0 /\ Pushed("pushAccepted") = 0 /\ Pushed("pushQueueFull") = 0
    BY DEF Completed, StatName, Status, Pushed
  <2> QED BY <2>1, <2>2
          DEF CountInv, Unreported, Unexecuted, HalfCancelled, Reporting, Busy, StatName,
              QueueStatName
<1> QED BY <1>1, <1>2, <1>3, <1>4, <1>5, <1>6, <1>7, <1>8, <1>9, <1>10, <1>11
        DEF ControlInv, TypeOK

-----------------------------------------------------------------------------
(* Every step preserves the types *)

(* The queue holds requests, at most Capacity of them (try_push).          *)
LEMMA QueueTypeStep == ControlInv /\ [Next]_vars => QueueType'
<1> SUFFICES ASSUME ControlInv, [Next]_vars PROVE QueueType'
  OBVIOUS
<1> USE ControlAssumption DEF ControlAssumption, ControlInv, TypeOK, QueueType
<1>1. ASSUME NEW r \in Request, SubmitPush(r) PROVE QueueType'
  <2>1. Append(queue, r) \in Seq(Request) /\ Len(Append(queue, r)) = Len(queue) + 1
    OBVIOUS
  <2>2. UNCHANGED <<closed, cancelled>>
    BY <1>1 DEF SubmitPush, stopVars
  <2>3. CASE TryPushResult = "pushAccepted"
    <3>1. queue' = Append(queue, r) /\ ~(Len(queue) >= Capacity)
      BY <1>1, <2>3 DEF SubmitPush, TryPush, TryPushResult
    <3> QED BY <2>1, <2>2, <3>1
  <2>4. CASE TryPushResult # "pushAccepted"
    BY <1>1, <2>2, <2>4 DEF SubmitPush, TryPush
  <2> QED BY <2>3, <2>4
<1>2. ASSUME NEW r \in Request, SubmitInvalid(r) \/ SubmitRefuse(r) \/ SubmitReturn(r)
      PROVE  QueueType'
  BY <1>2 DEF SubmitInvalid, SubmitRefuse, SubmitReturn, queueVars, stopVars
<1>3. CASE WaitPop
  BY <1>3 DEF WaitPop, PopFront, stopVars
<1>4. CASE \/ Start \/ SpuriousWakeup \/ Execute \/ AcquireGate \/ GateTimeout
           \/ CallDriver \/ DriverReturn \/ WorkerComplete \/ WorkerCallbackReturn
  BY <1>4 DEF Start, SpuriousWakeup, Execute, AcquireGate, GateTimeout,
     CallDriver, DriverReturn, WorkerComplete, WorkerCallbackReturn, queueVars,
     stopVars
<1>5. ASSUME NEW s \in Stopper, RequestStop(s) PROVE QueueType'
  BY <1>5 DEF RequestStop
<1>6. ASSUME NEW s \in Stopper, CancelPending(s) PROVE QueueType'
  BY <1>6, EmptyLemma DEF CancelPending
<1>7. ASSUME NEW s \in Stopper, CompleteCancelled(s) PROVE QueueType'
  BY <1>7 DEF CompleteCancelled, queueVars
<1>8. ASSUME NEW s \in Stopper, CancelCallbackReturn(s) PROVE QueueType'
  BY <1>8 DEF CancelCallbackReturn, queueVars, StopInv
<1>9. ASSUME NEW s \in Stopper, StopRequestComplete(s) \/ Join(s) \/ Joined(s)
      PROVE  QueueType'
  BY <1>9 DEF StopRequestComplete, Join, Joined, queueVars
<1>10. CASE \/ \E d \in Gated : PollBegin(d)
            \/ PollEnd \/ SchedulerJoined \/ Tick
  BY <1>10 DEF PollBegin, PollEnd, SchedulerJoined, Tick, queueVars, stopVars
<1>11. CASE Terminated \/ UNCHANGED vars
  BY <1>11 DEF Terminated, vars, queueVars, stopVars
<1> QED BY <1>1, <1>2, <1>3, <1>4, <1>5, <1>6, <1>7, <1>8, <1>9, <1>10, <1>11
        DEF Next, Submit, WorkerStep, StopStep

(* Every step counts under a known name (submit, complete, execute).       *)
LEMMA StatsTypeStep == ControlInv /\ [Next]_vars => StatsType'
<1> SUFFICES ASSUME ControlInv, [Next]_vars PROVE StatsType'
  OBVIOUS
<1> USE DEF ControlInv, TypeOK, StatsType, Count, CountRefused
<1>1. ASSUME NEW r \in Request, SubmitPush(r) PROVE StatsType'
  <2>1. Len(queue) + 1 \in Nat
    BY DEF QueueType
  <2>2. qstats' \in [QueueStatName -> Nat]
    BY <1>1, <2>1 DEF SubmitPush, TryPush, QueueStatName
  <2>3. stats' \in [StatName -> Nat]
    BY <1>1 DEF SubmitPush, StatName
  <2> QED BY <1>1, <2>2, <2>3 DEF SubmitPush, reportVars
<1>2. ASSUME NEW r \in Request, SubmitInvalid(r) \/ SubmitRefuse(r) \/ SubmitReturn(r)
      PROVE  StatsType'
  BY <1>2 DEF SubmitInvalid, SubmitRefuse, SubmitReturn, queueVars, reportVars
<1>3. CASE \/ Start \/ SpuriousWakeup \/ WaitPop \/ Execute \/ AcquireGate
           \/ GateTimeout \/ DriverReturn \/ WorkerCallbackReturn
  BY <1>3 DEF Start, SpuriousWakeup, WaitPop, Execute, AcquireGate, GateTimeout,
     DriverReturn, WorkerCallbackReturn, queueVars, reportVars
<1>10. CASE CallDriver
  BY <1>10 DEF CallDriver, queueVars, reportVars, StatName
<1>4. CASE WorkerComplete
  <2>1. result \in Status /\ op \in Request
    BY <1>4 DEF WorkerComplete, ThreadType, WorkerInv, Busy
  <2>2. stats' \in [StatName -> Nat]
    BY <1>4, <2>1 DEF WorkerComplete, Complete, StatName
  <2>3. completions' \in [Request -> Nat] /\ outcome' \in [Request -> Status]
    BY <1>4, <2>1 DEF WorkerComplete, Complete
  <2> QED BY <1>4, <2>2, <2>3 DEF WorkerComplete, queueVars
<1>5. ASSUME NEW s \in Stopper, CancelPending(s) PROVE StatsType'
  <2>1. Len(queue) \in Nat
    BY DEF QueueType
  <2> QED BY <1>5, <2>1 DEF CancelPending, reportVars, QueueStatName
<1>6. ASSUME NEW s \in Stopper, CompleteCancelled(s) PROVE StatsType'
  <2>1. Head(cancelled) \in Request
    BY <1>6 DEF CompleteCancelled, QueueType
  <2>2. stats' \in [StatName -> Nat]
    BY <1>6 DEF CompleteCancelled, Complete, StatName, Status
  <2>3. completions' \in [Request -> Nat] /\ outcome' \in [Request -> Status]
    BY <1>6, <2>1 DEF CompleteCancelled, Complete, Status
  <2> QED BY <1>6, <2>2, <2>3 DEF CompleteCancelled, queueVars
<1>7. ASSUME NEW s \in Stopper,
             \/ RequestStop(s) \/ CancelCallbackReturn(s)
             \/ StopRequestComplete(s) \/ Join(s) \/ Joined(s)
      PROVE  StatsType'
  BY <1>7 DEF RequestStop, CancelCallbackReturn, StopRequestComplete, Join,
     Joined, queueVars, reportVars
<1>8. CASE \/ \E d \in Gated : PollBegin(d)
           \/ PollEnd \/ SchedulerJoined \/ Tick
  BY <1>8 DEF PollBegin, PollEnd, SchedulerJoined, Tick, queueVars, reportVars
<1>9. CASE Terminated \/ UNCHANGED vars
  BY <1>9 DEF Terminated, vars, queueVars, reportVars
<1> QED BY <1>1, <1>2, <1>3, <1>4, <1>5, <1>6, <1>7, <1>8, <1>9, <1>10
        DEF Next, Submit, WorkerStep, StopStep

(* The lifecycle flags stay flags, the lock has one owner or none.         *)
LEMMA LifecycleTypeStep == ControlInv /\ [Next]_vars => LifecycleType'
<1> SUFFICES ASSUME ControlInv, [Next]_vars PROVE LifecycleType'
  OBVIOUS
<1> USE DEF ControlInv, TypeOK, LifecycleType, lifecycleVars
<1>1. ASSUME NEW r \in Request, Submit(r) \/ SubmitReturn(r) PROVE LifecycleType'
  BY <1>1 DEF Submit, SubmitInvalid, SubmitRefuse, SubmitPush, HoldLifecycle,
     SubmitReturn
<1>2. CASE Start \/ SpuriousWakeup \/ WorkerStep
  BY <1>2 DEF Start, SpuriousWakeup, WorkerStep, WaitPop, Execute, AcquireGate,
     GateTimeout, CallDriver, DriverReturn, WorkerComplete, WorkerCallbackReturn
<1>3. ASSUME NEW s \in Stopper, RequestStop(s) \/ StopStep(s) PROVE LifecycleType'
  BY <1>3 DEF RequestStop, StopStep, CancelPending, CompleteCancelled,
     CancelCallbackReturn, StopRequestComplete, Join, Joined
<1>4. CASE \/ \E d \in Gated : PollBegin(d)
           \/ PollEnd \/ SchedulerJoined \/ Tick
  BY <1>4 DEF PollBegin, PollEnd, SchedulerJoined, Tick
<1>5. CASE Terminated \/ UNCHANGED vars
  BY <1>5 DEF Terminated, vars
<1> QED BY <1>1, <1>2, <1>3, <1>4, <1>5 DEF Next

(* Every thread stays in a state of its control flow.                      *)
LEMMA ThreadTypeStep == ControlInv /\ [Next]_vars => ThreadType'
<1> SUFFICES ASSUME ControlInv, [Next]_vars PROVE ThreadType'
  OBVIOUS
<1> USE DEF ControlInv, TypeOK, ThreadType, submitVars, workerVars, stopVars
<1>1. ASSUME NEW r \in Request, SubmitInvalid(r) \/ SubmitRefuse(r) PROVE ThreadType'
  BY <1>1 DEF SubmitInvalid, SubmitRefuse, SubmitState, Refused
<1>2. ASSUME NEW r \in Request, SubmitPush(r) PROVE ThreadType'
  <2>1. submit' \in [Request -> SubmitState]
    BY <1>2 DEF SubmitPush, TryPush, TryPushResult, SubmitState
  <2>2. worker' \in WorkerState
    BY <1>2 DEF SubmitPush, TryPush, NotifyWorker, WorkerState
  <2> QED BY <1>2, <2>1, <2>2 DEF SubmitPush
<1>3. ASSUME NEW r \in Request, SubmitReturn(r) PROVE ThreadType'
  BY <1>3 DEF SubmitReturn, Returned, SubmitState, Refused
<1>4. CASE Start \/ SpuriousWakeup \/ AcquireGate
  BY <1>4 DEF Start, SpuriousWakeup, AcquireGate, WorkerState
<1>5. CASE WaitPop
  <2>1. queue # <<>> => Head(queue) \in Request
    BY DEF QueueType
  <2> QED BY <1>5, <2>1 DEF WaitPop, PopFront, WorkerState
<1>6. CASE Execute \/ GateTimeout \/ CallDriver
  BY <1>6 DEF Execute, GateTimeout, CallDriver, WorkerState, Status
<1>7. CASE DriverReturn
  BY <1>7, DriverStatusAssumption DEF DriverReturn, WorkerState, Status
<1>8. CASE WorkerComplete \/ WorkerCallbackReturn
  BY <1>8 DEF WorkerComplete, WorkerCallbackReturn, WorkerState
<1>9. ASSUME NEW s \in Stopper, RequestStop(s) PROVE ThreadType'
  BY <1>9 DEF RequestStop, NotifyWorker, WorkerState, StopperState
<1>10. ASSUME NEW s \in Stopper, StopStep(s) PROVE ThreadType'
  BY <1>10 DEF StopStep, CancelPending, CompleteCancelled, CancelCallbackReturn,
     StopRequestComplete, NotifyStoppers, Join, Joined, StopperState
<1>11. CASE \/ \E d \in Gated : PollBegin(d)
            \/ PollEnd \/ SchedulerJoined \/ Tick
  BY <1>11 DEF PollBegin, PollEnd, SchedulerJoined, Tick
<1>12. CASE Terminated \/ UNCHANGED vars
  BY <1>12 DEF Terminated, vars
<1> QED BY <1>1, <1>2, <1>3, <1>4, <1>5, <1>6, <1>7, <1>8, <1>9, <1>10, <1>11,
           <1>12
        DEF Next, Submit, WorkerStep

(* Gates are free or held, and the clock stays below time_point::max().    *)
LEMMA GateTypeStep == ControlInv /\ [Next]_vars => GateType'
<1> SUFFICES ASSUME ControlInv, [Next]_vars PROVE GateType'
  OBVIOUS
<1> USE ControlAssumption DEF ControlAssumption, ControlInv, TypeOK, GateType, pollVars
<1>1. ASSUME NEW r \in Request, Submit(r) \/ SubmitReturn(r) PROVE GateType'
  BY <1>1 DEF Submit, SubmitInvalid, SubmitRefuse, SubmitPush, SubmitReturn
<1>2. CASE Start \/ SpuriousWakeup \/ WorkerStep
  BY <1>2 DEF Start, SpuriousWakeup, WorkerStep, WaitPop, Execute, AcquireGate,
     GateTimeout, CallDriver, UnlockGate, DriverReturn, WorkerComplete,
     WorkerCallbackReturn
<1>3. ASSUME NEW s \in Stopper, RequestStop(s) \/ StopStep(s) PROVE GateType'
  BY <1>3 DEF RequestStop, StopStep, CancelPending, CompleteCancelled,
     CancelCallbackReturn, StopRequestComplete, Join, Joined
<1>4. CASE (\E d \in Gated : PollBegin(d)) \/ PollEnd \/ SchedulerJoined
  BY <1>4 DEF PollBegin, PollEnd, SchedulerJoined
<1>5. CASE Tick
  <2>1. now + 1 \in 0..(TimeMax - 1)
    BY <1>5 DEF Tick
  <2> QED BY <1>5, <2>1 DEF Tick
<1>6. CASE Terminated \/ UNCHANGED vars
  BY <1>6 DEF Terminated, vars
<1> QED BY <1>1, <1>2, <1>3, <1>4, <1>5, <1>6 DEF Next

-----------------------------------------------------------------------------
(* Every step preserves the other parts of the invariant *)

(* lifecycle_mutex_ stays with the thread that took it until it lets go.   *)
LEMMA LockInvStep == ControlInv /\ [Next]_vars => LockInv'
<1> SUFFICES ASSUME ControlInv, [Next]_vars PROVE LockInv'
  OBVIOUS
<1> USE ControlAssumption
    DEF ControlAssumption, ControlInv, TypeOK, ThreadType, LockInv, lifecycleVars
<1>d. DOMAIN Returned = {"pushAccepted", "pushQueueFull", "pushStopping"}
  BY DEF Returned
<1>1. ASSUME NEW r \in Request, SubmitInvalid(r) \/ SubmitRefuse(r) PROVE LockInv'
  BY <1>1, <1>d DEF SubmitInvalid, SubmitRefuse, stopVars
<1>2. ASSUME NEW r \in Request, SubmitPush(r) PROVE LockInv'
  <2>1. submit' = [submit EXCEPT ![r] = TryPushResult] /\ lifecycle' = r
        /\ stopper' = stopper /\ lifecycle = Nobody /\ ~stopping /\ ~stopping'
    BY <1>2 DEF SubmitPush, TryPush, HoldLifecycle, stopVars
  <2>2. TryPushResult \in DOMAIN Returned
    BY <1>d DEF TryPushResult
  <2> QED BY <2>1, <2>2
<1>3. ASSUME NEW r \in Request, SubmitReturn(r) PROVE LockInv'
  <2>1. Returned[submit[r]] \notin DOMAIN Returned
    BY <1>3, <1>d DEF SubmitReturn, Returned
  <2> QED BY <1>3, <2>1 DEF SubmitReturn, stopVars
<1>4. CASE Start \/ SpuriousWakeup \/ WorkerStep
  <2>1. UNCHANGED <<stopping, lifecycle, submit, stopper>>
    BY <1>4 DEF Start, SpuriousWakeup, WorkerStep, WaitPop, Execute, AcquireGate,
       GateTimeout, CallDriver, DriverReturn, WorkerComplete,
       WorkerCallbackReturn, submitVars, stopVars
  <2> QED BY <2>1
<1>5. ASSUME NEW s \in Stopper, RequestStop(s) PROVE LockInv'
  BY <1>5 DEF RequestStop, submitVars
<1>6. ASSUME NEW s \in Stopper, CancelPending(s) PROVE LockInv'
  BY <1>6 DEF CancelPending, submitVars
<1>7. ASSUME NEW s \in Stopper, CompleteCancelled(s) \/ CancelCallbackReturn(s)
      PROVE  LockInv'
  BY <1>7 DEF CompleteCancelled, CancelCallbackReturn, submitVars
<1>8. ASSUME NEW s \in Stopper, StopRequestComplete(s) \/ Join(s) \/ Joined(s)
      PROVE  LockInv'
  BY <1>8 DEF StopRequestComplete, Join, Joined, NotifyStoppers, submitVars
<1>9. CASE \/ \E d \in Gated : PollBegin(d)
           \/ PollEnd \/ SchedulerJoined \/ Tick
  BY <1>9 DEF PollBegin, PollEnd, SchedulerJoined, Tick, submitVars, stopVars
<1>10. CASE Terminated \/ UNCHANGED vars
  BY <1>10 DEF Terminated, vars, submitVars, stopVars
<1> QED BY <1>1, <1>2, <1>3, <1>4, <1>5, <1>6, <1>7, <1>8, <1>9, <1>10
        DEF Next, Submit, StopStep

(* Only one thread cancels, and join() passes only behind it.              *)
LEMMA StopInvStep == ControlInv /\ [Next]_vars => StopInv'
<1> SUFFICES ASSUME ControlInv, [Next]_vars PROVE StopInv'
  OBVIOUS
<1> USE DEF ControlInv, TypeOK, ThreadType, StopInv, Canceller, lifecycleVars,
            queueVars, workerVars, stopVars
<1>1. ASSUME NEW r \in Request, SubmitInvalid(r) \/ SubmitRefuse(r) \/ SubmitReturn(r)
      PROVE  StopInv'
  BY <1>1 DEF SubmitInvalid, SubmitRefuse, SubmitReturn
<1>2. ASSUME NEW r \in Request, SubmitPush(r) PROVE StopInv'
  <2>1. /\ UNCHANGED <<closed, lifecycleVars, stopVars>>
        /\ worker = "exited" => worker' = "exited"
    BY <1>2 DEF SubmitPush, TryPush, NotifyWorker
  <2> QED BY <2>1
<1>3. CASE Start
  BY <1>3 DEF Start, WorkerInv
<1>4. CASE SpuriousWakeup \/ WorkerStep
  <2>1. /\ UNCHANGED <<closed, lifecycleVars, stopVars>>
        /\ worker = "exited" => worker' = "exited"
    BY <1>4 DEF SpuriousWakeup, WorkerStep, WaitPop, Execute, AcquireGate,
     GateTimeout, CallDriver, DriverReturn, WorkerComplete, WorkerCallbackReturn
  <2> QED BY <2>1
<1>5. ASSUME NEW s \in Stopper, RequestStop(s) PROVE StopInv'
  <2>1. CASE stopping
    BY <1>5, <2>1 DEF RequestStop
  <2>2. CASE ~stopping
    BY <1>5, <2>2 DEF RequestStop, NotifyWorker
  <2> QED BY <2>1, <2>2
<1>6. ASSUME NEW s \in Stopper, CancelPending(s) PROVE StopInv'
  BY <1>6 DEF CancelPending
<1>7. ASSUME NEW s \in Stopper, CompleteCancelled(s) PROVE StopInv'
  BY <1>7 DEF CompleteCancelled
<1>8. ASSUME NEW s \in Stopper, CancelCallbackReturn(s) PROVE StopInv'
  BY <1>8 DEF CancelCallbackReturn
<1>9. ASSUME NEW s \in Stopper, StopRequestComplete(s) PROVE StopInv'
  BY <1>9 DEF StopRequestComplete, NotifyStoppers
<1>10. ASSUME NEW s \in Stopper, Join(s) PROVE StopInv'
  BY <1>10 DEF Join, MayJoin
<1>11. ASSUME NEW s \in Stopper, Joined(s) PROVE StopInv'
  BY <1>11 DEF Joined, NotifyStoppers
<1>12. CASE \/ \E d \in Gated : PollBegin(d)
            \/ PollEnd \/ SchedulerJoined \/ Tick
  BY <1>12 DEF PollBegin, PollEnd, SchedulerJoined, Tick
<1>13. CASE Terminated \/ UNCHANGED vars
  BY <1>13 DEF Terminated, vars
<1> QED BY <1>1, <1>2, <1>3, <1>4, <1>5, <1>6, <1>7, <1>8, <1>9, <1>10, <1>11,
           <1>12, <1>13
        DEF Next, Submit, StopStep

(* The worker runs from start() until the closed queue is empty.           *)
LEMMA WorkerInvStep == ControlInv /\ [Next]_vars => WorkerInv'
<1> SUFFICES ASSUME ControlInv, [Next]_vars PROVE WorkerInv'
  OBVIOUS
<1> USE DEF ControlInv, TypeOK, ThreadType, WorkerInv, Busy, lifecycleVars,
            queueVars, workerVars, stopVars
<1>1. ASSUME NEW r \in Request, SubmitInvalid(r) \/ SubmitRefuse(r) \/ SubmitReturn(r)
      PROVE  WorkerInv'
  BY <1>1 DEF SubmitInvalid, SubmitRefuse, SubmitReturn
<1>2. ASSUME NEW r \in Request, SubmitPush(r) PROVE WorkerInv'
  <2>1. started /\ ~stopping /\ worker # "exited" /\ worker # "off"
    BY <1>2 DEF SubmitPush
  <2>2. UNCHANGED <<lifecycleVars, stopVars, op>>
    BY <1>2 DEF SubmitPush
  <2>3. worker' = worker \/ (worker = "asleep" /\ worker' = "check")
    BY <1>2 DEF SubmitPush, TryPush, NotifyWorker
  <2> QED BY <2>1, <2>2, <2>3
<1>3. CASE Start
  BY <1>3 DEF Start
<1>4. CASE WaitPop
  <2>1. queue # <<>> => Head(queue) \in Request
    BY DEF QueueType
  <2>2. UNCHANGED <<lifecycleVars, stopVars>> /\ started
    BY <1>4 DEF WaitPop
  <2>3. CASE queue # <<>>
    BY <1>4, <2>1, <2>2, <2>3, ControlAssumption
    DEF WaitPop, PopFront, ControlAssumption
  <2>4. CASE queue = <<>>
    BY <1>4, <2>2, <2>4 DEF WaitPop, StopInv
  <2> QED BY <2>3, <2>4
<1>5. CASE SpuriousWakeup \/ Execute \/ AcquireGate \/ GateTimeout \/ CallDriver
           \/ DriverReturn
  BY <1>5 DEF SpuriousWakeup, Execute, AcquireGate, GateTimeout, CallDriver,
     DriverReturn
<1>6. CASE WorkerComplete \/ WorkerCallbackReturn
  BY <1>6 DEF WorkerComplete, WorkerCallbackReturn
<1>7. ASSUME NEW s \in Stopper, RequestStop(s) PROVE WorkerInv'
  BY <1>7 DEF RequestStop, NotifyWorker
<1>8. ASSUME NEW s \in Stopper, CancelPending(s) PROVE WorkerInv'
  BY <1>8 DEF CancelPending
<1>9. ASSUME NEW s \in Stopper, CompleteCancelled(s) PROVE WorkerInv'
  BY <1>9 DEF CompleteCancelled
<1>10. ASSUME NEW s \in Stopper, CancelCallbackReturn(s) PROVE WorkerInv'
  BY <1>10 DEF CancelCallbackReturn, StopInv
<1>11. ASSUME NEW s \in Stopper, StopRequestComplete(s) \/ Join(s) \/ Joined(s)
       PROVE  WorkerInv'
  BY <1>11 DEF StopRequestComplete, Join, Joined
<1>12. CASE \/ \E d \in Gated : PollBegin(d)
            \/ PollEnd \/ SchedulerJoined \/ Tick
  BY <1>12 DEF PollBegin, PollEnd, SchedulerJoined, Tick
<1>13. CASE Terminated \/ UNCHANGED vars
  BY <1>13 DEF Terminated, vars
<1> QED BY <1>1, <1>2, <1>3, <1>4, <1>5, <1>6, <1>7, <1>8, <1>9, <1>10, <1>11,
           <1>12, <1>13
        DEF Next, Submit, WorkerStep, StopStep

(* A step that leaves alone what PlaceInv reads preserves it.              *)
LEMMA PlaceFrame ==
  ASSUME PlaceInv, UNCHANGED <<queue, cancelled, completions, op>>,
         worker' = "callback" <=> worker = "callback",
         Reporting' <=> Reporting,
         \A r \in Request : WasAccepted(r)' <=> WasAccepted(r)
  PROVE  PlaceInv'
BY DEF PlaceInv, Reporting

(* Every accepted request stays in one place until it is reported.         *)
LEMMA PlaceInvStep == ControlInv /\ [Next]_vars => PlaceInv'
<1> SUFFICES ASSUME ControlInv, [Next]_vars PROVE PlaceInv'
  OBVIOUS
<1> USE DEF ControlInv, TypeOK, ThreadType, queueVars, submitVars, workerVars,
            stopVars, reportVars, Reporting
<1>1. ASSUME NEW r \in Request, SubmitInvalid(r) \/ SubmitRefuse(r) \/ SubmitReturn(r)
      PROVE  PlaceInv'
  <2>1. UNCHANGED <<queue, cancelled, completions, op, worker, stopper>>
    BY <1>1 DEF SubmitInvalid, SubmitRefuse, SubmitReturn
  <2>2. \A x \in Request : WasAccepted(x)' <=> WasAccepted(x)
    BY <1>1 DEF SubmitInvalid, SubmitRefuse, SubmitReturn, WasAccepted, Returned
  <2> QED BY <2>1, <2>2, PlaceFrame DEF Reporting
<1>2. ASSUME NEW r \in Request, SubmitPush(r) PROVE PlaceInv'
  <2>1. /\ UNCHANGED <<cancelled, completions, op, stopper>>
        /\ submit' = [submit EXCEPT ![r] = TryPushResult]
        /\ submit[r] = "idle"
    BY <1>2 DEF SubmitPush, TryPush
  <2>2. worker' = "callback" <=> worker = "callback"
    BY <1>2 DEF SubmitPush, TryPush, NotifyWorker
  <2>3. CASE TryPushResult = "pushAccepted"
    <3>1. queue' = Append(queue, r)
      BY <1>2, <2>3 DEF SubmitPush, TryPush
    <3>2. /\ ~WasAccepted(r) /\ WasAccepted(r)'
          /\ \A x \in Request : x # r => (WasAccepted(x)' <=> WasAccepted(x))
      BY <2>1, <2>3 DEF WasAccepted
    <3>3. ~In(queue, r) /\ ~In(cancelled, r) /\ op # r /\ completions[r] = 0
      BY <3>2 DEF PlaceInv
    <3>4. Distinct(queue') /\ \A x : In(queue', x) <=> In(queue, x) \/ x = r
      BY <3>1, <3>3, AppendLemma DEF PlaceInv, QueueType
    <3> QED BY <2>1, <2>2, <3>2, <3>3, <3>4 DEF PlaceInv
  <2>4. CASE TryPushResult # "pushAccepted"
    <3>1. queue' = queue
      BY <1>2, <2>4 DEF SubmitPush, TryPush
    <3>2. \A x \in Request : WasAccepted(x)' <=> WasAccepted(x)
      BY <2>1, <2>4 DEF WasAccepted, TryPushResult
    <3> QED BY <2>1, <2>2, <3>1, <3>2, PlaceFrame DEF Reporting
  <2> QED BY <2>3, <2>4
<1>3. CASE \/ Start \/ SpuriousWakeup \/ Execute \/ AcquireGate \/ GateTimeout
           \/ CallDriver \/ DriverReturn
  <2>1. /\ UNCHANGED <<queue, cancelled, completions, op, stopper, submit>>
        /\ worker # "callback" /\ worker' # "callback"
    BY <1>3 DEF Start, SpuriousWakeup, Execute, AcquireGate, GateTimeout,
       CallDriver, DriverReturn, WorkerInv
  <2> QED BY <2>1, PlaceFrame DEF Reporting, WasAccepted
<1>4. CASE WaitPop
  <2>1. /\ UNCHANGED <<cancelled, completions, stopper, submit>>
        /\ worker # "callback" /\ worker' # "callback" /\ op = Nobody
    BY <1>4 DEF WaitPop, WorkerInv, Busy
  <2>2. CASE queue # <<>>
    <3>1. queue' = Tail(queue) /\ op' = Head(queue)
      BY <1>4, <2>2 DEF WaitPop, PopFront
    <3>2. /\ Distinct(queue') /\ ~In(queue', op')
          /\ \A x : In(queue, x) <=> x = op' \/ In(queue', x)
      BY <2>2, <3>1, TailLemma DEF PlaceInv, QueueType
    <3>3. \A r \in Request : op # r
      BY <2>1, ControlAssumption DEF ControlAssumption
    <3> QED BY <2>1, <3>2, <3>3 DEF PlaceInv, WasAccepted
  <2>3. CASE queue = <<>>
    <3>1. UNCHANGED <<queue, op>>
      BY <1>4, <2>3 DEF WaitPop
    <3> QED BY <2>1, <3>1, PlaceFrame DEF Reporting, WasAccepted
  <2> QED BY <2>2, <2>3
<1>5. CASE WorkerComplete
  <2>1. /\ UNCHANGED <<queue, cancelled, stopper, submit>>
        /\ worker = "complete" /\ op \in Request
        /\ completions' = [completions EXCEPT ![op] = @ + 1]
    BY <1>5 DEF WorkerComplete, Complete, WorkerInv, Busy
  <2>2. completions[op] = 0 /\ WasAccepted(op)
    BY <2>1 DEF PlaceInv
  <2>3. /\ completions'[op] = 1
        /\ \A r \in Request : r # op => completions'[r] = completions[r]
    BY <2>1, <2>2 DEF StatsType
  <2>4. \/ op' = op /\ worker' = "callback"
        \/ op' = Nobody /\ worker' = "check"
    BY <1>5 DEF WorkerComplete
  <2>5. ~In(queue, op) /\ ~In(cancelled, op)
    BY <2>1 DEF PlaceInv
  <2> QED BY <2>1, <2>2, <2>3, <2>4, <2>5, ControlAssumption
          DEF PlaceInv, WasAccepted, ControlAssumption
<1>6. CASE WorkerCallbackReturn
  <2>1. /\ UNCHANGED <<queue, cancelled, stopper, submit, completions>>
        /\ worker = "callback" /\ worker' = "check" /\ op' = Nobody
    BY <1>6 DEF WorkerCallbackReturn
  <2> QED BY <2>1, ControlAssumption DEF PlaceInv, WasAccepted, ControlAssumption
<1>7. ASSUME NEW s \in Stopper, RequestStop(s) PROVE PlaceInv'
  <2>1. /\ UNCHANGED <<queue, cancelled, completions, op, submit>>
        /\ worker' = "callback" <=> worker = "callback"
        /\ Reporting' <=> Reporting
    BY <1>7 DEF RequestStop, NotifyWorker, Reporting
  <2> QED BY <2>1, PlaceFrame DEF WasAccepted
<1>8. ASSUME NEW s \in Stopper, CancelPending(s) PROVE PlaceInv'
  <2>1. /\ UNCHANGED <<completions, op, submit, worker>>
        /\ cancelled = <<>> /\ ~Reporting /\ ~Reporting'
    BY <1>8 DEF CancelPending, StopInv, Canceller, Reporting
  <2>2. CASE cancelled' = queue /\ queue' = <<>>
    BY <2>1, <2>2, EmptyLemma DEF PlaceInv, WasAccepted, Reporting
  <2>3. CASE UNCHANGED <<cancelled, queue>>
    BY <2>1, <2>3, PlaceFrame DEF WasAccepted
  <2> QED BY <1>8, <2>2, <2>3 DEF CancelPending
<1>9. ASSUME NEW s \in Stopper, CompleteCancelled(s) PROVE PlaceInv'
  <2> DEFINE h == Head(cancelled)
  <2>1. /\ UNCHANGED <<queue, op, submit, worker>>
        /\ completions' = [completions EXCEPT ![h] = @ + 1]
        /\ cancelled # <<>> /\ ~Reporting
    BY <1>9 DEF CompleteCancelled, Complete, StopInv, Canceller, Reporting
  <2>2. /\ h \in Request
        /\ Distinct(Tail(cancelled)) /\ In(cancelled, h) /\ ~In(Tail(cancelled), h)
        /\ \A x : In(cancelled, x) <=> x = h \/ In(Tail(cancelled), x)
    BY <2>1, TailLemma DEF PlaceInv, QueueType
  <2>3. /\ completions[h] = 0 /\ WasAccepted(h) /\ op # h /\ ~In(queue, h)
    BY <2>1, <2>2 DEF PlaceInv, Reporting
  <2>4. /\ completions'[h] = 1
        /\ \A r \in Request : r # h => completions'[r] = completions[r]
    BY <2>1, <2>2, <2>3 DEF StatsType
  <2>5. \/ cancelled' = Tail(cancelled) /\ stopper' = stopper
        \/ cancelled' = cancelled /\ Reporting'
    BY <1>9 DEF CompleteCancelled, Reporting
  <2>6. CASE cancelled' = Tail(cancelled) /\ stopper' = stopper
    <3>1. ~Reporting'
      BY <2>1, <2>6 DEF Reporting
    <3> HIDE DEF h
    <3> QED BY <2>1, <2>2, <2>3, <2>4, <2>6, <3>1 DEF PlaceInv, WasAccepted, Reporting
  <2>7. CASE cancelled' = cancelled /\ Reporting'
    BY <2>1, <2>2, <2>3, <2>4, <2>7 DEF PlaceInv, WasAccepted, Reporting
  <2> QED BY <2>5, <2>6, <2>7
<1>10. ASSUME NEW s \in Stopper, CancelCallbackReturn(s) PROVE PlaceInv'
  <2>1. /\ UNCHANGED <<queue, op, submit, worker, completions>>
        /\ cancelled # <<>> /\ cancelled' = Tail(cancelled)
        /\ Reporting /\ ~Reporting'
    BY <1>10 DEF CancelCallbackReturn, StopInv, Canceller, Reporting
  <2>2. /\ Distinct(cancelled') /\ ~In(cancelled', Head(cancelled))
        /\ \A x : In(cancelled, x) <=> x = Head(cancelled) \/ In(cancelled', x)
    BY <2>1, TailLemma DEF PlaceInv, QueueType
  <2> QED BY <2>1, <2>2 DEF PlaceInv, WasAccepted, Reporting
<1>11. ASSUME NEW s \in Stopper, StopRequestComplete(s) \/ Join(s) \/ Joined(s)
       PROVE  PlaceInv'
  <2>1. /\ UNCHANGED <<queue, cancelled, completions, op, submit, worker>>
        /\ Reporting' <=> Reporting
    BY <1>11 DEF StopRequestComplete, Join, Joined, NotifyStoppers, Reporting
  <2> QED BY <2>1, PlaceFrame DEF WasAccepted
<1>12. CASE \/ \E d \in Gated : PollBegin(d)
            \/ PollEnd \/ SchedulerJoined \/ Tick \/ Terminated \/ UNCHANGED vars
  <2>1. UNCHANGED <<queue, cancelled, completions, op, submit, worker, stopper>>
    BY <1>12 DEF PollBegin, PollEnd, SchedulerJoined, Tick, Terminated, vars
  <2> QED BY <2>1, PlaceFrame DEF WasAccepted, Reporting
<1> QED BY <1>1, <1>2, <1>3, <1>4, <1>5, <1>6, <1>7, <1>8, <1>9, <1>10, <1>11,
           <1>12
        DEF Next, Submit, WorkerStep, StopStep

(* A gate belongs to the worker or to the scheduler, never to both.        *)
LEMMA GateInvStep == ControlInv /\ [Next]_vars => GateInv'
<1> SUFFICES ASSUME ControlInv, [Next]_vars PROVE GateInv'
  OBVIOUS
<1> USE ControlAssumption
    DEF ControlAssumption, ControlInv, TypeOK, GateType, GateInv, Dev, pollVars,
        submitVars, workerVars
<1>1. ASSUME NEW r \in Request, Submit(r) \/ SubmitReturn(r) PROVE GateInv'
  <2>1. /\ UNCHANGED <<gate, polling, req, op>>
        /\ worker' = worker \/ (worker = "asleep" /\ worker' = "check")
    BY <1>1 DEF Submit, SubmitInvalid, SubmitRefuse, SubmitPush, TryPush,
       NotifyWorker, SubmitReturn
  <2> QED BY <2>1
<1>2. CASE Start \/ SpuriousWakeup \/ WaitPop \/ GateTimeout
  BY <1>2 DEF Start, WorkerInv, SpuriousWakeup, WaitPop, GateTimeout
<1>3. CASE Execute
  <2>1. /\ UNCHANGED <<gate, polling, req, op>> /\ worker = "execute"
        /\ worker' = "complete" \/ (worker' = "gate" /\ Dev \in Gated)
    BY <1>3 DEF Execute
  <2> QED BY <2>1
<1>4. CASE AcquireGate
  BY <1>4 DEF AcquireGate, GateFree
<1>5. CASE CallDriver \/ DriverReturn
  BY <1>5 DEF CallDriver, DriverReturn, UnlockGate
<1>6. CASE WorkerComplete \/ WorkerCallbackReturn
  BY <1>6 DEF WorkerComplete, WorkerCallbackReturn
<1>7. ASSUME NEW s \in Stopper, RequestStop(s) \/ StopStep(s) PROVE GateInv'
  <2>1. /\ UNCHANGED <<gate, polling, req, op>>
        /\ worker' = worker \/ (worker = "asleep" /\ worker' = "check")
    BY <1>7 DEF RequestStop, NotifyWorker, StopStep, CancelPending,
       CompleteCancelled, CancelCallbackReturn, StopRequestComplete, Join, Joined
  <2> QED BY <2>1
<1>8. ASSUME NEW d \in Gated, PollBegin(d) PROVE GateInv'
  BY <1>8 DEF PollBegin
<1>9. CASE PollEnd
  BY <1>9 DEF PollEnd
<1>10. CASE SchedulerJoined \/ Tick \/ Terminated \/ UNCHANGED vars
  BY <1>10 DEF SchedulerJoined, Tick, Terminated, vars
<1> QED BY <1>1, <1>2, <1>3, <1>4, <1>5, <1>6, <1>7, <1>8, <1>9, <1>10
        DEF Next, WorkerStep

(* Counting one status adds one to the number of completed requests, and   *)
(* counting anything else leaves it (complete() against the rest).         *)
LEMMA CompletedLemma ==
  ASSUME StatsType, NEW k \in StatName, Count(k)
  PROVE  /\ k \in Status => Completed' = Completed + 1
         /\ k \notin Status => Completed' = Completed
         /\ Completed \in Nat
         /\ \A x \in StatName : stats'[x] = IF x = k THEN stats[x] + 1 ELSE stats[x]
<1>1. \A x \in StatName : /\ stats[x] \in Nat
                          /\ stats'[x] = IF x = k THEN stats[x] + 1 ELSE stats[x]
  BY DEF StatsType, Count
<1>2. Status \subseteq StatName
  BY DEF StatName
<1>3. ASSUME k \in Status PROVE Completed' = Completed + 1
  <2>1. CASE k = "Succeeded"
    BY <1>1, <1>2, <2>1 DEF Completed, Status
  <2>2. CASE k = "Unsupported"
    BY <1>1, <1>2, <2>2 DEF Completed, Status
  <2>3. CASE k = "InvalidArgument"
    BY <1>1, <1>2, <2>3 DEF Completed, Status
  <2>4. CASE k = "Timeout"
    BY <1>1, <1>2, <2>4 DEF Completed, Status
  <2>5. CASE k = "Cancelled"
    BY <1>1, <1>2, <2>5 DEF Completed, Status
  <2>6. CASE k = "Failed"
    BY <1>1, <1>2, <2>6 DEF Completed, Status
  <2> QED BY <1>3, <2>1, <2>2, <2>3, <2>4, <2>5, <2>6 DEF Status
<1>4. ASSUME k \notin Status PROVE Completed' = Completed
  BY <1>1, <1>2, <1>4 DEF Completed, Status
<1>5. Completed \in Nat
  BY <1>1, <1>2 DEF Completed, Status
<1> QED BY <1>1, <1>3, <1>4, <1>5

(* The numbers CountInv relates are natural numbers.                       *)
LEMMA CountNat ==
  ASSUME QueueType, StatsType
  PROVE  /\ Completed \in Nat /\ Len(queue) \in Nat /\ Len(cancelled) \in Nat
         /\ \A k \in QueueStatName : qstats[k] \in Nat
         /\ \A k \in StatName : stats[k] \in Nat
<1>1. \A k \in StatName : stats[k] \in Nat
  BY DEF StatsType
<1>2. Completed \in Nat
  BY <1>1 DEF Completed, StatName, Status
<1> QED BY <1>1, <1>2 DEF QueueType, StatsType

(* A step that leaves queue and counters alone, and the worker on the same *)
(* side of its report, preserves CountInv.                                 *)
LEMMA CountFrame ==
  ASSUME QueueType, StatsType, CountInv,
         UNCHANGED <<queue, cancelled, qstats, stats>>,
         Pushed("pushAccepted")' = Pushed("pushAccepted"),
         Pushed("pushQueueFull")' = Pushed("pushQueueFull"),
         Unreported' = Unreported, Unexecuted' \in {0, Unexecuted},
         HalfCancelled' = HalfCancelled
  PROVE  CountInv'
<1>1. Completed' = Completed
  BY DEF Completed
<1>2. Unexecuted \in {0, 1}
  BY DEF Unexecuted
<1>3. /\ Len(queue) \in Nat /\ qstats["cancelled"] \in Nat
      /\ stats["executed"] \in Nat /\ qstats["accepted"] \in Nat
  BY CountNat DEF QueueStatName, StatName
<1>4. stats["executed"] + Unexecuted' + Len(queue) + qstats["cancelled"]
        <= qstats["accepted"]
  BY <1>2, <1>3 DEF CountInv
<1> QED BY <1>1, <1>4 DEF CountInv

(* The counters of queue and dispatcher stay together: each step counts    *)
(* what it moves.                                                          *)
LEMMA CountInvStep == ControlInv /\ [Next]_vars => CountInv'
<1> SUFFICES ASSUME ControlInv, [Next]_vars PROVE CountInv'
  OBVIOUS
<1> USE DEF ControlInv, TypeOK, queueVars, submitVars, workerVars, stopVars
<1>n. /\ Completed \in Nat /\ Len(queue) \in Nat /\ Len(cancelled) \in Nat
      /\ qstats["accepted"] \in Nat /\ qstats["cancelled"] \in Nat
      /\ qstats["rejected_full"] \in Nat /\ stats["executed"] \in Nat
      /\ stats["accepted"] \in Nat /\ stats["queue_full"] \in Nat
  BY CountNat DEF QueueStatName, StatName
<1>1. ASSUME NEW r \in Request, SubmitInvalid(r) \/ SubmitRefuse(r) PROVE CountInv'
  <2>1. UNCHANGED <<queue, cancelled, qstats, worker, stopper>>
    BY <1>1 DEF SubmitInvalid, SubmitRefuse
  <2>2. PICK k \in {"invalid_requests", "stopping", "unknown_device"} : CountRefused(k)
    BY <1>1 DEF SubmitInvalid, SubmitRefuse
  <2>3. \A x \in Status \cup {"accepted", "queue_full", "executed"} : stats'[x] = stats[x]
    BY <2>2 DEF CountRefused, StatsType, StatName, Status
  <2>4. Completed' = Completed
    BY <2>3 DEF Completed, Status
  <2>5. /\ Pushed("pushAccepted")' = Pushed("pushAccepted")
        /\ Pushed("pushQueueFull")' = Pushed("pushQueueFull")
    BY <1>1 DEF SubmitInvalid, SubmitRefuse, Pushed, ThreadType
  <2> QED BY <2>1, <2>3, <2>4, <2>5 DEF CountInv, Unreported, Unexecuted, HalfCancelled, Reporting
<1>2. ASSUME NEW r \in Request, SubmitPush(r) PROVE CountInv'
  <2>1. /\ UNCHANGED <<cancelled, stopper>> /\ Count("submitted")
        /\ submit' = [submit EXCEPT ![r] = TryPushResult]
        /\ submit[r] = "idle" /\ lifecycle = Nobody
    BY <1>2 DEF SubmitPush, TryPush
  <2>2. /\ Unreported' = Unreported /\ Unexecuted' = Unexecuted
        /\ HalfCancelled' = HalfCancelled /\ HalfCancelled \in Nat
    BY <1>2, <2>1 DEF SubmitPush, TryPush, NotifyWorker, Unreported, Unexecuted,
       HalfCancelled, Reporting, Busy
  <2>3. \A x \in Request : submit[x] \notin DOMAIN Returned
    BY <2>1, ControlAssumption DEF LockInv, ControlAssumption
  <2>4. Pushed("pushAccepted") = 0 /\ Pushed("pushQueueFull") = 0
    BY <2>3 DEF Pushed, Returned
  <2>5. /\ Completed' = Completed
        /\ stats'["executed"] = stats["executed"]
        /\ stats'["accepted"] = stats["accepted"]
        /\ stats'["queue_full"] = stats["queue_full"]
    BY <2>1, CompletedLemma DEF StatName, Status
  <2>6. /\ Pushed("pushAccepted")' = IF TryPushResult = "pushAccepted" THEN 1 ELSE 0
        /\ Pushed("pushQueueFull")' = IF TryPushResult = "pushQueueFull" THEN 1 ELSE 0
    BY <2>1, <2>3 DEF Pushed, ThreadType, Returned
  <2>7. CASE TryPushResult = "pushAccepted"
    <3>1. queue' = Append(queue, r)
      BY <1>2, <2>7 DEF SubmitPush, TryPush
    <3>2. Len(queue') = Len(queue) + 1
      BY <3>1 DEF QueueType
    <3>3. /\ qstats'["accepted"] = qstats["accepted"] + 1
          /\ qstats'["rejected_full"] = qstats["rejected_full"]
          /\ qstats'["cancelled"] = qstats["cancelled"]
      BY <1>2, <2>7 DEF SubmitPush, TryPush, StatsType, QueueStatName
    <3>4. Unreported \in Nat /\ Unexecuted \in Nat
      BY DEF Unreported, Unexecuted
    <3>5. Len(cancelled') = Len(cancelled)
      BY <2>1
    <3>6. Completed' + Len(queue') + Len(cancelled') + Unreported'
            = qstats'["accepted"] + HalfCancelled'
      <4>1. Completed + Len(queue) + Len(cancelled) + Unreported
              = qstats["accepted"] + HalfCancelled
        BY DEF CountInv
      <4> HIDE DEF ControlInv
      <4>2. Completed + (Len(queue) + 1) + Len(cancelled) + Unreported
              = (qstats["accepted"] + 1) + HalfCancelled
        <5>1. \A a, b, c, d, e, f \in Nat :
                a + b + c + d = e + f => a + (b + 1) + c + d = (e + 1) + f
          OBVIOUS
        <5>2. /\ Completed \in Nat /\ Len(queue) \in Nat /\ Len(cancelled) \in Nat
              /\ Unreported \in Nat /\ qstats["accepted"] \in Nat
              /\ HalfCancelled \in Nat
          BY <1>n, <2>2, <3>4
        <5> HIDE DEF queueVars, submitVars, workerVars, stopVars, TypeOK
        <5> QED BY <4>1, <5>1, <5>2
      <4> QED BY <2>2, <2>5, <3>2, <3>3, <3>5, <4>2, Zenon
    <3>7. stats'["executed"] + Unexecuted' + Len(queue') + qstats'["cancelled"]
            <= qstats'["accepted"]
      <4>1. stats["executed"] + Unexecuted + Len(queue) + qstats["cancelled"]
              <= qstats["accepted"]
        BY DEF CountInv
      <4> HIDE DEF ControlInv
      <4> QED BY <1>n, <2>2, <2>5, <3>2, <3>3, <3>4, <4>1, SMTT(30)
    <3>8. /\ qstats'["accepted"] = stats'["accepted"] + Pushed("pushAccepted")'
          /\ qstats'["rejected_full"] = stats'["queue_full"] + Pushed("pushQueueFull")'
      BY <1>n, <2>4, <2>5, <2>6, <2>7, <3>3 DEF CountInv
    <3> QED BY <3>6, <3>7, <3>8 DEF CountInv
  <2>8. CASE TryPushResult # "pushAccepted"
    <3>1. TryPushResult = "pushQueueFull"
      BY <1>2, <2>8 DEF SubmitPush, TryPushResult, StopInv
    <3>2. queue' = queue
      BY <1>2, <2>8 DEF SubmitPush, TryPush
    <3>3. /\ qstats'["accepted"] = qstats["accepted"]
          /\ qstats'["rejected_full"] = qstats["rejected_full"] + 1
          /\ qstats'["cancelled"] = qstats["cancelled"]
      BY <1>2, <2>8 DEF SubmitPush, TryPush, StatsType, QueueStatName, StopInv
    <3> QED BY <1>n, <2>1, <2>2, <2>4, <2>5, <2>6, <3>1, <3>2, <3>3 DEF CountInv
  <2> QED BY <2>7, <2>8
<1>3. ASSUME NEW r \in Request, SubmitReturn(r) PROVE CountInv'
  <2>1. /\ UNCHANGED <<queue, cancelled, qstats, worker, stopper>>
        /\ submit[r] \in DOMAIN Returned /\ Count(StatOf[submit[r]])
        /\ submit' = [submit EXCEPT ![r] = Returned[submit[r]]]
    BY <1>3 DEF SubmitReturn
  <2>2. /\ Unreported' = Unreported /\ Unexecuted' = Unexecuted
        /\ HalfCancelled' = HalfCancelled /\ HalfCancelled \in Nat
    BY <2>1 DEF Unreported, Unexecuted, HalfCancelled, Reporting
  <2>3. \A x \in Request : x # r => submit[x] \notin DOMAIN Returned
    BY <2>1 DEF LockInv
  <2>4. \A k \in DOMAIN Returned : Pushed(k) = (IF submit[r] = k THEN 1 ELSE 0)
    BY <2>3 DEF Pushed
  <2>5. \A x \in Request : submit'[x] \notin DOMAIN Returned
    BY <2>1, <2>3 DEF Returned, ThreadType
  <2>6. Pushed("pushAccepted")' = 0 /\ Pushed("pushQueueFull")' = 0
    BY <2>5 DEF Pushed, Returned
  <2>7. /\ StatOf[submit[r]] \in {"accepted", "queue_full", "stopping"}
        /\ StatOf[submit[r]] = "accepted" <=> submit[r] = "pushAccepted"
        /\ StatOf[submit[r]] = "queue_full" <=> submit[r] = "pushQueueFull"
    BY <2>1 DEF StatOf, Returned
  <2>8. /\ Completed' = Completed
        /\ stats'["executed"] = stats["executed"]
        /\ stats'["accepted"] = stats["accepted"] + Pushed("pushAccepted")
        /\ stats'["queue_full"] = stats["queue_full"] + Pushed("pushQueueFull")
    <3>1. StatOf[submit[r]] \in StatName \ Status
      BY <2>7 DEF StatName, Status
    <3>2. "pushAccepted" \in DOMAIN Returned /\ "pushQueueFull" \in DOMAIN Returned
      BY DEF Returned
    <3> QED BY <1>n, <2>1, <2>4, <2>7, <3>1, <3>2, CompletedLemma DEF StatName
  <2> QED BY <1>n, <2>1, <2>2, <2>6, <2>8 DEF CountInv
<1>4. CASE \/ Start \/ SpuriousWakeup \/ Execute \/ AcquireGate \/ GateTimeout
           \/ DriverReturn \/ WorkerCallbackReturn
  <2>1. /\ UNCHANGED <<queue, cancelled, qstats, stats, submit, stopper>>
        /\ Unreported' = Unreported /\ Unexecuted' \in {0, Unexecuted}
    BY <1>4 DEF Start, SpuriousWakeup, Execute, AcquireGate, GateTimeout,
       DriverReturn, WorkerCallbackReturn, Unreported, Unexecuted, Busy, WorkerInv
  <2> QED BY <2>1, CountFrame DEF Pushed, HalfCancelled, Reporting
<1>5. CASE WaitPop
  <2>1. /\ UNCHANGED <<cancelled, qstats, stats, submit, stopper>>
        /\ Unreported = 0 /\ Unexecuted = 0
    BY <1>5 DEF WaitPop, Unreported, Unexecuted, Busy
  <2>2. Completed' = Completed
    BY <2>1 DEF Completed
  <2>3. CASE queue # <<>>
    <3>1. queue' = Tail(queue) /\ Unreported' = 1 /\ Unexecuted' = 1
      BY <1>5, <2>3 DEF WaitPop, PopFront, Unreported, Unexecuted, Busy
    <3>2. Len(queue') = Len(queue) - 1
      BY <2>3, <3>1 DEF QueueType
    <3>3. /\ Pushed("pushAccepted")' = Pushed("pushAccepted")
          /\ Pushed("pushQueueFull")' = Pushed("pushQueueFull")
          /\ HalfCancelled' = HalfCancelled /\ HalfCancelled \in Nat
      BY <2>1 DEF Pushed, HalfCancelled, Reporting
    <3>4. qstats' = qstats /\ stats' = stats /\ Len(cancelled') = Len(cancelled)
          /\ Unreported = 0 /\ Unexecuted = 0 /\ Unreported' = 1 /\ Unexecuted' = 1
      BY <2>1, <3>1
    <3>5. Completed' + Len(queue') + Len(cancelled') + Unreported'
            = qstats["accepted"] + HalfCancelled
      BY <1>n, <2>2, <3>2, <3>3, <3>4 DEF CountInv
    <3>6. stats["executed"] + Unexecuted' + Len(queue') + qstats["cancelled"]
            <= qstats["accepted"]
      BY <1>n, <3>2, <3>4 DEF CountInv
    <3> QED BY <3>3, <3>4, <3>5, <3>6 DEF CountInv
  <2>4. CASE queue = <<>>
    <3>1. queue' = queue /\ Unreported' = 0 /\ Unexecuted' = 0
      BY <1>5, <2>4 DEF WaitPop, Unreported, Unexecuted, Busy
    <3> QED BY <2>1, <3>1, CountFrame DEF Pushed, HalfCancelled, Reporting
  <2> QED BY <2>3, <2>4
<1>6. CASE CallDriver
  <2>1. /\ UNCHANGED <<queue, cancelled, qstats, submit, stopper>>
        /\ Unreported' = Unreported /\ Unexecuted = 1 /\ Unexecuted' = 0
    BY <1>6 DEF CallDriver, Unreported, Unexecuted, Busy
  <2>2. CASE stats' = stats
    BY <2>1, <2>2, CountFrame DEF Pushed, HalfCancelled, Reporting
  <2>3. CASE Count("executed")
    <3>1. /\ Completed' = Completed
          /\ stats'["executed"] = stats["executed"] + 1
          /\ stats'["accepted"] = stats["accepted"]
          /\ stats'["queue_full"] = stats["queue_full"]
      BY <2>3, CompletedLemma DEF StatName, Status
    <3> QED BY <1>n, <2>1, <3>1 DEF CountInv, Pushed, HalfCancelled, Reporting
  <2> QED BY <1>6, <2>2, <2>3 DEF CallDriver
<1>7. CASE WorkerComplete
  <2>1. /\ UNCHANGED <<queue, cancelled, qstats, submit, stopper>> /\ Count(result)
        /\ Unreported = 1 /\ Unreported' = 0 /\ Unexecuted = 0 /\ Unexecuted' = 0
    BY <1>7 DEF WorkerComplete, Complete, Unreported, Unexecuted, Busy
  <2>2. /\ Completed' = Completed + 1
        /\ stats'["executed"] = stats["executed"]
        /\ stats'["accepted"] = stats["accepted"]
        /\ stats'["queue_full"] = stats["queue_full"]
    BY <2>1, CompletedLemma DEF ThreadType, StatName, Status
  <2> QED BY <1>n, <2>1, <2>2 DEF CountInv, Pushed, HalfCancelled, Reporting
<1>8. ASSUME NEW s \in Stopper, RequestStop(s) PROVE CountInv'
  <2>1. /\ UNCHANGED <<queue, cancelled, qstats, stats, submit>>
        /\ Unreported' = Unreported /\ Unexecuted' = Unexecuted
        /\ HalfCancelled' = HalfCancelled
    BY <1>8 DEF RequestStop, NotifyWorker, Unreported, Unexecuted, Busy,
       HalfCancelled, Reporting, ThreadType
  <2> QED BY <2>1, CountFrame DEF Pushed
<1>9. ASSUME NEW s \in Stopper, CancelPending(s) PROVE CountInv'
  <2>1. /\ UNCHANGED <<stats, submit, worker>>
        /\ cancelled = <<>> /\ HalfCancelled = 0 /\ HalfCancelled' = 0
    BY <1>9 DEF CancelPending, StopInv, Canceller, HalfCancelled, Reporting, ThreadType
  <2>2. Len(<<>>) = 0
    OBVIOUS
  <2>3. CASE UNCHANGED <<queue, cancelled, qstats>>
    BY <2>1, <2>3, CountFrame DEF Pushed, Unreported, Unexecuted
  <2>4. CASE /\ cancelled' = queue /\ queue' = <<>>
             /\ qstats' = [qstats EXCEPT !["cancelled"] = @ + Len(queue)]
    <3>1. /\ qstats'["accepted"] = qstats["accepted"]
          /\ qstats'["rejected_full"] = qstats["rejected_full"]
          /\ qstats'["cancelled"] = qstats["cancelled"] + Len(queue)
      BY <2>4 DEF StatsType, QueueStatName
    <3>2. Completed' = Completed /\ Unreported' = Unreported /\ Unexecuted' = Unexecuted
      BY <2>1 DEF Completed, Unreported, Unexecuted
    <3>3. Unreported \in Nat /\ Unexecuted \in Nat
      BY DEF Unreported, Unexecuted
    <3>4. /\ Pushed("pushAccepted")' = Pushed("pushAccepted")
          /\ Pushed("pushQueueFull")' = Pushed("pushQueueFull")
      BY <2>1 DEF Pushed
    <3>5. Len(cancelled') = Len(queue) /\ Len(cancelled) = 0 /\ Len(queue') = 0
      BY <2>1, <2>2, <2>4
    <3> QED BY <1>n, <2>1, <3>1, <3>2, <3>3, <3>4, <3>5 DEF CountInv
  <2> QED BY <1>9, <2>3, <2>4 DEF CancelPending
<1>10. ASSUME NEW s \in Stopper, CompleteCancelled(s) PROVE CountInv'
  <2>1. /\ UNCHANGED <<queue, qstats, submit, worker>> /\ Count("Cancelled")
        /\ cancelled # <<>> /\ HalfCancelled = 0
    BY <1>10 DEF CompleteCancelled, Complete, StopInv, Canceller, HalfCancelled, Reporting
  <2>2. /\ Completed' = Completed + 1
        /\ stats'["executed"] = stats["executed"]
        /\ stats'["accepted"] = stats["accepted"]
        /\ stats'["queue_full"] = stats["queue_full"]
    BY <2>1, CompletedLemma DEF StatName, Status
  <2>3. \/ cancelled' = Tail(cancelled) /\ HalfCancelled' = 0
        \/ cancelled' = cancelled /\ HalfCancelled' = 1
    BY <1>10, <2>1 DEF CompleteCancelled, HalfCancelled, Reporting, ThreadType
  <2>4. Len(Tail(cancelled)) = Len(cancelled) - 1
    BY <2>1 DEF QueueType
  <2>5. Unreported \in Nat /\ Unreported' = Unreported /\ Unexecuted' = Unexecuted
    BY <2>1 DEF Unreported, Unexecuted
  <2>6. /\ Pushed("pushAccepted")' = Pushed("pushAccepted")
        /\ Pushed("pushQueueFull")' = Pushed("pushQueueFull")
    BY <2>1 DEF Pushed
  <2> QED BY <1>n, <2>1, <2>2, <2>3, <2>4, <2>5, <2>6, SMTT(30) DEF CountInv
<1>11. ASSUME NEW s \in Stopper, CancelCallbackReturn(s) PROVE CountInv'
  <2>1. /\ UNCHANGED <<queue, qstats, stats, submit, worker>>
        /\ cancelled # <<>> /\ cancelled' = Tail(cancelled)
        /\ HalfCancelled = 1 /\ HalfCancelled' = 0
    BY <1>11 DEF CancelCallbackReturn, StopInv, Canceller, HalfCancelled, Reporting, ThreadType
  <2>2. Len(cancelled') = Len(cancelled) - 1
    BY <2>1 DEF QueueType
  <2>3. /\ Completed' = Completed
        /\ Unreported \in Nat /\ Unreported' = Unreported /\ Unexecuted' = Unexecuted
    BY <2>1 DEF Completed, Unreported, Unexecuted
  <2>4. /\ Pushed("pushAccepted")' = Pushed("pushAccepted")
        /\ Pushed("pushQueueFull")' = Pushed("pushQueueFull")
    BY <2>1 DEF Pushed
  <2> QED BY <1>n, <2>1, <2>2, <2>3, <2>4 DEF CountInv
<1>12. ASSUME NEW s \in Stopper, StopRequestComplete(s) \/ Join(s) \/ Joined(s)
       PROVE  CountInv'
  <2>1. /\ UNCHANGED <<queue, cancelled, qstats, stats, submit, worker>>
        /\ HalfCancelled' = HalfCancelled
    BY <1>12 DEF StopRequestComplete, Join, Joined, NotifyStoppers, HalfCancelled, Reporting,
       ThreadType
  <2> QED BY <2>1, CountFrame DEF Pushed, Unreported, Unexecuted
<1>13. CASE \/ \E d \in Gated : PollBegin(d)
            \/ PollEnd \/ SchedulerJoined \/ Tick \/ Terminated \/ UNCHANGED vars
  <2>1. UNCHANGED <<queue, cancelled, qstats, stats, submit, worker, stopper>>
    BY <1>13 DEF PollBegin, PollEnd, SchedulerJoined, Tick, Terminated, vars
  <2> QED BY <2>1, CountFrame DEF Pushed, Unreported, Unexecuted, HalfCancelled, Reporting
<1> QED BY <1>1, <1>2, <1>3, <1>4, <1>5, <1>6, <1>7, <1>8, <1>9, <1>10, <1>11,
           <1>12, <1>13
        DEF Next, Submit, WorkerStep, StopStep

(* No step reports or prepares a Timeout before the deadline, unless a     *)
(* driver may return one of its own accord.                                *)
LEMMA TimeoutInvStep ==
  ASSUME "Timeout" \notin DriverStatus
  PROVE  ControlInv /\ TimeoutInv /\ [Next]_vars => TimeoutInv'
<1> SUFFICES ASSUME ControlInv, TimeoutInv, [Next]_vars PROVE TimeoutInv'
  OBVIOUS
<1> USE DEF ControlInv, TypeOK, TimeoutInv, TimeoutJustified, submitVars,
            workerVars, reportVars
<1>t. /\ now \in Nat
      /\ \A r \in Request : req[r].deadline \in Nat
  BY ControlAssumption, ShapesAssumption
  DEF ControlAssumption, ShapesAssumption, Shape, GateType, ThreadType
<1>o. worker \in Busy => op \in Request
  BY DEF WorkerInv, ThreadType
<1>1. ASSUME NEW r \in Request, Submit(r) \/ SubmitReturn(r) PROVE TimeoutInv'
  <2>1. /\ UNCHANGED <<now, req, op, result, reportVars>>
        /\ worker' = worker \/ (worker = "asleep" /\ worker' = "check")
    BY <1>1 DEF Submit, SubmitInvalid, SubmitRefuse, SubmitPush, TryPush,
       NotifyWorker, SubmitReturn
  <2> QED BY <2>1
<1>2. CASE Start \/ SpuriousWakeup \/ WaitPop \/ AcquireGate \/ WorkerCallbackReturn
  <2>1. UNCHANGED <<now, req, result, reportVars>> /\ worker' # "complete"
    BY <1>2 DEF Start, SpuriousWakeup, WaitPop, AcquireGate, WorkerCallbackReturn
  <2> QED BY <2>1
<1>3. CASE Execute \/ GateTimeout \/ CallDriver \/ DriverReturn
  <2>1. UNCHANGED <<now, req, op, reportVars>> /\ op \in Request
    BY <1>3, <1>o DEF Execute, GateTimeout, CallDriver, DriverReturn, Busy
  <2>2. worker' = "complete" /\ result' = "Timeout" => req[op].deadline <= now
    <3>1. CASE Execute
      BY <3>1 DEF Execute, Expired
    <3>2. CASE GateTimeout \/ CallDriver
      BY <3>2, <1>t, <2>1 DEF GateTimeout, CallDriver
    <3>3. CASE DriverReturn
      BY <3>3, <1>t, <2>1 DEF DriverReturn
    <3> QED BY <1>3, <3>1, <3>2, <3>3
  <2> QED BY <2>1, <2>2
<1>4. CASE WorkerComplete
  <2>1. /\ UNCHANGED <<now, req>> /\ worker' # "complete" /\ worker = "complete"
        /\ completions' = [completions EXCEPT ![op] = @ + 1]
        /\ outcome' = [outcome EXCEPT ![op] = result]
    BY <1>4 DEF WorkerComplete, Complete
  <2> QED BY <2>1 DEF StatsType
<1>5. ASSUME NEW s \in Stopper, CompleteCancelled(s) PROVE TimeoutInv'
  <2>1. /\ UNCHANGED <<now, req, worker, op, result>>
        /\ completions' = [completions EXCEPT ![Head(cancelled)] = @ + 1]
        /\ outcome' = [outcome EXCEPT ![Head(cancelled)] = "Cancelled"]
    BY <1>5 DEF CompleteCancelled, Complete
  <2> QED BY <2>1 DEF StatsType
<1>6. ASSUME NEW s \in Stopper,
             \/ RequestStop(s) \/ CancelPending(s) \/ CancelCallbackReturn(s)
             \/ StopRequestComplete(s) \/ Join(s) \/ Joined(s)
      PROVE  TimeoutInv'
  <2>1. /\ UNCHANGED <<now, req, op, result, reportVars>>
        /\ worker' = worker \/ (worker = "asleep" /\ worker' = "check")
    BY <1>6 DEF RequestStop, NotifyWorker, CancelPending, CancelCallbackReturn,
       StopRequestComplete, Join, Joined
  <2> QED BY <2>1
<1>7. CASE Tick
  <2>1. UNCHANGED <<req, worker, op, result, reportVars>> /\ now' = now + 1
    BY <1>7 DEF Tick
  <2>2. \A r \in Request : req[r].deadline <= now => req[r].deadline <= now'
    BY <1>t, <2>1
  <2> QED BY <1>o, <2>1, <2>2 DEF Busy
<1>8. CASE \/ \E d \in Gated : PollBegin(d)
           \/ PollEnd \/ SchedulerJoined \/ Terminated \/ UNCHANGED vars
  <2>1. UNCHANGED <<now, req, worker, op, result, reportVars>>
    BY <1>8 DEF PollBegin, PollEnd, SchedulerJoined, Terminated, vars
  <2> QED BY <2>1
<1> QED BY <1>1, <1>2, <1>3, <1>4, <1>5, <1>6, <1>7, <1>8
        DEF Next, WorkerStep, StopStep

-----------------------------------------------------------------------------
(* Theorems of the specification *)

(* The inductive invariant holds in every state, however many threads      *)
(* submit and stop, and however small the queue is.                        *)
THEOREM ControlInvariant == Spec => []ControlInv
<1>1. ControlInv /\ [Next]_vars => ControlInv'
  BY QueueTypeStep, StatsTypeStep, LifecycleTypeStep, ThreadTypeStep,
     GateTypeStep, LockInvStep, StopInvStep, WorkerInvStep, PlaceInvStep,
     GateInvStep, CountInvStep
  DEF ControlInv, TypeOK
<1> QED BY <1>1, InitInv, PTL DEF Spec

(* The state of the dispatcher is always well-typed, and its queue never   *)
(* exceeds control_queue_capacity (try_push).                              *)
THEOREM TypeCorrect == Spec => []TypeOK
<1>1. ControlInv => TypeOK
  BY DEF ControlInv
<1> QED BY <1>1, ControlInvariant, PTL

(* complete() runs at most once for a request, and only for one that       *)
(* submit() accepted.                                                      *)
THEOREM CompletedExactlyOnce == Spec => []ExactlyOnce
<1>1. ControlInv => ExactlyOnce
  <2> SUFFICES ASSUME ControlInv, NEW r \in Request
               PROVE  /\ completions[r] <= 1
                      /\ completions[r] = 1 => WasAccepted(r)
    BY DEF ExactlyOnce
  <2>1. completions[r] # 0 => completions[r] = 1 /\ WasAccepted(r)
    BY DEF ControlInv, PlaceInv
  <2> QED BY <2>1
<1> QED BY <1>1, ControlInvariant, PTL

(* What has come to rest when stop() has returned to some caller.          *)
LEMMA StoppedLemma ==
  ASSUME ControlInv, \E s \in Stopper : stopper[s] = "returned"
  PROVE  /\ worker \in {"off", "exited"}
         /\ queue = <<>> /\ cancelled = <<>> /\ op = Nobody /\ ~Reporting
<1> USE DEF ControlInv, StopInv, WorkerInv
<1>1. worker \in {"off", "exited"} /\ queue = <<>> /\ cancelled = <<>>
  OBVIOUS
<1>2. op = Nobody
  BY <1>1 DEF Busy
<1>3. ~Reporting
  BY <1>1 DEF Reporting
<1> QED BY <1>1, <1>2, <1>3

(* stop() is a barrier for every caller: when it returns, every accepted   *)
(* request has been completed and no callback or driver call is running.   *)
THEOREM StopIsBarrier == Spec => []StopBarrier
<1>1. ControlInv => StopBarrier
  <2> SUFFICES ASSUME ControlInv, \E s \in Stopper : stopper[s] = "returned"
               PROVE  /\ worker \in {"off", "exited"}
                      /\ queue = <<>>
                      /\ \A r \in Request : WasAccepted(r) => completions[r] = 1
                      /\ \A s \in Stopper : stopper[s] # "callback"
    BY DEF StopBarrier
  <2>1. /\ worker \in {"off", "exited"}
        /\ queue = <<>> /\ cancelled = <<>> /\ op = Nobody /\ ~Reporting
    BY StoppedLemma
  <2>2. \A r \in Request : ~In(queue, r) /\ ~In(cancelled, r) /\ op # r
    BY <2>1, EmptyLemma, ControlAssumption DEF ControlAssumption
  <2>3. \A r \in Request : WasAccepted(r) => completions[r] = 1
    BY <2>2 DEF ControlInv, PlaceInv
  <2> QED BY <2>1, <2>3 DEF Reporting
<1> QED BY <1>1, ControlInvariant, PTL

(* No driver is called for control while the scheduler polls its device.   *)
THEOREM DriverCallsExclusive == Spec => []DriverExclusive
<1>1. ControlInv => DriverExclusive
  BY DEF ControlInv, GateInv, DriverExclusive
<1> QED BY <1>1, ControlInvariant, PTL

(* No completion callback runs under a gate or under lifecycle_mutex_.     *)
THEOREM CallbacksUnlocked == Spec => []CallbacksRunUnlocked
<1>1. ControlInv => CallbacksRunUnlocked
  BY DEF ControlInv, GateInv, LockInv, CallbacksRunUnlocked
<1> QED BY <1>1, ControlInvariant, PTL

(* The counters printed after stop() add up.                               *)
THEOREM SummaryAddsUp == Spec => []SummaryBalanced
<1>1. ControlInv => SummaryBalanced
  <2> SUFFICES ASSUME ControlInv, NEW s \in Stopper, stopper[s] = "returned"
               PROVE  /\ Completed = stats["accepted"]
                      /\ qstats["accepted"] = stats["accepted"]
                      /\ qstats["rejected_full"] = stats["queue_full"]
                      /\ stats["executed"] + qstats["cancelled"] <= stats["accepted"]
    BY DEF SummaryBalanced
  <2>1. /\ worker \in {"off", "exited"}
        /\ queue = <<>> /\ cancelled = <<>> /\ ~Reporting
    BY StoppedLemma
  <2>2. Len(queue) = 0 /\ Len(cancelled) = 0
    BY <2>1
  <2>3. Unreported = 0 /\ Unexecuted = 0 /\ HalfCancelled = 0
    BY <2>1 DEF Unreported, Unexecuted, HalfCancelled, Busy
  <2>4. stopping
    BY DEF ControlInv, StopInv
  <2>5. Pushed("pushAccepted") = 0 /\ Pushed("pushQueueFull") = 0
    BY <2>4 DEF ControlInv, LockInv, Returned, Pushed
  <2>6. /\ Completed \in Nat /\ stats["executed"] \in Nat
        /\ stats["accepted"] \in Nat /\ stats["queue_full"] \in Nat
        /\ qstats["accepted"] \in Nat /\ qstats["rejected_full"] \in Nat
        /\ qstats["cancelled"] \in Nat
    BY CountNat DEF ControlInv, TypeOK, StatName, QueueStatName
  <2> QED BY <2>2, <2>3, <2>5, <2>6 DEF ControlInv, CountInv
<1> QED BY <1>1, ControlInvariant, PTL

(* With drivers that never return Timeout themselves, a request that is    *)
(* reported as Timeout has reached its deadline (execute).                 *)
THEOREM TimeoutsAreJustified ==
  ASSUME "Timeout" \notin DriverStatus
  PROVE  Spec => []TimeoutJustified
<1>1. Init => TimeoutInv
  BY DEF Init, TimeoutInv, TimeoutJustified
<1>2. ControlInv /\ TimeoutInv /\ [Next]_vars => TimeoutInv'
  BY TimeoutInvStep
<1>3. TimeoutInv => TimeoutJustified
  BY DEF TimeoutInv
<1> QED BY <1>1, <1>2, <1>3, ControlInvariant, PTL DEF Spec

-----------------------------------------------------------------------------
(* Who waits for whom *)

(* The worker sleeps only while the queue is empty and open *)
WorkerWait == worker = "asleep" => queue = <<>> /\ ~closed

(* A flag that a thread in join() waits for has a thread that will change it *)
StopWait ==
  /\ stopping /\ ~stopRequestComplete => \E t \in Stopper : stopper[t] \in Canceller
  /\ joinInProgress => \E t \in Stopper : stopper[t] = "joining"
  /\ \A s \in Stopper : stopper[s] = "joining" =>
       joinInProgress /\ ~joined /\ \A t \in Stopper : stopper[t] = "joining" => t = s
  /\ \A s \in Stopper : stopper[s] = "asleep" => ~MayJoin

(* The worker is notified with every change that it sleeps for.            *)
LEMMA WorkerWaitStep == ControlInv /\ WorkerWait /\ [Next]_vars => WorkerWait'
<1> SUFFICES ASSUME ControlInv, WorkerWait, [Next]_vars PROVE WorkerWait'
  OBVIOUS
<1> USE DEF WorkerWait, queueVars, workerVars, lifecycleVars
<1>1. ASSUME NEW r \in Request, SubmitInvalid(r) \/ SubmitRefuse(r) \/ SubmitReturn(r)
      PROVE  WorkerWait'
  BY <1>1 DEF SubmitInvalid, SubmitRefuse, SubmitReturn
<1>2. ASSUME NEW r \in Request, SubmitPush(r) PROVE WorkerWait'
  <2>1. \/ worker' # "asleep"
        \/ UNCHANGED <<queue, closed, worker>>
    BY <1>2 DEF SubmitPush, TryPush, NotifyWorker
  <2> QED BY <2>1
<1>3. CASE Start \/ SpuriousWakeup
  BY <1>3 DEF Start, SpuriousWakeup
<1>4. CASE WorkerStep
  BY <1>4 DEF WorkerStep, WaitPop, Execute, AcquireGate, GateTimeout, CallDriver,
              DriverReturn, WorkerComplete, WorkerCallbackReturn
<1>5. ASSUME NEW s \in Stopper, RequestStop(s) PROVE WorkerWait'
  <2>1. \/ worker' # "asleep"
        \/ UNCHANGED <<queue, closed, worker>>
    BY <1>5 DEF RequestStop, NotifyWorker
  <2> QED BY <2>1
<1>6. ASSUME NEW s \in Stopper, StopStep(s) PROVE WorkerWait'
  <2>1. /\ UNCHANGED <<closed, worker>>
        /\ queue' = queue \/ queue' = <<>>
    BY <1>6 DEF StopStep, CancelPending, CompleteCancelled, CancelCallbackReturn,
                StopRequestComplete, Join, Joined
  <2> QED BY <2>1
<1>7. CASE \/ \E d \in Gated : PollBegin(d)
           \/ PollEnd \/ SchedulerJoined \/ Tick \/ Terminated \/ UNCHANGED vars
  BY <1>7 DEF PollBegin, PollEnd, SchedulerJoined, Tick, Terminated, vars
<1> QED BY <1>1, <1>2, <1>3, <1>4, <1>5, <1>6, <1>7 DEF Next, Submit

(* A thread that takes over a wait's cause is there until it notifies.     *)
LEMMA StopWaitStep == ControlInv /\ StopWait /\ [Next]_vars => StopWait'
<1> SUFFICES ASSUME ControlInv, StopWait, [Next]_vars PROVE StopWait'
  OBVIOUS
<1> USE DEF StopWait, MayJoin, Canceller, lifecycleVars, stopVars
<1>t. /\ stopper \in [Stopper -> StopperState]
      /\ stopping \in BOOLEAN /\ stopRequestComplete \in BOOLEAN
      /\ joinInProgress \in BOOLEAN /\ joined \in BOOLEAN
  BY DEF ControlInv, TypeOK, ThreadType, LifecycleType
<1>1. ASSUME NEW r \in Request, Submit(r) \/ SubmitReturn(r) PROVE StopWait'
  BY <1>1 DEF Submit, SubmitInvalid, SubmitRefuse, SubmitPush, SubmitReturn
<1>2. CASE Start \/ SpuriousWakeup \/ WorkerStep
  <2>1. UNCHANGED <<stopping, stopRequestComplete, joinInProgress, joined, stopper>>
    BY <1>2 DEF Start, SpuriousWakeup, WorkerStep, WaitPop, Execute, AcquireGate,
                GateTimeout, CallDriver, DriverReturn, WorkerComplete, WorkerCallbackReturn
  <2> QED BY <2>1
<1>3. ASSUME NEW s \in Stopper, RequestStop(s) PROVE StopWait'
  <2>1. stopper[s] = "idle" /\ UNCHANGED <<stopRequestComplete, joinInProgress, joined>>
    BY <1>3 DEF RequestStop
  <2>2. CASE stopping
    BY <1>3, <1>t, <2>1, <2>2 DEF RequestStop
  <2>3. CASE ~stopping
    BY <1>3, <1>t, <2>1, <2>3 DEF RequestStop
  <2> QED BY <2>2, <2>3
<1>4. ASSUME NEW s \in Stopper,
             CancelPending(s) \/ CompleteCancelled(s) \/ CancelCallbackReturn(s)
      PROVE  StopWait'
  <2>1. /\ UNCHANGED <<stopping, stopRequestComplete, joinInProgress, joined>>
        /\ stopper[s] \in Canceller
        /\ stopper' = stopper \/ \E c \in Canceller : stopper' = [stopper EXCEPT ![s] = c]
    BY <1>4 DEF CancelPending, CompleteCancelled, CancelCallbackReturn
  <2> QED BY <1>t, <2>1
<1>5. ASSUME NEW s \in Stopper, StopRequestComplete(s) PROVE StopWait'
  <2>1. /\ UNCHANGED <<stopping, joinInProgress, joined>> /\ stopRequestComplete' = TRUE
        /\ stopper[s] = "cancelling"
        /\ stopper' = [x \in Stopper |-> IF x = s THEN "join"
                                         ELSE IF stopper[x] = "asleep" THEN "join"
                                         ELSE stopper[x]]
    BY <1>5 DEF StopRequestComplete, NotifyStoppers
  <2>2. \A x \in Stopper : /\ stopper'[x] # "asleep"
                           /\ stopper'[x] = "joining" <=> stopper[x] = "joining"
    BY <1>t, <2>1
  <2> QED BY <2>1, <2>2
<1>6. ASSUME NEW s \in Stopper, Join(s) PROVE StopWait'
  <2> DEFINE joins == started /\ MayJoin /\ ~joined
  <2>1. /\ UNCHANGED <<stopping, stopRequestComplete, joined>>
        /\ stopper[s] = "join"
        /\ joinInProgress' = (joinInProgress \/ joins)
        /\ stopper' = [stopper EXCEPT ![s] = IF joins THEN "joining"
                                             ELSE IF started /\ ~MayJoin THEN "asleep"
                                             ELSE "returned"]
    BY <1>6 DEF Join
  <2>2. CASE joins
    <3>1. stopRequestComplete /\ ~joinInProgress /\ ~joined
      BY <2>2
    <3>2. joinInProgress' = TRUE /\ stopper' = [stopper EXCEPT ![s] = "joining"]
      BY <2>1, <2>2
    <3>3. \A x \in Stopper : stopper[x] # "joining" /\ stopper[x] # "asleep"
      BY <3>1
    <3> QED BY <1>t, <2>1, <3>1, <3>2, <3>3
  <2>3. CASE ~joins
    <3>1. /\ joinInProgress' = joinInProgress
          /\ stopper' = [stopper EXCEPT ![s] = IF started /\ ~MayJoin THEN "asleep" ELSE "returned"]
      BY <1>t, <2>1, <2>3
    <3>2. \A x \in Stopper : /\ stopper'[x] = "joining" <=> stopper[x] = "joining"
                             /\ stopper'[x] \in Canceller <=> stopper[x] \in Canceller
                             /\ stopper'[x] = "asleep" => ~MayJoin
      BY <1>t, <2>1, <3>1
    <3> QED BY <2>1, <3>1, <3>2
  <2> QED BY <2>2, <2>3
<1>7. ASSUME NEW s \in Stopper, Joined(s) PROVE StopWait'
  <2>1. /\ UNCHANGED <<stopping, stopRequestComplete>>
        /\ joinInProgress' = FALSE /\ joined' = TRUE
        /\ stopper[s] = "joining"
        /\ stopper' = [x \in Stopper |-> IF x = s THEN "returned"
                                         ELSE IF stopper[x] = "asleep" THEN "join"
                                         ELSE stopper[x]]
    BY <1>7 DEF Joined, NotifyStoppers
  <2>2. \A x \in Stopper : /\ stopper'[x] # "asleep" /\ stopper'[x] # "joining"
                           /\ stopper[x] \in Canceller => stopper'[x] \in Canceller
    BY <1>t, <2>1
  <2> QED BY <2>1, <2>2
<1>8. CASE \/ \E d \in Gated : PollBegin(d)
           \/ PollEnd \/ SchedulerJoined \/ Tick \/ Terminated \/ UNCHANGED vars
  BY <1>8 DEF PollBegin, PollEnd, SchedulerJoined, Tick, Terminated, vars
<1> QED BY <1>1, <1>2, <1>3, <1>4, <1>5, <1>6, <1>7, <1>8 DEF Next, StopStep

LEMMA WaitInvariant == Spec => [](WorkerWait /\ StopWait)
<1>1. Init => WorkerWait /\ StopWait
  BY DEF Init, WorkerWait, StopWait
<1>2. ControlInv /\ WorkerWait /\ StopWait /\ [Next]_vars => WorkerWait' /\ StopWait'
  BY WorkerWaitStep, StopWaitStep
<1> QED BY <1>1, <1>2, ControlInvariant, PTL DEF Spec

(* Nobody waits for nobody, however many threads are in stop(): whoever    *)
(* sleeps in join() has a thread that will notify it, and the worker       *)
(* sleeps only on an empty and open queue.  This is the safety part of     *)
(* StopReturns and AcceptedCompletes.                                      *)
THEOREM EverySleeperIsWoken == Spec => []SleepersAreWoken
<1>1. ControlInv /\ WorkerWait /\ StopWait => SleepersAreWoken
  <2> SUFFICES ASSUME ControlInv, WorkerWait, StopWait, NEW s \in Stopper, stopper[s] = "asleep"
               PROVE  \E t \in Stopper : stopper[t] \in Canceller \cup {"joining"}
    BY DEF SleepersAreWoken, WorkerWait
  <2>1. stopping /\ (~stopRequestComplete \/ joinInProgress)
    BY DEF ControlInv, StopInv, StopWait, MayJoin
  <2>2. CASE ~stopRequestComplete
    BY <2>1, <2>2 DEF StopWait
  <2>3. CASE joinInProgress
    BY <2>3 DEF StopWait
  <2> QED BY <2>1, <2>2, <2>3
<1> QED BY <1>1, ControlInvariant, WaitInvariant, PTL

(* worker_.join() is called by one thread at a time, and never again once  *)
(* it has returned, for any number of threads in stop() (join).            *)
THEOREM OneThreadJoins == Spec => []OneJoiner
<1>1. StopWait => OneJoiner
  BY DEF StopWait, OneJoiner
<1>2. (WorkerWait /\ StopWait) => OneJoiner
  BY <1>1
<1> QED BY <1>2, WaitInvariant, PTL
=============================================================================
