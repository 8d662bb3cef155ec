--------------------------- MODULE ControlRefinement ---------------------------
(***************************************************************************)
(* ControlDispatcher, with its threads, locks, queue and cancellation      *)
(* list, implements ControlService: every step is a step of the service or *)
(* leaves it as it is.  GatewayRuntime uses the dispatcher as that service. *)
(***************************************************************************)
EXTENDS ControlDispatcherProofs

-----------------------------------------------------------------------------
(* Waiting requests are in the queue or in the hands of the stopping       *)
(* thread, never in both; what that thread reports is a cancellation.      *)
ServiceInv ==
  /\ cancelled # <<>> => queue = <<>>
  /\ Reporting => outcome[Head(cancelled)] = "Cancelled"

(* Requests and stopping threads that are at work in the dispatcher.       *)
LEMMA ServiceFacts ==
  ASSUME ControlInv
  PROVE  /\ \A s \in Stopper : stopper[s] = "returned" =>
              /\ stopping /\ cancelled = <<>> /\ queue = <<>> /\ op = Nobody
              /\ worker \in {"off", "exited"}
         /\ cancelled # <<>> => started /\ stopping
         /\ \A r \in Request : submit[r] \notin {"pushAccepted", "Accepted"} =>
              /\ completions[r] = 0 /\ op # r
              /\ ~In(queue, r) /\ ~In(cancelled, r)
<1>1. \A s \in Stopper : stopper[s] = "returned" =>
        /\ stopping /\ cancelled = <<>> /\ queue = <<>> /\ op = Nobody
        /\ worker \in {"off", "exited"}
  BY StoppedLemma DEF ControlInv, StopInv
<1>2. cancelled # <<>> => started /\ stopping
  BY DEF ControlInv, StopInv, WorkerInv
<1>3. \A r \in Request : submit[r] \notin {"pushAccepted", "Accepted"} =>
        /\ completions[r] = 0 /\ op # r
        /\ ~In(queue, r) /\ ~In(cancelled, r)
  BY DEF ControlInv, PlaceInv, WasAccepted
<1> QED BY <1>1, <1>2, <1>3

(* The head of the cancelled list is a request in that list.               *)
LEMMA HeadCancelled ==
  ASSUME ControlInv, cancelled # <<>>
  PROVE  /\ Head(cancelled) \in Request /\ In(cancelled, Head(cancelled))
         /\ Tail(cancelled) \in Seq(Request)
BY TailLemma DEF ControlInv, TypeOK, QueueType, PlaceInv

(* Every step keeps the waiting requests in one list.                      *)
LEMMA ServiceInvStep ==
  ASSUME ControlInv, ServiceInv, [Next]_vars
  PROVE  ServiceInv'
<1> USE DEF Reporting
<1>1. CASE UNCHANGED <<queue, cancelled, stopper, outcome>>
  BY <1>1 DEF ServiceInv
<1>2. ASSUME NEW r \in Request, SubmitPush(r) PROVE ServiceInv'
  <2>1. cancelled = <<>> /\ UNCHANGED <<cancelled, stopper, outcome>>
    BY <1>2 DEF SubmitPush, stopVars, reportVars, ControlInv, StopInv
  <2>2. ~Reporting
    BY <2>1 DEF ControlInv, StopInv
  <2> QED BY <2>1, <2>2 DEF ServiceInv
<1>3. CASE WaitPop
  <2>1. /\ UNCHANGED <<cancelled, stopper, outcome>>
        /\ queue = <<>> => queue' = queue
    BY <1>3 DEF WaitPop, stopVars, reportVars
  <2> QED BY <2>1 DEF ServiceInv
<1>4. CASE WorkerComplete
  <2>1. /\ UNCHANGED <<queue, cancelled, stopper>>
        /\ outcome' = [outcome EXCEPT ![op] = result]
    BY <1>4 DEF WorkerComplete, Complete, stopVars, queueVars
  <2>2. ASSUME Reporting PROVE outcome'[Head(cancelled)] = "Cancelled"
    <3>1. cancelled # <<>>
      BY <2>2 DEF ControlInv, StopInv
    <3>2. Head(cancelled) \in Request /\ op # Head(cancelled)
      BY <3>1, HeadCancelled DEF ControlInv, PlaceInv
    <3>3. outcome[Head(cancelled)] = "Cancelled"
      BY <2>2 DEF ServiceInv
    <3> QED BY <2>1, <3>2, <3>3 DEF ControlInv, TypeOK, StatsType
  <2> QED BY <2>1, <2>2 DEF ServiceInv
<1>5. ASSUME NEW s \in Stopper, RequestStop(s) PROVE ServiceInv'
  <2>1. /\ UNCHANGED <<queue, cancelled, outcome>>
        /\ \A x \in Stopper : stopper'[x] = "callback" => stopper[x] = "callback"
    BY <1>5 DEF RequestStop, reportVars, ControlInv, TypeOK, ThreadType
  <2> QED BY <2>1 DEF ServiceInv
<1>6. ASSUME NEW s \in Stopper, CancelPending(s) PROVE ServiceInv'
  <2>1. \A x \in Stopper : stopper[x] # "callback"
    BY <1>6 DEF CancelPending, ControlInv, StopInv, Canceller
  <2>2. \A x \in Stopper : stopper'[x] # "callback"
    BY <1>6, <2>1 DEF CancelPending, ControlInv, TypeOK, ThreadType
  <2>3. cancelled' # <<>> => queue' = <<>>
    BY <1>6 DEF CancelPending, ServiceInv
  <2> QED BY <2>2, <2>3 DEF ServiceInv
<1>7. ASSUME NEW s \in Stopper, CompleteCancelled(s) PROVE ServiceInv'
  <2>1. /\ cancelled # <<>> /\ UNCHANGED queue
        /\ outcome' = [outcome EXCEPT ![Head(cancelled)] = "Cancelled"]
        /\ cancelled' = cancelled \/ (cancelled' = Tail(cancelled) /\ UNCHANGED stopper)
    BY <1>7 DEF CompleteCancelled, Complete, queueVars
  <2>2. outcome'[Head(cancelled)] = "Cancelled"
    BY <2>1, HeadCancelled DEF ControlInv, TypeOK, StatsType
  <2>3. \A x \in Stopper : stopper[x] # "callback"
    BY <1>7 DEF CompleteCancelled, ControlInv, StopInv, Canceller
  <2> QED BY <2>1, <2>2, <2>3 DEF ServiceInv
<1>8. ASSUME NEW s \in Stopper, CancelCallbackReturn(s) PROVE ServiceInv'
  <2>1. cancelled # <<>> /\ \A x \in Stopper : stopper[x] = "callback" => x = s
    BY <1>8 DEF CancelCallbackReturn, ControlInv, StopInv, Canceller
  <2>2. \A x \in Stopper : stopper'[x] # "callback"
    BY <1>8, <2>1 DEF CancelCallbackReturn, ControlInv, TypeOK, ThreadType
  <2> QED BY <1>8, <2>1, <2>2 DEF CancelCallbackReturn, ServiceInv, queueVars
<1>9. ASSUME NEW s \in Stopper, StopRequestComplete(s) \/ Join(s) \/ Joined(s) PROVE ServiceInv'
  <2>1. /\ UNCHANGED <<queue, cancelled, outcome>>
        /\ \A x \in Stopper : stopper'[x] = "callback" => stopper[x] = "callback"
    BY <1>9 DEF StopRequestComplete, Join, Joined, NotifyStoppers, reportVars, queueVars,
                ControlInv, TypeOK, ThreadType
  <2> QED BY <2>1 DEF ServiceInv
<1>10. CASE \/ \E r \in Request : SubmitInvalid(r) \/ SubmitRefuse(r) \/ SubmitReturn(r)
            \/ Start \/ SpuriousWakeup \/ Execute \/ AcquireGate \/ GateTimeout
            \/ CallDriver \/ DriverReturn \/ WorkerCallbackReturn
            \/ (\E d \in Gated : PollBegin(d))
            \/ PollEnd \/ SchedulerJoined \/ Tick \/ Terminated \/ UNCHANGED vars
  BY <1>1, <1>10 DEF SubmitInvalid, SubmitRefuse, SubmitReturn, Start, SpuriousWakeup,
     Execute, AcquireGate, GateTimeout, CallDriver, DriverReturn, WorkerCallbackReturn,
     PollBegin, PollEnd, SchedulerJoined, Tick, Terminated, vars, queueVars, stopVars,
     reportVars
<1> QED BY <1>2, <1>3, <1>4, <1>5, <1>6, <1>7, <1>8, <1>9, <1>10
        DEF Next, Submit, WorkerStep, StopStep

-----------------------------------------------------------------------------
(* Each step of the dispatcher is a step of the service, or none *)

(* The service does not change when what it is made of does not.           *)
LEMMA ServiceFrame ==
  ASSUME UNCHANGED <<stopper, stopping, started, cancelled, queue, op, completions,
                     outcome, submit>>
  PROVE  UNCHANGED Service!vars
BY DEF Service!vars, ServicePhase, ServiceWaiting, ServiceReport

(* The phase does not change when no flag does and no stop() returns.      *)
LEMMA PhaseFrame ==
  ASSUME UNCHANGED <<stopping, started>>,
         (\E s \in Stopper : stopper'[s] = "returned")
           <=> (\E s \in Stopper : stopper[s] = "returned")
  PROVE  UNCHANGED ServicePhase
BY DEF ServicePhase

(* What the service tells a request.                                       *)
LEMMA ReportLemma ==
  /\ ServiceReport = [r \in Request |-> ServiceReport[r]]
  /\ ServiceReport' = [r \in Request |-> ServiceReport'[r]]
  /\ \A r \in Request :
       /\ ServiceReport[r] = IF completions[r] > 0 THEN outcome[r]
                             ELSE IF submit[r] \in Refused THEN "refused" ELSE "none"
       /\ ServiceReport'[r] = IF completions'[r] > 0 THEN outcome'[r]
                              ELSE IF submit'[r] \in Refused THEN "refused" ELSE "none"
BY DEF ServiceReport

(* When one request is told something, the others are not.                 *)
LEMMA ReportOne ==
  ASSUME NEW r \in Request, NEW v,
         ServiceReport'[r] = v,
         \A x \in Request \ {r} : ServiceReport'[x] = ServiceReport[x]
  PROVE  ServiceReport' = [ServiceReport EXCEPT ![r] = v]
BY ReportLemma

(* A refused submit() is Refuse.                                           *)
LEMMA RefuseStep ==
  ASSUME ControlInv, NEW r \in Request, NEW state \in Refused,
         submit[r] \notin Refused \cup {"pushAccepted", "Accepted"},
         submit' = [submit EXCEPT ![r] = state],
         UNCHANGED <<stopper, stopping, started, cancelled, queue, op, completions, outcome>>
  PROVE  Service!Refuse(r)
<1>1. completions[r] = 0 /\ op # r /\ ~In(queue, r) /\ ~In(cancelled, r)
  BY ServiceFacts
<1>2. submit'[r] = state /\ \A x \in Request \ {r} : submit'[x] = submit[x]
  BY DEF ControlInv, TypeOK, ThreadType
<1>3. ServiceReport[r] = "none" /\ ServiceReport'[r] = "refused"
  BY <1>1, <1>2, ReportLemma
<1>4. \A x \in Request \ {r} : ServiceReport'[x] = ServiceReport[x]
  BY <1>2, ReportLemma
<1>5. ServiceReport' = [ServiceReport EXCEPT ![r] = "refused"]
  BY <1>3, <1>4, ReportOne
<1>6. \A i \in 1..Len(ServiceWaiting) : ServiceWaiting[i] # r
  BY <1>1 DEF ServiceWaiting, In
<1>7. UNCHANGED <<ServicePhase, ServiceWaiting, op>>
  BY DEF ServicePhase, ServiceWaiting
<1> QED BY <1>1, <1>3, <1>5, <1>6, <1>7 DEF Service!Refuse

(* submit() up to its result: a request is accepted when it is pushed.     *)
LEMMA SubmitSteps ==
  ASSUME ControlInv, NEW r \in Request, Submit(r) \/ SubmitReturn(r)
  PROVE  Service!Refuse(r) \/ Service!Accept(r) \/ UNCHANGED Service!vars
<1>1. CASE SubmitInvalid(r) \/ SubmitRefuse(r)
  <2>1. /\ submit[r] = "idle"
        /\ \E state \in Refused : submit' = [submit EXCEPT ![r] = state]
        /\ UNCHANGED <<stopper, stopping, started, cancelled, queue, op, completions, outcome>>
    BY <1>1 DEF SubmitInvalid, SubmitRefuse, Refused, queueVars, lifecycleVars, workerVars,
                stopVars, reportVars
  <2> QED BY <2>1, RefuseStep DEF Refused
<1>2. CASE SubmitReturn(r)
  <2>1. /\ UNCHANGED <<stopper, stopping, started, cancelled, queue, op, completions, outcome>>
        /\ submit[r] \in DOMAIN Returned
        /\ submit' = [submit EXCEPT ![r] = Returned[submit[r]]]
    BY <1>2 DEF SubmitReturn, queueVars, lifecycleVars, workerVars, stopVars, reportVars
  <2>2. CASE submit[r] = "pushAccepted"
    <3>1. \A x \in Request : submit'[x] \in Refused <=> submit[x] \in Refused
      BY <2>1, <2>2 DEF Returned, Refused, ControlInv, TypeOK, ThreadType
    <3>2. \A x \in Request : ServiceReport'[x] = ServiceReport[x]
      BY <2>1, <3>1, ReportLemma
    <3>3. ServiceReport' = ServiceReport
      BY <3>2, ReportLemma
    <3>4. UNCHANGED <<ServicePhase, ServiceWaiting, op>>
      BY <2>1 DEF ServicePhase, ServiceWaiting
    <3> QED BY <3>3, <3>4 DEF Service!vars
  <2>3. CASE submit[r] # "pushAccepted"
    <3>1. submit[r] \in {"pushQueueFull", "pushStopping"} /\ Returned[submit[r]] \in Refused
      BY <2>1, <2>3 DEF Returned, Refused
    <3> QED BY <2>1, <3>1, RefuseStep DEF Refused
  <2> QED BY <2>2, <2>3
<1>3. CASE SubmitPush(r)
  <2>1. /\ UNCHANGED <<stopper, stopping, started, cancelled, op, completions, outcome>>
        /\ submit[r] = "idle" /\ started /\ ~stopping /\ TryPush(r)
    BY <1>3 DEF SubmitPush, lifecycleVars, stopVars, reportVars
  <2>2. /\ cancelled = <<>> /\ ServiceWaiting = queue
        /\ cancelled' = <<>> /\ ServiceWaiting' = queue'
    BY <2>1 DEF ServiceWaiting, ControlInv, StopInv
  <2>3. UNCHANGED <<ServicePhase, op>> /\ ServicePhase = "open"
    BY <2>1 DEF ServicePhase, ControlInv, StopInv
  <2>4. ServiceReport' = ServiceReport
    <3>1. \A x \in Request : submit'[x] \in Refused <=> submit[x] \in Refused
      BY <2>1 DEF TryPush, TryPushResult, Refused, ControlInv, TypeOK, ThreadType
    <3>2. \A x \in Request : ServiceReport'[x] = ServiceReport[x]
      BY <2>1, <3>1, ReportLemma
    <3> QED BY <3>2, ReportLemma
  <2>5. CASE TryPushResult = "pushAccepted"
    <3>1. queue' = Append(queue, r) /\ ~(Len(queue) >= Capacity)
      BY <2>1, <2>5 DEF TryPush, TryPushResult
    <3>2. completions[r] = 0 /\ op # r /\ ~In(queue, r)
      BY <2>1, ServiceFacts
    <3>3. ServiceReport[r] = "none"
      BY <2>1, <3>2, ReportLemma DEF Refused
    <3>4. Len(queue) < Capacity
      BY <3>1, ControlAssumption DEF ControlAssumption, ControlInv, TypeOK, QueueType
    <3>5. \A i \in 1..Len(queue) : queue[i] # r
      BY <3>2 DEF In
    <3> QED BY <2>2, <2>3, <2>4, <3>1, <3>2, <3>3, <3>4, <3>5 DEF Service!Accept
  <2>6. CASE TryPushResult # "pushAccepted"
    <3>1. queue' = queue
      BY <2>1, <2>6 DEF TryPush
    <3> QED BY <2>2, <2>3, <2>4, <3>1 DEF Service!vars
  <2> QED BY <2>5, <2>6
<1> QED BY <1>1, <1>2, <1>3 DEF Submit

(* start() opens the service.                                              *)
LEMMA StartIsOpen ==
  ASSUME ControlInv, Start
  PROVE  Service!Open
<1>1. /\ ~started /\ ~stopping /\ started' = TRUE
      /\ UNCHANGED <<stopper, stopping, cancelled, queue, op, completions, outcome, submit>>
  BY DEF Start, queueVars, submitVars, stopVars, reportVars
<1>2. \A s \in Stopper : stopper[s] # "returned"
  BY <1>1, ServiceFacts
<1>3. ServicePhase = "new" /\ ServicePhase' = "open"
  BY <1>1, <1>2 DEF ServicePhase
<1>4. UNCHANGED <<ServiceWaiting, op, ServiceReport>>
  BY <1>1 DEF ServiceWaiting, ServiceReport
<1> QED BY <1>3, <1>4 DEF Service!Open

(* The worker takes the oldest request and reports it.                     *)
LEMMA WorkerSteps ==
  ASSUME ControlInv, ServiceInv, WorkerStep \/ SpuriousWakeup
  PROVE  \/ Service!Serve \/ (\E status \in Status : Service!Report(status))
         \/ Service!LetGo \/ UNCHANGED Service!vars
<1>1. CASE WaitPop
  <2>1. /\ worker = "check"
        /\ UNCHANGED <<stopper, stopping, started, cancelled, completions, outcome, submit>>
        /\ \/ queue # <<>> /\ op' = Head(queue) /\ queue' = Tail(queue)
           \/ UNCHANGED <<queue, op>>
    BY <1>1 DEF WaitPop, PopFront, lifecycleVars, submitVars, stopVars, reportVars
  <2>2. CASE UNCHANGED <<queue, op>>
    BY <2>1, <2>2, ServiceFrame
  <2>3. CASE queue # <<>> /\ op' = Head(queue) /\ queue' = Tail(queue)
    <3>1. cancelled = <<>> /\ ServiceWaiting = queue /\ ServiceWaiting' = queue'
      BY <2>1, <2>3 DEF ServiceInv, ServiceWaiting
    <3>2. started /\ op = Nobody
      BY <2>1 DEF ControlInv, WorkerInv, Busy
    <3>3. \A s \in Stopper : stopper[s] # "returned"
      BY <2>1, ServiceFacts
    <3>4. ServicePhase \in {"open", "closed"}
      BY <3>2, <3>3 DEF ServicePhase
    <3>5. UNCHANGED <<ServicePhase, ServiceReport>>
      BY <2>1 DEF ServicePhase, ServiceReport
    <3>6. Head(queue) \in Request /\ In(queue, Head(queue))
      BY <2>3, TailLemma DEF ControlInv, TypeOK, QueueType, PlaceInv
    <3>7. completions[Head(queue)] = 0 /\ submit[Head(queue)] \in {"pushAccepted", "Accepted"}
      BY <3>6 DEF ControlInv, PlaceInv, WasAccepted
    <3>8. ServiceReport[Head(queue)] = "none"
      BY <3>6, <3>7, ReportLemma DEF Refused
    <3> QED BY <2>3, <3>1, <3>2, <3>4, <3>5, <3>8 DEF Service!Serve
  <2> QED BY <2>1, <2>2, <2>3
<1>2. CASE WorkerComplete
  <2>1. /\ worker = "complete"
        /\ completions' = [completions EXCEPT ![op] = @ + 1]
        /\ outcome' = [outcome EXCEPT ![op] = result]
        /\ op' \in {op, Nobody}
        /\ UNCHANGED <<stopper, stopping, started, cancelled, queue, submit>>
    BY <1>2 DEF WorkerComplete, Complete, queueVars, lifecycleVars, submitVars, stopVars
  <2>2. op \in Request /\ op # Nobody /\ result \in Status
    BY <2>1 DEF ControlInv, TypeOK, ThreadType, WorkerInv, Busy
  <2>3. completions[op] = 0 /\ submit[op] \in {"pushAccepted", "Accepted"}
    BY <2>1, <2>2 DEF ControlInv, PlaceInv, WasAccepted
  <2>4. /\ completions'[op] = 1 /\ outcome'[op] = result
        /\ \A x \in Request \ {op} : completions'[x] = completions[x] /\ outcome'[x] = outcome[x]
    BY <2>1, <2>2, <2>3 DEF ControlInv, TypeOK, StatsType
  <2>5. ServiceReport[op] = "none" /\ ServiceReport'[op] = result
    BY <2>2, <2>3, <2>4, ReportLemma DEF Refused
  <2>6. \A x \in Request \ {op} : ServiceReport'[x] = ServiceReport[x]
    BY <2>1, <2>4, ReportLemma
  <2>7. ServiceReport' = [ServiceReport EXCEPT ![op] = result]
    BY <2>2, <2>5, <2>6, ReportOne
  <2>8. UNCHANGED <<ServicePhase, ServiceWaiting>>
    BY <2>1 DEF ServicePhase, ServiceWaiting
  <2>9. Service!Report(result)
    BY <2>1, <2>2, <2>5, <2>7, <2>8 DEF Service!Report
  <2> QED BY <2>2, <2>9
<1>3. CASE WorkerCallbackReturn
  <2>1. /\ worker = "callback" /\ op' = Nobody
        /\ UNCHANGED <<stopper, stopping, started, cancelled, queue, completions, outcome, submit>>
    BY <1>3 DEF WorkerCallbackReturn, queueVars, lifecycleVars, submitVars, stopVars, reportVars
  <2>2. op \in Request /\ op # Nobody /\ completions[op] = 1
    BY <2>1 DEF ControlInv, TypeOK, ThreadType, WorkerInv, Busy, PlaceInv
  <2>3. ServiceReport[op] = outcome[op] /\ outcome[op] \in Status
    BY <2>2, ReportLemma DEF ControlInv, TypeOK, StatsType
  <2>4. UNCHANGED <<ServicePhase, ServiceWaiting, ServiceReport>>
    BY <2>1 DEF ServicePhase, ServiceWaiting, ServiceReport
  <2> QED BY <2>1, <2>2, <2>3, <2>4 DEF Service!LetGo, Status
<1>4. CASE \/ SpuriousWakeup \/ Execute \/ AcquireGate \/ GateTimeout \/ CallDriver
           \/ DriverReturn
  BY <1>4, ServiceFrame DEF SpuriousWakeup, Execute, AcquireGate, GateTimeout, CallDriver,
     DriverReturn, queueVars, lifecycleVars, submitVars, stopVars, reportVars
<1> QED BY <1>1, <1>2, <1>3, <1>4 DEF WorkerStep

(* request_stop() closes the service once.                                 *)
LEMMA RequestStopStep ==
  ASSUME ControlInv, NEW s \in Stopper, RequestStop(s)
  PROVE  Service!Close \/ UNCHANGED Service!vars
<1>1. /\ UNCHANGED <<started, cancelled, queue, op, completions, outcome, submit>>
      /\ stopper[s] = "idle"
  BY DEF RequestStop, submitVars, reportVars
<1>2. \A x \in Stopper : stopper'[x] = "returned" <=> stopper[x] = "returned"
  BY DEF RequestStop, ControlInv, TypeOK, ThreadType
<1>3. UNCHANGED <<ServiceWaiting, op, ServiceReport>>
  BY <1>1 DEF ServiceWaiting, ServiceReport
<1>4. CASE stopping
  <2>1. stopping' = stopping
    BY <1>4 DEF RequestStop
  <2> QED BY <1>1, <1>2, <1>3, <2>1, PhaseFrame DEF Service!vars
<1>5. CASE ~stopping
  <2>1. stopping' = TRUE
    BY <1>5 DEF RequestStop
  <2>2. \A x \in Stopper : stopper[x] # "returned"
    BY <1>5, ServiceFacts
  <2>3. ServicePhase \in {"new", "open"} /\ ServicePhase' = "closed"
    BY <1>2, <1>5, <2>1, <2>2 DEF ServicePhase
  <2> QED BY <1>3, <2>3 DEF Service!Close
<1> QED BY <1>4, <1>5

(* Moving the pending requests out of the queue changes nothing for them;  *)
(* their cancellation is reported in their order.                          *)
LEMMA CancelSteps ==
  ASSUME ControlInv, ServiceInv, NEW s \in Stopper,
         CancelPending(s) \/ CompleteCancelled(s) \/ CancelCallbackReturn(s)
  PROVE  Service!Cancel \/ Service!LetGoCancelled \/ UNCHANGED Service!vars
<1>1. /\ UNCHANGED <<started, stopping, op, submit>>
      /\ \A x \in Stopper : stopper'[x] = "returned" <=> stopper[x] = "returned"
  BY DEF CancelPending, CompleteCancelled, CancelCallbackReturn, lifecycleVars, submitVars,
         workerVars, ControlInv, TypeOK, ThreadType
<1>2. UNCHANGED ServicePhase
  BY <1>1, PhaseFrame
<1>3. CASE CancelPending(s)
  <2>1. cancelled = <<>> /\ UNCHANGED <<completions, outcome>>
    BY <1>3 DEF CancelPending, reportVars, ControlInv, StopInv
  <2>2. ServiceWaiting' = ServiceWaiting
    BY <1>3, <2>1 DEF CancelPending, ServiceWaiting
  <2>3. ServiceReport' = ServiceReport
    BY <1>1, <2>1 DEF ServiceReport
  <2> QED BY <1>1, <1>2, <2>2, <2>3 DEF Service!vars
<1>4. ASSUME cancelled # <<>>
      PROVE  /\ queue = <<>> /\ ServiceWaiting = cancelled /\ ServicePhase = "closed"
             /\ Head(cancelled) \in Request
             /\ submit[Head(cancelled)] \in {"pushAccepted", "Accepted"}
             /\ completions[Head(cancelled)] = IF Reporting THEN 1 ELSE 0
  <2>1. queue = <<>> /\ ServiceWaiting = cancelled
    BY <1>4 DEF ServiceInv, ServiceWaiting
  <2>2. started /\ stopping /\ \A x \in Stopper : stopper[x] # "returned"
    BY <1>4, ServiceFacts
  <2>3. ServicePhase = "closed"
    BY <2>2 DEF ServicePhase
  <2>4. Head(cancelled) \in Request /\ In(cancelled, Head(cancelled))
    BY <1>4, HeadCancelled
  <2>5. /\ submit[Head(cancelled)] \in {"pushAccepted", "Accepted"}
        /\ completions[Head(cancelled)] = IF Reporting THEN 1 ELSE 0
    BY <2>4 DEF ControlInv, PlaceInv, WasAccepted
  <2> QED BY <2>1, <2>3, <2>4, <2>5
<1>5. CASE CompleteCancelled(s)
  <2> DEFINE h == Head(cancelled)
  <2>1. /\ cancelled # <<>> /\ UNCHANGED queue
        /\ completions' = [completions EXCEPT ![h] = @ + 1]
        /\ outcome' = [outcome EXCEPT ![h] = "Cancelled"]
        /\ cancelled' \in {cancelled, Tail(cancelled)}
    BY <1>5 DEF CompleteCancelled, Complete, queueVars
  <2>2. ~Reporting
    BY <1>5 DEF Reporting, CompleteCancelled, ControlInv, StopInv, Canceller
  <2>3. h \in Request /\ completions[h] = 0 /\ submit[h] \in {"pushAccepted", "Accepted"}
    BY <1>4, <2>1, <2>2
  <2> HIDE DEF h
  <2>4. /\ completions'[h] = 1 /\ outcome'[h] = "Cancelled"
        /\ \A x \in Request \ {h} : completions'[x] = completions[x] /\ outcome'[x] = outcome[x]
    BY <2>1, <2>3 DEF ControlInv, TypeOK, StatsType
  <2>5. ServiceReport[h] = "none" /\ ServiceReport'[h] = "Cancelled"
    BY <2>3, <2>4, ReportLemma DEF Refused
  <2>6. \A x \in Request \ {h} : ServiceReport'[x] = ServiceReport[x]
    BY <1>1, <2>4, ReportLemma
  <2>7. ServiceReport' = [ServiceReport EXCEPT ![h] = "Cancelled"]
    BY <2>3, <2>5, <2>6, ReportOne
  <2>8. ServiceWaiting' \in {ServiceWaiting, Tail(ServiceWaiting)}
    BY <1>4, <2>1 DEF ServiceWaiting
  <2>9. ServicePhase = "closed" /\ ServiceWaiting # <<>> /\ h = Head(ServiceWaiting)
    BY <1>4, <2>1 DEF h
  <2> QED BY <1>1, <1>2, <2>5, <2>7, <2>8, <2>9 DEF Service!Cancel
<1>6. CASE CancelCallbackReturn(s)
  <2>1. cancelled' = Tail(cancelled) /\ UNCHANGED <<queue, completions, outcome>> /\ Reporting
    BY <1>6 DEF CancelCallbackReturn, queueVars, reportVars, Reporting
  <2>2. cancelled # <<>>
    BY <2>1 DEF ControlInv, StopInv, Reporting
  <2>3. completions[Head(cancelled)] = 1 /\ outcome[Head(cancelled)] = "Cancelled"
    BY <1>4, <2>1, <2>2 DEF ServiceInv
  <2>4. ServiceReport[Head(cancelled)] = "Cancelled"
    BY <1>4, <2>2, <2>3, ReportLemma
  <2>5. ServiceWaiting' = Tail(ServiceWaiting)
    BY <1>4, <2>1, <2>2 DEF ServiceWaiting
  <2>6. ServiceReport' = ServiceReport
    BY <1>1, <2>1 DEF ServiceReport
  <2> QED BY <1>1, <1>2, <1>4, <2>2, <2>4, <2>5, <2>6 DEF Service!LetGoCancelled
<1> QED BY <1>3, <1>5, <1>6

(* The service is stopped when the first stop() returns.                   *)
LEMMA JoinSteps ==
  ASSUME ControlInv, ServiceInv, ControlInv', NEW s \in Stopper,
         StopRequestComplete(s) \/ Join(s) \/ Joined(s)
  PROVE  Service!Stop \/ UNCHANGED Service!vars
<1>1. UNCHANGED <<started, stopping, cancelled, queue, op, completions, outcome, submit>>
  BY DEF StopRequestComplete, Join, Joined, queueVars, submitVars, workerVars, reportVars
<1>2. \A x \in Stopper : stopper[x] = "returned" => stopper'[x] = "returned"
  BY DEF StopRequestComplete, Join, Joined, NotifyStoppers, ControlInv, TypeOK, ThreadType
<1>3. UNCHANGED <<ServiceWaiting, op, ServiceReport>>
  BY <1>1 DEF ServiceWaiting, ServiceReport
<1>4. CASE (\E x \in Stopper : stopper'[x] = "returned")
             <=> (\E x \in Stopper : stopper[x] = "returned")
  BY <1>1, <1>3, <1>4, PhaseFrame DEF Service!vars
<1>5. CASE /\ \E x \in Stopper : stopper'[x] = "returned"
           /\ ~\E x \in Stopper : stopper[x] = "returned"
  <2>1. stopping' /\ cancelled' = <<>> /\ queue' = <<>> /\ op' = Nobody
    <3>1. PICK x \in Stopper : stopper'[x] = "returned"
      BY <1>5
    <3>2. stopping' /\ (~started' \/ joined')
      BY <3>1 DEF ControlInv, StopInv
    <3>3. worker' \in {"off", "exited"} /\ queue' = <<>> /\ cancelled' = <<>>
      BY <3>2 DEF ControlInv, StopInv, WorkerInv
    <3>4. op' = Nobody
      BY <3>3 DEF ControlInv, WorkerInv, Busy
    <3> QED BY <3>2, <3>3, <3>4
  <2>2. ServicePhase = "closed" /\ ServicePhase' = "stopped"
    BY <1>1, <1>5, <2>1 DEF ServicePhase
  <2>3. ServiceWaiting = <<>> /\ op = Nobody
    BY <1>1, <2>1 DEF ServiceWaiting
  <2> QED BY <1>3, <2>2, <2>3 DEF Service!Stop
<1> QED BY <1>2, <1>4, <1>5

-----------------------------------------------------------------------------
(* The refinement *)

(* Every step of the dispatcher is a step of the service or leaves it.     *)
LEMMA RefinementStep ==
  ASSUME ControlInv, ServiceInv, ControlInv', [Next]_vars
  PROVE  [Service!Next]_(Service!vars)
<1>1. CASE \E r \in Request : Submit(r) \/ SubmitReturn(r)
  BY <1>1, SubmitSteps DEF Service!Next
<1>2. CASE Start
  BY <1>2, StartIsOpen DEF Service!Next
<1>3. CASE WorkerStep \/ SpuriousWakeup
  BY <1>3, WorkerSteps DEF Service!Next
<1>4. ASSUME NEW s \in Stopper, RequestStop(s) PROVE [Service!Next]_(Service!vars)
  BY <1>4, RequestStopStep DEF Service!Next
<1>5. ASSUME NEW s \in Stopper, StopStep(s) PROVE [Service!Next]_(Service!vars)
  BY <1>5, CancelSteps, JoinSteps DEF Service!Next, StopStep
<1>6. CASE \/ \E d \in Gated : PollBegin(d)
           \/ PollEnd \/ SchedulerJoined \/ Tick \/ Terminated \/ UNCHANGED vars
  BY <1>6, ServiceFrame DEF PollBegin, PollEnd, SchedulerJoined, Tick, Terminated, vars,
     queueVars, lifecycleVars, submitVars, workerVars, stopVars, reportVars
<1> QED BY <1>1, <1>2, <1>3, <1>4, <1>5, <1>6 DEF Next

(* The dispatcher, with its threads, its lock, the queue it closes and the *)
(* list it cancels, implements ControlService: requests are served in the  *)
(* order of acceptance, each gets one report, cancellation comes only      *)
(* after the close, and stop() returns only when nothing accepted is left. *)
THEOREM DispatcherImplementsService == Spec => ImplementsService
<1>1. Init => Service!Init /\ ServiceInv
  <2> SUFFICES ASSUME Init PROVE Service!Init /\ ServiceInv
    OBVIOUS
  <2>1. ServicePhase = "new" /\ ServiceWaiting = <<>> /\ op = Nobody
    BY DEF Init, ServicePhase, ServiceWaiting
  <2>2. ServiceReport = [r \in Request |-> "none"]
    BY DEF Init, ServiceReport, Refused
  <2>3. ServiceInv
    BY DEF Init, ServiceInv, Reporting
  <2> QED BY <2>1, <2>2, <2>3 DEF Service!Init
<1>2. ControlInv /\ ServiceInv /\ [Next]_vars => ServiceInv'
  BY ServiceInvStep
<1>3. ControlInv /\ ServiceInv /\ ControlInv' /\ [Next]_vars => [Service!Next]_(Service!vars)
  BY RefinementStep
<1> QED BY <1>1, <1>2, <1>3, ControlInvariant, PTL DEF Spec, ImplementsService, Service!Spec
=============================================================================
