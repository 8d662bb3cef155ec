--------------------------- MODULE ControlDispatcher ---------------------------
(***************************************************************************)
(* The device-control path: ControlQueue and DeviceControlDispatcher of    *)
(* src/src/core/control.cpp, together with the per-device I/O gate that    *)
(* GatewayRuntime::poll_group shares with it.                              *)
(*                                                                         *)
(* Threads: one per request that calls submit(), the dispatcher's worker   *)
(* (run/execute), any number of threads that call stop(), and the poll     *)
(* scheduler, of which only the use of the gate is kept.  A step is one    *)
(* critical section or one call into plugin code; reads of thread-local    *)
(* data are folded into the step that follows them.                        *)
(*                                                                         *)
(* Condition variables are modelled by the thread being asleep: it leaves  *)
(* that state only when the code notifies, or spuriously.                  *)
(***************************************************************************)
EXTENDS Naturals, Sequences

CONSTANTS
  Request,       \* the control requests, each submitted by a thread of its own
  Stopper,       \* the threads that call stop()
  Device,        \* non-empty device ids
  NoDevice,      \* the empty device id, or an empty command
  Registered,    \* devices the driver resolver finds when a request is submitted
  Removable,     \* of these, the ones it may fail to find at execution time
  Gated,         \* devices for which the gate resolver returns a mutex
  Shapes,        \* the requests the callers build
  TimeMax,       \* ControlClock::time_point::max(), "no deadline"
  DriverStatus,  \* statuses a driver's control() may return
  Capacity,      \* control_queue_capacity
  Nobody         \* no thread, no request

ASSUME ControlAssumption ==
  /\ NoDevice \notin Device
  /\ Registered \subseteq Device
  /\ Gated \subseteq Device
  /\ Capacity \in Nat \ {0}
  /\ TimeMax \in Nat \ {0}
  /\ Nobody \notin Request \cup Stopper
  /\ Request \cap Stopper = {}

Status == {"Succeeded", "Unsupported", "InvalidArgument", "Timeout",
           "Cancelled", "Failed"}

ASSUME DriverStatusAssumption == DriverStatus \subseteq Status

(* What a caller of submit() puts into a request.  silent: the completion  *)
(* callback is empty, as in ProcessingContext::submit_control.             *)
Shape == [device: Device \cup {NoDevice}, deadline: 0..TimeMax, silent: BOOLEAN]

ASSUME ShapesAssumption == Shapes \subseteq Shape

VARIABLES
  queue, closed, qstats,                            \* ControlQueue
  started, stopping, stopRequestComplete,           \* DeviceControlDispatcher
  joinInProgress, joined, lifecycle, stats,
  req, submit,                                      \* the submitting threads
  worker, op, result,                               \* the worker thread
  stopper, cancelled,                               \* the stopping threads
  gate, polling, scheduling,                        \* the I/O gates and their other user
  now,                                              \* the steady clock
  completions, outcome                              \* what complete() reported

queueVars     == <<queue, closed, qstats>>
lifecycleVars == <<started, stopping, stopRequestComplete, joinInProgress, joined>>
submitVars    == <<req, submit>>
workerVars    == <<worker, op, result>>
stopVars      == <<stopper, cancelled>>
pollVars      == <<polling, scheduling>>
reportVars    == <<completions, outcome>>

vars == <<queueVars, lifecycleVars, lifecycle, stats, submitVars, workerVars,
          stopVars, gate, pollVars, now, reportVars>>

Refused == {"QueueFull", "UnknownDevice", "InvalidRequest", "Stopping"}

(* Where a submitting thread is.  The push... states are inside the        *)
(* critical section of submit(), after try_push() and before its result    *)
(* is counted; the last five are what submit() returned.                   *)
SubmitState == {"idle", "pushAccepted", "pushQueueFull", "pushStopping",
                "Accepted"} \cup Refused
WorkerState == {"off", "check", "asleep", "execute", "gate", "locked",
                "driver", "complete", "callback", "exited"}
StopperState == {"idle", "closing", "cancelling", "callback", "join",
                 "asleep", "joining", "returned"}
StatName == {"submitted", "accepted", "queue_full", "unknown_device",
             "invalid_requests", "stopping", "executed"} \cup Status
QueueStatName == {"accepted", "rejected_full", "cancelled", "max_size"}

Init ==
  /\ queue = <<>>
  /\ closed = FALSE
  /\ qstats = [k \in QueueStatName |-> 0]
  /\ started = FALSE
  /\ stopping = FALSE
  /\ stopRequestComplete = FALSE
  /\ joinInProgress = FALSE
  /\ joined = FALSE
  /\ lifecycle = Nobody
  /\ stats = [k \in StatName |-> 0]
  /\ req \in [Request -> Shapes]
  /\ submit = [r \in Request |-> "idle"]
  /\ worker = "off"
  /\ op = Nobody
  /\ result = "Failed"
  /\ stopper = [s \in Stopper |-> "idle"]
  /\ cancelled = <<>>
  /\ gate = [d \in Device |-> "free"]
  /\ polling = NoDevice
  /\ scheduling = TRUE
  /\ now = 0
  /\ completions = [r \in Request |-> 0]
  /\ outcome = [r \in Request |-> "Failed"]

-----------------------------------------------------------------------------
(* Building blocks *)

Count(k) == stats' = [stats EXCEPT ![k] = @ + 1]

(* Mutant: the queue changes and nobody is notified *)
NoNotify == worker' = worker

(* notify_one / notify_all on ControlQueue::not_empty_ *)
NotifyWorker == worker' = IF worker = "asleep" THEN "check" ELSE worker

(* Mutant: lifecycle_cv_ is not notified *)
NotifyNobody(s, t) == stopper' = [stopper EXCEPT ![s] = t]

(* notify_all on DeviceControlDispatcher::lifecycle_cv_, by thread s,      *)
(* which itself moves on to state t                                        *)
NotifyStoppers(s, t) ==
  stopper' = [x \in Stopper |-> IF x = s THEN t
                                ELSE IF stopper[x] = "asleep" THEN "join"
                                ELSE stopper[x]]

ValidRequest(r) == req[r].device # NoDevice

(* complete(): count the status, then hand the result to the callback *)
Complete(r, status) ==
  /\ Count(status)
  /\ completions' = [completions EXCEPT ![r] = @ + 1]
  /\ outcome' = [outcome EXCEPT ![r] = status]

-----------------------------------------------------------------------------
(* submit() *)

(* ++stats_.submitted is counted with the step that follows it *)
CountRefused(k) ==
  stats' = [stats EXCEPT !["submitted"] = @ + 1, ![k] = @ + 1]

SubmitInvalid(r) ==
  /\ submit[r] = "idle"
  /\ ~ValidRequest(r)
  /\ submit' = [submit EXCEPT ![r] = "InvalidRequest"]
  /\ CountRefused("invalid_requests")
  /\ UNCHANGED <<queueVars, lifecycleVars, lifecycle, req, workerVars,
                 stopVars, gate, pollVars, now, reportVars>>

(* Inside lifecycle_mutex_: not running, or the device has no driver *)
SubmitRefuse(r) ==
  /\ submit[r] = "idle"
  /\ ValidRequest(r)
  /\ lifecycle = Nobody
  /\ \/ /\ ~started \/ stopping
        /\ submit' = [submit EXCEPT ![r] = "Stopping"]
        /\ CountRefused("stopping")
     \/ /\ started /\ ~stopping
        /\ req[r].device \notin Registered
        /\ submit' = [submit EXCEPT ![r] = "UnknownDevice"]
        /\ CountRefused("unknown_device")
  /\ UNCHANGED <<queueVars, lifecycleVars, lifecycle, req, workerVars,
                 stopVars, gate, pollVars, now, reportVars>>

(* Mutant: the capacity check is off by one *)
TryPushOverfull ==
  IF closed THEN "pushStopping"
  ELSE IF Len(queue) > Capacity THEN "pushQueueFull"
  ELSE "pushAccepted"

(* ControlQueue::try_push: its result, as a state of the submitting thread *)
TryPushResult ==
  IF closed THEN "pushStopping"
  ELSE IF Len(queue) >= Capacity THEN "pushQueueFull"
  ELSE "pushAccepted"

TryPush(r) ==
  LET res  == TryPushResult
      size == Len(queue) + 1
  IN /\ submit' = [submit EXCEPT ![r] = res]
     /\ \/ /\ res = "pushAccepted"
           /\ queue' = Append(queue, r)
           /\ qstats' = [qstats EXCEPT
                           !["accepted"] = @ + 1,
                           !["max_size"] = IF @ > size THEN @ ELSE size]
           /\ NotifyWorker
        \/ /\ res # "pushAccepted"
           /\ qstats' = [qstats EXCEPT
                           !["rejected_full"] = IF closed THEN @ ELSE @ + 1]
           /\ UNCHANGED <<queue, worker>>

(* Mutant: lifecycle_mutex_ is released before the result is counted *)
ReleaseLifecycle(r) == lifecycle' = Nobody

(* lifecycle_mutex_ is taken here and kept until SubmitReturn *)
HoldLifecycle(r) == lifecycle' = r

SubmitPush(r) ==
  /\ submit[r] = "idle"
  /\ ValidRequest(r)
  /\ lifecycle = Nobody
  /\ started /\ ~stopping
  /\ req[r].device \in Registered
  /\ HoldLifecycle(r)
  /\ Count("submitted")
  /\ TryPush(r)
  /\ UNCHANGED <<closed, lifecycleVars, req, op, result, stopVars,
                 gate, pollVars, now, reportVars>>

Returned == [pushAccepted |-> "Accepted", pushQueueFull |-> "QueueFull",
             pushStopping |-> "Stopping"]
StatOf == [pushAccepted |-> "accepted", pushQueueFull |-> "queue_full",
           pushStopping |-> "stopping"]

SubmitReturn(r) ==
  /\ submit[r] \in DOMAIN Returned
  /\ submit' = [submit EXCEPT ![r] = Returned[submit[r]]]
  /\ Count(StatOf[submit[r]])
  /\ lifecycle' = Nobody
  /\ UNCHANGED <<queueVars, lifecycleVars, req, workerVars, stopVars, gate,
                 pollVars, now, reportVars>>

-----------------------------------------------------------------------------
(* start() *)

Start ==
  /\ lifecycle = Nobody
  /\ ~started /\ ~stopping
  /\ started' = TRUE
  /\ worker' = "check"
  /\ UNCHANGED <<queueVars, stopping, stopRequestComplete, joinInProgress,
                 joined, lifecycle, stats, submitVars, op, result, stopVars,
                 gate, pollVars, now, reportVars>>

-----------------------------------------------------------------------------
(* The worker: run() and execute() *)

(* Mutant: the newest operation is served first *)
PopNewest ==
  /\ op' = queue[Len(queue)]
  /\ queue' = SubSeq(queue, 1, Len(queue) - 1)

PopFront ==
  /\ op' = Head(queue)
  /\ queue' = Tail(queue)

(* ControlQueue::wait_pop *)
WaitPop ==
  /\ worker = "check"
  /\ \/ /\ queue # <<>>
        /\ PopFront
        /\ worker' = "execute"
     \/ /\ queue = <<>>
        /\ worker' = IF closed THEN "exited" ELSE "asleep"
        /\ UNCHANGED <<queue, op>>
  /\ UNCHANGED <<closed, qstats, lifecycleVars, lifecycle, stats, submitVars,
                 result, stopVars, gate, pollVars, now, reportVars>>

SpuriousWakeup ==
  /\ worker = "asleep"
  /\ worker' = "check"
  /\ UNCHANGED <<queueVars, lifecycleVars, lifecycle, stats, submitVars, op,
                 result, stopVars, gate, pollVars, now, reportVars>>

Dev == req[op].device

(* Mutant: a request is given up one unit before its deadline *)
ExpiredEarly == req[op].deadline <= now + 1

Expired == req[op].deadline <= now

(* The driver and gate lookups and the first deadline check.  found is     *)
(* what the driver resolver answers this time.                             *)
Execute ==
  /\ worker = "execute"
  /\ \E found \in (IF Dev \in Removable THEN BOOLEAN ELSE {TRUE}) :
       LET ready == found /\ ~Expired /\ Dev \in Gated
       IN /\ worker' = IF ready THEN "gate" ELSE "complete"
          /\ result' = IF found /\ Expired THEN "Timeout" ELSE "Failed"
  /\ UNCHANGED <<queueVars, lifecycleVars, lifecycle, stats, submitVars, op,
                 stopVars, gate, pollVars, now, reportVars>>

(* Mutant: the gate does not exclude the scheduler thread *)
GateShared == gate[Dev] # "control"

GateFree == gate[Dev] = "free"

(* lock() or try_lock_until(deadline) succeeds *)
AcquireGate ==
  /\ worker = "gate"
  /\ GateFree
  /\ gate' = [gate EXCEPT ![Dev] = "control"]
  /\ worker' = "locked"
  /\ UNCHANGED <<queueVars, lifecycleVars, lifecycle, stats, submitVars, op,
                 result, stopVars, pollVars, now, reportVars>>

(* try_lock_until(deadline) gives up; lock() never does *)
GateTimeout ==
  /\ worker = "gate"
  /\ req[op].deadline # TimeMax
  /\ req[op].deadline <= now
  /\ result' = "Timeout"
  /\ worker' = "complete"
  /\ UNCHANGED <<queueVars, lifecycleVars, lifecycle, stats, submitVars, op,
                 stopVars, gate, pollVars, now, reportVars>>

(* Mutant: the gate is still held when execute() finishes the operation *)
KeepGate == gate' = gate

UnlockGate == gate' = [gate EXCEPT ![Dev] = "free"]

(* The second deadline check, with the gate held *)
CallDriver ==
  /\ worker = "locked"
  /\ \/ /\ req[op].deadline # TimeMax /\ now >= req[op].deadline
        /\ UnlockGate
        /\ result' = "Timeout"
        /\ worker' = "complete"
        /\ UNCHANGED stats
     \/ /\ req[op].deadline = TimeMax \/ now < req[op].deadline
        /\ Count("executed")
        /\ worker' = "driver"
        /\ UNCHANGED <<gate, result>>
  /\ UNCHANGED <<queueVars, lifecycleVars, lifecycle, submitVars, op,
                 stopVars, pollVars, now, reportVars>>

(* control() returns a status, or throws; the gate is then released *)
DriverReturn ==
  /\ worker = "driver"
  /\ \/ \E status \in DriverStatus :
          result' = IF now > req[op].deadline THEN "Timeout" ELSE status
     \/ result' = "Failed"
  /\ UnlockGate
  /\ worker' = "complete"
  /\ UNCHANGED <<queueVars, lifecycleVars, lifecycle, stats, submitVars, op,
                 stopVars, pollVars, now, reportVars>>

WorkerComplete ==
  /\ worker = "complete"
  /\ Complete(op, result)
  /\ worker' = IF req[op].silent THEN "check" ELSE "callback"
  /\ op' = IF req[op].silent THEN Nobody ELSE op
  /\ UNCHANGED <<queueVars, lifecycleVars, lifecycle, submitVars, result,
                 stopVars, gate, pollVars, now>>

(* Mutant: an exception of the callback ends the worker *)
WorkerCallbackKills ==
  /\ worker = "callback"
  /\ \E w \in {"check", "exited"} : worker' = w
  /\ op' = Nobody
  /\ UNCHANGED <<queueVars, lifecycleVars, lifecycle, stats, submitVars,
                 result, stopVars, gate, pollVars, now, reportVars>>

(* The completion callback returns, or throws and complete() swallows it *)
WorkerCallbackReturn ==
  /\ worker = "callback"
  /\ worker' = "check"
  /\ op' = Nobody
  /\ UNCHANGED <<queueVars, lifecycleVars, lifecycle, stats, submitVars,
                 result, stopVars, gate, pollVars, now, reportVars>>

-----------------------------------------------------------------------------
(* stop(): request_stop() and then join() *)

(* request_stop() up to the end of queue_.close(), inside lifecycle_mutex_ *)
RequestStop(s) ==
  /\ stopper[s] = "idle"
  /\ lifecycle = Nobody
  /\ \/ /\ stopping
        /\ stopper' = [stopper EXCEPT ![s] = "join"]
        /\ UNCHANGED <<stopping, closed, lifecycle, worker>>
     \/ /\ ~stopping
        /\ stopping' = TRUE
        /\ closed' = TRUE
        /\ NotifyWorker
        /\ lifecycle' = s
        /\ stopper' = [stopper EXCEPT ![s] = "closing"]
  /\ UNCHANGED <<queue, qstats, started, stopRequestComplete, joinInProgress,
                 joined, stats, submitVars, op, result, cancelled, gate,
                 pollVars, now, reportVars>>

(* Mutant: the pending operations are copied, not moved out of the queue *)
CancelPendingCopies(s) ==
  /\ stopper[s] = "closing"
  /\ cancelled' = queue
  /\ lifecycle' = Nobody
  /\ stopper' = [stopper EXCEPT ![s] = "cancelling"]
  /\ UNCHANGED <<queueVars, lifecycleVars, stats, submitVars, workerVars,
                 gate, pollVars, now, reportVars>>

(* cancel_pending(), and the end of the critical section.  The allocation  *)
(* of the vector may fail; the operations then stay for the worker.        *)
CancelPending(s) ==
  /\ stopper[s] = "closing"
  /\ \/ /\ cancelled' = queue
        /\ queue' = <<>>
        /\ qstats' = [qstats EXCEPT !["cancelled"] = @ + Len(queue)]
     \/ /\ queue # <<>>
        /\ UNCHANGED <<cancelled, queue, qstats>>
  /\ lifecycle' = Nobody
  /\ stopper' = [stopper EXCEPT ![s] = "cancelling"]
  /\ UNCHANGED <<closed, lifecycleVars, stats, submitVars, workerVars, gate,
                 pollVars, now, reportVars>>

(* complete() with a Cancelled result, on the stopping thread *)
CompleteCancelled(s) ==
  /\ stopper[s] = "cancelling"
  /\ cancelled # <<>>
  /\ Complete(Head(cancelled), "Cancelled")
  /\ IF req[Head(cancelled)].silent
     THEN cancelled' = Tail(cancelled) /\ UNCHANGED stopper
     ELSE stopper' = [stopper EXCEPT ![s] = "callback"] /\ UNCHANGED cancelled
  /\ UNCHANGED <<queueVars, lifecycleVars, lifecycle, submitVars, workerVars,
                 gate, pollVars, now>>

CancelCallbackReturn(s) ==
  /\ stopper[s] = "callback"
  /\ cancelled' = Tail(cancelled)
  /\ stopper' = [stopper EXCEPT ![s] = "cancelling"]
  /\ UNCHANGED <<queueVars, lifecycleVars, lifecycle, stats, submitVars,
                 workerVars, gate, pollVars, now, reportVars>>

StopRequestComplete(s) ==
  /\ stopper[s] = "cancelling"
  /\ cancelled = <<>>
  /\ lifecycle = Nobody
  /\ stopRequestComplete' = TRUE
  /\ NotifyStoppers(s, "join")
  /\ UNCHANGED <<queueVars, started, stopping, joinInProgress, joined,
                 lifecycle, stats, submitVars, workerVars, cancelled, gate,
                 pollVars, now, reportVars>>

(* Mutant: join() does not wait for another join() *)
MayJoinTwice == stopRequestComplete

(* Mutant: join() waits for another join() only *)
MayJoinEarly == ~joinInProgress \/ joined

(* Both wait predicates of join() *)
MayJoin == stopRequestComplete /\ (~joinInProgress \/ joined)

(* One pass through the waits of join(), inside lifecycle_mutex_ *)
Join(s) ==
  /\ stopper[s] = "join"
  /\ lifecycle = Nobody
  /\ LET joins == started /\ MayJoin /\ ~joined
     IN /\ joinInProgress' = (joinInProgress \/ joins)
        /\ stopper' = [stopper EXCEPT ![s] =
                         IF joins THEN "joining"
                         ELSE IF started /\ ~MayJoin THEN "asleep"
                         ELSE "returned"]
  /\ UNCHANGED <<queueVars, started, stopping, stopRequestComplete, joined,
                 lifecycle, stats, submitVars, workerVars, cancelled, gate,
                 pollVars, now, reportVars>>

(* worker_.join() has returned *)
Joined(s) ==
  /\ stopper[s] = "joining"
  /\ worker = "exited"
  /\ lifecycle = Nobody
  /\ joinInProgress' = FALSE
  /\ joined' = TRUE
  /\ NotifyStoppers(s, "returned")
  /\ UNCHANGED <<queueVars, started, stopping, stopRequestComplete, lifecycle,
                 stats, submitVars, workerVars, cancelled, gate, pollVars,
                 now, reportVars>>

-----------------------------------------------------------------------------
(* The rest of the process: polls that use the gates, and time *)

(* poll_group(): the scheduler thread locks the gate of the device, reads  *)
(* it and unlocks                                                          *)
PollBegin(d) ==
  /\ scheduling
  /\ polling = NoDevice
  /\ gate[d] = "free"
  /\ gate' = [gate EXCEPT ![d] = "poll"]
  /\ polling' = d
  /\ UNCHANGED <<queueVars, lifecycleVars, lifecycle, stats, submitVars,
                 workerVars, stopVars, scheduling, now, reportVars>>

PollEnd ==
  /\ polling # NoDevice
  /\ gate' = [gate EXCEPT ![polling] = "free"]
  /\ polling' = NoDevice
  /\ UNCHANGED <<queueVars, lifecycleVars, lifecycle, stats, submitVars,
                 workerVars, stopVars, scheduling, now, reportVars>>

(* scheduler_.join() in GatewayRuntime::stop *)
SchedulerJoined ==
  /\ scheduling
  /\ polling = NoDevice
  /\ scheduling' = FALSE
  /\ UNCHANGED <<queueVars, lifecycleVars, lifecycle, stats, submitVars,
                 workerVars, stopVars, gate, polling, now, reportVars>>

(* The clock never reaches time_point::max() *)
Tick ==
  /\ now + 1 < TimeMax
  /\ now' = now + 1
  /\ UNCHANGED <<queueVars, lifecycleVars, lifecycle, stats, submitVars,
                 workerVars, stopVars, gate, pollVars, reportVars>>

(* Nothing is left to do, whatever the clock and the scheduler still do *)
Terminated ==
  /\ \A r \in Request : submit[r] \in Refused \cup {"Accepted"}
  /\ \A s \in Stopper : stopper[s] = "returned"
  /\ worker \in {"off", "exited"}
  /\ UNCHANGED vars

Submit(r) == SubmitInvalid(r) \/ SubmitRefuse(r) \/ SubmitPush(r)
WorkerStep == \/ WaitPop \/ Execute \/ AcquireGate \/ GateTimeout \/ CallDriver
              \/ DriverReturn \/ WorkerComplete \/ WorkerCallbackReturn
StopStep(s) == \/ CancelPending(s) \/ CompleteCancelled(s) \/ CancelCallbackReturn(s)
               \/ StopRequestComplete(s) \/ Join(s) \/ Joined(s)

Next ==
  \/ \E r \in Request : Submit(r) \/ SubmitReturn(r)
  \/ Start \/ WorkerStep \/ SpuriousWakeup
  \/ \E s \in Stopper : RequestStop(s) \/ StopStep(s)
  \/ \E d \in Gated : PollBegin(d)
  \/ PollEnd \/ SchedulerJoined \/ Tick \/ Terminated

Spec == Init /\ [][Next]_vars

(* A thread that can run eventually does, time passes, and plugin code     *)
(* (driver calls, callbacks) returns.  Nothing forces a caller to submit   *)
(* or to stop, nor the scheduler to poll or to leave a gate to the         *)
(* dispatcher: std::timed_mutex is not fair.                               *)
FairSpec ==
  /\ Spec
  /\ \A r \in Request : WF_vars(SubmitReturn(r))
  /\ WF_vars(WorkerStep)
  /\ \A s \in Stopper : WF_vars(StopStep(s))
  /\ WF_vars(PollEnd)
  /\ WF_vars(Tick)

-----------------------------------------------------------------------------
(* Properties *)

QueueType ==
  /\ queue \in Seq(Request) /\ Len(queue) <= Capacity
  /\ cancelled \in Seq(Request)
  /\ closed \in BOOLEAN

StatsType ==
  /\ qstats \in [QueueStatName -> Nat]
  /\ stats \in [StatName -> Nat]
  /\ completions \in [Request -> Nat]
  /\ outcome \in [Request -> Status]

LifecycleType ==
  /\ started \in BOOLEAN /\ stopping \in BOOLEAN
  /\ stopRequestComplete \in BOOLEAN
  /\ joinInProgress \in BOOLEAN /\ joined \in BOOLEAN
  /\ lifecycle \in Request \cup Stopper \cup {Nobody}

ThreadType ==
  /\ req \in [Request -> Shapes]
  /\ submit \in [Request -> SubmitState]
  /\ worker \in WorkerState
  /\ op \in Request \cup {Nobody}
  /\ result \in Status
  /\ stopper \in [Stopper -> StopperState]

GateType ==
  /\ gate \in [Device -> {"free", "control", "poll"}]
  /\ polling \in Device \cup {NoDevice}
  /\ scheduling \in BOOLEAN
  /\ now \in 0..(TimeMax - 1)

(* The state has its types, and the queue never exceeds its capacity       *)
(* (ControlQueue::try_push).                                               *)
TypeOK == QueueType /\ StatsType /\ LifecycleType /\ ThreadType /\ GateType

WasAccepted(r) == submit[r] \in {"pushAccepted", "Accepted"}

(* No request is completed twice, and none that submit() refused is        *)
(* completed at all, whichever of worker and stopping thread gets to it    *)
(* (complete, called from execute and from request_stop).                  *)
ExactlyOnce ==
  \A r \in Request :
    /\ completions[r] <= 1
    /\ completions[r] = 1 => WasAccepted(r)

(* When stop() has returned to any caller, every accepted request has been *)
(* completed, no callback is still running on the worker or on another     *)
(* stopping thread, no driver is being called, and the worker is gone.     *)
StopBarrier ==
  (\E s \in Stopper : stopper[s] = "returned") =>
    /\ worker \in {"off", "exited"}
    /\ queue = <<>>
    /\ \A r \in Request : WasAccepted(r) => completions[r] = 1
    /\ \A s \in Stopper : stopper[s] # "callback"

(* The dispatcher never calls a driver while the scheduler reads the same  *)
(* device: the gate of a device is held by one of them (execute,           *)
(* poll_group).                                                            *)
DriverExclusive ==
  worker = "driver" => gate[Dev] = "control" /\ polling # Dev

(* No lock of the gateway is held while a completion callback runs, so a   *)
(* callback may submit the next request or wait for a poll (execute        *)
(* unlocks the gate before finish(), request_stop leaves its block).       *)
CallbacksRunUnlocked ==
  /\ worker = "callback" => \A d \in Device : gate[d] # "control"
  /\ \A s \in Stopper : stopper[s] = "callback" => lifecycle # s

(* Where the thread is that will set stop_request_complete_ *)
Canceller == {"closing", "cancelling", "callback"}

(* Nobody waits for nobody: a thread asleep in join() has another one in   *)
(* stop() that still cancels or joins and will notify it, and the worker   *)
(* sleeps only while the queue is empty and open (wait_pop, join).         *)
SleepersAreWoken ==
  /\ worker = "asleep" => queue = <<>> /\ ~closed
  /\ \A s \in Stopper :
       stopper[s] = "asleep" => \E t \in Stopper : stopper[t] \in Canceller \cup {"joining"}

(* However many threads stop the dispatcher, worker_.join() is called by   *)
(* one at a time and not again once it has returned; std::thread leaves    *)
(* anything else undefined (join).                                         *)
OneJoiner ==
  \A s \in Stopper : stopper[s] = "joining" =>
    /\ ~joined
    /\ \A t \in Stopper : stopper[t] = "joining" => t = s

(* A request is reported as Timeout only if its deadline has come, in each *)
(* of the four places that report it; a request without deadline never is. *)
(* (The drivers considered do not return Timeout themselves.)              *)
TimeoutJustified ==
  \A r \in Request :
    completions[r] > 0 /\ outcome[r] = "Timeout" => req[r].deadline <= now

Completed == stats["Succeeded"] + stats["Unsupported"] + stats["InvalidArgument"]
             + stats["Timeout"] + stats["Cancelled"] + stats["Failed"]

(* The summary that is printed after stop() adds up, whatever submit() was *)
(* doing on other threads: every accepted request has one status, and the  *)
(* queue and the dispatcher agree on what was accepted and refused.        *)
SummaryBalanced ==
  (\E s \in Stopper : stopper[s] = "returned") =>
    /\ Completed = stats["accepted"]
    /\ qstats["accepted"] = stats["accepted"]
    /\ qstats["rejected_full"] = stats["queue_full"]
    /\ stats["executed"] + qstats["cancelled"] <= stats["accepted"]

(* An accepted request is completed, if polling has ended or every request *)
(* has a deadline; otherwise a request without deadline may wait forever   *)
(* for a gate the scheduler keeps taking, and block those behind it.       *)
AcceptedCompletes ==
  \A r \in Request :
    (/\ submit[r] = "Accepted"
     /\ ~scheduling \/ \A x \in Request : req[x].deadline # TimeMax)
      ~> completions[r] = 1

(* Once polling has ended, as GatewayRuntime::stop makes sure first, every *)
(* call of stop() returns, however many run concurrently.                  *)
StopReturns ==
  \A s \in Stopper :
    (stopper[s] # "idle" /\ ~scheduling) ~> stopper[s] = "returned"

(* What the service is from outside: its phase, the accepted requests that *)
(* no one serves, wherever they are, and what each request was told.       *)
ServicePhase == IF \E s \in Stopper : stopper[s] = "returned" THEN "stopped"
                ELSE IF stopping THEN "closed"
                ELSE IF started THEN "open" ELSE "new"
ServiceWaiting == IF cancelled = <<>> THEN queue ELSE cancelled
ServiceReport == [r \in Request |->
                    IF completions[r] > 0 THEN outcome[r]
                    ELSE IF submit[r] \in Refused THEN "refused" ELSE "none"]

Service == INSTANCE ControlService WITH
  phase <- ServicePhase, waiting <- ServiceWaiting, serving <- op,
  report <- ServiceReport

(* The promise of ControlService is kept: service in order of acceptance,  *)
(* one report each, cancellation only of unserved requests after the close *)
(* and a stop that leaves nothing behind.                                  *)
ImplementsService == Service!Spec

-----------------------------------------------------------------------------
(* The inductive invariant behind the safety properties *)

In(q, r) == \E i \in 1..Len(q) : q[i] = r
Distinct(q) == \A i, j \in 1..Len(q) : q[i] = q[j] => i = j

Busy == {"execute", "gate", "locked", "driver", "complete", "callback"}

(* Who holds lifecycle_mutex_ across steps *)
LockInv ==
  /\ \A s \in Stopper : stopper[s] = "closing" <=> lifecycle = s
  /\ \A r \in Request : submit[r] \in DOMAIN Returned <=> lifecycle = r
  /\ \A r \in Request : submit[r] \in DOMAIN Returned => ~stopping

(* One thread cancels; join() passes only after it and after the worker *)
StopInv ==
  /\ closed = stopping
  /\ \A s, t \in Stopper :
       stopper[s] \in Canceller /\ stopper[t] \in Canceller => s = t
  /\ \A s \in Stopper :
       /\ stopper[s] # "idle" => stopping
       /\ stopper[s] \in Canceller => ~stopRequestComplete
       /\ stopper[s] = "closing" => cancelled = <<>>
       /\ stopper[s] = "callback" => cancelled # <<>>
       /\ stopper[s] = "joining" => started /\ stopRequestComplete
       /\ stopper[s] = "returned" => ~started \/ joined
  /\ ~stopping \/ stopRequestComplete => cancelled = <<>>
  /\ stopRequestComplete => stopping
  /\ joined => worker = "exited" /\ stopRequestComplete

(* The worker's life, and the operation it works on *)
WorkerInv ==
  /\ worker = "off" <=> ~started
  /\ ~started => queue = <<>> /\ cancelled = <<>>
  /\ worker = "exited" => stopping /\ queue = <<>>
  /\ op # Nobody <=> worker \in Busy

Reporting == \E s \in Stopper : stopper[s] = "callback"

(* Every accepted request is completed or in exactly one place *)
PlaceInv ==
  /\ Distinct(queue) /\ Distinct(cancelled)
  /\ \A r \in Request :
       /\ In(queue, r) => /\ WasAccepted(r) /\ completions[r] = 0
                          /\ ~In(cancelled, r) /\ op # r
       /\ In(cancelled, r) =>
            /\ WasAccepted(r) /\ op # r
            /\ completions[r] = IF /\ r = Head(cancelled)
                                   /\ Reporting
                                THEN 1 ELSE 0
       /\ op = r => /\ WasAccepted(r)
                    /\ completions[r] = IF worker = "callback" THEN 1 ELSE 0
       /\ WasAccepted(r) =>
            completions[r] = 1 \/ In(queue, r) \/ In(cancelled, r) \/ op = r
       /\ completions[r] # 0 => completions[r] = 1 /\ WasAccepted(r)

(* Who holds which gate *)
GateInv ==
  /\ worker \in {"gate", "locked", "driver"} => Dev \in Device
  /\ \A d \in Device :
       /\ gate[d] = "control" <=> worker \in {"locked", "driver"} /\ d = Dev
       /\ gate[d] = "poll" <=> polling = d

Pushed(state) == IF \E r \in Request : submit[r] = state THEN 1 ELSE 0
Unreported == IF worker \in Busy \ {"callback"} THEN 1 ELSE 0
HalfCancelled == IF Reporting THEN 1 ELSE 0
Unexecuted == IF worker \in {"execute", "gate", "locked"} THEN 1 ELSE 0

(* How far the counters of queue and dispatcher may be apart at any time *)
CountInv ==
  /\ qstats["accepted"] = stats["accepted"] + Pushed("pushAccepted")
  /\ qstats["rejected_full"] = stats["queue_full"] + Pushed("pushQueueFull")
  /\ Completed + Len(queue) + Len(cancelled) + Unreported
       = qstats["accepted"] + HalfCancelled
  /\ stats["executed"] + Unexecuted + Len(queue) + qstats["cancelled"]
       <= qstats["accepted"]

(* The inductive invariant: all of the above.  Submission, execution and   *)
(* shutdown keep every accepted request in one place until it is reported. *)
ControlInv ==
  TypeOK /\ LockInv /\ StopInv /\ WorkerInv /\ PlaceInv /\ GateInv /\ CountInv

(* What TimeoutJustified rests on besides: a Timeout result in the hands   *)
(* of the worker is already justified                                      *)
TimeoutInv ==
  /\ TimeoutJustified
  /\ worker = "complete" /\ result = "Timeout" => req[op].deadline <= now
=============================================================================
