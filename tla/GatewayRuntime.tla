---------------------------- MODULE GatewayRuntime ----------------------------
(***************************************************************************)
(* GatewayRuntime of src/src/core/runtime.cpp: start() with its rollback,  *)
(* stop() from any number of threads, and the threads they create, each    *)
(* reduced to the plugin code it calls:                                    *)
(*   - the scheduler thread calls poll() of poll drivers (poll_group);     *)
(*   - push drivers call the sample sink from threads of their own;        *)
(*   - the processing worker pops raw batches, runs the processors and     *)
(*     calls publish() of every publisher (process_batches);               *)
(*   - the control dispatcher, here as the service it implements           *)
(*     (ControlService), calls control() of drivers and the completion     *)
(*     callbacks of control sources.                                       *)
(* Plugins are named by their position in the runtime's vectors.           *)
(***************************************************************************)
EXTENDS Naturals, Sequences

CONSTANTS
  NP, ND, NS,        \* number of publishers, drivers and control sources
  Push,              \* the drivers of AcquisitionMode::Push
  Stopper,           \* threads that call stop()
  Starter,           \* the thread that calls start()
  Nobody,            \* no thread, no request
  Request,           \* control requests
  Origin,            \* the source of each request; 0 is the processing pipeline
  ControlCapacity,   \* control_queue_capacity
  RawCapacity,       \* raw_queue_capacity
  MaxBatches         \* bound on the batches the drivers produce

(* publishers, drivers, control sources; their number *)
Kind == {"pub", "drv", "src"}
Number == [pub |-> NP, drv |-> ND, src |-> NS]

ASSUME RuntimeAssumption ==
  /\ NP \in Nat /\ ND \in Nat /\ NS \in Nat
  /\ Push \subseteq 1..ND
  /\ Starter \notin Stopper /\ Nobody \notin Stopper \cup {Starter} \cup Request
  /\ Origin \in [Request -> 0..NS]
  /\ ControlCapacity \in Nat \ {0} /\ RawCapacity \in Nat \ {0}
  /\ MaxBatches \in Nat

VARIABLES
  started, stopping, stopped, lifecycle, accepting,  \* GatewayRuntime
  starting,              \* where start() is
  down, by, unwinding,   \* phase of the shutdown, who runs it, is it a rollback
  index,                 \* loop index of start() or of the shutdown
  slots,                 \* started_publishers, started_drivers, started_sources
  stopper,               \* the stopping threads
  plugin,                \* the state of each plugin
  sched, schedStop, polled,  \* the scheduler thread, the driver it polls
  raw, rawClosed, batches,   \* the raw queue's size; batches produced so far
  rawStats,              \* its counters; stopping and handled are history
  proc, publisher,       \* the processing worker; the publisher it calls
  submit,                \* where submit_control() is, for each request
  phase, waiting, serving, report, driver  \* the dispatcher; the driver it calls

runVars   == <<started, stopping, stopped, lifecycle, accepting>>
shutVars  == <<down, by, unwinding>>
loopVars  == <<index, slots, plugin>>
schedVars == <<sched, schedStop, polled>>
rawVars   == <<raw, rawClosed, batches, rawStats>>
procVars  == <<proc, publisher>>
ctlVars   == <<submit, phase, waiting, serving, report, driver>>

vars == <<runVars, starting, shutVars, loopVars, stopper, schedVars, rawVars,
          procVars, ctlVars>>

Status == {"Completed", "Cancelled"}

Dispatcher == INSTANCE ControlService WITH Capacity <- ControlCapacity

Init ==
  /\ started = FALSE /\ stopping = FALSE /\ stopped = FALSE
  /\ lifecycle = Nobody
  /\ accepting = FALSE
  /\ starting = "idle"
  /\ down = 0 /\ by = Nobody /\ unwinding = FALSE
  /\ index = 1
  /\ slots = [k \in Kind |-> 0]
  /\ stopper = [s \in Stopper |-> "idle"]
  /\ plugin = [k \in Kind |-> [i \in 1..Number[k] |-> "new"]]
  /\ sched = "none" /\ schedStop = FALSE /\ polled = 0
  /\ raw = 0 /\ rawClosed = FALSE /\ batches = 0
  /\ rawStats = [accepted |-> 0, full |-> 0, stopping |-> 0, handled |-> 0]
  /\ proc = "none" /\ publisher = 0
  /\ submit = [r \in Request |-> "idle"]
  /\ driver = 0
  /\ Dispatcher!Init

-----------------------------------------------------------------------------
(* start().  It holds lifecycle_mutex_ until it returns or unwinds.        *)

StartCall ==
  /\ starting = "idle"
  /\ lifecycle = Nobody
  /\ ~started
  /\ started' = TRUE
  /\ lifecycle' = Starter
  /\ starting' = "pub"
  /\ UNCHANGED <<stopping, stopped, accepting, shutVars, loopVars, stopper,
                 schedVars, rawVars, procVars, ctlVars>>

NextStart == [pub |-> "drv", drv |-> "dispatcher", dispatcher |-> "worker",
              worker |-> "accept", accept |-> "src", src |-> "scheduler",
              scheduler |-> "returned"]

(* The catch block up to lock.unlock(); n is started_sources *)
Unwind(n) ==
  /\ starting' = "unwinding"
  /\ accepting' = FALSE
  /\ stopping' = TRUE
  /\ lifecycle' = Nobody
  /\ down' = 1
  /\ by' = Starter
  /\ unwinding' = TRUE
  /\ index' = n
  /\ UNCHANGED <<started, stopped>>

(* Mutant: a slot is counted once its start() has returned *)
CountSlotLate(k) == slots' = [slots EXCEPT ![k] = index - 1]

(* The slot is counted before plugin code is called *)
CountSlot(k) == slots' = [slots EXCEPT ![k] = @ + 1]

(* One iteration of a loop over plugins calls start().  From here on the   *)
(* plugin may push batches and submit controls.                            *)
StartPlugin(k) ==
  /\ starting = k
  /\ index <= Number[k]
  /\ CountSlot(k)
  /\ plugin' = [plugin EXCEPT ![k][index] = "started"]
  /\ index' = index + 1
  /\ UNCHANGED <<runVars, starting, shutVars, stopper, schedVars, rawVars, procVars,
                 ctlVars>>

(* The start() called last throws, at once or after the plugin was active. *)
(* What it acquired until then stays active until stop() is called.        *)
StartThrows(k) ==
  /\ starting = k
  /\ index > 1
  /\ plugin' = [plugin EXCEPT ![k][index - 1] = "failed"]
  /\ Unwind(slots["src"])
  /\ UNCHANGED <<slots, stopper, schedVars, rawVars, procVars, ctlVars>>

(* All of them returned *)
PluginsStarted(k) ==
  /\ starting = k
  /\ index > Number[k]
  /\ starting' = NextStart[k]
  /\ index' = 1
  /\ UNCHANGED <<runVars, shutVars, slots, plugin, stopper, schedVars, rawVars,
                 procVars, ctlVars>>

StartDispatcher ==
  /\ starting = "dispatcher"
  /\ \/ /\ Dispatcher!Open
        /\ starting' = NextStart[starting]
        /\ UNCHANGED <<runVars, shutVars, index>>
     \/ /\ Unwind(slots["src"])
        /\ UNCHANGED <<phase, waiting, serving, report>>
  /\ UNCHANGED <<slots, plugin, stopper, schedVars, rawVars, procVars, submit,
                 driver>>

StartWorker ==
  /\ starting = "worker"
  /\ \/ /\ proc' = "wait"
        /\ starting' = NextStart[starting]
        /\ UNCHANGED <<runVars, shutVars, index>>
     \/ Unwind(slots["src"]) /\ UNCHANGED proc
  /\ UNCHANGED <<slots, plugin, stopper, schedVars, rawVars, publisher, ctlVars>>

(* From here on the worker's processors may submit requests *)
AcceptControls ==
  /\ starting = "accept"
  /\ accepting' = TRUE
  /\ starting' = NextStart[starting]
  /\ UNCHANGED <<started, stopping, stopped, lifecycle, shutVars, loopVars,
                 stopper, schedVars, rawVars, procVars, ctlVars>>

(* The scheduler is built and started; start() returns *)
StartScheduler ==
  /\ starting = "scheduler"
  /\ \/ /\ sched' = "running"
        /\ starting' = NextStart[starting]
        /\ lifecycle' = Nobody
        /\ UNCHANGED <<started, stopping, stopped, accepting, shutVars, index>>
     \/ Unwind(slots["src"]) /\ UNCHANGED sched
  /\ UNCHANGED <<slots, plugin, stopper, schedStop, polled, rawVars, procVars,
                 ctlVars>>

-----------------------------------------------------------------------------
(* stop() *)

(* This call of stop() has to run the shutdown *)
FirstStop == started /\ ~stopped /\ ~stopping

StopCall(s) ==
  /\ stopper[s] = "idle"
  /\ lifecycle = Nobody
  /\ LET runs == FirstStop
     IN /\ stopper' = [stopper EXCEPT ![s] =
                         IF runs THEN "running"
                         ELSE IF ~started THEN "ignored"
                         ELSE IF stopped THEN "returned" ELSE "waiting"]
        /\ stopping' = (stopping \/ runs)
        /\ accepting' = (accepting /\ ~runs)
        /\ IF runs THEN /\ down' = 1
                        /\ by' = s
                        /\ index' = slots["src"]
                   ELSE UNCHANGED <<down, by, index>>
  /\ UNCHANGED <<started, stopped, lifecycle, starting, unwinding, slots,
                 plugin, schedVars, rawVars, procVars, ctlVars>>

-----------------------------------------------------------------------------
(* The shutdown, which stop() and the rollback of start() share.  stop()   *)
(* loops over all plugins and the rollback over the counted slots; when    *)
(* stop() runs, all slots are counted.                                     *)

(* Mutant: publishers are stopped before the processing worker is joined *)
PublishersFirst ==
  <<"requestSources", "requestScheduler", "joinScheduler", "closeDispatcher",
    "cancel", "joinDispatcher", "stopSources", "stopPush", "stopPoll",
    "unwindDrivers", "closeRaw", "stopPublishers", "joinWorker", "finish">>

(* Mutant: the poll drivers are stopped before the scheduler is joined *)
DriversFirst ==
  <<"requestSources", "requestScheduler", "stopPush", "stopPoll",
    "unwindDrivers", "joinScheduler", "closeDispatcher", "cancel",
    "joinDispatcher", "stopSources", "closeRaw", "joinWorker",
    "stopPublishers", "finish">>

(* Mutant: the raw queue is closed before the drivers are stopped *)
CloseFirst ==
  <<"requestSources", "requestScheduler", "joinScheduler", "closeDispatcher",
    "cancel", "joinDispatcher", "stopSources", "closeRaw", "stopPush",
    "stopPoll", "unwindDrivers", "joinWorker", "stopPublishers", "finish">>

(* Mutant: the sources are stopped before the dispatcher *)
SourcesFirst ==
  <<"requestSources", "requestScheduler", "joinScheduler", "stopSources",
    "closeDispatcher", "cancel", "joinDispatcher", "stopPush", "stopPoll",
    "unwindDrivers", "closeRaw", "joinWorker", "stopPublishers", "finish">>

(* The phases of the shutdown, in order *)
Order ==
  <<"requestSources", "requestScheduler", "joinScheduler", "closeDispatcher",
    "cancel", "joinDispatcher", "stopSources", "stopPush", "stopPoll",
    "unwindDrivers", "closeRaw", "joinWorker", "stopPublishers", "finish">>

Down(p) == down > 0 /\ Order[down] = p

(* Mutant: the rollback goes over all plugins, not over the counted slots *)
IterationsAll(p) ==
  CASE p \in {"requestSources", "stopSources"} -> NS
    [] p \in {"stopPush", "stopPoll"} -> IF unwinding THEN 0 ELSE ND
    [] p = "unwindDrivers" -> IF unwinding THEN ND ELSE 0
    [] p = "stopPublishers" -> NP
    [] OTHER -> 0

(* Iterations of the loop of a phase.  stop() stops the push drivers and   *)
(* then the poll drivers, each in their order; the rollback stops drivers  *)
(* in reverse order.                                                       *)
Iterations(p) ==
  CASE p \in {"requestSources", "stopSources"} -> slots["src"]
    [] p \in {"stopPush", "stopPoll"} -> IF unwinding THEN 0 ELSE slots["drv"]
    [] p = "unwindDrivers" -> IF unwinding THEN slots["drv"] ELSE 0
    [] p = "stopPublishers" -> slots["pub"]
    [] OTHER -> 0

NextPhase ==
  /\ down' = down + 1
  /\ index' = Iterations(Order[down + 1])

LoopDone ==
  /\ \E p \in {"requestSources", "stopSources", "stopPush", "stopPoll",
               "unwindDrivers", "stopPublishers"} : Down(p)
  /\ index = 0
  /\ NextPhase
  /\ UNCHANGED <<runVars, starting, by, unwinding, slots, plugin, stopper,
                 schedVars, rawVars, procVars, ctlVars>>

SetPlugin(k, i, state) ==
  /\ plugin' = [plugin EXCEPT ![k][i] = state]
  /\ index' = index - 1
  /\ UNCHANGED <<runVars, starting, shutVars, slots, stopper, schedVars,
                 rawVars, procVars, ctlVars>>

RequestStopSource ==
  Down("requestSources") /\ index > 0 /\ SetPlugin("src", index, "stopping")

(* External: a source's stop() ends its own threads, so it returns only    *)
(* when they have returned from submit_control().                          *)
StopSource ==
  /\ Down("stopSources")
  /\ index > 0
  /\ \A r \in Request : Origin[r] = index => submit[r] # "passed"
  /\ SetPlugin("src", index, "stopped")

StopDriver ==
  /\ index > 0
  /\ LET d == IF unwinding THEN index ELSE ND + 1 - index
     IN \/ /\ \/ Down("stopPush") /\ d \in Push
              \/ Down("stopPoll") /\ d \notin Push
              \/ Down("unwindDrivers")
           /\ SetPlugin("drv", d, "stopped")
        \/ /\ \/ Down("stopPush") /\ d \notin Push
              \/ Down("stopPoll") /\ d \in Push
           /\ SetPlugin("drv", d, plugin["drv"][d])

StopPublisher ==
  Down("stopPublishers") /\ index > 0 /\ SetPlugin("pub", index, "stopped")

(* SchedulerEngine::request_stop and join.  A scheduler that was not       *)
(* started has no thread to join.                                          *)
RequestStopScheduler ==
  /\ Down("requestScheduler")
  /\ schedStop' = TRUE
  /\ NextPhase
  /\ UNCHANGED <<runVars, starting, by, unwinding, slots, plugin, stopper,
                 sched, polled, rawVars, procVars, ctlVars>>

(* Mutant: the thread is joined even if it was never created *)
SchedulerExited == sched = "exited"

SchedulerGone == sched \in {"none", "exited"}

JoinScheduler ==
  /\ Down("joinScheduler")
  /\ SchedulerGone
  /\ NextPhase
  /\ UNCHANGED <<runVars, starting, by, unwinding, slots, plugin, stopper,
                 schedVars, rawVars, procVars, ctlVars>>

(* DeviceControlDispatcher::request_stop and join; the rollback skips them *)
(* if the dispatcher was not started                                       *)
CloseDispatcher ==
  /\ Down("closeDispatcher")
  /\ IF phase = "new" THEN UNCHANGED <<phase, waiting, serving, report>>
     ELSE Dispatcher!Close
  /\ NextPhase
  /\ UNCHANGED <<runVars, starting, by, unwinding, slots, plugin, stopper,
                 schedVars, rawVars, procVars, submit, driver>>

CancelPending ==
  /\ Down("cancel")
  /\ Dispatcher!Cancel \/ Dispatcher!LetGoCancelled
  /\ UNCHANGED <<runVars, starting, shutVars, loopVars, stopper, schedVars,
                 rawVars, procVars, submit, driver>>

(* All are cancelled, or the rest is left to the worker *)
CancelDone ==
  /\ Down("cancel")
  /\ waiting # <<>> => report[Head(waiting)] = "none"
  /\ NextPhase
  /\ UNCHANGED <<runVars, starting, by, unwinding, slots, plugin, stopper,
                 schedVars, rawVars, procVars, ctlVars>>

JoinDispatcher ==
  /\ Down("joinDispatcher")
  /\ IF phase = "new" THEN UNCHANGED <<phase, waiting, serving, report>>
     ELSE Dispatcher!Stop
  /\ NextPhase
  /\ UNCHANGED <<runVars, starting, by, unwinding, slots, plugin, stopper,
                 schedVars, rawVars, procVars, submit, driver>>

CloseRawQueue ==
  /\ Down("closeRaw")
  /\ rawClosed' = TRUE
  /\ NextPhase
  /\ UNCHANGED <<runVars, starting, by, unwinding, slots, plugin, stopper,
                 schedVars, raw, batches, rawStats, procVars, ctlVars>>

JoinWorker ==
  /\ Down("joinWorker")
  /\ proc \in {"none", "exited"}
  /\ NextPhase
  /\ UNCHANGED <<runVars, starting, by, unwinding, slots, plugin, stopper,
                 schedVars, rawVars, procVars, ctlVars>>

(* Mutant: threads that wait in stop() are not notified *)
WakeNobody == stopper' = [s \in Stopper |-> IF s = by THEN "returned" ELSE stopper[s]]

WakeWaiting ==
  stopper' = [s \in Stopper |-> IF s = by \/ stopper[s] = "waiting"
                                THEN "returned" ELSE stopper[s]]

Finish ==
  /\ Down("finish")
  /\ lifecycle = Nobody
  /\ stopping' = FALSE
  /\ stopped' = TRUE
  /\ WakeWaiting
  /\ starting' = IF unwinding THEN "threw" ELSE starting
  /\ down' = 0
  /\ by' = Nobody
  /\ UNCHANGED <<started, lifecycle, accepting, unwinding, loopVars, schedVars,
                 rawVars, procVars, ctlVars>>

-----------------------------------------------------------------------------
(* The raw queue and its producers *)

RawFull == raw >= RawCapacity

(* BoundedQueue::try_push *)
TryPush ==
  IF rawClosed
  THEN rawStats' = [rawStats EXCEPT !.stopping = @ + 1] /\ UNCHANGED raw
  ELSE IF RawFull
  THEN rawStats' = [rawStats EXCEPT !.full = @ + 1] /\ UNCHANGED raw
  ELSE rawStats' = [rawStats EXCEPT !.accepted = @ + 1] /\ raw' = raw + 1

(* External: a push driver calls its sink at any time from start() to the  *)
(* end of stop(), even if start() threw                                    *)
PushBatch(d) ==
  /\ plugin["drv"][d] \in {"started", "failed"}
  /\ batches < MaxBatches
  /\ batches' = batches + 1
  /\ TryPush
  /\ UNCHANGED <<runVars, starting, shutVars, loopVars, stopper, schedVars,
                 rawClosed, procVars, ctlVars>>

(* poll_group(): the driver is called *)
PollBegin(d) ==
  /\ sched = "running" /\ polled = 0 /\ ~schedStop
  /\ batches < MaxBatches
  /\ batches' = batches + 1
  /\ polled' = d
  /\ UNCHANGED <<runVars, starting, shutVars, loopVars, stopper, sched,
                 schedStop, raw, rawClosed, rawStats, procVars, ctlVars>>

(* It returns a batch or throws *)
PollEnd ==
  /\ polled # 0
  /\ polled' = 0
  /\ TryPush \/ UNCHANGED <<raw, rawStats>>
  /\ UNCHANGED <<runVars, starting, shutVars, loopVars, stopper, sched,
                 schedStop, rawClosed, batches, procVars, ctlVars>>

SchedulerExit ==
  /\ sched = "running" /\ polled = 0 /\ schedStop
  /\ sched' = "exited"
  /\ UNCHANGED <<runVars, starting, shutVars, loopVars, stopper, schedStop,
                 polled, rawVars, procVars, ctlVars>>

-----------------------------------------------------------------------------
(* The processing worker: process_batches() and publish_event() *)

(* Mutant: a closed queue ends the worker at once *)
PopUnlessClosed ==
  IF ~rawClosed /\ raw > 0 THEN proc' = "process" /\ raw' = raw - 1
  ELSE rawClosed /\ proc' = "exited" /\ UNCHANGED raw

(* BoundedQueue::wait_pop *)
WaitPop ==
  IF raw > 0 THEN proc' = "process" /\ raw' = raw - 1
  ELSE rawClosed /\ proc' = "exited" /\ UNCHANGED raw

PopBatch ==
  /\ proc = "wait"
  /\ WaitPop
  /\ UNCHANGED <<runVars, starting, shutVars, loopVars, stopper, schedVars,
                 rawClosed, batches, rawStats, publisher, ctlVars>>

(* The batch is malformed, or the processors have run and the publishers   *)
(* are called one after the other                                          *)
Process ==
  /\ proc = "process"
  /\ \A r \in Request : Origin[r] = 0 => submit[r] # "passed"
  /\ \/ NP > 0 /\ proc' = "publish" /\ publisher' = 1 /\ UNCHANGED rawStats
     \/ /\ proc' = "wait"
        /\ rawStats' = [rawStats EXCEPT !.handled = @ + 1]
        /\ UNCHANGED publisher
  /\ UNCHANGED <<runVars, starting, shutVars, loopVars, stopper, schedVars,
                 raw, rawClosed, batches, ctlVars>>

Publish ==
  /\ proc = "publish"
  /\ IF publisher < NP
     THEN publisher' = publisher + 1 /\ UNCHANGED <<proc, rawStats>>
     ELSE /\ publisher' = 0
          /\ proc' = "wait"
          /\ rawStats' = [rawStats EXCEPT !.handled = @ + 1]
  /\ UNCHANGED <<runVars, starting, shutVars, loopVars, stopper, schedVars,
                 raw, rawClosed, batches, ctlVars>>

-----------------------------------------------------------------------------
(* Control requests *)

(* May r be submitted now: by a source that has been started and not yet   *)
(* stopped, or by a processor                                              *)
MaySubmit(r) ==
  IF Origin[r] = 0 THEN proc = "process"
  ELSE plugin["src"][Origin[r]] \in {"started", "failed", "stopping"}

(* submit_control() reads accepting_controls_ ... *)
SubmitControl(r) ==
  /\ submit[r] = "idle"
  /\ MaySubmit(r)
  /\ submit' = [submit EXCEPT ![r] = IF accepting THEN "passed" ELSE "returned"]
  /\ UNCHANGED <<runVars, starting, shutVars, loopVars, stopper, schedVars,
                 rawVars, procVars, phase, waiting, serving, report, driver>>

(* ... and then calls the dispatcher's submit() *)
SubmitToDispatcher(r) ==
  /\ submit[r] = "passed"
  /\ submit' = [submit EXCEPT ![r] = "returned"]
  /\ Dispatcher!Accept(r) \/ Dispatcher!Refuse(r)
  /\ UNCHANGED <<runVars, starting, shutVars, loopVars, stopper, schedVars,
                 rawVars, procVars, driver>>

(* The dispatcher's worker: it calls some driver (0: none was reached),    *)
(* then the callback                                                       *)
ServeControl(d) ==
  /\ Dispatcher!Serve
  /\ driver' = d
  /\ UNCHANGED <<runVars, starting, shutVars, loopVars, stopper, schedVars,
                 rawVars, procVars, submit>>

FinishControl ==
  /\ Dispatcher!Report("Completed") \/ Dispatcher!LetGo
  /\ driver' = 0
  /\ UNCHANGED <<runVars, starting, shutVars, loopVars, stopper, schedVars,
                 rawVars, procVars, submit>>

-----------------------------------------------------------------------------
Terminated ==
  /\ starting \in {"returned", "threw"}
  /\ \A s \in Stopper : stopper[s] \in {"returned", "ignored"}
  /\ UNCHANGED vars

StartStep == \/ \E k \in Kind : StartPlugin(k) \/ StartThrows(k) \/ PluginsStarted(k)
             \/ StartDispatcher \/ StartWorker \/ AcceptControls \/ StartScheduler
DownStep == \/ LoopDone \/ RequestStopSource \/ StopSource \/ StopDriver
            \/ StopPublisher \/ RequestStopScheduler \/ JoinScheduler
            \/ CloseDispatcher \/ CancelPending \/ CancelDone \/ JoinDispatcher
            \/ CloseRawQueue \/ JoinWorker \/ Finish
SchedulerStep == PollEnd \/ SchedulerExit
WorkerStep == PopBatch \/ Process \/ Publish
ServiceStep == FinishControl \/ \E d \in 0..ND : ServeControl(d)

Next ==
  \/ StartCall \/ StartStep
  \/ \E s \in Stopper : StopCall(s)
  \/ DownStep
  \/ \E d \in Push : PushBatch(d)
  \/ \E d \in 1..ND \ Push : PollBegin(d)
  \/ SchedulerStep \/ WorkerStep \/ ServiceStep
  \/ \E r \in Request : SubmitControl(r) \/ SubmitToDispatcher(r)
  \/ Terminated

Spec == Init /\ [][Next]_vars

(* Every thread of the gateway runs and plugin calls return.  Nothing      *)
(* forces anybody to start, to stop, to produce a batch or a request.      *)
FairSpec ==
  /\ Spec
  /\ WF_vars(StartStep) /\ WF_vars(DownStep)
  /\ WF_vars(SchedulerStep) /\ WF_vars(WorkerStep) /\ WF_vars(ServiceStep)
  /\ \A r \in Request : WF_vars(SubmitToDispatcher(r))

-----------------------------------------------------------------------------
(* Properties *)

(* A driver is polled or controlled only between its start() and stop().   *)
(* The shutdown joins the scheduler and the dispatcher before it stops any *)
(* driver, and the rollback does as well.                                  *)
DriverCallsLive ==
  \A d \in {polled, driver} \ {0} : plugin["drv"][d] = "started"

(* publish() is called only between start() and stop() of the publisher:   *)
(* publishers start first, and stop after the processing worker is joined. *)
PublisherCallsLive ==
  proc = "publish" => plugin["pub"][publisher] = "started"

(* "They remain alive so accepted requests can still complete": when a     *)
(* source is stopped none of its requests is left in the dispatcher, so no *)
(* callback reaches it and it need not wait for one.                       *)
SourceCallbacksLive ==
  \A r \in Request :
    (r = serving \/ \E i \in 1..Len(waiting) : waiting[i] = r) =>
      Origin[r] = 0 \/ plugin["src"][Origin[r]] # "stopped"

(* No producer is refused because of the shutdown: the raw queue is closed *)
(* only after the scheduler is joined and the drivers are stopped.         *)
NoBatchRefusedByStop == rawStats.stopping = 0

(* What the raw queue accepted is processed before stop() returns, if the  *)
(* worker existed at all (a start() that fails earlier loses the batches   *)
(* its push drivers delivered).                                            *)
Drained ==
  stopped /\ proc # "none" => raw = 0 /\ rawStats.handled = rawStats.accepted

(* When stop() has returned to any caller, or start() has thrown, every    *)
(* plugin whose start() was called is stopped, and the threads are gone.   *)
StopIsComplete ==
  (starting = "threw" \/ \E s \in Stopper : stopper[s] = "returned") =>
    /\ stopped
    /\ \A k \in Kind : \A i \in 1..Number[k] : plugin[k][i] \in {"new", "stopped"}
    /\ sched \in {"none", "exited"} /\ proc \in {"none", "exited"}
    /\ phase \in {"new", "stopped"}

(* Plugins go through their lifecycle forwards only: stop() is called once *)
(* and only after start() was, and nothing is started once stopped.        *)
PluginLifecycle ==
  [][\A k \in Kind : \A i \in 1..Number[k] :
       plugin'[k][i] # plugin[k][i] =>
         \/ plugin[k][i] = "new" /\ plugin'[k][i] = "started"
         \/ plugin[k][i] = "started" /\ plugin'[k][i] = "failed"
         \/ plugin[k][i] \in {"started", "failed", "stopping"}
              /\ plugin'[k][i] \in {"stopping", "stopped"}]_vars

(* The threads that run the shutdown, or the rollback of start() *)
ShuttingDown == {s \in Stopper : stopper[s] = "running"}
                  \cup {t \in {Starter} : starting = "unwinding"}

(* The plugins are shut down by one thread, whichever of the stop() calls  *)
(* and a start() that fails come together, and a stop() that waits has     *)
(* such a thread to wait for (stopping_, lifecycle_cv_ in stop and start). *)
OneShutdown ==
  /\ \A t, u \in ShuttingDown : t = u
  /\ (\E s \in Stopper : stopper[s] = "waiting") => ShuttingDown # {}

(* Every stop() returns, whether it runs the shutdown, waits for another   *)
(* stop() or for the rollback of start(); and start() returns or, after    *)
(* its rollback, throws.                                                   *)
LifecycleReturns ==
  /\ \A s \in Stopper : (stopper[s] \in {"running", "waiting"}) ~> (stopper[s] = "returned")
  /\ (starting = "pub") ~> (starting \in {"returned", "threw"})
=============================================================================
