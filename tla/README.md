# A TLA+ model of miniGateway

This directory holds a formal model of the gateway: TLA+ modules, TLC
configurations that check them on small instances, and TLAPS proofs. Paths such
as `src/src/core/control.cpp` are relative to the directory that contains the
repository as `src/`. `PROJECT.json` lists for every definition the lines it
models.

## The system

The gateway reads devices through driver plugins, normalizes and processes what
they deliver, hands the resulting events to publisher plugins, and executes
control requests of source plugins on the devices.

| Part | State | Operations | Talks to |
|---|---|---|---|
| `GatewayRuntime` (runtime.cpp) | lifecycle flags under `lifecycle_mutex_`, `accepting_controls_`, the plugin vectors | `start` with rollback, `stop`, `submit_control`, `poll_group`, `process_batches`, `publish_event` | owns all other parts and creates their threads |
| `DeviceControlDispatcher`, `ControlQueue` (control.cpp) | bounded queue, lifecycle flags, counters, a worker thread | `submit`, `start`, `request_stop`, `join`, `stop`, `execute`, `complete` | drivers' `control()`, completion callbacks, the I/O gate of each device |
| `SchedulerEngine`, `FixedIntervalSequentialPolicy` (scheduler.cpp) | `next_due` and `skipped_cycles` of each task, counters, a thread | `start`, `request_stop`, `join`, `select_due`, `next_wakeup`, `on_complete` | `poll_group` |
| `BoundedQueue` (bounded_queue.hpp) | raw batches, `closed_`, counters | `try_push`, `wait_pop`, `close` | producers: push drivers and `poll_group`; consumer: the processing worker |
| `Normalizer` (normalizer.cpp, model.cpp) | configured points, event number, counters | `normalize`, `convert_value` | processing worker |
| `ProcessingPipeline`, processors | counters; one window for each device | `process` | processing worker, may submit control requests |
| `MqttEventPublisher` | Paho handle, connection flag, counters | `configure`, `start`, `publish`, `stop`, Paho callbacks | the Paho library and its threads |
| `load_config`, `parse_config` (config.cpp), plugin_json.hpp | none: a document becomes an `ApplicationConfig` or an exception | parsing and validation, in the core and in each plugin | its result goes to the registry and to the runtime, which check it again |
| `PluginRegistry` (plugin_registry.cpp) | factories, opened libraries, claims; a `shared_ptr` to each library in the factories and in the adapters | `register_*`, `load_dynamic_plugins`, `create` | `dlopen`, `create_plugin`, `destroy_plugin` |
| `main` | the signal flag, the scopes that own everything else | load, create, construct, start, wait, stop, unwind | all of the above |

What is hard to test here: `submit`, the worker and several concurrent `stop`
calls interleave; the scheduler and the dispatcher share a timed mutex for each
device; deadlines are compared in four places; `start` may fail after any step
and its rollback may race with `stop`; the order of the shutdown decides whether
plugin code is called outside its lifetime; libraries must stay mapped until the
last plugin object is destroyed, on every error path; Paho calls back at any
time; polls that take longer than their interval; values at the edge of the
integer range; five places that check one configuration.
`PROJECT.json` lists each of these hazards with its line and the properties that
cover it.

## Modules

`ControlService` is the abstract specification of the control path: requests are
refused or accepted, served in order, reported once, cancelled only after the
service has closed, and nothing is left when it has stopped.

`ControlDispatcher` is the detailed one. A step is a critical section or a call
into plugin code. `submit[r]`, `worker` and `stopper[s]` say where the threads
are. `lifecycle` is the holder of `lifecycle_mutex_` where it is held across
steps: by `submit()` between `try_push()` and the count of its result
(`SubmitPush`, `SubmitReturn`), and by `request_stop()` between `close()` and
the end of `cancel_pending()` (`RequestStop`, `CancelPending`). `stats_mutex_`
and the queue's mutex never span steps. A thread that waits on a condition
variable is `"asleep"` and moves only when the code notifies it, or spuriously.
`gate[d]` is the I/O gate; of `poll_group` only its use of the gate is here. The
driver lookup may fail at execution time for devices in `Removable`. The vector
of `cancel_pending()` may fail to allocate.

`Scheduler` models policy and engine with an explicit clock. Polls take any time.
`runs` and `overtaken` are history variables, and `finished_at`, a local variable of
the code, is kept for each task. The loop of `on_complete` is its
closed form `SkippedCycles`.

`GatewayRuntime` composes the runtime with `ControlService` as its dispatcher
(`INSTANCE`), so that the order of the shutdown is checked against what the
dispatcher promises. `start()` goes through its loops plugin by plugin. A plugin is
active from the call of its `start()` (`StartPlugin`), which may throw at any time until
the next one is called (`StartThrows`): by then it may have delivered batches, or
submitted requests that were accepted. Then the rollback runs. `stop()` and the rollback run the same
phases (`Order`), over all plugins or over the counted slots. Every other thread
is reduced to the plugin calls it makes: `polled`, `driver`, `publisher` and
`serving` name the plugin that is being called. What drivers and sources do on
their own threads is external, and limited only by their lifetime.

`Normalizer` holds the conversions as operators. Integers go up to `MaxInt`.
Doubles are multiples of one half, exact when small and even when large, so that,
as in the code, the largest integer is not a double. `DataPath` is the state
machine around it: raw queue, normalizer, processors, publishers. Built-in
processors are records of the constant `Processors`; one of kind `"other"` stands
for a plugin that may throw. `WindowExact` recomputes each average from the events
that were published: it speaks of a processor whose output no other one writes and
whose input is not written by itself or a later one (`OwnNames`), because otherwise
the published event does not show what the processor read.

`MqttPublisher` models the publisher's lifecycle and counters. The calls hold
`mutex_`, so `pc` tells where the one running call is; callbacks come in between.
Paho and the broker (`link`, `inflight`, `disconnecting`) are external: they may
refuse any call, lose and restore the connection, and answer late or never, but
they do not call back after `MQTTAsync_destroy`.

`PluginRegistry` models the registry's maps and `refs[p]`, the number of
`shared_ptr`s to the loader of path `p`: a library is open while it is positive,
and mapped while any path to its file is open (`File`, external). The four
categories share the definitions, because their code differs only in the
`enabled` flag, which drivers do not have. Reuse of a library by
`find_or_open` does not appear: a path in `dynamic_plugins_` is that of a type
that is loaded, and that type has returned earlier. `Application` extends it to
`main()`: `pc` is where `main()` is, `inst[i]` the state of the i-th plugin's
adapter, `library[i]` the handle it holds, `objects` the plugin objects that
exist. `error` is the exception in flight; one that is no `std::exception` ends
the program at once, the others unwind the scopes in the order of the members.
A destructor takes two steps, so that `destroy_plugin` is seen to run while the
library is still held. What runs between `start()` and `stop()` is in
`GatewayRuntime`.

`Configuration` takes a JSON document to a running gateway: parser, factories,
the runtime's constructor, the scheduler's policy. JSON values are records whose
field names their type, integers have small widths and casts wrap around. A
failed check is only that: the parser is a predicate (`ParseAccepted`) and a
function (`ParseApplicationConfig`). `PluginSettings` has the same for the
settings of the repository's own plugins, and the numbers that reach Paho. The
running gateway adds milliseconds to a reading of the clock: in `start()` (`Start`), for
each poll (`PollGroup`) and in `main()` (`WaitForShutdown`). `After` is this sum in the
64-bit units of the clock, `PerMillisecond` for one millisecond; when the conversion or
the sum overflows, which is undefined, the result is any number of the type. Points of
time are kept as their distance from the reading.

The modules whose names end in `Proofs`, and `ControlRefinement`, hold the theorems
and the inductive invariants. The modules whose names begin with MC define the instances. Definitions whose comment begins with "Mutant" are faulty
variants of the definition that follows; each property of a run is violated when
one of them takes its place.

## Runs

| Run | Instance | Shows |
|---|---|---|
| control_safety | 3 requests (no deadline and no callback, or deadline 1), 2 stopping threads, capacity 2, clock to 2 | `ExactlyOnce`, `StopBarrier`, `DriverExclusive`, `CallbacksRunUnlocked`, `SleepersAreWoken`, `OneJoiner`, `TimeoutJustified`, `SummaryBalanced`, and refinement of `ControlService` |
| control_live | 2 requests of four shapes, 2 stopping threads, capacity 1 | `AcceptedCompletes`, `StopReturns` |
| scheduler | 3 tasks with intervals 2, 3, 2; clock to 10 | `NoDrift`, `OvertakenOnce`, `NoBurst`, `DueIsPolled`, `StopReturns` |
| runtime_safety | 2 publishers, a poll and a push driver, 2 sources, 3 requests (one of a processor), 2 stopping threads, 2 batches, raw capacity 1 | plugins are called only while they live, nothing accepted is lost, `StopIsComplete`, `PluginLifecycle` |
| runtime_live | 1 publisher, 2 drivers, 1 source | `LifecycleReturns` |
| mqtt | 2 starts, 3 publishes | `ConnectedHasClient`, `NoClientLeak`, `AcknowledgedWasAccepted`, `DisconnectSignalExact`, `StopReturns` |
| data_path | 2 devices, 3 batches, capacity 2, 4 processors, 2 publishers | `PublishedInOrder`, `SummaryBalanced`, `WindowExact` |
| conversion | 4-bit integers; every scalar against 9 kinds of point | `ConversionSound` |
| data_path_live | 4 batches, capacity 2 | `WorkerProgress` |
| application | all configurations of 2 plugins and some of 3; 2 types, 2 libraries, 2 types in the program; run_duration none or 1 | `PluginCodeMapped`, `NothingLeaks`, `LoadResolvesConfig`, `ShutdownEnds` |
| configuration | a complete document and those with one member changed or missing; 6-bit integers for 64, 4-bit int; 2 units of the clock to a millisecond, clock to 3 | `AcceptedIsValid`, `NumbersExact` |
| library_alias | a driver and a processor, two paths to one file | `OneKeyPerLibrary` is violated |

Why the bounds are enough for the cases of interest. Three requests and capacity
2 give one being executed, one queued and one refused or cancelled. Two stopping
threads give one that cancels and joins and one that waits for it. A deadline of
1 with a clock to 2 lets a request expire in the queue, at the gate, after the
gate and in the driver. Intervals 2, 3, 2 give ties, and polls that span several
cycles. Two plugins of each kind let one start and the next fail. A window of 2
and three batches fill the window, slide it, and interrupt it by a bad reading
or another device. Two MQTT starts let the signal of one disconnect meet the
next stop. Two plugins and two libraries give every way in which a second entry
agrees with or contradicts the first; three, of which two share a category, the
order of destruction. The numbers in the documents lie around zero, around the
end of each integer type, and one full turn of `unsigned` above a legal delay; 14
milliseconds are the longest that the clock can always add, and those that overflow in the
sum only, or already in the conversion, lie above it.
Requests and stopping threads are symmetric in control_safety, stopping
threads in runtime_safety; the runs with liveness use no symmetry.

Every run but library_alias passes. It shows a finding: `claim_library()` is
meant to tie a library to one registry key, but compares paths as they are
spelled, so `./x.so` and `x.so` can be a driver and a processor, and the same
module is then used through two interfaces. Deadlock is checked in all of
them: a `Terminated` step stands for the end of the program and is enabled
only when nothing is left to do.

Things the model made visible, which no document of the repository contradicts:

- A request without deadline takes the gate with `lock()`. `std::timed_mutex`
  is not fair, so the scheduler may keep it from the dispatcher, and all requests
  behind it wait too. `AcceptedCompletes` therefore speaks of requests with
  deadlines, or of the time after polling has ended.
- `ControlQueue::try_push` never answers `Stopping` when called by `submit()`,
  because both check and close are inside `lifecycle_mutex_`.
- If `start()` fails before the worker exists, batches that push drivers have
  already delivered are lost (`Drained` has this exception).
- A scaled value of exactly 2^63 passes the range check of an integer point and
  its conversion is unspecified (`ConversionSound` has this exception). A scaled
  double may be infinite and Good.
- An exception whose class a plugin defines and that leaves `configure()` or
  `start()` is read by `main()`'s handler after the plugin's library is closed
  (`PluginCodeMapped` has this exception; those of `create_plugin` are replaced
  in time). A plugin exception that is no `std::exception` ends the program
  without unwinding.
- The parser accepts durations up to the largest `milliseconds`; the clock counts
  nanoseconds, so one of more than about 292 years overflows when it is converted or
  added (`NumbersExact` has this exception).
- A claim on a library stays when the load that made it fails; the registry does
  not live on, so nothing depends on it.
- Settings that an MQTT publisher refuses (a keepalive of 1, a maximal delay
  below the delay) are reported only as a null plugin.
- A processor that submits a control request between the creation of the worker
  and `accepting_controls_` becoming true is told `Stopping`.

## Fairness

Liveness is checked under weak fairness of each thread of the gateway, and of
the clock. This is what the operating system's scheduler gives. It includes that
plugin calls return, which the code relies on everywhere (it has no way to abort
one). Nothing is assumed of callers: nobody has to submit, start or stop, drivers
need not deliver, and the scheduler need not leave a gate to the dispatcher. The
MQTT run assumes nothing of Paho: its callbacks may never come. The application
run assumes that `main()` goes on and that signals may never come.

## Proofs

TLAPS checks the theorems for every value of the constants that satisfies the
named assumptions of the modules: any number of requests, stopping threads,
plugins, tasks, batches, publishers, any capacity, interval, integer width,
configuration and document. TLC evaluates the same assumptions in the runs. Every safety
invariant of the passing runs is stated by a theorem, and so are the refinement and
the action properties (`NoBurst`, `PluginLifecycle`). The inductive invariants, `TypeOK` of
the dispatcher and the scheduler, `DueWithinInterval`, `OneShutdown` and `WorkerIsWoken` are
stated by theorems only.

| Module | Theorems | Properties |
|---|---|---|
| `ControlDispatcherProofs` | `ControlInvariant`, `TypeCorrect`, `CompletedExactlyOnce`, `StopIsBarrier`, `DriverCallsExclusive`, `CallbacksUnlocked`, `SummaryAddsUp`, `TimeoutsAreJustified`, `EverySleeperIsWoken`, `OneThreadJoins` | `ControlInv`, `TypeOK`, `ExactlyOnce`, `StopBarrier`, `DriverExclusive`, `CallbacksRunUnlocked`, `SummaryBalanced`, `TimeoutJustified` (if drivers do not return Timeout themselves), `SleepersAreWoken`, `OneJoiner` |
| `ControlRefinement` | `DispatcherImplementsService` | `ImplementsService` |
| `SchedulerProofs` | `SchedulerInvariant`, `SchedulerTypes`, `PollsNeverDrift`, `PollsComeInCycles`, `DueTimesAreNear`, `NobodyOvertakesTwice` | `TypeOK`, `NoDrift`, `NoBurst`, `DueWithinInterval`, `OvertakenOnce` |
| `GatewayRuntimeProofs` | `RuntimeInvariant`, `DriversCalledWhileStarted`, `PublishersCalledWhileStarted`, `SourcesOutliveTheirRequests`, `StopRefusesNoBatch`, `StopDrainsTheQueue`, `StopLeavesNothing`, `PluginsGoForward`, `ShutdownIsSingle` | `DriverCallsLive`, `PublisherCallsLive`, `SourceCallbacksLive`, `NoBatchRefusedByStop`, `Drained`, `StopIsComplete`, `PluginLifecycle`, `OneShutdown` |
| `MqttPublisherProofs` | `MqttInvariant`, `ConnectedOnlyWithClient`, `NoClientLeaks`, `AcknowledgedAreAccepted`, `DisconnectSignalIsExact` | `ConnectedHasClient`, `NoClientLeak`, `AcknowledgedWasAccepted`, `DisconnectSignalExact` |
| `ApplicationProofs` | `AppInvariant`, `PluginCodeIsMapped`, `MainLeaksNothing`, `LoadingResolvesConfig` | `PluginCodeMapped`, `NothingLeaks`, `LoadResolvesConfig` |
| `DataPathProofs` | `PathInvariant`, `EventsPublishedInOrder`, `SummaryIsBalanced`, `ConversionIsSound`, `WindowsAreExact`, `WorkerSleepsOnlyWhenIdle` | `PublishedInOrder`, `SummaryBalanced`, `ConversionSound`, `WindowExact`, `WorkerIsWoken` |
| `ConfigurationProofs` | `ConfigInvariant`, `WhatIsAcceptedIsValid`, `NumbersAreExact` | `AcceptedIsValid`, `NumbersExact` |

Hardly any of the properties is inductive alone. Each module defines the invariant that is,
as a conjunction of named parts, and proves it with one lemma per action or per
part.

**Control** (`ControlInv`; `ControlAssumption`, `DriverStatusAssumption`,
`ShapesAssumption`). `StopBarrier` needs to know why a thread can pass `join()`,
which needs to know that one thread only cancels and that the worker exits only
from a closed and empty queue. The parts:

- `TypeOK`;
- `LockInv`: who holds `lifecycle_mutex_`, and that a pushing `submit()` excludes
  `stopping_`;
- `StopInv`: one cancelling thread; join passes only after it;
- `WorkerInv`: the life of the worker and the operation it works on;
- `PlaceInv`: every accepted request is completed, or is in the queue, with the
  worker, or with the cancelling thread, and in one of these only;
- `GateInv`: who holds which gate;
- `CountInv`: how far the counters may be apart while operations are in progress.

`TimeoutInv` is proved on top, and so are `WorkerWait` and `StopWait`: the worker sleeps
only on an empty and open queue, each flag that `join()` waits for has a thread in `stop()`
that will change it, and a thread sleeps only while it may not go on. They are the safety
part of `AcceptedCompletes` and `StopReturns`: no wakeup is lost (`SleepersAreWoken`), and
`worker_.join()` has one caller (`OneJoiner`). `ControlRefinement` maps the state with
`ServicePhase`, `ServiceWaiting` and `ServiceReport` and shows initial states and
steps of `ControlService`: a push is its acceptance, `request_stop()` its close,
a pop its service, and a completion its report. `ServiceInv` adds that waiting
requests are never both in the queue and with the cancelling thread.

**Scheduler** (`SchedInv`; `SchedulerAssumption`: intervals are positive).
`SkippedLemma` bounds the closed form of the catch-up loop: the new due time is
the first one on the grid after `finished_at`. From it follow `NoDrift`; `EndInv`, that
the last poll of a task ended before its next due time; and `DueWithinInterval`. A poll
that begins is due, so that by `EndInv` the due time is a point of the grid between the end
of the last poll and now: this is `NoBurst`. The bound would be lost if the loop were
missing or ended one cycle early. `OvertakenOnce` follows through `OvertakenInv`: a task polled while
another one is due has its next cycle after that one's, so that `select_due` prefers
the other one.

**Runtime** (`RuntimeInv`; `RuntimeAssumption`). The shutdown is the number of
its phase (`down`) and its loop index. `LifeInv` says who is in `start()` and who
shuts down, `SlotInv` that the counted slots are the plugins whose `start()` was
called, `StopInv` which plugins each phase has left stopped and which it has not
touched, `FailInv` that a plugin whose `start()` threw is found only in the rollback,
`SchedulerInv`,
`DispatcherInv` and `WorkerInv` that a thread exists only after all plugins it calls
were started and is gone before the first of them is stopped, `RawInv` where the accepted
batches are. The liveness of calls then follows by comparing phases. `ShutdownInv`, proved
on top, says that `by` is the one thread that shuts down, from the first phase to
the last, and that whoever waits in `stop()` waits while it runs; `OneShutdown` follows.

**MQTT** (`MqttInv`; `MqttAssumption`). `ClientInv` and `ConnectedInv` say which
handle there is at which point of which call, and that only the last step of
`stop()` may see a connection without one; `SentInv` counts messages between send and
`++accepted`; `SignalInv` ties an outstanding disconnect to the call that made it.

**Application** (`AppInv`; `RegistryAssumption`, `ConfigAssumption`). `RefInv`
is the heart: the handles of a library are those of the registry while it lives
(`Holds`: a factory, a map entry) plus one per adapter whose plugin came from it.
`ObjectInv` ties plugin objects to adapters, `MapInv`, `OwnerInv` and
`ResolveInv` relate the registry's maps to the entries loaded so far, `PhaseInv`
relates where `main()` is to what exists, `ErrorInv` says which exceptions are in
flight. Then every place where plugin code runs holds a handle.

**Data path** (`PathInv`, `SampleInv`; `DataPathAssumption`,
`NormalizerAssumption`). `QueueInv` and `LogInv` say that sources grow along
logs, worker and queue; `DroppedInv` and `WorkInv` what the worker holds or has
lost; `CountInv` counts every accepted batch at the place where it is.
`ConversionIsSound` rests on lemmas about the operators (`ToDoubleLemma`,
`LargestLemma`, `AffineLemma`, `LlroundLemma`, `IntegerLemma`, `ConvertSound`):
rounding to a double moves no number across the ends of the integer range, and
`llround` of what passes the range check is nearest and in range, one double excepted.
`NormalizerAssumption` asks that `MaxInt + 1` is a multiple of 8, which is what
the proof needs of 2^63.

`WindowsAreExact` needs no induction over sequences, because its invariant `WindowInv`
says at each step what the windows are, instead of folding over the stream: for each
publisher and each window-average processor, the stream seen so far (`Seen`: the log, and the
event in the worker's hands once it is the processor's past) leaves in each device's window
the values of its latest usable readings (`IsTail`), and each average derived so far
is exact (`Follows`); `EventInv` adds that an event carries nothing of a processor whose
turn has not come. `PushTail` is the step of the window: it grows until it is full and
then loses its oldest value. `FollowsNext` appends an event to the stream, `FollowsAlike`
changes an event only in readings the processor neither reads nor writes, which is what
`OwnNames` gives for the other processors. `DataPathAssumption` asks of the processors what
their constructors check: a window is not empty. For
`WorkerSleepsOnlyWhenIdle` it is enough to add that the queue is open until `close()`.

**Configuration** (`ConfigInv`, `ClockInv`; `WidthAssumption`, `ClockAssumption`). Beyond the parser the document is an
accepted one, `config` is its image, and beyond `create()` the publishers' factories have
accepted their settings. Lemmas go through the checks of queues, normalizer, groups and
publishers one by one (`QueuesValid`, `NormalizerValid`, `GroupsValid`,
`PublishersValid`); `CastLemma` and `PahoLemma` show that no cast on the way to Paho
changes a number that was accepted. `ClockInv` relates each point of time to the duration
in `config` that it was computed from; by `AfterLemma` the distance is that duration unless
the clock cannot represent its end.

Model-checked only:

- liveness under fairness (`AcceptedCompletes`, `StopReturns`, `DueIsPolled`,
  `LifecycleReturns`, `WorkerProgress`, `ShutdownEnds`), which TLAPS does not
  handle;
- the violation of `OneKeyPerLibrary`.

## Not modelled

- The test plugins under `src/tests/simulation`: the runtime model allows what
  they do.
- The JSON text of the MQTT payload and the strings of topic and URI;
  timestamps, units and event ids; timing counters; saturation and wrap-around
  of 64-bit counters. `Scheduler` and `Application` count time without a bound: the sums
  that can overflow are in `Configuration`.
- The JSON library itself, and rounding of large integers to doubles in the
  limits of a point.
- Allocation failure, except in `cancel_pending()`, in `normalize()` and for
  adapters; failure of mutex operations and of thread joins.
- A completion callback or plugin that calls `stop()` on the thread it runs on.
- A second signal, and signals during static destruction.

## Plan

1. Done: models of all components, the abstract control service, and proofs of all
   safety invariants, of the refinement and of the action properties.
2. The runtime's own use of `ControlService` (`INSTANCE` in `GatewayRuntime`) as a
   theorem that its steps are steps of that service.
3. `NumbersExact` without its exception, if the parser ever limits durations to what the
   clock can represent.
