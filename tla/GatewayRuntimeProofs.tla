------------------------- MODULE GatewayRuntimeProofs -------------------------
(***************************************************************************)
(* Proofs about GatewayRuntime, for any number of plugins of each kind,    *)
(* any choice of push drivers, any set of stopping threads and requests,   *)
(* any capacities and any number of batches.                               *)
(***************************************************************************)
EXTENDS GatewayRuntime, TLAPS

-----------------------------------------------------------------------------
(* The inductive invariant *)

(* The start() loop over a kind has ended, or start() is in progress at all *)
AfterPublishers == {"drv", "dispatcher", "worker", "accept", "src", "scheduler", "returned"}
AfterDrivers == {"dispatcher", "worker", "accept", "src", "scheduler", "returned"}
BeforeDispatcher == {"idle", "pub", "drv", "dispatcher"}
BeforeWorker == {"idle", "pub", "drv", "dispatcher", "worker"}
StartRun == {"pub", "drv", "dispatcher", "worker", "accept", "src", "scheduler"}

PluginState == {"new", "started", "failed", "stopping", "stopped"}
Calm == {"new", "stopped"}

(* The shutdown is beyond the phase of this number *)
Past(n) == stopped \/ down > n

LifeType ==
  /\ started \in BOOLEAN /\ stopping \in BOOLEAN /\ stopped \in BOOLEAN
  /\ lifecycle \in {Starter, Nobody}
  /\ starting \in StartRun \cup {"idle", "returned", "unwinding", "threw"}
  /\ down \in 0..14
  /\ unwinding \in BOOLEAN
  /\ stopper \in [Stopper -> {"idle", "running", "waiting", "returned", "ignored"}]

LoopType ==
  /\ index \in Nat
  /\ slots \in [Kind -> Nat]
  /\ plugin \in [Kind -> UNION {[1..Number[k] -> PluginState] : k \in Kind}]
  /\ \A k \in Kind : plugin[k] \in [1..Number[k] -> PluginState]

SchedulerType ==
  /\ sched \in {"none", "running", "exited"}
  /\ polled \in 0..ND

DispatcherType ==
  /\ phase \in {"new", "open", "closed", "stopped"}
  /\ serving \in Request \cup {Nobody}
  /\ waiting \in Seq(Request)
  /\ driver \in 0..ND

WorkerType ==
  /\ proc \in {"none", "wait", "process", "publish", "exited"}
  /\ publisher \in Nat

RawType ==
  /\ raw \in Nat /\ rawClosed \in BOOLEAN
  /\ rawStats \in [accepted: Nat, full: Nat, stopping: Nat, handled: Nat]

(* Who is in start() and who shuts down *)
LifeInv ==
  /\ stopping <=> down > 0
  /\ stopped => down = 0
  /\ starting = "idle" <=> ~started
  /\ starting \in StartRun <=> lifecycle = Starter
  /\ starting \in StartRun \cup {"idle"} => down = 0 /\ ~stopped /\ ~unwinding
  /\ starting = "returned" => ~unwinding
  /\ starting = "unwinding" => down > 0 /\ unwinding
  /\ starting = "threw" => stopped /\ unwinding
  /\ \A s \in Stopper : stopper[s] = "returned" => stopped

(* The counted slots are the plugins whose start() was called *)
SlotInv ==
  /\ \A k \in Kind :
       /\ slots[k] <= Number[k]
       /\ starting = k => index = slots[k] + 1
       /\ \A i \in 1..Number[k] : plugin[k][i] = "new" <=> i > slots[k]
  /\ starting \in {"idle", "dispatcher", "worker", "accept"} => index = 1
  /\ starting = "idle" => slots["pub"] = 0
  /\ starting \in {"idle", "pub"} => slots["drv"] = 0
  /\ starting \in {"idle", "pub", "drv", "dispatcher", "worker", "accept"} => slots["src"] = 0
  /\ starting \in AfterPublishers => slots["pub"] = NP
  /\ starting \in AfterDrivers => slots["drv"] = ND
  /\ down \in {1, 7} => index <= slots["src"]
  /\ down \in {8, 9} => index <= IF unwinding THEN 0 ELSE ND
  /\ down = 10 => index <= IF unwinding THEN slots["drv"] ELSE 0
  /\ down = 13 => index <= slots["pub"]

(* No plugin is stopped before its phase; none is left after it *)
SourceStopInv ==
  \A i \in 1..NS :
    /\ ~Past(0) => plugin["src"][i] # "stopping"
    /\ ~Past(6) => plugin["src"][i] # "stopped"
    /\ Past(7) \/ (down = 7 /\ i > index) => plugin["src"][i] \in Calm

DriverStopInv ==
  \A i \in 1..ND :
    /\ ~Past(7) => plugin["drv"][i] # "stopped"
    /\ plugin["drv"][i] # "stopping"
    /\ ~unwinding /\ i \in Push /\ (Past(8) \/ (down = 8 /\ i + index <= ND)) =>
         plugin["drv"][i] \in Calm
    /\ ~unwinding /\ i \notin Push /\ (Past(9) \/ (down = 9 /\ i + index <= ND)) =>
         plugin["drv"][i] \in Calm
    /\ unwinding /\ (Past(10) \/ (down = 10 /\ i > index)) =>
         plugin["drv"][i] \in Calm

PublisherStopInv ==
  \A i \in 1..NP :
    /\ ~Past(12) => plugin["pub"][i] # "stopped"
    /\ plugin["pub"][i] # "stopping"
    /\ Past(13) \/ (down = 13 /\ i > index) => plugin["pub"][i] \in Calm

StopInv == SourceStopInv /\ DriverStopInv /\ PublisherStopInv

(* A start() that throws ends start() *)
FailInv ==
  starting \notin {"unwinding", "threw"} =>
    \A k \in Kind : \A i \in 1..Number[k] : plugin[k][i] # "failed"

(* A thread exists only after all plugins it calls have been started, and  *)
(* is joined before the first of them is stopped                           *)
SchedulerInv ==
  /\ sched # "none" => starting = "returned"
  /\ sched = "running" => ~Past(3)
  /\ polled # 0 => sched = "running"

DispatcherInv ==
  /\ phase # "new" => starting \notin BeforeDispatcher
  /\ phase # "new" => \A i \in 1..ND : plugin["drv"][i] \notin {"new", "failed"}
  /\ phase = "open" => ~Past(4)
  /\ phase = "closed" => ~Past(6)
  /\ serving # Nobody \/ waiting # <<>> => phase \in {"open", "closed"}
  /\ driver # 0 => serving # Nobody

WorkerInv ==
  /\ proc # "none" => starting \notin BeforeWorker
  /\ proc # "none" => \A i \in 1..NP : plugin["pub"][i] \notin {"new", "failed"}
  /\ proc \in {"wait", "process", "publish"} => ~Past(12)
  /\ proc = "publish" => publisher \in 1..NP
  /\ proc = "exited" => rawClosed /\ raw = 0
  /\ rawClosed => Past(11)

(* What the raw queue accepted is queued, in hand or handled *)
RawInv ==
  /\ rawStats.stopping = 0
  /\ rawStats.accepted =
       raw + rawStats.handled + (IF proc \in {"process", "publish"} THEN 1 ELSE 0)

RuntimeType == /\ LifeType /\ LoopType
               /\ SchedulerType /\ DispatcherType /\ WorkerType /\ RawType

RuntimeInv == /\ RuntimeType
              /\ LifeInv /\ SlotInv /\ StopInv /\ FailInv
              /\ SchedulerInv /\ DispatcherInv /\ WorkerInv /\ RawInv

-----------------------------------------------------------------------------
(* Effects of groups of actions *)

(* The steps of the threads, which touch neither lifecycle nor plugins *)
ThreadStep ==
  \/ \E d \in Push : PushBatch(d)
  \/ \E d \in 1..ND \ Push : PollBegin(d)
  \/ SchedulerStep \/ WorkerStep \/ ServiceStep \/ CancelPending
  \/ \E r \in Request : SubmitControl(r) \/ SubmitToDispatcher(r)

(* The steps of the shutdown that end a phase *)
Advance ==
  \/ LoopDone \/ RequestStopScheduler \/ JoinScheduler \/ CloseDispatcher
  \/ CancelDone \/ JoinDispatcher \/ CloseRawQueue \/ JoinWorker

(* The steps of the shutdown that stop a plugin *)
StopPlugin == RequestStopSource \/ StopSource \/ StopDriver \/ StopPublisher

(* The state that start() and the shutdown own *)
mainVars == <<started, stopping, stopped, lifecycle, starting, down, unwinding,
              index, slots, plugin, stopper>>

(* The phases by number.                                                   *)
LEMMA DownLemma ==
  ASSUME down \in 0..14
  PROVE  /\ Down("requestSources") <=> down = 1
         /\ Down("requestScheduler") <=> down = 2
         /\ Down("joinScheduler") <=> down = 3
         /\ Down("closeDispatcher") <=> down = 4
         /\ Down("cancel") <=> down = 5
         /\ Down("joinDispatcher") <=> down = 6
         /\ Down("stopSources") <=> down = 7
         /\ Down("stopPush") <=> down = 8
         /\ Down("stopPoll") <=> down = 9
         /\ Down("unwindDrivers") <=> down = 10
         /\ Down("closeRaw") <=> down = 11
         /\ Down("joinWorker") <=> down = 12
         /\ Down("stopPublishers") <=> down = 13
         /\ Down("finish") <=> down = 14
BY DEF Down, Order

(* How many iterations the next phase has.                                 *)
LEMMA NextPhaseLemma ==
  ASSUME down \in 1..13, NextPhase
  PROVE  /\ down' = down + 1
         /\ index' = CASE down' = 7 -> slots["src"]
                       [] down' \in {8, 9} -> IF unwinding THEN 0 ELSE slots["drv"]
                       [] down' = 10 -> IF unwinding THEN slots["drv"] ELSE 0
                       [] down' = 13 -> slots["pub"]
                       [] OTHER -> 0
BY DEF NextPhase, Iterations, Order

(* What every step that ends a phase has in common.                        *)
LEMMA AdvanceLemma ==
  ASSUME down \in 0..14, Advance
  PROVE  /\ down \in 1..13 /\ NextPhase
         /\ UNCHANGED <<started, stopping, stopped, lifecycle, starting,
                        unwinding, slots, plugin, stopper>>
         /\ down \in {1, 7, 8, 9, 10, 13} => index = 0
<1> USE DownLemma DEF runVars
<1>1. CASE LoopDone
  BY <1>1 DEF LoopDone
<1>2. CASE RequestStopScheduler \/ JoinScheduler
  BY <1>2 DEF RequestStopScheduler, JoinScheduler
<1>3. CASE CloseDispatcher \/ CancelDone \/ JoinDispatcher
  BY <1>3 DEF CloseDispatcher, CancelDone, JoinDispatcher
<1>4. CASE CloseRawQueue \/ JoinWorker
  BY <1>4 DEF CloseRawQueue, JoinWorker
<1> QED BY <1>1, <1>2, <1>3, <1>4 DEF Advance

(* The threads leave the lifecycle and the plugins alone.                  *)
LEMMA ThreadStepLemma ==
  ASSUME ThreadStep
  PROVE  UNCHANGED mainVars
<1> USE DEF mainVars, runVars, shutVars, loopVars
<1>1. CASE \/ \E d \in Push : PushBatch(d)
           \/ \E d \in 1..ND \ Push : PollBegin(d)
  BY <1>1 DEF PushBatch, PollBegin
<1>2. CASE SchedulerStep
  BY <1>2 DEF SchedulerStep, PollEnd, SchedulerExit
<1>3. CASE WorkerStep
  BY <1>3 DEF WorkerStep, PopBatch, Process, Publish
<1>4. CASE ServiceStep \/ CancelPending
  BY <1>4 DEF ServiceStep, FinishControl, ServeControl, CancelPending
<1>5. CASE \E r \in Request : SubmitControl(r) \/ SubmitToDispatcher(r)
  BY <1>5 DEF SubmitControl, SubmitToDispatcher
<1> QED BY <1>1, <1>2, <1>3, <1>4, <1>5 DEF ThreadStep

(* Every step of the system, by what it may disturb.                       *)
LEMMA NextLemma ==
  ASSUME [Next]_vars
  PROVE  \/ StartCall \/ StartStep
         \/ \E s \in Stopper : StopCall(s)
         \/ Advance \/ StopPlugin \/ Finish
         \/ ThreadStep
         \/ UNCHANGED vars
BY DEF Next, DownStep, Advance, StopPlugin, ThreadStep, Terminated

(* How many plugins there are of each kind.                                *)
LEMMA NumberLemma ==
  /\ Number["pub"] = NP /\ Number["drv"] = ND /\ Number["src"] = NS
  /\ NP \in Nat /\ ND \in Nat /\ NS \in Nat
  /\ \A k \in Kind : Number[k] \in Nat
BY RuntimeAssumption DEF RuntimeAssumption, Number, Kind

(* What it means to give one plugin a new state.                           *)
LEMMA SetLemma ==
  ASSUME LoopType, NEW k \in Kind, NEW i \in 1..Number[k], NEW st \in PluginState,
         plugin' = [plugin EXCEPT ![k][i] = st]
  PROVE  /\ plugin' \in [Kind -> UNION {[1..Number[x] -> PluginState] : x \in Kind}]
         /\ \A x \in Kind : plugin'[x] \in [1..Number[x] -> PluginState]
         /\ \A x \in Kind : \A j \in 1..Number[x] :
              plugin'[x][j] = IF x = k /\ j = i THEN st ELSE plugin[x][j]
<1>1. plugin' = [x \in Kind |-> IF x = k THEN [plugin[k] EXCEPT ![i] = st] ELSE plugin[x]]
  BY DEF LoopType
<1>2. \A x \in Kind : plugin[x] \in [1..Number[x] -> PluginState]
  BY DEF LoopType
<1>3. [plugin[k] EXCEPT ![i] = st] \in [1..Number[k] -> PluginState]
  BY <1>2
<1>4. \A x \in Kind : plugin'[x] \in [1..Number[x] -> PluginState]
  BY <1>1, <1>2, <1>3
<1>5. plugin' \in [Kind -> UNION {[1..Number[x] -> PluginState] : x \in Kind}]
  BY <1>1, <1>4
<1>6. \A x \in Kind : \A j \in 1..Number[x] :
        plugin'[x][j] = IF x = k /\ j = i THEN st ELSE plugin[x][j]
  <2> TAKE x \in Kind
  <2> TAKE j \in 1..Number[x]
  <2>1. CASE x = k
    <3>1. plugin'[x] = [plugin[k] EXCEPT ![i] = st]
      BY <1>1, <2>1
    <3>2. j \in DOMAIN plugin[k]
      BY <1>2, <2>1
    <3> QED BY <2>1, <3>1, <3>2
  <2>2. CASE x # k
    BY <1>1, <2>2
  <2> QED BY <2>1, <2>2
<1> QED BY <1>4, <1>5, <1>6

(* A step of start() rolls back, goes on, or returns.                      *)
LEMMA StartStepLemma ==
  ASSUME StartStep
  PROVE  /\ starting \in StartRun /\ UNCHANGED stopper
         /\ \/ \E n : Unwind(n)
            \/ /\ starting' \in StartRun
               /\ UNCHANGED <<started, stopping, stopped, lifecycle, down, unwinding>>
            \/ /\ starting' = "returned" /\ lifecycle' = Nobody
               /\ UNCHANGED <<started, stopping, stopped, down, unwinding>>
<1> USE DEF StartRun, NextStart, runVars, shutVars, Kind
<1>1. CASE \E k \in Kind : StartPlugin(k)
  BY <1>1 DEF StartPlugin
<1>2. CASE \E k \in Kind : StartThrows(k) \/ PluginsStarted(k)
  BY <1>2 DEF StartThrows, PluginsStarted
<1>3. CASE StartDispatcher
  BY <1>3 DEF StartDispatcher
<1>4. CASE StartWorker
  BY <1>4 DEF StartWorker
<1>5. CASE AcceptControls
  BY <1>5 DEF AcceptControls
<1>6. CASE StartScheduler
  BY <1>6 DEF StartScheduler
<1> QED BY <1>1, <1>2, <1>3, <1>4, <1>5, <1>6 DEF StartStep

(* A step that stops a plugin only touches plugin and index.               *)
LEMMA StopPluginLemma ==
  ASSUME down \in 0..14, StopPlugin
  PROVE  /\ index > 0 /\ index' = index - 1
         /\ UNCHANGED <<started, stopping, stopped, lifecycle, starting, down,
                        unwinding, slots, stopper>>
         /\ \/ /\ down = 1
               /\ plugin' = [plugin EXCEPT !["src"][index] = "stopping"]
            \/ /\ down = 7
               /\ plugin' = [plugin EXCEPT !["src"][index] = "stopped"]
            \/ /\ down = 13
               /\ plugin' = [plugin EXCEPT !["pub"][index] = "stopped"]
            \/ LET d == IF unwinding THEN index ELSE ND + 1 - index
               IN \/ /\ \/ down = 8 /\ d \in Push
                        \/ down = 9 /\ d \notin Push
                        \/ down = 10
                     /\ plugin' = [plugin EXCEPT !["drv"][d] = "stopped"]
                  \/ /\ \/ down = 8 /\ d \notin Push
                        \/ down = 9 /\ d \in Push
                     /\ plugin' = [plugin EXCEPT !["drv"][d] = plugin["drv"][d]]
<1> USE DownLemma DEF SetPlugin, runVars, shutVars
<1>1. CASE RequestStopSource
  BY <1>1 DEF RequestStopSource
<1>2. CASE StopSource
  BY <1>2 DEF StopSource
<1>3. CASE StopDriver
  BY <1>3 DEF StopDriver
<1>4. CASE StopPublisher
  BY <1>4 DEF StopPublisher
<1> QED BY <1>1, <1>2, <1>3, <1>4 DEF StopPlugin

-----------------------------------------------------------------------------
(* One step of each part of the invariant *)

(* Only start() holds lifecycle_mutex_ across steps, and one shutdown runs *)
(* at a time, after which nothing is started any more.                     *)
LEMMA LifeStep ==
  ASSUME RuntimeInv, [Next]_vars
  PROVE  LifeType' /\ LifeInv'
<1> USE RuntimeAssumption
    DEF RuntimeAssumption, RuntimeInv, RuntimeType, LifeType, LifeInv, StartRun
<1>1. CASE StartCall
  BY <1>1 DEF StartCall, shutVars
<1>2. CASE StartStep
  <2>1. /\ starting \in StartRun /\ UNCHANGED stopper
        /\ \/ \E n : Unwind(n)
           \/ /\ starting' \in StartRun
              /\ UNCHANGED <<started, stopping, stopped, lifecycle, down, unwinding>>
           \/ /\ starting' = "returned" /\ lifecycle' = Nobody
              /\ UNCHANGED <<started, stopping, stopped, down, unwinding>>
    BY <1>2, StartStepLemma
  <2>2. CASE \E n : Unwind(n)
    BY <2>1, <2>2 DEF Unwind
  <2> QED BY <2>1, <2>2
<1>3. ASSUME NEW s \in Stopper, StopCall(s) PROVE LifeType' /\ LifeInv'
  BY <1>3 DEF StopCall, FirstStop
<1>4. CASE Advance
  BY <1>4, AdvanceLemma, NextPhaseLemma
<1>5. CASE StopPlugin
  BY <1>5, StopPluginLemma
<1>6. CASE Finish
  <2>1. /\ down = 14 /\ down' = 0 /\ lifecycle = Nobody /\ stopping' = FALSE /\ stopped' = TRUE
        /\ starting' = (IF unwinding THEN "threw" ELSE starting)
        /\ UNCHANGED <<started, lifecycle, unwinding>>
    BY <1>6, DownLemma DEF Finish
  <2>2. stopper' \in [Stopper -> {"idle", "running", "waiting", "returned", "ignored"}]
    BY <1>6 DEF Finish, WakeWaiting
  <2>3. LifeType'
    <3>1. starting' \in StartRun \cup {"idle", "returned", "unwinding", "threw"}
      BY <2>1
    <3>2. down' \in 0..14 /\ lifecycle' \in {Starter, Nobody}
      BY <2>1
    <3>3. started' \in BOOLEAN /\ unwinding' \in BOOLEAN
      BY <2>1
    <3> QED BY <2>1, <2>2, <3>1, <3>2, <3>3, Zenon
  <2>4. LifeInv'
    BY <2>1
  <2> QED BY <2>3, <2>4
<1>7. CASE ThreadStep
  BY <1>7, ThreadStepLemma DEF mainVars
<1>8. CASE UNCHANGED vars
  BY <1>8 DEF vars, runVars, shutVars
<1> QED BY <1>1, <1>2, <1>3, <1>4, <1>5, <1>6, <1>7, <1>8, NextLemma

(* While a shutdown that is no rollback runs, start() has returned.        *)
LEMMA StopAfterStart ==
  ASSUME RuntimeInv, down > 0, ~unwinding
  PROVE  starting = "returned" /\ slots["drv"] = ND
BY DEF RuntimeInv, RuntimeType, LifeType, LifeInv, SlotInv, AfterDrivers

(* The shutdown gives plugin i of kind k the state st, in the phase and at *)
(* the index of its loop                                                   *)
StopsAt(k, i, st) ==
  \/ down = 1 /\ k = "src" /\ i = index /\ st = "stopping"
  \/ down = 7 /\ k = "src" /\ i = index /\ st = "stopped"
  \/ down = 13 /\ k = "pub" /\ i = index /\ st = "stopped"
  \/ /\ down = 8 /\ ~unwinding /\ k = "drv" /\ i + index = ND + 1
     /\ st = IF i \in Push THEN "stopped" ELSE plugin["drv"][i]
  \/ /\ down = 9 /\ ~unwinding /\ k = "drv" /\ i + index = ND + 1
     /\ st = IF i \in Push THEN plugin["drv"][i] ELSE "stopped"
  \/ down = 10 /\ unwinding /\ k = "drv" /\ i = index /\ st = "stopped"

(* The plugin that a step of the shutdown stops is one whose start() was   *)
(* called.                                                                 *)
LEMMA StoppedSlot ==
  ASSUME RuntimeInv, StopPlugin
  PROVE  \E k \in Kind : \E i \in 1..Number[k] : \E st \in PluginState :
           /\ i <= slots[k] /\ st # "new"
           /\ plugin' = [plugin EXCEPT ![k][i] = st]
           /\ StopsAt(k, i, st)
<1> USE NumberLemma
    DEF RuntimeInv, RuntimeType, LifeType, LoopType, SlotInv, Kind, PluginState, StopsAt
<1>1. index \in Nat /\ index > 0
  BY StopPluginLemma
<1>2. slots["src"] <= NS /\ slots["pub"] <= NP /\ slots["drv"] <= ND
      /\ slots["src"] \in Nat /\ slots["pub"] \in Nat /\ slots["drv"] \in Nat
  OBVIOUS
<1>3. CASE /\ down = 1
           /\ plugin' = [plugin EXCEPT !["src"][index] = "stopping"]
  <2>1. index \in 1..Number["src"] /\ index <= slots["src"]
    BY <1>1, <1>2, <1>3
  <2> QED BY <1>3, <2>1
<1>4. CASE /\ down = 7
           /\ plugin' = [plugin EXCEPT !["src"][index] = "stopped"]
  <2>1. index \in 1..Number["src"] /\ index <= slots["src"]
    BY <1>1, <1>2, <1>4
  <2> QED BY <1>4, <2>1
<1>5. CASE /\ down = 13
           /\ plugin' = [plugin EXCEPT !["pub"][index] = "stopped"]
  <2>1. index \in 1..Number["pub"] /\ index <= slots["pub"]
    BY <1>1, <1>2, <1>5
  <2> QED BY <1>5, <2>1
<1>6. CASE /\ down = 10
           /\ plugin' = [plugin EXCEPT
                !["drv"][IF unwinding THEN index ELSE ND + 1 - index] = "stopped"]
  <2>1. unwinding /\ index \in 1..Number["drv"] /\ index <= slots["drv"]
    BY <1>1, <1>2, <1>6
  <2> QED BY <1>6, <2>1
<1>7. ASSUME down \in {8, 9}
      PROVE  /\ ~unwinding /\ slots["drv"] = ND
             /\ ND + 1 - index \in 1..Number["drv"]
             /\ plugin["drv"][ND + 1 - index] \in PluginState
             /\ plugin["drv"][ND + 1 - index] # "new"
  <2>1. ~unwinding /\ index <= ND
    BY <1>1, <1>7
  <2>2. slots["drv"] = ND
    BY <1>7, <2>1, StopAfterStart
  <2>3. ND + 1 - index \in 1..Number["drv"]
    BY <1>1, <2>1
  <2> DEFINE d == ND + 1 - index
  <2>4. d \in 1..Number["drv"] /\ d <= slots["drv"]
    BY <1>1, <2>2, <2>3
  <2> HIDE DEF d
  <2>5. plugin["drv"] \in [1..Number["drv"] -> PluginState]
    OBVIOUS
  <2>6. plugin["drv"][d] \in PluginState
    BY <2>4, <2>5
  <2>7. plugin["drv"][d] # "new"
    BY <1>2, <2>4, SMTT(30)
  <2> QED BY <2>1, <2>2, <2>3, <2>6, <2>7 DEF d
<1>8. CASE down \in {8, 9}
  <2> DEFINE d == ND + 1 - index
  <2>1. /\ d \in 1..Number["drv"] /\ d <= slots["drv"] /\ d + index = ND + 1
        /\ plugin["drv"][d] \in PluginState /\ plugin["drv"][d] # "new"
    BY <1>1, <1>7, <1>8
  <2>2. \/ /\ (down = 8 /\ d \in Push) \/ (down = 9 /\ d \notin Push)
           /\ plugin' = [plugin EXCEPT !["drv"][d] = "stopped"]
        \/ /\ (down = 8 /\ d \notin Push) \/ (down = 9 /\ d \in Push)
           /\ plugin' = [plugin EXCEPT !["drv"][d] = plugin["drv"][d]]
    <3>1. (IF unwinding THEN index ELSE ND + 1 - index) = d
      BY <1>7, <1>8
    <3> DEFINE e == IF unwinding THEN index ELSE ND + 1 - index
    <3>2. \/ /\ (down = 8 /\ e \in Push) \/ (down = 9 /\ e \notin Push)
             /\ plugin' = [plugin EXCEPT !["drv"][e] = "stopped"]
          \/ /\ (down = 8 /\ e \notin Push) \/ (down = 9 /\ e \in Push)
             /\ plugin' = [plugin EXCEPT !["drv"][e] = plugin["drv"][e]]
      BY <1>8, StopPluginLemma, SMTT(30)
    <3>3. e = d
      BY <3>1
    <3> HIDE DEF d, e
    <3> QED BY <3>2, <3>3, Zenon
  <2> HIDE DEF d
  <2>3. "drv" \in Kind
    OBVIOUS
  <2>4. CASE ((down = 8 /\ d \in Push) \/ (down = 9 /\ d \notin Push))
             /\ plugin' = [plugin EXCEPT !["drv"][d] = "stopped"]
    BY <1>7, <1>8, <2>1, <2>3, <2>4
  <2>5. CASE ((down = 8 /\ d \notin Push) \/ (down = 9 /\ d \in Push))
             /\ plugin' = [plugin EXCEPT !["drv"][d] = plugin["drv"][d]]
    BY <1>7, <1>8, <2>1, <2>3, <2>5
  <2> QED BY <2>2, <2>4, <2>5
<1> QED BY <1>3, <1>4, <1>5, <1>6, <1>8, StopPluginLemma

(* The rollback starts with the sources that start() has counted.          *)
LEMMA UnwindLoop ==
  ASSUME RuntimeInv, Unwind(slots["src"]), UNCHANGED <<slots, plugin>>
  PROVE  LoopType' /\ SlotInv'
<1>1. /\ index' = slots["src"] /\ starting' = "unwinding" /\ down' = 1
      /\ index' \in Nat
  BY DEF RuntimeInv, RuntimeType, LoopType, Unwind, Kind
<1>2. LoopType'
  BY <1>1 DEF RuntimeInv, RuntimeType, LoopType
<1>3. SlotInv'
  BY <1>1 DEF RuntimeInv, SlotInv, Kind, AfterPublishers, AfterDrivers
<1> QED BY <1>2, <1>3

(* A plugin whose start() is called is counted first, so the rollback      *)
(* reaches it even if its start() throws.                                  *)
LEMMA StartPluginLoop ==
  ASSUME RuntimeInv, NEW k \in Kind, StartPlugin(k)
  PROVE  LoopType' /\ SlotInv'
<1>1. /\ index = slots[k] + 1 /\ index \in 1..Number[k] /\ slots[k] \in Nat
      /\ index \in Nat /\ starting = k /\ down = 0
  BY NumberLemma DEF RuntimeInv, RuntimeType, LoopType, SlotInv, StartPlugin, LifeInv,
                     StartRun, Kind
<1>2. /\ slots' = [slots EXCEPT ![k] = @ + 1]
      /\ index' = index + 1 /\ UNCHANGED <<starting, down, unwinding>>
  BY DEF StartPlugin, CountSlot, shutVars
<1> DEFINE st == "started"
<1>3. st \in PluginState /\ st # "new"
  BY DEF PluginState
<1>4. plugin' = [plugin EXCEPT ![k][index] = st]
  BY DEF StartPlugin
<1> HIDE DEF st
<1>5. LoopType
  BY DEF RuntimeInv, RuntimeType
<1>6. /\ plugin' \in [Kind -> UNION {[1..Number[x] -> PluginState] : x \in Kind}]
      /\ \A x \in Kind : plugin'[x] \in [1..Number[x] -> PluginState]
      /\ \A x \in Kind : \A j \in 1..Number[x] :
           plugin'[x][j] = IF x = k /\ j = index THEN st ELSE plugin[x][j]
  <2>1. index \in 1..Number[k] /\ st \in PluginState
    BY <1>1, <1>3
  <2> QED BY <1>4, <1>5, <2>1, SetLemma, ZenonT(30)
<1>7. /\ slots' \in [Kind -> Nat]
      /\ \A x \in Kind : slots'[x] = IF x = k THEN index ELSE slots[x]
  BY <1>1, <1>2, <1>5 DEF LoopType
<1>8. index' \in Nat
  BY <1>1, <1>2
<1>9. \A x \in Kind :
        /\ slots'[x] <= Number[x]
        /\ \A i \in 1..Number[x] : plugin'[x][i] = "new" <=> i > slots'[x]
  <2> TAKE x \in Kind
  <2>1. slots[x] <= Number[x] /\ (\A i \in 1..Number[x] : plugin[x][i] = "new" <=> i > slots[x])
    BY DEF RuntimeInv, SlotInv
  <2>2. slots[x] \in Nat /\ Number[x] \in Nat
    BY <1>5, NumberLemma DEF LoopType
  <2>3. CASE x = k
    <3>1. slots'[x] = index /\ index <= Number[x] /\ index = slots[x] + 1
      BY <1>1, <1>7, <2>3
    <3>2. ASSUME NEW i \in 1..Number[x]
          PROVE  plugin'[x][i] = "new" <=> i > slots'[x]
      <4>1. plugin'[x][i] = IF i = index THEN st ELSE plugin[x][i]
        BY <1>6, <2>3
      <4> QED BY <1>3, <2>1, <2>2, <3>1, <4>1
    <3> QED BY <3>1, <3>2
  <2>4. CASE x # k
    BY <1>6, <1>7, <2>1, <2>4
  <2> QED BY <2>3, <2>4
<1>10. SlotInv'
  BY <1>1, <1>2, <1>7, <1>9 DEF RuntimeInv, SlotInv, Kind, AfterPublishers, AfterDrivers
<1> QED BY <1>6, <1>7, <1>8, <1>10 DEF LoopType

(* The plugin whose start() throws was counted when it was called, and has *)
(* not been asked to stop.                                                 *)
LEMMA ThrowingPlugin ==
  ASSUME RuntimeInv, NEW k \in Kind, StartThrows(k)
  PROVE  /\ index - 1 \in 1..Number[k] /\ index - 1 = slots[k]
         /\ plugin[k][index - 1] = "started" /\ starting = k
         /\ \A x \in Kind : \A j \in 1..Number[x] :
              plugin'[x][j] = IF x = k /\ j = index - 1 THEN "failed" ELSE plugin[x][j]
         /\ LoopType'
<1>1. /\ index \in Nat /\ slots[k] \in Nat /\ Number[k] \in Nat
      /\ starting = k /\ index > 1 /\ index = slots[k] + 1 /\ slots[k] <= Number[k]
  BY NumberLemma DEF RuntimeInv, RuntimeType, LoopType, SlotInv, StartThrows
<1>2. index - 1 \in 1..Number[k] /\ index - 1 = slots[k]
  BY <1>1
<1>3. plugin[k][index - 1] \in PluginState /\ LoopType
  BY <1>2 DEF RuntimeInv, RuntimeType, LoopType
<1>4. plugin[k][index - 1] # "new"
  <2>1. plugin[k][index - 1] = "new" <=> index - 1 > slots[k]
    BY <1>2 DEF RuntimeInv, SlotInv
  <2> QED BY <1>1, <2>1
<1>5. plugin[k][index - 1] # "failed"
  <2>1. starting \notin {"unwinding", "threw"}
    BY <1>1 DEF Kind
  <2> QED BY <1>2, <2>1 DEF RuntimeInv, FailInv
<1>6. plugin[k][index - 1] \notin {"stopping", "stopped"}
  <2>1. down = 0 /\ ~stopped
    BY <1>1 DEF RuntimeInv, LifeInv, StartRun, Kind
  <2>2. ~Past(0) /\ ~Past(6) /\ ~Past(7) /\ ~Past(12)
    BY <2>1 DEF Past
  <2> QED BY <1>2, <2>2, NumberLemma
          DEF RuntimeInv, StopInv, SourceStopInv, DriverStopInv, PublisherStopInv, Kind
<1>7. plugin[k][index - 1] = "started"
  BY <1>3, <1>4, <1>5, <1>6 DEF PluginState
<1>8. "failed" \in PluginState /\ plugin' = [plugin EXCEPT ![k][index - 1] = "failed"]
  BY DEF PluginState, StartThrows
<1>9. /\ plugin' \in [Kind -> UNION {[1..Number[x] -> PluginState] : x \in Kind}]
      /\ \A x \in Kind : plugin'[x] \in [1..Number[x] -> PluginState]
      /\ \A x \in Kind : \A j \in 1..Number[x] :
           plugin'[x][j] = IF x = k /\ j = index - 1 THEN "failed" ELSE plugin[x][j]
  BY <1>2, <1>3, <1>8, SetLemma, ZenonT(30)
<1>10. index' \in Nat /\ slots' = slots
  BY <1>3 DEF StartThrows, Unwind, LoopType, Kind
<1>11. LoopType'
  BY <1>3, <1>9, <1>10 DEF LoopType
<1> QED BY <1>1, <1>2, <1>7, <1>9, <1>11

(* The rollback starts with the counted sources, the one that threw among  *)
(* them.                                                                   *)
LEMMA StartThrowsLoop ==
  ASSUME RuntimeInv, NEW k \in Kind, StartThrows(k)
  PROVE  LoopType' /\ SlotInv'
<1>1. /\ index' = slots["src"] /\ starting' = "unwinding" /\ down' = 1 /\ slots' = slots
      /\ slots["src"] \in Nat
  BY DEF StartThrows, Unwind, RuntimeInv, RuntimeType, LoopType, Kind
<1>2. \A x \in Kind : \A j \in 1..Number[x] : plugin'[x][j] = "new" <=> plugin[x][j] = "new"
  <2> TAKE x \in Kind
  <2> TAKE j \in 1..Number[x]
  <2>1. plugin'[x][j] = IF x = k /\ j = index - 1 THEN "failed" ELSE plugin[x][j]
    BY ThrowingPlugin
  <2>2. plugin[k][index - 1] = "started"
    BY ThrowingPlugin
  <2> QED BY <2>1, <2>2
<1>3. SlotInv'
  BY <1>1, <1>2 DEF RuntimeInv, SlotInv, Kind, AfterPublishers, AfterDrivers
<1> QED BY <1>3, ThrowingPlugin

(* When a loop of start() ends, all plugins of its kind are counted.       *)
LEMMA PluginsStartedLoop ==
  ASSUME RuntimeInv, NEW k \in Kind, PluginsStarted(k)
  PROVE  LoopType' /\ SlotInv'
<1>1. /\ slots[k] = Number[k] /\ starting = k /\ down = 0
      /\ index' = 1 /\ starting' = NextStart[k]
      /\ UNCHANGED <<slots, plugin, down, unwinding>>
  BY NumberLemma DEF RuntimeInv, RuntimeType, LoopType, SlotInv, PluginsStarted, LifeInv,
                     StartRun, Kind, shutVars
<1>2. LoopType'
  BY <1>1 DEF RuntimeInv, RuntimeType, LoopType
<1>3. \A x \in Kind :
        /\ slots'[x] <= Number[x]
        /\ \A i \in 1..Number[x] : plugin'[x][i] = "new" <=> i > slots'[x]
  BY <1>1 DEF RuntimeInv, SlotInv
<1>4. SlotInv'
  BY <1>1, <1>3, NumberLemma
     DEF RuntimeInv, SlotInv, Kind, AfterPublishers, AfterDrivers, NextStart
<1> QED BY <1>2, <1>4

(* The rest of start() leaves the loops alone.                             *)
LEMMA StartThreadsLoop ==
  ASSUME RuntimeInv, StartDispatcher \/ StartWorker \/ AcceptControls \/ StartScheduler
  PROVE  LoopType' /\ SlotInv'
<1>1. UNCHANGED <<slots, plugin>>
  BY DEF StartDispatcher, StartWorker, AcceptControls, StartScheduler, loopVars
<1>2. CASE Unwind(slots["src"])
  BY <1>1, <1>2, UnwindLoop
<1>3. CASE /\ starting \in {"dispatcher", "worker", "accept", "scheduler"}
           /\ starting' = NextStart[starting]
           /\ UNCHANGED <<down, unwinding, index>>
  <2>1. LoopType'
    BY <1>1, <1>3 DEF RuntimeInv, RuntimeType, LoopType
  <2>2. \A x \in Kind :
          /\ slots'[x] <= Number[x]
          /\ \A i \in 1..Number[x] : plugin'[x][i] = "new" <=> i > slots'[x]
    BY <1>1 DEF RuntimeInv, SlotInv
  <2>3. down' = 0
    BY <1>3 DEF RuntimeInv, LifeInv, StartRun
  <2>4. SlotInv'
    BY <1>1, <1>3, <2>2, <2>3
       DEF RuntimeInv, SlotInv, Kind, AfterPublishers, AfterDrivers, NextStart
  <2> QED BY <2>1, <2>4
<1> QED BY <1>2, <1>3 DEF StartDispatcher, StartWorker, AcceptControls, StartScheduler,
                          shutVars, loopVars

(* While the shutdown runs, start() is not in a loop.                      *)
LEMMA DownIsLate ==
  ASSUME RuntimeInv, down > 0
  PROVE  /\ starting \in {"returned", "unwinding"}
         /\ starting = "unwinding" <=> unwinding
BY DEF RuntimeInv, RuntimeType, LifeType, LifeInv, StartRun

(* The plugins after a step of the shutdown.                               *)
LEMMA StopPluginEffect ==
  ASSUME RuntimeInv, StopPlugin
  PROVE  /\ plugin' \in [Kind -> UNION {[1..Number[x] -> PluginState] : x \in Kind}]
         /\ \A x \in Kind : plugin'[x] \in [1..Number[x] -> PluginState]
         /\ \E k \in Kind : \E i \in 1..Number[k] : \E st \in PluginState :
           /\ i <= slots[k] /\ st # "new"
           /\ \A x \in Kind : \A j \in 1..Number[x] :
                plugin'[x][j] = IF x = k /\ j = i THEN st ELSE plugin[x][j]
           /\ StopsAt(k, i, st)
<1>1. LoopType
  BY DEF RuntimeInv, RuntimeType
<1>2. PICK k \in Kind : \E i \in 1..Number[k] : \E st \in PluginState :
           /\ i <= slots[k] /\ st # "new"
           /\ plugin' = [plugin EXCEPT ![k][i] = st]
           /\ StopsAt(k, i, st)
  BY StoppedSlot, Zenon
<1>3. PICK i \in 1..Number[k], st \in PluginState :
           /\ i <= slots[k] /\ st # "new"
           /\ plugin' = [plugin EXCEPT ![k][i] = st]
           /\ StopsAt(k, i, st)
  BY <1>2, Zenon
<1>4. /\ plugin' \in [Kind -> UNION {[1..Number[x] -> PluginState] : x \in Kind}]
      /\ \A x \in Kind : plugin'[x] \in [1..Number[x] -> PluginState]
      /\ \A x \in Kind : \A j \in 1..Number[x] :
           plugin'[x][j] = IF x = k /\ j = i THEN st ELSE plugin[x][j]
  <2>1. plugin' = [plugin EXCEPT ![k][i] = st]
    BY <1>3
  <2> QED BY <1>1, <2>1, SetLemma, ZenonT(30)
<1>5. \E j \in 1..Number[k] : \E s \in PluginState :
        /\ j <= slots[k] /\ s # "new"
        /\ \A x \in Kind : \A y \in 1..Number[x] :
             plugin'[x][y] = IF x = k /\ y = j THEN s ELSE plugin[x][y]
        /\ StopsAt(k, j, s)
  <2> WITNESS i \in 1..Number[k]
  <2> WITNESS st \in PluginState
  <2> QED BY <1>3, <1>4, Zenon
<1> QED BY <1>4, <1>5, Zenon

(* The counted slots are exactly the plugins whose start() was called, and *)
(* no loop of the shutdown runs over more than them.                       *)
LEMMA LoopStep ==
  ASSUME RuntimeInv, [Next]_vars
  PROVE  LoopType' /\ SlotInv'
<1> DEFINE Counted ==
      \A x \in Kind : /\ slots[x] <= Number[x]
                      /\ \A i \in 1..Number[x] : plugin[x][i] = "new" <=> i > slots[x]
<1>1. LoopType /\ Counted /\ down \in 0..14
  BY DEF RuntimeInv, RuntimeType, SlotInv, LifeType
<1>2. CASE StartCall
  BY <1>2 DEF StartCall, loopVars, shutVars, RuntimeInv, RuntimeType, LoopType, SlotInv,
              Kind, AfterPublishers, AfterDrivers, LifeInv
<1>3. CASE StartStep
  BY <1>3, StartPluginLoop, StartThrowsLoop, PluginsStartedLoop, StartThreadsLoop DEF StartStep
<1>4. ASSUME NEW s \in Stopper, StopCall(s) PROVE LoopType' /\ SlotInv'
  <2>1. CASE UNCHANGED <<down, index>>
    BY <1>4, <2>1 DEF StopCall, FirstStop, RuntimeInv, RuntimeType, LoopType, SlotInv
  <2>2. CASE down' = 1 /\ index' = slots["src"] /\ started /\ ~stopped /\ ~stopping
    <3>1. slots["src"] \in Nat /\ index' \in Nat
      BY <1>1, <2>2 DEF LoopType, Kind
    <3>2. /\ UNCHANGED <<starting, unwinding, slots, plugin>>
          /\ starting \notin StartRun \cup {"idle"}
      BY <1>4, <2>2, RuntimeAssumption
         DEF StopCall, FirstStop, RuntimeInv, RuntimeType, LifeType, LifeInv, RuntimeAssumption
    <3>3. LoopType'
      BY <1>1, <3>1, <3>2 DEF LoopType
    <3>4. SlotInv'
      BY <1>1, <2>2, <3>1, <3>2
         DEF RuntimeInv, SlotInv, Kind, AfterPublishers, AfterDrivers, StartRun
    <3> QED BY <3>3, <3>4
  <2> QED BY <1>4, <2>1, <2>2 DEF StopCall, FirstStop
<1>5. CASE Advance
  <2>1. /\ down \in 1..13 /\ NextPhase
        /\ UNCHANGED <<starting, unwinding, slots, plugin>>
    BY <1>1, <1>5, AdvanceLemma
  <2>2. starting \in {"returned", "unwinding"} /\ (starting = "unwinding" <=> unwinding)
    BY <2>1, DownIsLate
  <2>3. /\ slots["src"] \in Nat /\ slots["drv"] \in Nat /\ slots["pub"] \in Nat
        /\ ~unwinding => slots["drv"] = ND
    BY <1>1, <2>1, StopAfterStart DEF LoopType, Kind
  <2>4. /\ down' = down + 1 /\ index' \in Nat
        /\ down' \in {1, 7} => index' = slots["src"]
        /\ down' \in {8, 9} => index' = IF unwinding THEN 0 ELSE ND
        /\ down' = 10 => index' = IF unwinding THEN slots["drv"] ELSE 0
        /\ down' = 13 => index' = slots["pub"]
    <3>1. /\ down' = down + 1
          /\ index' = CASE down' = 7 -> slots["src"]
                       [] down' \in {8, 9} -> IF unwinding THEN 0 ELSE slots["drv"]
                       [] down' = 10 -> IF unwinding THEN slots["drv"] ELSE 0
                       [] down' = 13 -> slots["pub"]
                       [] OTHER -> 0
      BY <2>1, NextPhaseLemma
    <3> QED BY <2>1, <2>3, <3>1
  <2>5. LoopType'
    BY <1>1, <2>1, <2>4 DEF LoopType
  <2>6. SlotInv'
    <3>1. /\ down' \in {1, 7} => index' <= slots["src"]
          /\ down' \in {8, 9} => index' <= IF unwinding THEN 0 ELSE ND
          /\ down' = 10 => index' <= IF unwinding THEN slots["drv"] ELSE 0
          /\ down' = 13 => index' <= slots["pub"]
      BY <2>3, <2>4, NumberLemma
    <3> QED BY <1>1, <2>1, <2>2, <3>1
         DEF RuntimeInv, SlotInv, Kind, AfterPublishers, AfterDrivers
  <2> QED BY <2>5, <2>6
<1>6. CASE StopPlugin
  <2>1. /\ index > 0 /\ index' = index - 1 /\ down > 0
        /\ UNCHANGED <<starting, down, unwinding, slots>>
    BY <1>1, <1>6, StopPluginLemma
  <2>2. starting \in {"returned", "unwinding"}
    BY <2>1, DownIsLate
  <2>3. LoopType'
    <3>1. /\ plugin' \in [Kind -> UNION {[1..Number[x] -> PluginState] : x \in Kind}]
          /\ \A x \in Kind : plugin'[x] \in [1..Number[x] -> PluginState]
      BY <1>6, StopPluginEffect, Zenon
    <3>2. index' \in Nat
      BY <1>1, <2>1 DEF LoopType
    <3> QED BY <1>1, <2>1, <3>1, <3>2 DEF LoopType
  <2>4. Counted'
    <3>1. PICK k \in Kind : \E i \in 1..Number[k] : \E st \in PluginState :
           /\ i <= slots[k] /\ st # "new"
           /\ \A x \in Kind : \A j \in 1..Number[x] :
                plugin'[x][j] = IF x = k /\ j = i THEN st ELSE plugin[x][j]
           /\ StopsAt(k, i, st)
      BY <1>6, StopPluginEffect, Zenon
    <3>2. ASSUME NEW x \in Kind, NEW j \in 1..Number[x]
          PROVE  plugin'[x][j] = "new" <=> plugin[x][j] = "new"
      <4>1. plugin[x][j] = "new" <=> j > slots[x]
        BY <1>1
      <4>2. slots[x] \in Nat
        BY <1>1 DEF LoopType
      <4> QED BY <3>1, <4>1, <4>2
    <3> QED BY <1>1, <2>1, <3>2
  <2>5. SlotInv'
    <3>1. /\ down' \in {1, 7} => index' <= slots["src"]
          /\ down' \in {8, 9} => index' <= IF unwinding THEN 0 ELSE ND
          /\ down' = 10 => index' <= IF unwinding THEN slots["drv"] ELSE 0
          /\ down' = 13 => index' <= slots["pub"]
      <4>1. /\ index \in Nat /\ slots["src"] \in Nat /\ slots["drv"] \in Nat
            /\ slots["pub"] \in Nat /\ ND \in Nat
        BY <1>1, NumberLemma DEF LoopType, Kind
      <4>2. /\ down \in {1, 7} => index <= slots["src"]
            /\ down \in {8, 9} => index <= IF unwinding THEN 0 ELSE ND
            /\ down = 10 => index <= IF unwinding THEN slots["drv"] ELSE 0
            /\ down = 13 => index <= slots["pub"]
        BY DEF RuntimeInv, SlotInv
      <4> QED BY <2>1, <4>1, <4>2
    <3> QED BY <2>1, <2>2, <2>4, <3>1
         DEF RuntimeInv, SlotInv, Kind, AfterPublishers, AfterDrivers
  <2> QED BY <2>3, <2>5
<1>7. CASE Finish
  <2>1. /\ down > 0 /\ down' = 0
        /\ starting' = (IF unwinding THEN "threw" ELSE starting)
        /\ UNCHANGED <<index, slots, plugin>>
    BY <1>1, <1>7, DownLemma DEF Finish, loopVars
  <2>2. starting' \in {"threw", "returned"} /\ (starting' = "returned" => starting = "returned")
    BY <2>1, DownIsLate
  <2>3. LoopType'
    BY <1>1, <2>1 DEF LoopType
  <2>4. SlotInv'
    BY <1>1, <2>1, <2>2 DEF RuntimeInv, SlotInv, Kind, AfterPublishers, AfterDrivers
  <2> QED BY <2>3, <2>4
<1>8. CASE UNCHANGED mainVars
  BY <1>8 DEF mainVars, RuntimeInv, RuntimeType, LoopType, SlotInv
<1>9. CASE ThreadStep \/ UNCHANGED vars
  BY <1>8, <1>9, ThreadStepLemma DEF vars, mainVars, runVars, shutVars, loopVars
<1> QED BY <1>2, <1>3, <1>4, <1>5, <1>6, <1>7, <1>9, NextLemma

(* A new phase begins with nothing of its kind stopped, and the last one   *)
(* has left nothing of its kind running.                                   *)
LEMMA AdvanceStops ==
  ASSUME RuntimeInv, Advance
  PROVE  StopInv'
<1>1. down \in 0..14 /\ LoopType
  BY DEF RuntimeInv, RuntimeType, LifeType
<1>2. /\ down \in 1..13 /\ NextPhase /\ ~stopped
      /\ UNCHANGED <<stopped, unwinding, slots, plugin>>
      /\ down \in {1, 7, 8, 9, 10, 13} => index = 0
  BY <1>1, AdvanceLemma DEF RuntimeInv, LifeInv
<1>3. /\ slots["src"] \in Nat /\ slots["drv"] \in Nat /\ slots["pub"] \in Nat
      /\ ~unwinding => slots["drv"] = ND
  BY <1>1, <1>2, StopAfterStart DEF LoopType, Kind
<1>4. /\ down' = down + 1
      /\ down' = 7 => index' = slots["src"]
      /\ down' \in {8, 9} => index' = IF unwinding THEN 0 ELSE ND
      /\ down' = 10 => index' = IF unwinding THEN slots["drv"] ELSE 0
      /\ down' = 13 => index' = slots["pub"]
  <2>1. /\ down' = down + 1
        /\ index' = CASE down' = 7 -> slots["src"]
                     [] down' \in {8, 9} -> IF unwinding THEN 0 ELSE slots["drv"]
                     [] down' = 10 -> IF unwinding THEN slots["drv"] ELSE 0
                     [] down' = 13 -> slots["pub"]
                     [] OTHER -> 0
    BY <1>2, NextPhaseLemma
  <2> QED BY <1>2, <1>3, <2>1
<1>5. /\ \A i \in 1..NS : i > slots["src"] => plugin["src"][i] \in Calm
      /\ \A i \in 1..ND : i > slots["drv"] => plugin["drv"][i] \in Calm
      /\ \A i \in 1..NP : i > slots["pub"] => plugin["pub"][i] \in Calm
  BY NumberLemma DEF RuntimeInv, SlotInv, Kind, Calm
<1>6. \A n \in Nat : Past(n)' <=> Past(n) \/ down = n
  BY <1>2, <1>4 DEF Past
<1>7. ASSUME NEW i \in 1..NS
      PROVE  /\ ~Past(6)' => plugin'["src"][i] # "stopped"
             /\ Past(7)' \/ (down' = 7 /\ i > index') => plugin'["src"][i] \in Calm
  <2>1. /\ ~Past(6) => plugin["src"][i] # "stopped"
        /\ Past(7) \/ (down = 7 /\ i > index) => plugin["src"][i] \in Calm
    BY DEF RuntimeInv, StopInv, SourceStopInv
  <2> QED BY <1>2, <1>4, <1>5, <1>6, <2>1, NumberLemma
<1>8. ASSUME NEW i \in 1..NP
      PROVE  /\ ~Past(12)' => plugin'["pub"][i] # "stopped"
             /\ plugin'["pub"][i] # "stopping"
             /\ Past(13)' \/ (down' = 13 /\ i > index') => plugin'["pub"][i] \in Calm
  <2>1. /\ ~Past(12) => plugin["pub"][i] # "stopped"
        /\ plugin["pub"][i] # "stopping"
        /\ Past(13) \/ (down = 13 /\ i > index) => plugin["pub"][i] \in Calm
    BY DEF RuntimeInv, StopInv, PublisherStopInv
  <2> QED BY <1>2, <1>4, <1>5, <1>6, <2>1, NumberLemma
<1>9. ASSUME NEW i \in 1..ND
      PROVE  /\ ~Past(7)' => plugin'["drv"][i] # "stopped"
             /\ plugin'["drv"][i] # "stopping"
             /\ ~unwinding' /\ i \in Push /\ (Past(8)' \/ (down' = 8 /\ i + index' <= ND)) =>
                  plugin'["drv"][i] \in Calm
             /\ ~unwinding' /\ i \notin Push /\ (Past(9)' \/ (down' = 9 /\ i + index' <= ND)) =>
                  plugin'["drv"][i] \in Calm
             /\ unwinding' /\ (Past(10)' \/ (down' = 10 /\ i > index')) =>
                  plugin'["drv"][i] \in Calm
  <2>1. /\ ~Past(7) => plugin["drv"][i] # "stopped"
        /\ plugin["drv"][i] # "stopping"
        /\ ~unwinding /\ i \in Push /\ (Past(8) \/ (down = 8 /\ i + index <= ND)) =>
             plugin["drv"][i] \in Calm
        /\ ~unwinding /\ i \notin Push /\ (Past(9) \/ (down = 9 /\ i + index <= ND)) =>
             plugin["drv"][i] \in Calm
        /\ unwinding /\ (Past(10) \/ (down = 10 /\ i > index)) => plugin["drv"][i] \in Calm
    BY DEF RuntimeInv, StopInv, DriverStopInv
  <2>2. ND \in Nat /\ i \in Nat /\ i > 0 /\ i <= ND
    BY NumberLemma
  <2> QED BY <1>2, <1>3, <1>4, <1>5, <1>6, <2>1, <2>2
<1>10. Past(0)'
  BY <1>2, <1>4 DEF Past
<1> QED BY <1>7, <1>8, <1>9, <1>10 DEF StopInv, SourceStopInv, DriverStopInv, PublisherStopInv

(* A step of a loop of the shutdown stops the plugin at its index.         *)
LEMMA StopPluginStops ==
  ASSUME RuntimeInv, StopPlugin
  PROVE  StopInv'
<1>1. down \in 0..14 /\ LoopType
  BY DEF RuntimeInv, RuntimeType, LifeType
<1>2. /\ index \in Nat /\ index > 0 /\ index' = index - 1 /\ down > 0 /\ ~stopped
      /\ UNCHANGED <<stopped, down, unwinding>>
  BY <1>1, StopPluginLemma DEF RuntimeInv, LifeInv, LoopType
<1>3. PICK k \in Kind : \E i \in 1..Number[k] : \E st \in PluginState :
        /\ i <= slots[k] /\ st # "new"
        /\ \A x \in Kind : \A j \in 1..Number[x] :
             plugin'[x][j] = IF x = k /\ j = i THEN st ELSE plugin[x][j]
        /\ StopsAt(k, i, st)
  BY StopPluginEffect, Zenon
<1>4. PICK n \in 1..Number[k], st \in PluginState :
        /\ \A x \in Kind : \A j \in 1..Number[x] :
             plugin'[x][j] = IF x = k /\ j = n THEN st ELSE plugin[x][j]
        /\ StopsAt(k, n, st)
  BY <1>3, Zenon
<1>5. /\ \A i \in 1..NS : plugin'["src"][i] = IF k = "src" /\ i = n THEN st ELSE plugin["src"][i]
      /\ \A i \in 1..ND : plugin'["drv"][i] = IF k = "drv" /\ i = n THEN st ELSE plugin["drv"][i]
      /\ \A i \in 1..NP : plugin'["pub"][i] = IF k = "pub" /\ i = n THEN st ELSE plugin["pub"][i]
  BY <1>4, NumberLemma DEF Kind
<1>6. \A m \in Nat : Past(m)' <=> Past(m)
  BY <1>2 DEF Past
<1>7. Number[k] \in Nat /\ n \in Nat
  BY NumberLemma
<1>8. ASSUME NEW i \in 1..NS
      PROVE  /\ ~Past(6)' => plugin'["src"][i] # "stopped"
             /\ Past(7)' \/ (down' = 7 /\ i > index') => plugin'["src"][i] \in Calm
  <2>1. /\ ~Past(6) => plugin["src"][i] # "stopped"
        /\ Past(7) \/ (down = 7 /\ i > index) => plugin["src"][i] \in Calm
    BY DEF RuntimeInv, StopInv, SourceStopInv
  <2>2. i \in Nat
    BY NumberLemma
  <2> QED BY <1>1, <1>2, <1>4, <1>5, <1>6, <1>7, <2>1, <2>2 DEF Past, Calm, StopsAt
<1>9. ASSUME NEW i \in 1..NP
      PROVE  /\ ~Past(12)' => plugin'["pub"][i] # "stopped"
             /\ plugin'["pub"][i] # "stopping"
             /\ Past(13)' \/ (down' = 13 /\ i > index') => plugin'["pub"][i] \in Calm
  <2>1. /\ ~Past(12) => plugin["pub"][i] # "stopped"
        /\ plugin["pub"][i] # "stopping"
        /\ Past(13) \/ (down = 13 /\ i > index) => plugin["pub"][i] \in Calm
    BY DEF RuntimeInv, StopInv, PublisherStopInv
  <2>2. i \in Nat
    BY NumberLemma
  <2> QED BY <1>1, <1>2, <1>4, <1>5, <1>6, <1>7, <2>1, <2>2 DEF Past, Calm, StopsAt
<1>10. ASSUME NEW i \in 1..ND
      PROVE  /\ ~Past(7)' => plugin'["drv"][i] # "stopped"
             /\ plugin'["drv"][i] # "stopping"
             /\ ~unwinding' /\ i \in Push /\ (Past(8)' \/ (down' = 8 /\ i + index' <= ND)) =>
                  plugin'["drv"][i] \in Calm
             /\ ~unwinding' /\ i \notin Push /\ (Past(9)' \/ (down' = 9 /\ i + index' <= ND)) =>
                  plugin'["drv"][i] \in Calm
             /\ unwinding' /\ (Past(10)' \/ (down' = 10 /\ i > index')) =>
                  plugin'["drv"][i] \in Calm
  <2>1. /\ ~Past(7) => plugin["drv"][i] # "stopped"
        /\ plugin["drv"][i] # "stopping"
        /\ ~unwinding /\ i \in Push /\ (Past(8) \/ (down = 8 /\ i + index <= ND)) =>
             plugin["drv"][i] \in Calm
        /\ ~unwinding /\ i \notin Push /\ (Past(9) \/ (down = 9 /\ i + index <= ND)) =>
             plugin["drv"][i] \in Calm
        /\ unwinding /\ (Past(10) \/ (down = 10 /\ i > index)) => plugin["drv"][i] \in Calm
    BY DEF RuntimeInv, StopInv, DriverStopInv
  <2>2. ND \in Nat /\ i \in Nat /\ i > 0 /\ i <= ND
    BY NumberLemma
  <2>3. CASE k = "drv" /\ i = n
    <3>1. plugin'["drv"][i] = st
      BY <1>5, <2>3
    <3> QED BY <1>1, <1>2, <1>4, <1>6, <2>1, <2>2, <2>3, <3>1 DEF Past, Calm, StopsAt
  <2>4. CASE ~(k = "drv" /\ i = n)
    <3>1. plugin'["drv"][i] = plugin["drv"][i]
      BY <1>5, <2>4
    <3>2. /\ down = 8 \/ down = 9 => n + index = ND + 1 /\ ~unwinding
          /\ down = 10 => n = index /\ unwinding
          /\ down \in {8, 9, 10} => i # n
      BY <1>4, <2>4 DEF StopsAt
    <3> QED BY <1>1, <1>2, <1>6, <1>7, <2>1, <2>2, <3>1, <3>2 DEF Past
  <2> QED BY <2>3, <2>4
<1>11. Past(0)'
  BY <1>2 DEF Past
<1> QED BY <1>8, <1>9, <1>10, <1>11 DEF StopInv, SourceStopInv, DriverStopInv, PublisherStopInv

(* The order in which plugins are stopped.                                 *)
LEMMA StopStep ==
  ASSUME RuntimeInv, [Next]_vars
  PROVE  StopInv'
<1> USE DEF StopInv, SourceStopInv, DriverStopInv, PublisherStopInv
<1>1. /\ down \in 0..14 /\ LoopType /\ StopInv
      /\ stopping <=> down > 0
      /\ starting \in StartRun \cup {"idle"} => down = 0 /\ ~stopped
  BY DEF RuntimeInv, RuntimeType, LifeType, LifeInv
<1>2. CASE UNCHANGED <<plugin, down, stopped, index, unwinding>>
  BY <1>1, <1>2 DEF Past
<1>3. ASSUME down = 0, ~stopped, down' \in {0, 1}, ~stopped',
             \A x \in Kind : \A i \in 1..Number[x] :
               plugin'[x][i] \in {plugin[x][i], "started", "failed"}
      PROVE  StopInv'
  <2>1. (\A m \in 1..14 : ~Past(m) /\ ~Past(m)') /\ ~Past(0)
    BY <1>3 DEF Past
  <2>2. \A i \in 1..NS : plugin["src"][i] # "stopped" /\ plugin["src"][i] # "stopping"
    BY <1>1, <2>1
  <2>3. \A i \in 1..ND : plugin["drv"][i] # "stopped" /\ plugin["drv"][i] # "stopping"
    BY <1>1, <2>1
  <2>4. \A i \in 1..NP : plugin["pub"][i] # "stopped" /\ plugin["pub"][i] # "stopping"
    BY <1>1, <2>1
  <2>5. /\ \A i \in 1..NS : plugin'["src"][i] \in {plugin["src"][i], "started", "failed"}
        /\ \A i \in 1..ND : plugin'["drv"][i] \in {plugin["drv"][i], "started", "failed"}
        /\ \A i \in 1..NP : plugin'["pub"][i] \in {plugin["pub"][i], "started", "failed"}
    BY <1>3, NumberLemma DEF Kind
  <2> QED BY <1>3, <2>1, <2>2, <2>3, <2>4, <2>5
<1>4. CASE StartCall
  BY <1>2, <1>4 DEF StartCall, loopVars, shutVars
<1>5. CASE StartStep
  <2>1. down = 0 /\ ~stopped /\ down' \in {0, 1} /\ ~stopped'
    <3>1. starting \in StartRun
      BY <1>5, StartStepLemma
    <3>2. down' \in {down, 1} /\ stopped' = stopped
      BY <1>5, StartStepLemma DEF Unwind
    <3> QED BY <1>1, <3>1, <3>2
  <2>2. ASSUME NEW k \in Kind, StartPlugin(k)
        PROVE  \A x \in Kind : \A i \in 1..Number[x] :
                 plugin'[x][i] \in {plugin[x][i], "started", "failed"}
    <3>1. plugin' = [plugin EXCEPT ![k][index] = "started"]
      BY <2>2 DEF StartPlugin
    <3>2. index \in 1..Number[k] /\ "started" \in PluginState
      BY <1>1, <2>2, NumberLemma DEF RuntimeInv, LoopType, SlotInv, StartPlugin, PluginState
    <3>3. \A x \in Kind : \A i \in 1..Number[x] :
            plugin'[x][i] = IF x = k /\ i = index THEN "started" ELSE plugin[x][i]
      BY <1>1, <3>1, <3>2, SetLemma, ZenonT(30)
    <3> QED BY <3>3
  <2>3. CASE UNCHANGED plugin
    BY <1>3, <2>1, <2>3
  <2>4. ASSUME NEW k \in Kind, StartThrows(k)
        PROVE  \A x \in Kind : \A i \in 1..Number[x] :
                 plugin'[x][i] \in {plugin[x][i], "started", "failed"}
    BY <2>4, ThrowingPlugin, Zenon
  <2> QED BY <1>3, <1>5, <2>1, <2>2, <2>3, <2>4
          DEF StartStep, PluginsStarted, StartDispatcher, StartWorker, AcceptControls,
              StartScheduler, loopVars
<1>6. ASSUME NEW s \in Stopper, StopCall(s) PROVE StopInv'
  <2>1. CASE UNCHANGED <<down, index>>
    BY <1>2, <1>6, <2>1 DEF StopCall, FirstStop
  <2>2. CASE down' = 1 /\ ~stopped /\ ~stopping
    BY <1>1, <1>3, <1>6, <2>2 DEF StopCall, FirstStop
  <2> QED BY <1>6, <2>1, <2>2 DEF StopCall, FirstStop
<1>7. CASE Finish
  <2>1. down = 14 /\ stopped' /\ UNCHANGED <<plugin, unwinding>>
    BY <1>1, <1>7, DownLemma DEF Finish, loopVars
  <2>2. \A m \in 0..13 : Past(m) /\ Past(m)'
    BY <2>1 DEF Past
  <2> QED BY <1>1, <2>1, <2>2
<1>8. CASE ThreadStep \/ UNCHANGED vars
  BY <1>2, <1>8, ThreadStepLemma DEF vars, mainVars, runVars, shutVars, loopVars
<1> HIDE DEF StopInv
<1> QED BY <1>4, <1>5, <1>6, <1>7, <1>8, NextLemma, AdvanceStops, StopPluginStops

(* How far the shutdown is, after a step.                                  *)
LEMMA PastStep ==
  ASSUME RuntimeInv, [Next]_vars
  PROVE  \A n \in 1..13 : /\ Past(n) => Past(n)'
                          /\ Past(n)' => Past(n) \/ (down = n /\ Advance)
<1>1. /\ down \in 0..14
      /\ stopping <=> down > 0
      /\ stopped => down = 0
      /\ starting \in StartRun \cup {"idle"} => down = 0 /\ ~stopped
  BY DEF RuntimeInv, RuntimeType, LifeType, LifeInv
<1>2. CASE UNCHANGED <<down, stopped>>
  BY <1>2 DEF Past
<1>3. CASE down = 0 /\ ~stopped /\ down' \in {0, 1} /\ ~stopped'
  BY <1>3 DEF Past
<1>4. CASE StartCall
  BY <1>2, <1>4 DEF StartCall, shutVars
<1>5. CASE StartStep
  <2>1. starting \in StartRun
    BY <1>5, StartStepLemma
  <2>2. down' \in {down, 1} /\ stopped' = stopped
    BY <1>5, StartStepLemma DEF Unwind
  <2> QED BY <1>1, <1>3, <2>1, <2>2
<1>6. CASE \E s \in Stopper : StopCall(s)
  BY <1>1, <1>2, <1>3, <1>6 DEF StopCall, FirstStop
<1>7. CASE Advance
  <2>1. down \in 1..13 /\ down' = down + 1 /\ stopped' = stopped
    BY <1>1, <1>7, AdvanceLemma, NextPhaseLemma
  <2> QED BY <1>7, <2>1 DEF Past
<1>8. CASE StopPlugin
  BY <1>1, <1>2, <1>8, StopPluginLemma
<1>9. CASE Finish
  <2>1. down = 14 /\ stopped' = TRUE
    BY <1>1, <1>9, DownLemma DEF Finish
  <2> QED BY <2>1 DEF Past
<1>10. CASE ThreadStep \/ UNCHANGED vars
  BY <1>2, <1>10, ThreadStepLemma DEF vars, mainVars, runVars, shutVars
<1> QED BY <1>4, <1>5, <1>6, <1>7, <1>8, <1>9, <1>10, NextLemma

(* Which step ends a phase.                                                *)
LEMMA PhaseEnd ==
  ASSUME down \in 0..14, Advance
  PROVE  /\ down = 3 => JoinScheduler
         /\ down = 4 => CloseDispatcher
         /\ down = 6 => JoinDispatcher
         /\ down = 11 => CloseRawQueue
         /\ down = 12 => JoinWorker
BY DownLemma DEF Advance, LoopDone, RequestStopScheduler, JoinScheduler, CloseDispatcher,
   CancelDone, JoinDispatcher, CloseRawQueue, JoinWorker

(* start() that has returned stays so.                                     *)
LEMMA ReturnedStep ==
  ASSUME RuntimeInv, [Next]_vars, starting = "returned"
  PROVE  starting' = "returned"
<1>1. down \in 0..14 /\ ~unwinding
  BY DEF RuntimeInv, RuntimeType, LifeType, LifeInv
<1>2. ~StartStep
  BY StartStepLemma DEF StartRun
<1>3. CASE StartCall \/ (\E s \in Stopper : StopCall(s)) \/ Finish
  BY <1>1, <1>3 DEF StartCall, StopCall, FirstStop, Finish
<1>4. CASE Advance \/ StopPlugin
  BY <1>1, <1>4, AdvanceLemma, StopPluginLemma
<1>5. CASE ThreadStep \/ UNCHANGED vars
  BY <1>5, ThreadStepLemma DEF vars, mainVars
<1> QED BY <1>2, <1>3, <1>4, <1>5, NextLemma

(* A step takes a plugin only forwards.  A plugin whose start() throws     *)
(* makes start() unwind.                                                   *)
Forward(k, i) ==
  \/ plugin'[k][i] = plugin[k][i]
  \/ plugin[k][i] = "new" /\ plugin'[k][i] = "started" /\ starting = k
  \/ /\ plugin[k][i] = "started" /\ plugin'[k][i] = "failed"
     /\ starting = k /\ starting' = "unwinding"
  \/ /\ plugin[k][i] \in {"started", "failed", "stopping"}
     /\ plugin'[k][i] \in {"stopping", "stopped"}
     /\ starting' = starting

LEMMA ForwardStep ==
  ASSUME RuntimeInv, [Next]_vars, NEW x \in Kind, NEW j \in 1..Number[x]
  PROVE  Forward(x, j)
<1>1. /\ down \in 0..14 /\ LoopType
      /\ plugin[x][j] = "new" <=> j > slots[x]
  BY DEF RuntimeInv, RuntimeType, LifeType, SlotInv
<1>2. plugin[x][j] \in PluginState /\ slots[x] \in Nat
  BY <1>1 DEF LoopType
<1>3. CASE UNCHANGED plugin
  BY <1>3 DEF Forward
<1>4. ASSUME NEW k \in Kind, StartPlugin(k) PROVE Forward(x, j)
  <2>1. plugin' = [plugin EXCEPT ![k][index] = "started"]
    BY <1>4 DEF StartPlugin
  <2>2. index \in 1..Number[k] /\ "started" \in PluginState
    BY <1>1, <1>4, NumberLemma DEF RuntimeInv, LoopType, SlotInv, StartPlugin, PluginState
  <2>3. plugin'[x][j] = IF x = k /\ j = index THEN "started" ELSE plugin[x][j]
    BY <1>1, <2>1, <2>2, SetLemma, ZenonT(30)
  <2>4. starting = k /\ index = slots[k] + 1
    BY <1>4 DEF StartPlugin, RuntimeInv, SlotInv
  <2> QED BY <1>1, <1>2, <2>3, <2>4 DEF Forward
<1>t. ASSUME NEW k \in Kind, StartThrows(k) PROVE Forward(x, j)
  <2>1. starting' = "unwinding"
    BY <1>t DEF StartThrows, Unwind
  <2>2. /\ plugin[k][index - 1] = "started" /\ starting = k
        /\ plugin'[x][j] = IF x = k /\ j = index - 1 THEN "failed" ELSE plugin[x][j]
    BY <1>t, ThrowingPlugin
  <2> QED BY <2>1, <2>2 DEF Forward
<1>5. CASE StartStep
  BY <1>3, <1>4, <1>5, <1>t
     DEF StartStep, PluginsStarted, StartDispatcher, StartWorker, AcceptControls,
         StartScheduler, loopVars
<1>6. CASE StopPlugin
  <2>1. PICK k \in Kind : \E i \in 1..Number[k] : \E st \in PluginState :
          /\ i <= slots[k] /\ st # "new"
          /\ \A y \in Kind : \A z \in 1..Number[y] :
               plugin'[y][z] = IF y = k /\ z = i THEN st ELSE plugin[y][z]
          /\ StopsAt(k, i, st)
    BY <1>6, StopPluginEffect, Zenon
  <2>2. PICK i \in 1..Number[k], st \in PluginState :
          /\ i <= slots[k]
          /\ plugin'[x][j] = IF x = k /\ j = i THEN st ELSE plugin[x][j]
          /\ StopsAt(k, i, st)
    BY <2>1, Zenon
  <2>3. starting' = starting /\ (stopped => down = 0)
    BY <1>1, <1>6, StopPluginLemma DEF RuntimeInv, LifeInv
  <2>4. CASE x = k /\ j = i
    <3>1. plugin[x][j] # "new"
      BY <1>1, <1>2, <2>2, <2>4, NumberLemma
    <3>2. CASE plugin[x][j] = "stopped"
      <4>1. down = 1 => k # "src"
        BY <2>3, <2>4, <3>2, NumberLemma
           DEF RuntimeInv, StopInv, SourceStopInv, Past
      <4> QED BY <2>2, <2>4, <3>2, <4>1 DEF StopsAt, Forward
    <3>3. CASE plugin[x][j] # "stopped"
      <4>1. plugin[x][j] \in {"started", "failed", "stopping"}
        BY <1>2, <3>1, <3>3 DEF PluginState
      <4>2. st \in {"stopping", "stopped", plugin[x][j]}
        BY <2>2, <2>4 DEF StopsAt
      <4> QED BY <2>2, <2>3, <2>4, <4>1, <4>2 DEF Forward
    <3> QED BY <3>2, <3>3
  <2>5. CASE ~(x = k /\ j = i)
    BY <2>2, <2>5 DEF Forward
  <2> QED BY <2>4, <2>5
<1>7. CASE StartCall \/ (\E s \in Stopper : StopCall(s)) \/ Finish
  BY <1>3, <1>7 DEF StartCall, StopCall, FirstStop, Finish, loopVars
<1>8. CASE Advance
  BY <1>1, <1>3, <1>8, AdvanceLemma
<1>9. CASE ThreadStep \/ UNCHANGED vars
  BY <1>3, <1>9, ThreadStepLemma DEF vars, mainVars, loopVars
<1> QED BY <1>5, <1>6, <1>7, <1>8, <1>9, NextLemma

(* Only an unwinding start() leaves a plugin whose start() threw.          *)
LEMMA FailStep ==
  ASSUME RuntimeInv, [Next]_vars
  PROVE  FailInv'
<1>1. ASSUME starting' \notin {"unwinding", "threw"}
      PROVE  starting \notin {"unwinding", "threw"}
  <2>1. /\ down \in 0..14
        /\ starting = "unwinding" => unwinding
        /\ starting = "threw" => unwinding
    BY DEF RuntimeInv, RuntimeType, LifeType, LifeInv
  <2>2. CASE StartCall \/ (\E s \in Stopper : StopCall(s)) \/ Finish
    BY <1>1, <2>1, <2>2 DEF StartCall, StopCall, FirstStop, Finish
  <2>3. CASE StartStep
    BY <2>3, StartStepLemma DEF StartRun
  <2>4. CASE Advance \/ StopPlugin
    BY <1>1, <2>1, <2>4, AdvanceLemma, StopPluginLemma
  <2>5. CASE ThreadStep \/ UNCHANGED vars
    BY <1>1, <2>5, ThreadStepLemma DEF vars, mainVars
  <2> QED BY <2>2, <2>3, <2>4, <2>5, NextLemma
<1>2. \A k \in Kind : \A i \in 1..Number[k] : Forward(k, i)
  BY ForwardStep
<1> QED BY <1>1, <1>2 DEF RuntimeInv, FailInv, Forward

(* The driver plugins are started when the dispatcher or the scheduler is. *)
LEMMA DriversStarted ==
  ASSUME RuntimeInv, starting \in AfterDrivers
  PROVE  \A i \in 1..ND : plugin["drv"][i] \notin {"new", "failed"}
BY NumberLemma DEF RuntimeInv, SlotInv, FailInv, Kind, AfterDrivers

(* The publishers are started when the processing worker is.               *)
LEMMA PublishersStarted ==
  ASSUME RuntimeInv, starting \in AfterPublishers
  PROVE  \A i \in 1..NP : plugin["pub"][i] \notin {"new", "failed"}
BY NumberLemma DEF RuntimeInv, SlotInv, FailInv, Kind, AfterPublishers

(* Plugins that are neither new nor failed stay so once start() has gone   *)
(* beyond them.                                                            *)
LEMMA GoodStep ==
  ASSUME RuntimeInv, [Next]_vars, NEW k \in Kind, NEW i \in 1..Number[k], starting # k,
         plugin[k][i] \notin {"new", "failed"}
  PROVE  plugin'[k][i] \notin {"new", "failed"}
BY ForwardStep DEF Forward

(* The scheduler thread runs only after start() has returned and until it  *)
(* is joined.                                                              *)
LEMMA SchedulerInvStep ==
  ASSUME RuntimeInv, [Next]_vars
  PROVE  SchedulerType' /\ SchedulerInv'
<1> USE DEF SchedulerType, SchedulerInv
<1>1. /\ SchedulerType /\ SchedulerInv /\ down \in 0..14
      /\ starting \in StartRun => down = 0 /\ ~stopped
  BY DEF RuntimeInv, RuntimeType, LifeType, LifeInv
<1>2. starting = "returned" => starting' = "returned"
  BY ReturnedStep
<1>3. /\ Past(3)' => Past(3) \/ sched # "running"
  <2>1. Past(3)' => Past(3) \/ (down = 3 /\ Advance)
    BY PastStep
  <2> QED BY <1>1, <2>1, PhaseEnd DEF JoinScheduler, SchedulerGone
<1>4. CASE UNCHANGED <<sched, polled>>
  BY <1>1, <1>2, <1>3, <1>4
<1>5. CASE StartScheduler
  <2>1. CASE sched' = "running" /\ starting' = "returned" /\ polled' = polled
    <3>1. ~Past(3)
      BY <1>1, <1>5 DEF StartScheduler, StartRun, Past
    <3>2. ~Past(3)'
      BY <1>1, <1>5, <2>1 DEF StartScheduler, StartRun, Past, shutVars, Unwind
    <3> QED BY <1>1, <2>1, <3>2
  <2>2. CASE UNCHANGED <<sched, polled>>
    BY <1>4, <2>2
  <2> QED BY <1>5, <2>1, <2>2 DEF StartScheduler, NextStart
<1>6. CASE \E d \in 1..ND \ Push : PollBegin(d)
  <2>1. sched = "running" /\ sched' = sched /\ polled' \in 1..ND
    BY <1>6 DEF PollBegin
  <2> QED BY <1>1, <1>2, <1>3, <2>1
<1>7. CASE SchedulerStep
  BY <1>1, <1>2, <1>3, <1>7, NumberLemma DEF SchedulerStep, PollEnd, SchedulerExit
<1>8. CASE \/ StartCall \/ StartDispatcher \/ StartWorker \/ AcceptControls
           \/ \E k \in Kind : StartPlugin(k) \/ StartThrows(k) \/ PluginsStarted(k)
  BY <1>4, <1>8 DEF StartCall, StartDispatcher, StartWorker, AcceptControls, StartPlugin,
                    StartThrows, PluginsStarted, schedVars
<1>9. CASE \/ \E s \in Stopper : StopCall(s)
           \/ LoopDone \/ RequestStopSource \/ StopSource \/ StopDriver \/ StopPublisher
           \/ RequestStopScheduler \/ JoinScheduler \/ CloseDispatcher \/ CancelPending
           \/ CancelDone \/ JoinDispatcher \/ CloseRawQueue \/ JoinWorker \/ Finish
  BY <1>4, <1>9 DEF StopCall, FirstStop, LoopDone, RequestStopSource, StopSource, StopDriver,
     StopPublisher, SetPlugin, RequestStopScheduler, JoinScheduler, CloseDispatcher,
     CancelPending, CancelDone, JoinDispatcher, CloseRawQueue, JoinWorker, Finish, schedVars
<1>10. CASE \/ \E d \in Push : PushBatch(d)
            \/ WorkerStep \/ ServiceStep
            \/ \E r \in Request : SubmitControl(r) \/ SubmitToDispatcher(r)
  BY <1>4, <1>10 DEF PushBatch, WorkerStep, PopBatch, Process, Publish, ServiceStep,
     FinishControl, ServeControl, SubmitControl, SubmitToDispatcher, schedVars
<1>11. CASE UNCHANGED vars
  BY <1>4, <1>11 DEF vars, schedVars
<1> QED BY <1>5, <1>6, <1>7, <1>8, <1>9, <1>10, <1>11 DEF Next, StartStep, DownStep, Terminated

(* start() does not come back to before it started the dispatcher, or the  *)
(* worker.                                                                 *)
LEMMA BeyondStep ==
  ASSUME RuntimeInv, [Next]_vars
  PROVE  /\ starting \notin BeforeDispatcher => starting' \notin BeforeDispatcher
         /\ starting \notin BeforeWorker => starting' \notin BeforeWorker
<1> USE DEF BeforeDispatcher, BeforeWorker
<1>1. down \in 0..14
  BY DEF RuntimeInv, RuntimeType, LifeType
<1>2. CASE StartStep
  <2>1. CASE \E k \in Kind : StartPlugin(k) \/ StartThrows(k) \/ PluginsStarted(k)
    BY <2>1 DEF StartPlugin, StartThrows, PluginsStarted, Unwind, NextStart, Kind
  <2>2. CASE StartDispatcher \/ StartWorker \/ AcceptControls \/ StartScheduler
    BY <2>2 DEF StartDispatcher, StartWorker, AcceptControls, StartScheduler, Unwind, NextStart
  <2> QED BY <1>2, <2>1, <2>2 DEF StartStep
<1>3. CASE StartCall \/ (\E s \in Stopper : StopCall(s)) \/ Finish
  BY <1>3 DEF StartCall, StopCall, FirstStop, Finish
<1>4. CASE Advance \/ StopPlugin
  BY <1>1, <1>4, AdvanceLemma, StopPluginLemma
<1>5. CASE ThreadStep \/ UNCHANGED vars
  BY <1>5, ThreadStepLemma DEF vars, mainVars
<1> QED BY <1>2, <1>3, <1>4, <1>5, NextLemma

(* The dispatcher exists only after the drivers are started, and nothing   *)
(* is left in it once it is joined.                                        *)
LEMMA DispatcherInvStep ==
  ASSUME RuntimeInv, [Next]_vars
  PROVE  DispatcherType' /\ DispatcherInv'
<1> USE DEF DispatcherType
<1>1. /\ DispatcherType /\ DispatcherInv /\ down \in 0..14
      /\ starting \in StartRun => down = 0 /\ ~stopped
      /\ stopped => down = 0
  BY DEF RuntimeInv, RuntimeType, LifeType, LifeInv
<1>2. /\ phase # "new" => starting' \notin BeforeDispatcher
      /\ phase # "new" => \A i \in 1..ND : plugin'["drv"][i] \notin {"new", "failed"}
  BY <1>1, BeyondStep, GoodStep, NumberLemma DEF DispatcherInv, Kind, BeforeDispatcher
<1>3. /\ Past(4)' => Past(4) \/ (down = 4 /\ CloseDispatcher)
      /\ Past(6)' => Past(6) \/ (down = 6 /\ JoinDispatcher)
  BY <1>1, PastStep, PhaseEnd
<1>4. ASSUME UNCHANGED phase, DispatcherType',
             serving' # Nobody \/ waiting' # <<>> => phase \in {"open", "closed"},
             driver' # 0 => serving' # Nobody
      PROVE  DispatcherInv'
  <2>1. phase = "open" => ~Past(4)'
    BY <1>1, <1>3, <1>4 DEF DispatcherInv, CloseDispatcher, Dispatcher!Close
  <2>2. phase = "closed" => ~Past(6)'
    BY <1>1, <1>3, <1>4 DEF DispatcherInv, JoinDispatcher, Dispatcher!Stop
  <2> QED BY <1>2, <1>4, <2>1, <2>2 DEF DispatcherInv
<1>5. CASE UNCHANGED <<phase, waiting, serving, driver>>
  BY <1>1, <1>4, <1>5 DEF DispatcherInv
<1>6. CASE StartDispatcher
  <2>1. CASE Dispatcher!Open
    <3>1. \A i \in 1..ND : plugin'["drv"][i] \notin {"new", "failed"}
      BY <1>6, DriversStarted DEF StartDispatcher, AfterDrivers
    <3>2. phase' = "open" /\ UNCHANGED <<waiting, serving, driver>>
      BY <1>6, <2>1 DEF StartDispatcher, Dispatcher!Open
    <3>3. ~Past(4)'
      <4>1. down = 0 /\ ~stopped
        BY <1>1, <1>6 DEF StartDispatcher, StartRun
      <4>2. ~CloseDispatcher
        BY <1>1, <4>1, DownLemma DEF CloseDispatcher
      <4> QED BY <1>3, <4>1, <4>2 DEF Past
    <3>4. starting' \notin BeforeDispatcher
      BY <1>6, <3>2 DEF StartDispatcher, BeforeDispatcher, Unwind, NextStart
    <3> QED BY <1>1, <3>1, <3>2, <3>3, <3>4 DEF DispatcherInv
  <2>2. CASE UNCHANGED <<phase, waiting, serving, driver>>
    BY <1>5, <2>2
  <2> QED BY <1>6, <2>1, <2>2 DEF StartDispatcher
<1>7. CASE CloseDispatcher
  <2>1. CASE phase # "new" /\ Dispatcher!Close
    <3>1. phase' = "closed" /\ UNCHANGED <<waiting, serving, driver>>
      BY <1>7, <2>1 DEF CloseDispatcher, Dispatcher!Close
    <3>2. ~Past(6)'
      <4>1. down = 4 /\ ~stopped
        BY <1>1, <1>7, DownLemma DEF CloseDispatcher
      <4> QED BY <1>3, <4>1 DEF Past
    <3> QED BY <1>1, <1>2, <2>1, <3>1, <3>2 DEF DispatcherInv
  <2>2. CASE UNCHANGED <<phase, waiting, serving, driver>>
    BY <1>5, <2>2
  <2> QED BY <1>7, <2>1, <2>2 DEF CloseDispatcher
<1>8. CASE JoinDispatcher
  <2>1. CASE phase # "new" /\ Dispatcher!Stop
    BY <1>1, <1>2, <1>8, <2>1 DEF JoinDispatcher, Dispatcher!Stop, DispatcherInv
  <2>2. CASE UNCHANGED <<phase, waiting, serving, driver>>
    BY <1>5, <2>2
  <2> QED BY <1>8, <2>1, <2>2 DEF JoinDispatcher
<1>9. CASE CancelPending
  <2>1. waiting # <<>> /\ waiting' \in {waiting, Tail(waiting)}
        /\ UNCHANGED <<phase, serving, driver>>
    BY <1>9 DEF CancelPending, Dispatcher!Cancel, Dispatcher!LetGoCancelled
  <2>2. DispatcherType'
    BY <1>1, <2>1
  <2> QED BY <1>1, <1>4, <2>1, <2>2 DEF DispatcherInv
<1>10. ASSUME NEW r \in Request, SubmitToDispatcher(r) PROVE DispatcherType' /\ DispatcherInv'
  <2>1. CASE Dispatcher!Accept(r)
    <3>1. phase = "open" /\ waiting' = Append(waiting, r) /\ UNCHANGED <<phase, serving, driver>>
      BY <1>10, <2>1 DEF SubmitToDispatcher, Dispatcher!Accept
    <3>2. DispatcherType'
      BY <1>1, <3>1
    <3> QED BY <1>1, <1>4, <3>1, <3>2 DEF DispatcherInv
  <2>2. CASE Dispatcher!Refuse(r)
    BY <1>5, <1>10, <2>2 DEF SubmitToDispatcher, Dispatcher!Refuse
  <2> QED BY <1>10, <2>1, <2>2 DEF SubmitToDispatcher
<1>11. ASSUME NEW d \in 0..ND, ServeControl(d) PROVE DispatcherType' /\ DispatcherInv'
  <2>1. /\ phase \in {"open", "closed"} /\ waiting # <<>> /\ serving' = Head(waiting)
        /\ waiting' = Tail(waiting) /\ driver' = d /\ UNCHANGED phase
    BY <1>11 DEF ServeControl, Dispatcher!Serve
  <2>2. serving' \in Request /\ waiting' \in Seq(Request)
    BY <1>1, <2>1
  <2>3. serving' # Nobody
    BY <2>2, RuntimeAssumption DEF RuntimeAssumption
  <2>4. DispatcherType'
    BY <1>1, <2>1, <2>2
  <2> QED BY <1>4, <2>1, <2>3, <2>4
<1>12. CASE FinishControl
  <2>1. /\ serving # Nobody /\ serving' \in {serving, Nobody} /\ driver' = 0
        /\ UNCHANGED <<phase, waiting>>
    BY <1>12 DEF FinishControl, Dispatcher!Report, Dispatcher!LetGo
  <2>2. DispatcherType'
    BY <1>1, <2>1, NumberLemma
  <2> QED BY <1>1, <1>4, <2>1, <2>2 DEF DispatcherInv
<1>13. CASE \/ StartCall \/ StartWorker \/ AcceptControls \/ StartScheduler
            \/ \E k \in Kind : StartPlugin(k) \/ StartThrows(k) \/ PluginsStarted(k)
  BY <1>5, <1>13 DEF StartCall, StartScheduler, StartWorker, AcceptControls, StartPlugin,
                    StartThrows, PluginsStarted, ctlVars
<1>14. CASE \/ \E s \in Stopper : StopCall(s)
            \/ LoopDone \/ RequestStopSource \/ StopSource \/ StopDriver \/ StopPublisher
            \/ RequestStopScheduler \/ JoinScheduler
            \/ CancelDone \/ CloseRawQueue \/ JoinWorker \/ Finish
  BY <1>5, <1>14 DEF StopCall, FirstStop, LoopDone, RequestStopSource, StopSource, StopDriver,
     StopPublisher, SetPlugin, RequestStopScheduler, JoinScheduler,
     CancelDone, CloseRawQueue, JoinWorker, Finish, ctlVars
<1>15. CASE \/ \E d \in Push : PushBatch(d)
            \/ \E d \in 1..ND \ Push : PollBegin(d)
            \/ SchedulerStep \/ WorkerStep
            \/ \E r \in Request : SubmitControl(r)
  BY <1>5, <1>15 DEF PushBatch, PollBegin, SchedulerStep, PollEnd, SchedulerExit, WorkerStep,
     PopBatch, Process, Publish, SubmitControl, ctlVars
<1>16. CASE UNCHANGED vars
  BY <1>5, <1>16 DEF vars, ctlVars
<1> QED BY <1>6, <1>7, <1>8, <1>9, <1>10, <1>11, <1>12, <1>13, <1>14, <1>15, <1>16
        DEF Next, StartStep, DownStep, ServiceStep, Terminated

(* Whoever can produce a batch finds the raw queue open.                   *)
LEMMA ProducersFindItOpen ==
  ASSUME RuntimeInv, (\E d \in Push : PushBatch(d)) \/ PollEnd
  PROVE  ~rawClosed
<1>1. rawClosed => Past(11)
  BY DEF RuntimeInv, WorkerInv
<1>2. ASSUME NEW d \in Push, PushBatch(d) PROVE ~Past(11)
  <2>1. plugin["drv"][d] \notin Calm /\ d \in 1..ND
    BY <1>2, RuntimeAssumption DEF PushBatch, Calm, RuntimeAssumption
  <2>2. ~Past(8) \/ ~Past(10)
    BY <2>1 DEF RuntimeInv, StopInv, DriverStopInv
  <2>3. down \in Nat
    BY DEF RuntimeInv, RuntimeType, LifeType
  <2> QED BY <2>2, <2>3 DEF Past
<1>3. CASE PollEnd
  <2>1. ~Past(3)
    BY <1>3 DEF PollEnd, RuntimeInv, SchedulerInv
  <2>2. down \in Nat
    BY DEF RuntimeInv, RuntimeType, LifeType
  <2> QED BY <1>1, <2>1, <2>2 DEF Past
<1> QED BY <1>1, <1>2, <1>3

(* The processing worker exists only after the publishers are started, and *)
(* ends when the closed queue is empty.                                    *)
LEMMA WorkerInvStep ==
  ASSUME RuntimeInv, [Next]_vars
  PROVE  /\ WorkerType' /\ WorkerInv'
         /\ RawType' /\ RawInv'
<1> USE DEF WorkerType, RawType
<1>1. /\ WorkerType /\ WorkerInv /\ RawType /\ RawInv /\ down \in 0..14
      /\ starting \in StartRun => down = 0 /\ ~stopped
  BY DEF RuntimeInv, RuntimeType, LifeType, LifeInv
<1>2. /\ proc # "none" => starting' \notin BeforeWorker
      /\ proc # "none" => \A i \in 1..NP : plugin'["pub"][i] \notin {"new", "failed"}
  BY <1>1, BeyondStep, GoodStep, NumberLemma DEF WorkerInv, Kind, BeforeWorker
<1>3. /\ Past(12)' => Past(12) \/ (down = 12 /\ JoinWorker)
      /\ Past(11) => Past(11)'
  BY <1>1, PastStep, PhaseEnd
<1>4. proc \in {"wait", "process", "publish"} => ~Past(12)'
  BY <1>1, <1>3 DEF JoinWorker, WorkerInv
<1>5. CASE UNCHANGED <<proc, publisher, raw, rawClosed, rawStats>>
  BY <1>1, <1>2, <1>3, <1>4, <1>5 DEF WorkerInv, RawInv
<1>6. ASSUME ~rawClosed, TryPush, UNCHANGED <<proc, publisher, rawClosed>>
      PROVE  WorkerType' /\ WorkerInv' /\ RawType' /\ RawInv'
  <2>1. \/ rawStats' = [rawStats EXCEPT !.full = @ + 1] /\ UNCHANGED raw
        \/ rawStats' = [rawStats EXCEPT !.accepted = @ + 1] /\ raw' = raw + 1
    BY <1>6 DEF TryPush
  <2>2. RawType'
    BY <1>1, <1>6, <2>1
  <2>3. RawInv'
    BY <1>1, <1>6, <2>1 DEF RawInv
  <2>4. WorkerInv'
    BY <1>1, <1>2, <1>3, <1>4, <1>6 DEF WorkerInv
  <2> QED BY <1>1, <1>6, <2>2, <2>3, <2>4
<1>7. CASE (\E d \in Push : PushBatch(d)) \/ PollEnd
  BY <1>5, <1>6, <1>7, ProducersFindItOpen DEF PushBatch, PollEnd, procVars
<1>8. CASE StartWorker
  <2>1. CASE proc' = "wait" /\ UNCHANGED <<publisher, raw, rawClosed, rawStats>>
    <3>1. \A i \in 1..NP : plugin'["pub"][i] \notin {"new", "failed"}
      BY <1>8, PublishersStarted DEF StartWorker, AfterPublishers
    <3>2. ~Past(12)'
      <4>1. down = 0 /\ ~stopped
        BY <1>1, <1>8 DEF StartWorker, StartRun
      <4> QED BY <1>3, <4>1 DEF Past
    <3>3. proc = "none"
      BY <1>1, <1>8 DEF StartWorker, WorkerInv, BeforeWorker
    <3>4. starting' \notin BeforeWorker
      BY <1>8 DEF StartWorker, BeforeWorker, Unwind, NextStart
    <3> QED BY <1>1, <1>3, <2>1, <3>1, <3>2, <3>3, <3>4 DEF WorkerInv, RawInv
  <2>2. CASE UNCHANGED <<proc, publisher, raw, rawClosed, rawStats>>
    BY <1>5, <2>2
  <2> QED BY <1>8, <2>1, <2>2 DEF StartWorker, rawVars
<1>9. CASE CloseRawQueue
  <2>1. rawClosed' = TRUE /\ UNCHANGED <<proc, publisher, raw, rawStats>>
    BY <1>9 DEF CloseRawQueue, procVars
  <2>2. Past(11)'
    <3>1. down = 11 /\ down' = 12
      BY <1>1, <1>9, DownLemma, NextPhaseLemma DEF CloseRawQueue
    <3> QED BY <3>1 DEF Past
  <2> QED BY <1>1, <1>2, <1>4, <2>1, <2>2 DEF WorkerInv, RawInv
<1>10. CASE PopBatch
  <2>1. /\ proc = "wait" /\ UNCHANGED <<rawClosed, rawStats, publisher>>
        /\ \/ raw > 0 /\ proc' = "process" /\ raw' = raw - 1
           \/ raw = 0 /\ rawClosed /\ proc' = "exited" /\ UNCHANGED raw
    BY <1>1, <1>10 DEF PopBatch, WaitPop
  <2> QED BY <1>1, <1>2, <1>3, <1>4, <2>1 DEF WorkerInv, RawInv
<1>11. ASSUME proc \in {"process", "publish"}, proc' = "wait", publisher' \in Nat,
              rawStats' = [rawStats EXCEPT !.handled = @ + 1], UNCHANGED <<raw, rawClosed>>
       PROVE  WorkerType' /\ WorkerInv' /\ RawType' /\ RawInv'
  BY <1>1, <1>2, <1>3, <1>4, <1>11 DEF WorkerInv, RawInv
<1>12. ASSUME proc \in {"process", "publish"}, proc' = "publish", publisher' \in 1..NP,
              UNCHANGED <<raw, rawClosed, rawStats>>
       PROVE  WorkerType' /\ WorkerInv' /\ RawType' /\ RawInv'
  BY <1>1, <1>2, <1>3, <1>4, <1>12, NumberLemma DEF WorkerInv, RawInv
<1>13. CASE Process
  <2>1. CASE NP > 0 /\ proc' = "publish" /\ publisher' = 1 /\ UNCHANGED rawStats
    BY <1>12, <1>13, <2>1, NumberLemma DEF Process
  <2>2. CASE proc' = "wait" /\ rawStats' = [rawStats EXCEPT !.handled = @ + 1]
             /\ UNCHANGED publisher
    BY <1>1, <1>11, <1>13, <2>2 DEF Process
  <2> QED BY <1>13, <2>1, <2>2 DEF Process
<1>14. CASE Publish
  <2>1. CASE publisher < NP
    BY <1>1, <1>12, <1>14, <2>1, NumberLemma DEF Publish, WorkerInv
  <2>2. CASE ~(publisher < NP)
    BY <1>11, <1>14, <2>2 DEF Publish
  <2> QED BY <2>1, <2>2
<1>15. CASE \/ StartCall \/ StartDispatcher \/ AcceptControls \/ StartScheduler
            \/ \E k \in Kind : StartPlugin(k) \/ StartThrows(k) \/ PluginsStarted(k)
  BY <1>5, <1>15 DEF StartCall, StartScheduler, StartDispatcher, AcceptControls, StartPlugin,
                    StartThrows, PluginsStarted, procVars, rawVars
<1>16. CASE \/ \E s \in Stopper : StopCall(s)
            \/ LoopDone \/ RequestStopSource \/ StopSource \/ StopDriver \/ StopPublisher
            \/ RequestStopScheduler \/ JoinScheduler \/ CloseDispatcher \/ CancelPending
            \/ CancelDone \/ JoinDispatcher \/ JoinWorker \/ Finish
  BY <1>5, <1>16 DEF StopCall, FirstStop, LoopDone, RequestStopSource, StopSource, StopDriver,
     StopPublisher, SetPlugin, RequestStopScheduler, JoinScheduler, CloseDispatcher,
     CancelPending, CancelDone, JoinDispatcher, JoinWorker, Finish, procVars, rawVars
<1>17. CASE \/ \E d \in 1..ND \ Push : PollBegin(d)
            \/ SchedulerExit \/ ServiceStep
            \/ \E r \in Request : SubmitControl(r) \/ SubmitToDispatcher(r)
  BY <1>5, <1>17 DEF PollBegin, SchedulerExit, ServiceStep, FinishControl, ServeControl,
     SubmitControl, SubmitToDispatcher, procVars, rawVars
<1>18. CASE UNCHANGED vars
  BY <1>5, <1>18 DEF vars, procVars, rawVars
<1> QED BY <1>7, <1>8, <1>9, <1>10, <1>13, <1>14, <1>15, <1>16, <1>17, <1>18
        DEF Next, StartStep, DownStep, SchedulerStep, WorkerStep, Terminated

-----------------------------------------------------------------------------
(* Theorems *)

(* The invariant of the runtime: who is in start() and who shuts down, the *)
(* counted slots, the order of stopping and the lifetime of each thread.   *)
THEOREM RuntimeInvariant == Spec => []RuntimeInv
<1>1. Init => RuntimeInv
  <2> SUFFICES ASSUME Init PROVE RuntimeInv
    OBVIOUS
  <2> USE RuntimeAssumption DEF RuntimeAssumption, Init
  <2>1. LifeType /\ LifeInv
    <3>1. stopper \in [Stopper -> {"idle", "running", "waiting", "returned", "ignored"}]
          /\ \A s \in Stopper : stopper[s] # "returned"
      OBVIOUS
    <3>2. /\ started \in BOOLEAN /\ stopping \in BOOLEAN /\ stopped \in BOOLEAN
          /\ unwinding \in BOOLEAN
      BY Zenon
    <3>3. /\ lifecycle \in {Starter, Nobody} /\ down \in 0..14
          /\ starting \in StartRun \cup {"idle", "returned", "unwinding", "threw"}
      OBVIOUS
    <3>4. LifeType
      BY <3>1, <3>2, <3>3, Zenon DEF LifeType
    <3> QED BY <3>1, <3>4 DEF LifeInv, StartRun
  <2>2. /\ index = 1 /\ starting = "idle" /\ down = 0 /\ ~stopped
        /\ \A k \in Kind : slots[k] = 0
        /\ \A k \in Kind : \A i \in 1..Number[k] : plugin[k][i] = "new"
    OBVIOUS
  <2>3. LoopType
    <3>1. \A k \in Kind : plugin[k] \in [1..Number[k] -> PluginState]
      BY DEF PluginState
    <3>2. plugin \in [Kind -> UNION {[1..Number[k] -> PluginState] : k \in Kind}]
      BY <3>1
    <3> QED BY <3>1, <3>2 DEF LoopType
  <2>4. SlotInv
    BY <2>2, NumberLemma DEF SlotInv, Kind, AfterPublishers, AfterDrivers
  <2>5. StopInv /\ FailInv
    BY <2>2, NumberLemma
       DEF StopInv, SourceStopInv, DriverStopInv, PublisherStopInv, FailInv, Past, Kind
  <2>6. SchedulerType /\ SchedulerInv
    BY DEF SchedulerType, SchedulerInv
  <2>7. DispatcherType /\ DispatcherInv
    BY DEF DispatcherType, DispatcherInv, Dispatcher!Init
  <2>8. WorkerType /\ WorkerInv
    BY DEF WorkerType, WorkerInv
  <2>9. RawType /\ RawInv
    <3>1. rawStats = [accepted |-> 0, full |-> 0, stopping |-> 0, handled |-> 0]
          /\ raw = 0 /\ proc = "none"
      OBVIOUS
    <3>2. rawStats \in [accepted: Nat, full: Nat, stopping: Nat, handled: Nat]
      BY <3>1
    <3>3. rawClosed \in BOOLEAN
      BY Zenon
    <3>4. RawInv
      BY <3>1 DEF RawInv
    <3> QED BY <3>1, <3>2, <3>3, <3>4 DEF RawType
  <2> QED BY <2>1, <2>3, <2>4, <2>5, <2>6, <2>7, <2>8, <2>9 DEF RuntimeInv, RuntimeType
<1>2. RuntimeInv /\ [Next]_vars => RuntimeInv'
  <2> SUFFICES ASSUME RuntimeInv, [Next]_vars PROVE RuntimeInv'
    OBVIOUS
  <2>1. LifeType' /\ LifeInv' /\ LoopType' /\ SlotInv'
    BY LifeStep, LoopStep
  <2>2. StopInv' /\ FailInv'
    BY StopStep, FailStep
  <2>3. SchedulerType' /\ SchedulerInv' /\ DispatcherType' /\ DispatcherInv'
    BY SchedulerInvStep, DispatcherInvStep
  <2>4. WorkerType' /\ WorkerInv' /\ RawType' /\ RawInv'
    BY WorkerInvStep
  <2> QED BY <2>1, <2>2, <2>3, <2>4 DEF RuntimeInv, RuntimeType
<1> QED BY <1>1, <1>2, PTL DEF Spec

(* A driver is polled or controlled only between its start() and stop():   *)
(* stop() and the rollback of start() join the scheduler and the           *)
(* dispatcher before they stop a driver.                                   *)
THEOREM DriversCalledWhileStarted == Spec => []DriverCallsLive
<1>1. RuntimeInv => DriverCallsLive
  <2> SUFFICES ASSUME RuntimeInv PROVE DriverCallsLive
    OBVIOUS
  <2>1. down \in Nat /\ polled \in 0..ND /\ driver \in 0..ND /\ "drv" \in Kind
    BY DEF RuntimeInv, RuntimeType, LifeType, SchedulerType, DispatcherType, Kind
  <2>2. ASSUME NEW d \in 1..ND, ~Past(7), plugin["drv"][d] \notin {"new", "failed"}
        PROVE  plugin["drv"][d] = "started"
    <3>1. plugin["drv"][d] \notin {"stopped", "stopping"}
      BY <2>2 DEF RuntimeInv, StopInv, DriverStopInv
    <3>2. plugin["drv"] \in [1..ND -> PluginState]
      BY NumberLemma DEF RuntimeInv, RuntimeType, LoopType, Kind
    <3> QED BY <2>2, <3>1, <3>2 DEF PluginState
  <2>3. ASSUME polled # 0 PROVE plugin["drv"][polled] = "started"
    <3>1. starting = "returned" /\ ~Past(3)
      BY <2>3 DEF RuntimeInv, SchedulerInv
    <3>2. ~Past(7)
      BY <2>1, <3>1 DEF Past
    <3> QED BY <2>1, <2>2, <2>3, <3>1, <3>2, DriversStarted DEF AfterDrivers
  <2>4. ASSUME driver # 0 PROVE plugin["drv"][driver] = "started"
    <3>1. phase \in {"open", "closed"}
      BY <2>4 DEF RuntimeInv, DispatcherInv
    <3>2. ~Past(4) \/ ~Past(6)
      BY <3>1 DEF RuntimeInv, DispatcherInv
    <3>3. ~Past(7)
      BY <2>1, <3>2 DEF Past
    <3>4. plugin["drv"][driver] \notin {"new", "failed"}
      BY <2>1, <2>4, <3>1 DEF RuntimeInv, DispatcherInv
    <3> QED BY <2>1, <2>2, <2>4, <3>3, <3>4
  <2> QED BY <2>3, <2>4 DEF DriverCallsLive
<1> QED BY <1>1, RuntimeInvariant, PTL

(* publish() is called only between start() and stop() of the publisher:   *)
(* publishers start before the processing worker and stop after it is      *)
(* joined.                                                                 *)
THEOREM PublishersCalledWhileStarted == Spec => []PublisherCallsLive
<1>1. RuntimeInv => PublisherCallsLive
  <2> SUFFICES ASSUME RuntimeInv, proc = "publish" PROVE plugin["pub"][publisher] = "started"
    BY DEF PublisherCallsLive
  <2>1. /\ publisher \in 1..NP /\ ~Past(12)
        /\ plugin["pub"][publisher] \notin {"new", "failed"}
    BY DEF RuntimeInv, WorkerInv
  <2>2. plugin["pub"][publisher] \notin {"stopped", "stopping"}
    BY <2>1 DEF RuntimeInv, StopInv, PublisherStopInv
  <2>3. plugin["pub"] \in [1..NP -> PluginState]
    BY NumberLemma DEF RuntimeInv, RuntimeType, LoopType, Kind
  <2> QED BY <2>1, <2>2, <2>3 DEF PluginState
<1> QED BY <1>1, RuntimeInvariant, PTL

(* No completion callback reaches a source that has been stopped: the      *)
(* dispatcher is joined, and holds no request, before a source is stopped. *)
THEOREM SourcesOutliveTheirRequests == Spec => []SourceCallbacksLive
<1>1. RuntimeInv => SourceCallbacksLive
  <2> SUFFICES ASSUME RuntimeInv, NEW r \in Request,
                      r = serving \/ \E i \in 1..Len(waiting) : waiting[i] = r,
                      Origin[r] # 0
               PROVE  plugin["src"][Origin[r]] # "stopped"
    BY DEF SourceCallbacksLive
  <2>1. serving # Nobody \/ waiting # <<>>
    BY RuntimeAssumption DEF RuntimeAssumption
  <2>2. down \in Nat
    BY DEF RuntimeInv, RuntimeType, LifeType
  <2>3. ~Past(6)
    BY <2>1, <2>2 DEF RuntimeInv, DispatcherInv, Past
  <2>4. Origin[r] \in 1..NS
    BY RuntimeAssumption DEF RuntimeAssumption
  <2> QED BY <2>3, <2>4 DEF RuntimeInv, StopInv, SourceStopInv
<1> QED BY <1>1, RuntimeInvariant, PTL

(* No batch is refused because of the shutdown: the raw queue is closed    *)
(* only when no poll is in progress and no push driver is active.          *)
THEOREM StopRefusesNoBatch == Spec => []NoBatchRefusedByStop
<1>1. RuntimeInv => NoBatchRefusedByStop
  BY DEF RuntimeInv, RawInv, NoBatchRefusedByStop
<1> QED BY <1>1, RuntimeInvariant, PTL

(* When stop() has run and the processing worker existed, every batch that *)
(* the raw queue accepted has been processed.                              *)
THEOREM StopDrainsTheQueue == Spec => []Drained
<1>1. RuntimeInv => Drained
  <2> SUFFICES ASSUME RuntimeInv, stopped, proc # "none"
               PROVE  raw = 0 /\ rawStats.handled = rawStats.accepted
    BY DEF Drained
  <2>1. proc = "exited"
    BY DEF RuntimeInv, RuntimeType, WorkerType, WorkerInv, Past
  <2> QED BY <2>1 DEF RuntimeInv, RuntimeType, RawType, WorkerInv, RawInv
<1> QED BY <1>1, RuntimeInvariant, PTL

(* When stop() has returned to any caller, or start() has thrown, every    *)
(* plugin whose start() was called is stopped and the threads are gone.    *)
THEOREM StopLeavesNothing == Spec => []StopIsComplete
<1>1. RuntimeInv => StopIsComplete
  <2> SUFFICES ASSUME RuntimeInv,
                      starting = "threw" \/ \E s \in Stopper : stopper[s] = "returned"
               PROVE  /\ stopped
                      /\ \A k \in Kind : \A i \in 1..Number[k] : plugin[k][i] \in {"new", "stopped"}
                      /\ sched \in {"none", "exited"} /\ proc \in {"none", "exited"}
                      /\ phase \in {"new", "stopped"}
    BY DEF StopIsComplete
  <2>1. stopped
    BY DEF RuntimeInv, LifeInv
  <2>2. \A n \in Nat : Past(n)
    BY <2>1 DEF Past
  <2>3. /\ \A i \in 1..NS : plugin["src"][i] \in {"new", "stopped"}
        /\ \A i \in 1..ND : plugin["drv"][i] \in {"new", "stopped"}
        /\ \A i \in 1..NP : plugin["pub"][i] \in {"new", "stopped"}
    BY <2>2 DEF RuntimeInv, StopInv, SourceStopInv, DriverStopInv, PublisherStopInv, Calm
  <2>4. \A k \in Kind : \A i \in 1..Number[k] : plugin[k][i] \in {"new", "stopped"}
    BY <2>3, NumberLemma DEF Kind
  <2>5. sched \in {"none", "exited"} /\ proc \in {"none", "exited"} /\ phase \in {"new", "stopped"}
    BY <2>2 DEF RuntimeInv, RuntimeType, SchedulerType, SchedulerInv, WorkerType, WorkerInv,
                DispatcherType, DispatcherInv
  <2> QED BY <2>1, <2>4, <2>5
<1> QED BY <1>1, RuntimeInvariant, PTL

(* No plugin is started twice, stopped before its start(), or started once *)
(* stopped, however start(), its rollback and several stop() interleave.   *)
THEOREM PluginsGoForward == Spec => PluginLifecycle
<1> DEFINE A == \A k \in Kind : \A i \in 1..Number[k] :
       plugin'[k][i] # plugin[k][i] =>
         \/ plugin[k][i] = "new" /\ plugin'[k][i] = "started"
         \/ plugin[k][i] = "started" /\ plugin'[k][i] = "failed"
         \/ plugin[k][i] \in {"started", "failed", "stopping"}
              /\ plugin'[k][i] \in {"stopping", "stopped"}
<1>1. RuntimeInv /\ [Next]_vars => [A]_vars
  BY ForwardStep DEF Forward
<1> QED BY <1>1, RuntimeInvariant, PTL DEF Spec, PluginLifecycle

-----------------------------------------------------------------------------
(* Who runs the shutdown *)

(* by names the one thread that does, from the first phase to the last *)
ShutdownInv ==
  /\ \A s \in Stopper : stopper[s] = "running" <=> by = s
  /\ starting = "unwinding" <=> by = Starter
  /\ by \in Stopper \cup {Starter, Nobody}
  /\ by = Nobody <=> down = 0
  /\ \A s \in Stopper : stopper[s] = "waiting" => down > 0

(* The shutdown does not change hands.                                     *)
LEMMA SameShutdown ==
  ASSUME Advance \/ StopPlugin \/ ThreadStep
  PROVE  by' = by
<1> USE DEF shutVars
<1>1. CASE Advance
  BY <1>1 DEF Advance, LoopDone, RequestStopScheduler, JoinScheduler, CloseDispatcher,
              CancelDone, JoinDispatcher, CloseRawQueue, JoinWorker
<1>2. CASE StopPlugin
  BY <1>2 DEF StopPlugin, RequestStopSource, StopSource, StopDriver, StopPublisher, SetPlugin
<1>3. CASE ThreadStep
  <2>1. CASE \/ \E d \in Push : PushBatch(d)
             \/ \E d \in 1..ND \ Push : PollBegin(d)
    BY <2>1 DEF PushBatch, PollBegin
  <2>2. CASE SchedulerStep \/ WorkerStep
    BY <2>2 DEF SchedulerStep, PollEnd, SchedulerExit, WorkerStep, PopBatch, Process, Publish
  <2>3. CASE ServiceStep \/ CancelPending
    BY <2>3 DEF ServiceStep, FinishControl, ServeControl, CancelPending
  <2>4. CASE \E r \in Request : SubmitControl(r) \/ SubmitToDispatcher(r)
    BY <2>4 DEF SubmitControl, SubmitToDispatcher
  <2> QED BY <1>3, <2>1, <2>2, <2>3, <2>4 DEF ThreadStep
<1> QED BY <1>1, <1>2, <1>3

LEMMA StartOrUnwind ==
  ASSUME StartStep
  PROVE  (\E n : Unwind(n)) \/ (by' = by /\ starting' # "unwinding")
<1> USE DEF StartRun, NextStart, runVars, shutVars, Kind
<1>1. CASE \E k \in Kind : StartPlugin(k) \/ StartThrows(k) \/ PluginsStarted(k)
  BY <1>1 DEF StartPlugin, StartThrows, PluginsStarted
<1>2. CASE StartDispatcher \/ StartWorker
  BY <1>2 DEF StartDispatcher, StartWorker
<1>3. CASE AcceptControls \/ StartScheduler
  BY <1>3 DEF AcceptControls, StartScheduler
<1> QED BY <1>1, <1>2, <1>3 DEF StartStep

LEMMA ShutdownStep ==
  ASSUME RuntimeInv, ShutdownInv, [Next]_vars
  PROVE  ShutdownInv'
<1> USE RuntimeAssumption DEF RuntimeAssumption, ShutdownInv
<1>t. /\ stopper \in [Stopper -> {"idle", "running", "waiting", "returned", "ignored"}]
      /\ down \in 0..14 /\ (stopping <=> down > 0)
      /\ starting \in StartRun \cup {"idle"} => down = 0
      /\ starting = "unwinding" => unwinding
      /\ stopped => down = 0
      /\ unwinding => starting \in {"unwinding", "threw"}
      /\ starting = "threw" => stopped
  BY DEF RuntimeInv, RuntimeType, LifeType, LifeInv
<1>1. CASE StartCall
  <2>1. starting = "idle" /\ starting' = "pub" /\ UNCHANGED <<by, down, stopper>>
    BY <1>1 DEF StartCall, shutVars
  <2> QED BY <2>1
<1>2. CASE StartStep
  <2>1. starting \in StartRun /\ UNCHANGED stopper
    BY <1>2, StartStepLemma
  <2>2. down = 0 /\ by = Nobody /\ starting # "unwinding"
    BY <1>t, <2>1 DEF StartRun
  <2>3. CASE \E n : Unwind(n)
    <3>1. starting' = "unwinding" /\ by' = Starter /\ down' = 1
      BY <2>3 DEF Unwind
    <3> QED BY <2>1, <2>2, <3>1
  <2>4. CASE by' = by /\ starting' # "unwinding"
    <3>1. down' = down
      BY <1>2, <2>4, StartStepLemma DEF Unwind
    <3> QED BY <2>1, <2>2, <2>4, <3>1
  <2> QED BY <1>2, <2>3, <2>4, StartOrUnwind
<1>3. ASSUME NEW s \in Stopper, StopCall(s) PROVE ShutdownInv'
  <2>1. stopper[s] = "idle" /\ starting' = starting
    BY <1>3 DEF StopCall
  <2>2. CASE FirstStop
    <3>1. /\ stopper' = [stopper EXCEPT ![s] = "running"] /\ down' = 1 /\ by' = s
      BY <1>3, <2>2 DEF StopCall
    <3>2. down = 0 /\ by = Nobody
      BY <1>t, <2>2 DEF FirstStop
    <3> QED BY <1>t, <2>1, <3>1, <3>2
  <2>3. CASE ~FirstStop
    <3>1. /\ stopper' = [stopper EXCEPT ![s] = IF ~started THEN "ignored"
                                               ELSE IF stopped THEN "returned" ELSE "waiting"]
          /\ UNCHANGED <<down, by>>
      BY <1>3, <2>3 DEF StopCall
    <3>2. started /\ ~stopped => down > 0
      BY <1>t, <2>3 DEF FirstStop
    <3> QED BY <1>t, <2>1, <3>1, <3>2
  <2> QED BY <2>2, <2>3
<1>4. CASE Advance
  <2>1. down \in 1..13 /\ down' = down + 1 /\ UNCHANGED <<starting, stopper>>
    BY <1>4, <1>t, AdvanceLemma, NextPhaseLemma
  <2> QED BY <1>4, <2>1, SameShutdown
<1>5. CASE StopPlugin
  <2>1. UNCHANGED <<starting, stopper, down>>
    BY <1>5, <1>t, StopPluginLemma
  <2> QED BY <1>5, <2>1, SameShutdown
<1>6. CASE Finish
  <2>1. /\ down = 14 /\ down' = 0 /\ by' = Nobody
        /\ starting' = (IF unwinding THEN "threw" ELSE starting)
        /\ stopper' = [s \in Stopper |-> IF s = by \/ stopper[s] = "waiting"
                                         THEN "returned" ELSE stopper[s]]
    BY <1>6, <1>t, DownLemma DEF Finish, WakeWaiting
  <2>2. \A s \in Stopper : stopper'[s] # "running" /\ stopper'[s] # "waiting"
    BY <2>1
  <2>3. starting' # "unwinding"
    BY <1>t, <2>1
  <2> QED BY <2>1, <2>2, <2>3
<1>7. CASE ThreadStep
  <2>1. UNCHANGED <<starting, stopper, down>>
    BY <1>7, ThreadStepLemma DEF mainVars
  <2> QED BY <1>7, <2>1, SameShutdown
<1>8. CASE UNCHANGED vars
  BY <1>8 DEF vars, shutVars
<1> QED BY <1>1, <1>2, <1>3, <1>4, <1>5, <1>6, <1>7, <1>8, NextLemma

(* One thread shuts the gateway down, for any number of calls of stop()    *)
(* and a start() that fails among them, and a stop() that waits waits for  *)
(* that thread: plugins are not stopped twice and no caller is left        *)
(* waiting for nobody (stop, and the catch block of start).                *)
THEOREM ShutdownIsSingle == Spec => []OneShutdown
<1>1. Init => ShutdownInv
  BY RuntimeAssumption DEF RuntimeAssumption, Init, ShutdownInv
<1>2. RuntimeInv /\ ShutdownInv /\ [Next]_vars => ShutdownInv'
  BY ShutdownStep
<1>3. RuntimeInv /\ ShutdownInv => OneShutdown
  <2> SUFFICES ASSUME RuntimeInv, ShutdownInv PROVE OneShutdown
    OBVIOUS
  <2>1. \A t \in ShuttingDown : t = by
    BY DEF ShuttingDown, ShutdownInv
  <2>2. ASSUME NEW s \in Stopper, stopper[s] = "waiting" PROVE by \in ShuttingDown
    <3>1. down > 0 /\ down \in 0..14
      BY <2>2 DEF ShutdownInv, RuntimeInv, RuntimeType, LifeType
    <3>2. by \in Stopper \/ by = Starter
      BY <3>1 DEF ShutdownInv
    <3> QED BY <3>2 DEF ShutdownInv, ShuttingDown
  <2> QED BY <2>1, <2>2 DEF OneShutdown
<1> QED BY <1>1, <1>2, <1>3, RuntimeInvariant, PTL DEF Spec
=============================================================================
