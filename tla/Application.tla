------------------------------ MODULE Application ------------------------------
(***************************************************************************)
(* main() of src/src/main.cpp: it loads the plugins of a configuration,    *)
(* creates them, hands them to a GatewayRuntime, starts it, waits for a    *)
(* signal or the end of run_duration, stops it and ends, or ends by an     *)
(* exception.  The model follows what each step does to the lifetime of    *)
(* plugin objects, adapters and libraries; what the runtime does while it  *)
(* runs is in GatewayRuntime.  Plugins are external: create_plugin may     *)
(* fail or throw, and so may configure() and start().                      *)
(***************************************************************************)
EXTENDS PluginRegistry

CONSTANTS
  Configs,       \* configurations: sequences of PluginSpec, in JSON order
  InProgram,     \* keys the program may register itself
  MaxDuration    \* bound on run_duration

KindRank == [driver |-> 1, processor |-> 2, publisher |-> 3, source |-> 4]

(* load_dynamic_plugins() and create() go through the four lists in turn *)
ASSUME ConfigAssumption ==
  /\ Configs \subseteq Seq(PluginSpec)
  /\ \A c \in Configs : \A i, j \in DOMAIN c :
       i < j => KindRank[c[i].kind] <= KindRank[c[j].kind]
  /\ InProgram \subseteq Key
  /\ MaxDuration \in Nat

VARIABLES
  config,
  pc,            \* where main() is
  next,          \* index of the loop main() is in
  inst,          \* inst[i]: the adapter of the i-th plugin
  library,       \* library[i]: the library_ of that adapter
  objects,       \* external: plugin objects that exist
  owner,         \* which object holds the adapters: "instances", "runtime"
  error,         \* the exception in flight
  shutdown_requested,
  run_duration,  \* 0: none
  elapsed        \* time since wait_for_shutdown() began

pluginVars == <<inst, library, objects, owner>>
waitVars == <<shutdown_requested, run_duration, elapsed>>
vars == <<registryVars, config, pc, next, pluginVars, error, waitVars>>

Plugin == DOMAIN config
Spec(i) == config[i]

NoError == [class |-> "none", from |-> "none"]

Init ==
  /\ RegistryInit
  /\ config \in Configs
  /\ pc = "register"
  /\ next = 1
  /\ inst = [i \in DOMAIN config |-> "none"]
  /\ library = [i \in DOMAIN config |-> NoPath]
  /\ objects = {}
  /\ owner = "instances"
  /\ error = NoError
  /\ shutdown_requested = FALSE
  /\ run_duration \in 0..MaxDuration
  /\ elapsed = 0

(* An exception leaves main()'s try block.  One that is no std::exception  *)
(* meets no handler and ends the program where it is.                      *)
Throw(class, from) ==
  /\ error' = [class |-> class, from |-> from]
  /\ pc' = IF class = "other" THEN "aborted" ELSE "unwind"

-----------------------------------------------------------------------------
(* load_dynamic_plugins() *)

(* A factory of the program itself, as the tests have; main() has none *)
Register ==
  /\ pc = "register"
  /\ \E k \in InProgram : RegisterFactory(k)
  /\ UNCHANGED <<config, pc, next, pluginVars, error, waitVars>>

Load ==
  /\ pc = "register"
  /\ BeginLoading
  /\ pc' = "load"
  /\ UNCHANGED <<config, next, pluginVars, error, waitVars>>

LoadEntry ==
  /\ pc = "load"
  /\ next \in Plugin
  /\ \/ /\ LoadNothing(Spec(next)) \/ LoadLibrary(Spec(next))
        /\ next' = next + 1
        /\ UNCHANGED <<pc, error>>
     \/ LoadThrows(Spec(next)) /\ Throw("host", "load") /\ UNCHANGED next
  /\ UNCHANGED <<config, pluginVars, waitVars>>

LoadReturn ==
  /\ pc = "load"
  /\ next \notin Plugin
  /\ pc' = "create"
  /\ next' = 1
  /\ UNCHANGED <<registryVars, config, pluginVars, error, waitVars>>

-----------------------------------------------------------------------------
(* create() *)

CreateSkips(s) == ~s.enabled

(* A disabled entry is passed over, an unknown type is an error *)
CreateEntry ==
  /\ pc = "create"
  /\ next \in Plugin
  /\ \/ /\ CreateSkips(Spec(next))
        /\ next' = next + 1
        /\ UNCHANGED <<pc, error>>
     \/ /\ ~CreateSkips(Spec(next)) /\ ~HasFactory(Spec(next))
        /\ Throw("host", "unknown type")
        /\ UNCHANGED next
     \/ /\ ~CreateSkips(Spec(next)) /\ HasFactory(Spec(next))
        /\ pc' = "factory"
        /\ UNCHANGED <<next, error>>
  /\ UNCHANGED <<registryVars, config, pluginVars, waitVars>>

FactoryLibrary == factories[KeyOf(Spec(next))]

(* dynamic_factory turns every exception of create_plugin into a           *)
(* std::runtime_error while the library is open                            *)
CreateError == {"host"}

(* create_plugin makes an object, or returns null or throws *)
FactoryCall ==
  /\ pc = "factory"
  /\ \/ objects' = objects \cup {next} /\ pc' = "adapter" /\ UNCHANGED error
     \/ \E c \in CreateError : Throw(c, "create") /\ UNCHANGED objects
  /\ UNCHANGED <<registryVars, config, next, inst, library, owner, waitVars>>

(* Mutant: the object is not destroyed when there is no memory for its     *)
(* adapter                                                                 *)
DropObject == UNCHANGED objects

DestroyObject == objects' = objects \ {next}

(* Mutant: the adapter has no handle of its own *)
AdapterBorrows(p) == UNCHANGED refs

(* The adapter copies the shared_ptr of the factory *)
AdapterRetains(p) == IF p = NoPath THEN UNCHANGED refs ELSE Retain(p, 1)

(* make_unique of the adapter *)
MakeAdapter ==
  /\ pc = "adapter"
  /\ \/ /\ inst' = [inst EXCEPT ![next] = "created"]
        /\ library' = [library EXCEPT ![next] = FactoryLibrary]
        /\ AdapterRetains(FactoryLibrary)
        /\ next' = next + 1
        /\ pc' = "create"
        /\ UNCHANGED <<objects, error>>
     \/ /\ DestroyObject
        /\ Throw("host", "create")
        /\ UNCHANGED <<inst, library, refs, next>>
  /\ UNCHANGED <<mapVars, dynamic_loading_called, registry, config, owner,
                 waitVars>>

(* The end of the registry's scope *)
CreateReturn ==
  /\ pc = "create"
  /\ next \notin Plugin
  /\ DestroyRegistry
  /\ pc' = "construct"
  /\ owner' = "runtime"
  /\ next' = 1
  /\ UNCHANGED <<config, inst, library, objects, error, waitVars>>

-----------------------------------------------------------------------------
(* The constructor of GatewayRuntime and start() *)

(* What configure() and start() of a plugin may throw *)
PluginError == {"host", "plugin", "other"}

OfKind(K) == {i \in Plugin : Spec(i).kind \in K}

Configure ==
  /\ pc = "construct"
  /\ next \in Plugin
  /\ \/ /\ IF inst[next] = "created" /\ Spec(next).kind # "processor"
           THEN inst' = [inst EXCEPT ![next] = "configured"]
           ELSE UNCHANGED inst
        /\ next' = next + 1
        /\ UNCHANGED <<pc, error>>
     \/ /\ inst[next] = "created" /\ Spec(next).kind # "processor"
        /\ \E c \in PluginError : Throw(c, "configure")
        /\ UNCHANGED <<inst, next>>
  /\ UNCHANGED <<registryVars, config, library, objects, owner, waitVars>>

(* A collection group belongs to a push driver *)
ValidateThrows ==
  /\ pc = "construct"
  /\ OfKind({"driver"}) # {}
  /\ \A i \in OfKind({"driver"}) : i < next
  /\ \A i \in OfKind({"publisher", "source"}) : inst[i] # "configured"
  /\ Throw("host", "validate")
  /\ UNCHANGED <<registryVars, config, next, pluginVars, waitVars>>

Constructed ==
  /\ pc = "construct"
  /\ next \notin Plugin
  /\ pc' = "start"
  /\ UNCHANGED <<registryVars, config, next, pluginVars, error, waitVars>>

StartRank == [publisher |-> 1, driver |-> 2, source |-> 3]

(* The first of the plugins in S, by the rank of its list *)
First(i, S, rank) ==
  i \in S /\ \A j \in S \ {i} :
    \/ rank[Spec(i).kind] < rank[Spec(j).kind]
    \/ Spec(i).kind = Spec(j).kind /\ i < j

(* The rollback stops the plugins that are started and the ones in S *)
RollBack(S) ==
  inst' = [j \in Plugin |-> IF inst[j] = "started" \/ j \in S THEN "stopped" ELSE inst[j]]

(* A plugin is started, or throws and everything is rolled back *)
StartPlugin ==
  /\ pc = "start"
  /\ \E i \in Plugin :
       /\ First(i, {j \in Plugin : inst[j] = "configured"}, StartRank)
       /\ \/ /\ inst' = [inst EXCEPT ![i] = "started"]
             /\ UNCHANGED <<pc, error>>
          \/ RollBack({i}) /\ \E c \in PluginError : Throw(c, "start")
  /\ UNCHANGED <<registryVars, config, next, library, objects, owner, waitVars>>

(* The dispatcher, the worker or the scheduler cannot be started *)
StartThrows ==
  /\ pc = "start"
  /\ \A i \in OfKind({"publisher", "driver"}) : inst[i] # "configured"
  /\ RollBack({})
  /\ Throw("host", "start")
  /\ UNCHANGED <<registryVars, config, next, library, objects, owner, waitVars>>

(* Mutant: signals that came before the wait are forgotten *)
BeginWaitReset == shutdown_requested' = FALSE

BeginWait == UNCHANGED shutdown_requested

Started ==
  /\ pc = "start"
  /\ \A i \in Plugin : inst[i] # "configured"
  /\ pc' = "wait"
  /\ BeginWait
  /\ UNCHANGED <<registryVars, config, next, pluginVars, error, run_duration,
                 elapsed>>

-----------------------------------------------------------------------------
(* wait_for_shutdown(), stop() and the end of the runtime's scope *)

Signal ==
  /\ pc \notin {"exit", "aborted"}
  /\ ~shutdown_requested
  /\ shutdown_requested' = TRUE
  /\ UNCHANGED <<registryVars, config, pc, next, pluginVars, error,
                 run_duration, elapsed>>

Sleep ==
  /\ pc = "wait"
  /\ ~shutdown_requested
  /\ elapsed < run_duration
  /\ elapsed' = elapsed + 1
  /\ UNCHANGED <<registryVars, config, pc, next, pluginVars, error,
                 shutdown_requested, run_duration>>

WaitReturn ==
  /\ pc = "wait"
  /\ shutdown_requested \/ (run_duration > 0 /\ elapsed >= run_duration)
  /\ pc' = "stop"
  /\ UNCHANGED <<registryVars, config, next, pluginVars, error, waitVars>>

Stop ==
  /\ pc = "stop"
  /\ inst' = [i \in Plugin |-> IF inst[i] = "started" THEN "stopped" ELSE inst[i]]
  /\ pc' = "unwind"
  /\ UNCHANGED <<registryVars, config, next, library, objects, owner, error,
                 waitVars>>

-----------------------------------------------------------------------------
(* Destructors, in the order of a scope that is left *)

(* The members of PluginInstances and of GatewayRuntime, last one first;   *)
(* the processors belong to pipeline_                                      *)
DestroyRank ==
  IF owner = "instances"
  THEN [source |-> 1, publisher |-> 2, processor |-> 3, driver |-> 4]
  ELSE [processor |-> 1, source |-> 2, publisher |-> 3, driver |-> 4]

Exists(i) == inst[i] \notin {"none", "gone"}

(* The body of an adapter's destructor: destroy_plugin begins *)
DestroyAdapter ==
  /\ pc = "unwind"
  /\ \E i \in Plugin :
       /\ First(i, {j \in Plugin : Exists(j)}, DestroyRank)
       /\ inst[i] # "destroying"
       /\ inst' = [inst EXCEPT ![i] = "destroying"]
  /\ UNCHANGED <<registryVars, config, pc, next, library, objects, owner,
                 error, waitVars>>

(* destroy_plugin ends, then the members go: library_ is released last *)
AdapterGone ==
  /\ pc = "unwind"
  /\ \E i \in Plugin :
       /\ inst[i] = "destroying"
       /\ inst' = [inst EXCEPT ![i] = "gone"]
       /\ objects' = objects \ {i}
       /\ IF library[i] = NoPath THEN UNCHANGED refs ELSE Release(library[i])
  /\ UNCHANGED <<mapVars, dynamic_loading_called, registry, config, pc, next,
                 library, owner, error, waitVars>>

(* create() or load_dynamic_plugins() has thrown: the registry's scope ends *)
UnwindRegistry ==
  /\ pc = "unwind"
  /\ ~\E i \in Plugin : Exists(i)
  /\ DestroyRegistry
  /\ UNCHANGED <<config, pc, next, pluginVars, error, waitVars>>

(* The handler prints error.what(), or main() returns *)
Unwound ==
  /\ pc = "unwind"
  /\ ~\E i \in Plugin : Exists(i)
  /\ registry = "gone"
  /\ pc' = IF error = NoError THEN "exit" ELSE "handler"
  /\ UNCHANGED <<registryVars, config, next, pluginVars, error, waitVars>>

Handler ==
  /\ pc = "handler"
  /\ pc' = "exit"
  /\ UNCHANGED <<registryVars, config, next, pluginVars, error, waitVars>>

Ended == pc \in {"exit", "aborted"}

Terminated == Ended /\ UNCHANGED vars

MainStep ==
  \/ Load \/ LoadEntry \/ LoadReturn
  \/ CreateEntry \/ FactoryCall \/ MakeAdapter \/ CreateReturn
  \/ Configure \/ ValidateThrows \/ Constructed \/ StartPlugin \/ StartThrows
  \/ Started \/ Sleep \/ WaitReturn \/ Stop
  \/ DestroyAdapter \/ AdapterGone \/ UnwindRegistry \/ Unwound \/ Handler

Next == Register \/ MainStep \/ Signal \/ Terminated

AppSpec == Init /\ [][Next]_vars

(* main() goes on, and the calls it makes return.  No signal has to come.  *)
FairAppSpec == AppSpec /\ WF_vars(MainStep)

-----------------------------------------------------------------------------
(* Properties *)

(* Plugin code runs only while its library is open: for create_plugin, for *)
(* every call through an adapter from its creation until destroy_plugin    *)
(* has returned, also after the registry is gone and on every error path.  *)
(* An exception object of a class of the plugin is the exception: it may   *)
(* leave configure() or start(), never create(), and main()'s handler      *)
(* reads it after the adapters are gone.                                   *)
PluginCodeMapped ==
  /\ pc \in {"factory", "adapter"} /\ FactoryLibrary # NoPath => Mapped(FactoryLibrary)
  /\ \A i \in Plugin : Exists(i) /\ library[i] # NoPath => Mapped(library[i])
  /\ error.class = "plugin" => error.from \in {"configure", "start"}

(* Every object that a plugin has created belongs to one adapter, or to    *)
(* the factory that is making one, and when main() ends normally or by its *)
(* handler nothing is left: no object, no handle of a library.             *)
NothingLeaks ==
  /\ objects = {i \in Plugin : Exists(i)}
               \cup (IF pc = "adapter" THEN {next} ELSE {})
  /\ pc = "exit" => \A p \in Path : refs[p] = 0

(* When load_dynamic_plugins() has returned, every plugin that create()    *)
(* will make has a factory, and it is one of the library its entry names,  *)
(* whatever other entries say: create() meets no unknown type.             *)
LoadResolvesConfig ==
  /\ pc = "create" => \A i \in Plugin :
       Spec(i).enabled =>
         /\ HasFactory(Spec(i))
         /\ Spec(i).library # NoPath => factories[KeyOf(Spec(i))] = Spec(i).library
  /\ error.from # "unknown type"

(* "Keep one shared library tied to one registry key so an implementation  *)
(* cannot accidentally be reinterpreted as a different plugin interface":  *)
(* no library makes plugins of two categories or types.                    *)
OneKeyPerLibrary ==
  \A k, l \in DOMAIN factories :
    factories[k] # NoPath /\ factories[l] # NoPath
      /\ File[factories[k]] = File[factories[l]] => k = l

(* main() ends once a signal has come, whenever that was, and it ends      *)
(* after run_duration.                                                     *)
ShutdownEnds == (shutdown_requested \/ run_duration > 0) ~> Ended
=============================================================================
