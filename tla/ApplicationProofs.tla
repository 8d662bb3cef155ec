--------------------------- MODULE ApplicationProofs ---------------------------
(***************************************************************************)
(* Proofs about main() and the plugin registry, for any configurations,    *)
(* types and library paths: every shared_ptr to a library is accounted for *)
(* on every path through main(), exceptions included.                      *)
(***************************************************************************)
EXTENDS Application, FiniteSetTheorems, TLAPS

-----------------------------------------------------------------------------
(* The inductive invariant *)

InRegistry == {"register", "load", "create", "factory", "adapter"}
InRuntime == {"construct", "start", "wait", "stop"}
InstState == {"none", "created", "configured", "started", "stopped", "destroying", "gone"}

(* The factories, and the adapters, that hold a handle of library p *)
Makers(p) == {k \in DOMAIN factories : factories[k] = p}
Users(p) == {i \in Plugin : Exists(i) /\ library[i] = p}

IsMap(m) == m = [k \in DOMAIN m |-> m[k]]

AppType ==
  /\ config \in Configs
  /\ pc \in InRegistry \cup InRuntime \cup {"unwind", "handler", "exit", "aborted"}
  /\ next \in 1..(Len(config) + 1)
  /\ inst \in [Plugin -> InstState]
  /\ library \in [Plugin -> Path \cup {NoPath}]
  /\ registry \in {"alive", "gone"}
  /\ refs \in [Path -> Int]

(* The maps of the registry *)
MapInv ==
  /\ IsMap(factories) /\ IsFiniteSet(DOMAIN factories)
  /\ \A k \in DOMAIN factories : factories[k] \in Path \cup {NoPath}
  /\ dynamic_plugins \subseteq Path
  /\ \A k \in DOMAIN dynamic_plugin_sources :
       k \in DOMAIN factories /\ factories[k] = dynamic_plugin_sources[k]

(* While entries are loaded, an open library belongs to a loaded type *)
OwnerInv ==
  pc \in {"register", "load"} =>
    \A p \in dynamic_plugins :
      /\ p \in DOMAIN dynamic_library_owners
      /\ dynamic_library_owners[p] \in DOMAIN dynamic_plugin_sources

(* Entry i has its factory *)
Resolved(i) ==
  Spec(i).enabled =>
    /\ HasFactory(Spec(i))
    /\ Spec(i).library # NoPath => factories[KeyOf(Spec(i))] = Spec(i).library

ResolveInv ==
  /\ pc = "register" => next = 1
  /\ pc = "load" => \A i \in Plugin : i < next => Resolved(i)
  /\ pc \in {"create", "factory", "adapter"} => \A i \in Plugin : Resolved(i)

(* Where main() is, and what exists *)
PhaseInv ==
  /\ pc \in InRegistry => registry = "alive"
  /\ pc \in InRuntime \cup {"handler", "exit"} => registry = "gone"
  /\ pc \in {"register", "load"} => \A i \in Plugin : inst[i] = "none"
  /\ pc \in {"create", "factory", "adapter"} =>
       \A i \in Plugin : i >= next => inst[i] = "none"
  /\ pc \in {"factory", "adapter"} => next \in Plugin /\ HasFactory(Spec(next))
  /\ pc \in {"handler", "exit"} => \A i \in Plugin : ~Exists(i)

ObjectInv ==
  objects = {i \in Plugin : Exists(i)} \cup (IF pc = "adapter" THEN {next} ELSE {})

(* Every handle of a library is one of the registry's or of an adapter's *)
RefInv ==
  \A p \in Path :
    refs[p] = (IF registry = "alive" THEN Holds(p) ELSE 0) + Cardinality(Users(p))

ErrorInv ==
  /\ error.class = "plugin" => error.from \in {"configure", "start"}
  /\ error.from # "unknown type"

AppInv == /\ AppType /\ MapInv /\ OwnerInv /\ ResolveInv /\ PhaseInv /\ ObjectInv
          /\ RefInv /\ ErrorInv

-----------------------------------------------------------------------------
(* Maps and handles *)

(* The entries of a configuration.                                         *)
LEMMA PluginLemma ==
  ASSUME config \in Configs
  PROVE  /\ Len(config) \in Nat /\ Plugin = 1..Len(config) /\ IsFiniteSet(Plugin)
         /\ \A i \in Plugin : Spec(i) \in PluginSpec
<1>1. config \in Seq(PluginSpec)
  BY ConfigAssumption DEF ConfigAssumption
<1>2. Len(config) \in Nat /\ Plugin = 1..Len(config)
  BY <1>1 DEF Plugin
<1>3. IsFiniteSet(Plugin)
  BY <1>2, FS_Interval
<1>4. \A i \in Plugin : Spec(i) \in PluginSpec
  BY <1>1, <1>2 DEF Spec
<1> QED BY <1>2, <1>3, <1>4

(* What emplace does to a map.                                             *)
LEMMA BindLemma ==
  ASSUME NEW m, NEW k, NEW v
  PROVE  /\ DOMAIN Bind(m, k, v) = DOMAIN m \cup {k}
         /\ Bind(m, k, v)[k] = v
         /\ \A x \in DOMAIN m \ {k} : Bind(m, k, v)[x] = m[x]
         /\ IsMap(Bind(m, k, v))
BY DEF Bind, IsMap

(* The sets of holders are finite.                                         *)
LEMMA HoldersLemma ==
  ASSUME config \in Configs, MapInv, NEW p
  PROVE  /\ IsFiniteSet(Makers(p)) /\ Cardinality(Makers(p)) \in Nat
         /\ IsFiniteSet(Users(p)) /\ Cardinality(Users(p)) \in Nat
         /\ Holds(p) = (IF p \in dynamic_plugins THEN 1 ELSE 0) + Cardinality(Makers(p))
         /\ Holds(p) \in Nat
<1>1. IsFiniteSet(Makers(p)) /\ Cardinality(Makers(p)) \in Nat
  <2>1. Makers(p) \in SUBSET (DOMAIN factories)
    BY DEF Makers
  <2>2. IsFiniteSet(Makers(p))
    BY <2>1, FS_Subset DEF MapInv
  <2> QED BY <2>2, FS_CardinalityType
<1>2. IsFiniteSet(Users(p)) /\ Cardinality(Users(p)) \in Nat
  <2>1. Users(p) \in SUBSET Plugin
    BY DEF Users
  <2>2. IsFiniteSet(Users(p))
    BY <2>1, PluginLemma, FS_Subset
  <2> QED BY <2>2, FS_CardinalityType
<1>3. Holds(p) = (IF p \in dynamic_plugins THEN 1 ELSE 0) + Cardinality(Makers(p))
  BY DEF Holds, Makers
<1>4. Holds(p) \in Nat
  BY <1>1, <1>3
<1> QED BY <1>1, <1>2, <1>3, <1>4

(* A new factory is one more holder of its library and of no other.        *)
LEMMA NewFactory ==
  ASSUME MapInv, NEW k, k \notin DOMAIN factories, NEW v, NEW p,
         factories' = Bind(factories, k, v)
  PROVE  Makers(p)' = IF v = p THEN Makers(p) \cup {k} ELSE Makers(p)
<1>1. /\ DOMAIN factories' = DOMAIN factories \cup {k}
      /\ factories'[k] = v
      /\ \A x \in DOMAIN factories : factories'[x] = factories[x]
  BY DEF Bind, MapInv
<1> QED BY <1>1 DEF Makers

(* The registry keeps its maps, and its factories go on resolving entries. *)
LEMMA SameMaps ==
  ASSUME UNCHANGED mapVars
  PROVE  /\ MapInv => MapInv'
         /\ \A p \in Path : Holds(p)' = Holds(p)
<1> USE DEF mapVars
<1>1. MapInv => MapInv'
  BY DEF MapInv, IsMap
<1>2. \A p \in Path : Holds(p)' = Holds(p)
  BY DEF Holds
<1> QED BY <1>1, <1>2

LEMMA SameResolved ==
  ASSUME UNCHANGED <<config, factories>>
  PROVE  /\ Plugin' = Plugin /\ Len(config') = Len(config)
         /\ \A i \in Plugin : /\ Spec(i)' = Spec(i)
                              /\ KeyOf(Spec(i))' = KeyOf(Spec(i))
                              /\ HasFactory(Spec(i))' = HasFactory(Spec(i))
                              /\ Resolved(i)' = Resolved(i)
BY DEF Plugin, Spec, Resolved, HasFactory, KeyOf

(* A step that leaves the registry alone and neither makes nor destroys an *)
(* adapter keeps every handle accounted for.                               *)
LEMMA SameHolders ==
  ASSUME AppInv, UNCHANGED <<registryVars, config, library>>,
         \A i \in Plugin : Exists(i)' = Exists(i)
  PROVE  MapInv' /\ RefInv' /\ {i \in Plugin : Exists(i)}' = {i \in Plugin : Exists(i)}
<1> USE DEF registryVars
<1>1. UNCHANGED mapVars
  OBVIOUS
<1>2. MapInv'
  BY <1>1, SameMaps DEF AppInv
<1>3. Plugin' = Plugin
  BY DEF Plugin
<1>4. {i \in Plugin : Exists(i)}' = {i \in Plugin : Exists(i)}
  BY <1>3
<1>5. \A p \in Path : Users(p)' = Users(p)
  BY <1>3 DEF Users
<1>6. \A p \in Path : Holds(p)' = Holds(p)
  BY <1>1, SameMaps
<1>7. RefInv'
  BY <1>5, <1>6 DEF RefInv, AppInv
<1> QED BY <1>2, <1>4, <1>7

(* A step that ends outside the registry's scope, and leaves the registry  *)
(* and the set of adapters alone.                                          *)
LEMMA QuietOutside ==
  ASSUME AppInv, UNCHANGED <<registryVars, config, library, objects>>,
         inst' \in [Plugin -> InstState], \A i \in Plugin : Exists(i)' = Exists(i),
         next' \in 1..(Len(config) + 1),
         pc # "adapter",
         pc' \in InRuntime \cup {"unwind", "handler", "exit", "aborted"},
         pc' \in InRuntime \cup {"handler", "exit"} => registry = "gone",
         pc' \in {"handler", "exit"} => \A i \in Plugin : ~Exists(i),
         ErrorInv'
  PROVE  AppInv'
<1>1. MapInv' /\ RefInv' /\ {i \in Plugin : Exists(i)}' = {i \in Plugin : Exists(i)}
  BY SameHolders
<1>2. Plugin' = Plugin /\ Len(config') = Len(config)
  BY DEF Plugin
<1>3. AppType'
  <2>1. /\ config' \in Configs
        /\ library' \in [Plugin -> Path \cup {NoPath}]
        /\ registry' \in {"alive", "gone"}
        /\ refs' \in [Path -> Int]
    BY DEF AppInv, AppType, registryVars
  <2>2. pc' \in InRegistry \cup InRuntime \cup {"unwind", "handler", "exit", "aborted"}
    OBVIOUS
  <2> QED BY <1>2, <2>1, <2>2, Zenon DEF AppType
<1>4. pc' \notin InRegistry
  BY DEF InRegistry, InRuntime
<1>5. OwnerInv' /\ ResolveInv'
  BY <1>4 DEF OwnerInv, ResolveInv, InRegistry
<1>6. PhaseInv'
  BY <1>2, <1>4 DEF PhaseInv, InRegistry, registryVars
<1>7. ObjectInv'
  BY <1>1, <1>4 DEF ObjectInv, AppInv, InRegistry
<1> QED BY <1>1, <1>3, <1>5, <1>6, <1>7 DEF AppInv

(* A step that changes nothing the invariant is about.                     *)
LEMMA Idle ==
  ASSUME AppInv, UNCHANGED <<registryVars, config, pc, next, pluginVars, error>>
  PROVE  AppInv'
<1> USE DEF pluginVars
<1>1. \A i \in Plugin : Exists(i)' = Exists(i)
  BY DEF Exists
<1>2. MapInv' /\ RefInv' /\ {i \in Plugin : Exists(i)}' = {i \in Plugin : Exists(i)}
  BY <1>1, SameHolders
<1>3. UNCHANGED <<config, factories>>
  BY DEF registryVars, mapVars
<1>4. AppType'
  BY <1>3, SameResolved DEF AppInv, AppType, registryVars
<1>5. OwnerInv'
  BY DEF AppInv, OwnerInv, registryVars, mapVars
<1>6. ResolveInv'
  BY <1>3, SameResolved DEF AppInv, ResolveInv
<1>7. PhaseInv'
  <2>1. Plugin' = Plugin /\ (next \in Plugin => HasFactory(Spec(next))' = HasFactory(Spec(next)))
    BY <1>3, SameResolved DEF HasFactory, KeyOf, Spec
  <2>2. registry' = registry
    BY DEF registryVars
  <2> QED BY <1>1, <2>1, <2>2 DEF AppInv, PhaseInv
<1>8. ObjectInv' /\ ErrorInv'
  BY <1>2 DEF AppInv, ObjectInv, ErrorInv
<1> QED BY <1>2, <1>4, <1>5, <1>6, <1>7, <1>8 DEF AppInv

LEMMA ThrowLemma ==
  ASSUME NEW class, NEW from, Throw(class, from),
         class = "plugin" => from \in {"configure", "start"},
         from # "unknown type"
  PROVE  ErrorInv' /\ pc' \in {"unwind", "aborted"}
BY DEF Throw, ErrorInv

-----------------------------------------------------------------------------
(* The runtime: what exists stays, whatever configure() and start() throw *)

LEMMA ConstructKeeps ==
  ASSUME AppInv, Configure \/ ValidateThrows \/ Constructed
  PROVE  AppInv'
<1> USE DEF InRuntime
<1>1. UNCHANGED <<registryVars, config, library, objects>> /\ pc = "construct"
  BY DEF Configure, ValidateThrows, Constructed, pluginVars
<1>2. registry = "gone" /\ next \in 1..(Len(config) + 1)
  BY <1>1 DEF AppInv, PhaseInv, AppType
<1>3. inst \in [Plugin -> InstState] /\ Len(config) \in Nat /\ Plugin = 1..Len(config)
  BY PluginLemma DEF AppInv, AppType
<1>4. CASE Configure
  <2>1. inst' \in [Plugin -> InstState] /\ \A i \in Plugin : Exists(i)' = Exists(i)
    BY <1>3, <1>4 DEF Configure, Exists, InstState
  <2>2. next' \in 1..(Len(config) + 1)
    BY <1>2, <1>3, <1>4 DEF Configure
  <2>3. ErrorInv' /\ pc' \in {"construct", "unwind", "aborted"}
    <3>1. CASE UNCHANGED <<pc, error>>
      BY <1>1, <3>1 DEF ErrorInv, AppInv
    <3>2. CASE \E c \in PluginError : Throw(c, "configure")
      BY <3>2, ThrowLemma
    <3> QED BY <1>4, <3>1, <3>2 DEF Configure
  <2> QED BY <1>1, <1>2, <2>1, <2>2, <2>3, QuietOutside
<1>5. CASE ValidateThrows \/ Constructed
  <2>1. UNCHANGED <<inst, next>>
    BY <1>5 DEF ValidateThrows, Constructed, pluginVars
  <2>2. inst' \in [Plugin -> InstState] /\ \A i \in Plugin : Exists(i)' = Exists(i)
    BY <1>3, <2>1 DEF Exists
  <2>3. ErrorInv' /\ pc' \in {"start", "unwind", "aborted"}
    <3>1. CASE ValidateThrows
      <4>1. Throw("host", "validate")
        BY <3>1 DEF ValidateThrows
      <4> QED BY <4>1, ThrowLemma
    <3>2. CASE Constructed
      BY <3>2 DEF Constructed, AppInv, ErrorInv
    <3> QED BY <1>5, <3>1, <3>2
  <2> QED BY <1>1, <1>2, <2>1, <2>2, <2>3, QuietOutside
<1> QED BY <1>4, <1>5

LEMMA StartKeeps ==
  ASSUME AppInv, StartPlugin \/ StartThrows \/ Started
  PROVE  AppInv'
<1> USE DEF InRuntime
<1>1. UNCHANGED <<registryVars, config, library, objects, next>> /\ pc = "start"
  BY DEF StartPlugin, StartThrows, Started, pluginVars
<1>2. registry = "gone" /\ next' \in 1..(Len(config) + 1)
  BY <1>1 DEF AppInv, PhaseInv, AppType
<1>3. inst \in [Plugin -> InstState]
  BY DEF AppInv, AppType
<1>4. inst' \in [Plugin -> InstState] /\ \A i \in Plugin : Exists(i)' = Exists(i)
  <2>1. CASE StartPlugin
    <3>1. PICK i \in Plugin :
            /\ inst[i] = "configured"
            /\ inst' = [inst EXCEPT ![i] = "started"] \/ RollBack({i})
      BY <2>1 DEF StartPlugin, First
    <3> QED BY <1>3, <3>1 DEF RollBack, Exists, InstState
  <2>2. CASE StartThrows
    BY <1>3, <2>2 DEF StartThrows, RollBack, Exists, InstState
  <2>3. CASE Started
    BY <1>3, <2>3 DEF Started, pluginVars, Exists
  <2> QED BY <2>1, <2>2, <2>3
<1>5. ErrorInv' /\ pc' \in {"start", "wait", "unwind", "aborted"}
  <2>1. CASE UNCHANGED error /\ pc' \in {"start", "wait"}
    BY <2>1 DEF AppInv, ErrorInv
  <2>2. CASE \E c \in PluginError : Throw(c, "start")
    BY <2>2, ThrowLemma
  <2>3. StartPlugin => (UNCHANGED error /\ pc' = pc) \/ \E c \in PluginError : Throw(c, "start")
    BY DEF StartPlugin
  <2>4. StartThrows => \E c \in PluginError : Throw(c, "start")
    BY DEF StartThrows, PluginError
  <2>5. Started => UNCHANGED error /\ pc' = "wait"
    BY DEF Started
  <2> QED BY <1>1, <2>1, <2>2, <2>3, <2>4, <2>5
<1> QED BY <1>1, <1>2, <1>4, <1>5, QuietOutside

LEMMA WaitKeeps ==
  ASSUME AppInv, Sleep \/ WaitReturn \/ Stop
  PROVE  AppInv'
<1> USE DEF InRuntime
<1>1. /\ UNCHANGED <<registryVars, config, library, objects, next, error>>
      /\ pc \in {"wait", "stop"} /\ pc' \in {"wait", "stop", "unwind"}
  BY DEF Sleep, WaitReturn, Stop, pluginVars
<1>2. registry = "gone" /\ next' \in 1..(Len(config) + 1) /\ ErrorInv'
  BY <1>1 DEF AppInv, PhaseInv, AppType, ErrorInv
<1>3. inst \in [Plugin -> InstState]
  BY DEF AppInv, AppType
<1>4. inst' \in [Plugin -> InstState] /\ \A i \in Plugin : Exists(i)' = Exists(i)
  BY <1>3 DEF Sleep, WaitReturn, Stop, pluginVars, Exists, InstState
<1> QED BY <1>1, <1>2, <1>4, QuietOutside

(* Unwinding keeps the account until an adapter is gone.                   *)
LEMMA UnwindKeeps ==
  ASSUME AppInv, DestroyAdapter \/ Unwound \/ Handler
  PROVE  AppInv'
<1> USE DEF InRuntime
<1>1. /\ UNCHANGED <<registryVars, config, library, objects, next, error>>
      /\ pc \in {"unwind", "handler"} /\ pc' \in {"unwind", "handler", "exit"}
  BY DEF DestroyAdapter, Unwound, Handler, pluginVars
<1>2. next' \in 1..(Len(config) + 1) /\ ErrorInv'
  BY <1>1 DEF AppInv, AppType, ErrorInv
<1>3. inst \in [Plugin -> InstState]
  BY DEF AppInv, AppType
<1>4. inst' \in [Plugin -> InstState] /\ \A i \in Plugin : Exists(i)' = Exists(i)
  <2>1. CASE DestroyAdapter
    <3>1. PICK i \in Plugin : Exists(i) /\ inst' = [inst EXCEPT ![i] = "destroying"]
      BY <2>1 DEF DestroyAdapter, First
    <3> QED BY <1>3, <3>1 DEF Exists, InstState
  <2>2. CASE Unwound \/ Handler
    BY <1>3, <2>2 DEF Unwound, Handler, pluginVars, Exists
  <2> QED BY <2>1, <2>2
<1>5. pc' \in {"handler", "exit"} => registry = "gone" /\ \A i \in Plugin : ~Exists(i)
  <2>1. DestroyAdapter => pc' = "unwind"
    BY DEF DestroyAdapter
  <2>2. Unwound => registry = "gone" /\ \A i \in Plugin : ~Exists(i)
    BY DEF Unwound
  <2>3. Handler => registry = "gone" /\ \A i \in Plugin : ~Exists(i)
    BY DEF Handler, AppInv, PhaseInv
  <2> QED BY <2>1, <2>2, <2>3
<1> QED BY <1>1, <1>2, <1>4, <1>5, QuietOutside

-----------------------------------------------------------------------------
(* create() *)

(* A step into the loop of create(), or one within it, that makes nothing. *)
LEMMA QuietCreate ==
  ASSUME AppInv, UNCHANGED <<registryVars, config, inst, library, error>>,
         next' \in 1..(Len(config) + 1), registry = "alive",
         pc # "adapter", pc' \in {"create", "factory", "adapter"},
         objects' = objects \cup (IF pc' = "adapter" THEN {next'} ELSE {}),
         \A i \in Plugin : Resolved(i),
         \A i \in Plugin : i >= next' => inst[i] = "none",
         pc' \in {"factory", "adapter"} => next' \in Plugin /\ HasFactory(Spec(next'))
  PROVE  AppInv'
<1>1. \A i \in Plugin : Exists(i)' = Exists(i)
  BY DEF Exists
<1>2. MapInv' /\ RefInv' /\ {i \in Plugin : Exists(i)}' = {i \in Plugin : Exists(i)}
  BY <1>1, SameHolders
<1>3. UNCHANGED <<config, factories>>
  BY DEF registryVars, mapVars
<1>4. Plugin' = Plugin /\ Len(config') = Len(config)
  BY <1>3, SameResolved
<1>5. AppType'
  BY <1>4 DEF AppInv, AppType, registryVars, InRegistry
<1>6. OwnerInv'
  BY DEF OwnerInv
<1>7. ResolveInv'
  BY <1>3, SameResolved DEF ResolveInv
<1>8. PhaseInv'
  <2>1. registry' = "alive"
    BY DEF registryVars
  <2>2. \A i \in Plugin : i >= next' => inst'[i] = "none"
    OBVIOUS
  <2>3. pc' \in {"factory", "adapter"} => next' \in Plugin /\ HasFactory(Spec(next))'
    BY <1>3 DEF HasFactory, KeyOf, Spec
  <2> QED BY <1>4, <2>1, <2>2, <2>3 DEF PhaseInv, InRegistry, InRuntime
<1>9. ObjectInv' /\ ErrorInv'
  BY <1>2 DEF AppInv, ObjectInv, ErrorInv
<1> QED BY <1>2, <1>5, <1>6, <1>7, <1>8, <1>9 DEF AppInv

LEMMA LoadReturnKeeps ==
  ASSUME AppInv, LoadReturn
  PROVE  AppInv'
<1>1. Len(config) \in Nat /\ Plugin = 1..Len(config)
  BY PluginLemma DEF AppInv, AppType
<1>2. next = Len(config) + 1
  BY <1>1 DEF LoadReturn, AppInv, AppType
<1>3. \A i \in Plugin : Resolved(i)
  BY <1>1, <1>2 DEF LoadReturn, AppInv, ResolveInv
<1>4. registry = "alive" /\ \A i \in Plugin : inst[i] = "none"
  BY DEF LoadReturn, AppInv, PhaseInv, InRegistry
<1>5. next' \in 1..(Len(config) + 1)
  BY <1>1 DEF LoadReturn
<1>6. UNCHANGED <<registryVars, config, inst, library, objects, error>> /\ pc = "load" /\ pc' = "create"
  BY DEF LoadReturn, pluginVars
<1>7. objects' = objects \cup (IF pc' = "adapter" THEN {next'} ELSE {})
  BY <1>6
<1> QED BY <1>3, <1>4, <1>5, <1>6, <1>7, QuietCreate

(* create() meets no unknown type.                                         *)
LEMMA CreateEntryKeeps ==
  ASSUME AppInv, CreateEntry
  PROVE  AppInv'
<1>1. Len(config) \in Nat /\ Plugin = 1..Len(config)
  BY PluginLemma DEF AppInv, AppType
<1>2. /\ UNCHANGED <<registryVars, config, inst, library, objects>>
      /\ pc = "create" /\ next \in Plugin
  BY DEF CreateEntry, pluginVars
<1>3. registry = "alive" /\ \A i \in Plugin : i >= next => inst[i] = "none"
  BY <1>2 DEF AppInv, PhaseInv, InRegistry
<1>4. \A i \in Plugin : Resolved(i)
  BY <1>2 DEF AppInv, ResolveInv
<1>5. ~CreateSkips(Spec(next)) => HasFactory(Spec(next))
  BY <1>2, <1>4 DEF CreateSkips, Resolved
<1>6. UNCHANGED error
  BY <1>5 DEF CreateEntry
<1>7. \/ pc' = "create" /\ next' = next + 1
      \/ pc' = "factory" /\ next' = next /\ HasFactory(Spec(next))
  BY <1>2, <1>5 DEF CreateEntry
<1>8. next' \in 1..(Len(config) + 1)
  BY <1>1, <1>2, <1>7
<1>9. \A i \in Plugin : i >= next' => inst[i] = "none"
  BY <1>1, <1>2, <1>3, <1>7
<1>10. pc' \in {"factory", "adapter"} => next' \in Plugin /\ HasFactory(Spec(next'))
  BY <1>2, <1>7
<1>11. objects' = objects \cup (IF pc' = "adapter" THEN {next'} ELSE {})
  BY <1>2, <1>7
<1> QED BY <1>2, <1>3, <1>4, <1>6, <1>7, <1>8, <1>9, <1>10, <1>11, QuietCreate

LEMMA FactoryCallKeeps ==
  ASSUME AppInv, FactoryCall
  PROVE  AppInv'
<1>2. UNCHANGED <<registryVars, config, inst, library, next>> /\ pc = "factory"
  BY DEF FactoryCall
<1>3. /\ registry = "alive" /\ \A i \in Plugin : i >= next => inst[i] = "none"
      /\ next \in Plugin /\ HasFactory(Spec(next)) /\ next' \in 1..(Len(config) + 1)
  BY <1>2 DEF AppInv, PhaseInv, InRegistry, AppType
<1>4. \A i \in Plugin : Resolved(i)
  BY <1>2 DEF AppInv, ResolveInv
<1>5. CASE objects' = objects \cup {next} /\ pc' = "adapter" /\ UNCHANGED error
  BY <1>2, <1>3, <1>4, <1>5, QuietCreate
<1>6. CASE UNCHANGED objects /\ \E c \in CreateError : Throw(c, "create")
  <2>1. ErrorInv' /\ pc' \in {"unwind", "aborted"}
    BY <1>6, ThrowLemma DEF CreateError
  <2>2. inst' \in [Plugin -> InstState] /\ \A i \in Plugin : Exists(i)' = Exists(i)
    BY <1>2 DEF AppInv, AppType, Exists
  <2> QED BY <1>2, <1>3, <1>6, <2>1, <2>2, QuietOutside DEF InRuntime
<1> QED BY <1>5, <1>6 DEF FactoryCall

(* The adapter is one more holder of the library of its factory.           *)
LEMMA MakeAdapterKeeps ==
  ASSUME AppInv, MakeAdapter
  PROVE  AppInv'
<1> DEFINE L == FactoryLibrary
<1>1. Len(config) \in Nat /\ Plugin = 1..Len(config) /\ IsFiniteSet(Plugin)
  BY PluginLemma DEF AppInv, AppType
<1>2. /\ UNCHANGED <<mapVars, dynamic_loading_called, registry, config, owner>>
      /\ pc = "adapter"
  BY DEF MakeAdapter
<1>3. /\ registry = "alive" /\ next \in Plugin /\ HasFactory(Spec(next))
      /\ \A i \in Plugin : i >= next => inst[i] = "none"
  BY <1>2 DEF AppInv, PhaseInv, InRegistry
<1>4. L \in Path \cup {NoPath}
  BY <1>3 DEF AppInv, MapInv, FactoryLibrary, HasFactory
<1>5. inst \in [Plugin -> InstState] /\ inst[next] = "none" /\ ~Exists(next)
  BY <1>1, <1>3 DEF AppInv, AppType, Exists
<1>6. Plugin' = Plugin /\ Len(config') = Len(config) /\ UNCHANGED <<config, factories>>
  BY <1>2 DEF Plugin, mapVars
<1>7. MapInv' /\ \A p \in Path : Holds(p)' = Holds(p)
  BY <1>2, SameMaps DEF AppInv
<1>8. objects = {i \in Plugin : Exists(i)} \cup {next}
  BY <1>2 DEF AppInv, ObjectInv
<1>a. refs \in [Path -> Int] /\ library \in [Plugin -> Path \cup {NoPath}]
  BY DEF AppInv, AppType
<1>9. CASE /\ inst' = [inst EXCEPT ![next] = "created"]
           /\ library' = [library EXCEPT ![next] = L]
           /\ AdapterRetains(L)
           /\ next' = next + 1
           /\ pc' = "create"
           /\ UNCHANGED <<objects, error>>
  <2> HIDE DEF L
  <2>1. /\ \A i \in Plugin : Exists(i)' = (i = next \/ Exists(i))
        /\ inst' \in [Plugin -> InstState]
    <3>1. inst'[next] = "created" /\ \A i \in Plugin \ {next} : inst'[i] = inst[i]
      BY <1>3, <1>5, <1>9
    <3>2. inst' \in [Plugin -> InstState]
      BY <1>3, <1>5, <1>9 DEF InstState
    <3> QED BY <3>1, <3>2 DEF Exists
  <2>2. /\ library' \in [Plugin -> Path \cup {NoPath}] /\ library'[next] = L
        /\ \A i \in Plugin \ {next} : library'[i] = library[i]
    BY <1>3, <1>4, <1>9, <1>a
  <2>3. \A p \in Path : Users(p)' = IF p = L THEN Users(p) \cup {next} ELSE Users(p)
    <3> SUFFICES ASSUME NEW p \in Path
                 PROVE  Users(p)' = IF p = L THEN Users(p) \cup {next} ELSE Users(p)
      OBVIOUS
    <3>1. Users(p)' = {i \in Plugin : Exists(i)' /\ library'[i] = p}
      BY <1>6 DEF Users
    <3>2. Users(p) = {i \in Plugin : Exists(i) /\ library[i] = p}
      BY DEF Users
    <3> QED BY <1>3, <1>5, <2>1, <2>2, <3>1, <3>2
  <2>4. refs' \in [Path -> Int] /\ \A p \in Path : refs'[p] = IF p = L THEN refs[p] + 1 ELSE refs[p]
    <3>1. CASE L = NoPath
      BY <1>9, <1>a, <3>1, RegistryAssumption DEF AdapterRetains, RegistryAssumption
    <3>2. CASE L # NoPath
      BY <1>4, <1>9, <1>a, <3>2 DEF AdapterRetains, Retain
    <3> QED BY <3>1, <3>2
  <2>5. RefInv'
    <3> SUFFICES ASSUME NEW p \in Path
                 PROVE  refs'[p] = (IF registry' = "alive" THEN Holds(p)' ELSE 0)
                                   + Cardinality(Users(p)')
      BY DEF RefInv
    <3>1. /\ IsFiniteSet(Users(p)) /\ Cardinality(Users(p)) \in Nat
          /\ Holds(p) \in Nat
      BY HoldersLemma DEF AppInv, AppType
    <3>2. refs[p] = Holds(p) + Cardinality(Users(p))
      BY <1>3 DEF AppInv, RefInv
    <3>3. registry' = "alive" /\ Holds(p)' = Holds(p)
      BY <1>2, <1>3, <1>7
    <3>4. CASE p = L
      <4>1. next \notin Users(p)
        BY <1>5 DEF Users
      <4>2. Cardinality(Users(p) \cup {next}) = Cardinality(Users(p)) + 1
        BY <3>1, <4>1, FS_AddElement
      <4>3. Users(p)' = Users(p) \cup {next} /\ refs'[p] = refs[p] + 1
        BY <2>3, <2>4, <3>4
      <4> QED BY <3>1, <3>2, <3>3, <4>2, <4>3
    <3>5. CASE p # L
      <4>1. Users(p)' = Users(p) /\ refs'[p] = refs[p]
        BY <2>3, <2>4, <3>5
      <4> QED BY <3>2, <3>3, <4>1
    <3> QED BY <3>4, <3>5
  <2>6. next' \in 1..(Len(config) + 1)
    BY <1>1, <1>3, <1>9
  <2>7. AppType'
    BY <1>2, <1>6, <1>9, <2>1, <2>2, <2>4, <2>6 DEF AppInv, AppType, InRegistry
  <2>8. OwnerInv' /\ ErrorInv'
    BY <1>9 DEF OwnerInv, ErrorInv, AppInv
  <2>9. ResolveInv'
    BY <1>2, <1>6, <1>9, SameResolved DEF ResolveInv, AppInv
  <2>10. PhaseInv'
    <3>1. \A i \in Plugin : i >= next' => inst'[i] = "none"
      BY <1>1, <1>3, <1>5, <1>9
    <3> QED BY <1>2, <1>3, <1>6, <1>9, <3>1 DEF PhaseInv, InRegistry, InRuntime
  <2>11. ObjectInv'
    <3>1. {i \in Plugin : Exists(i)}' = {i \in Plugin : Exists(i)} \cup {next}
      BY <1>3, <1>6, <2>1
    <3> QED BY <1>8, <1>9, <3>1 DEF ObjectInv
  <2> QED BY <1>7, <2>5, <2>7, <2>8, <2>9, <2>10, <2>11 DEF AppInv
<1>10. CASE /\ DestroyObject
            /\ Throw("host", "create")
            /\ UNCHANGED <<inst, library, refs, next>>
  <2>1. ErrorInv' /\ pc' \in {"unwind", "aborted"}
    BY <1>10, ThrowLemma
  <2>2. \A i \in Plugin : Exists(i)' = Exists(i)
    BY <1>10 DEF Exists
  <2>3. UNCHANGED <<registryVars, config, library>>
    BY <1>2, <1>10 DEF registryVars
  <2>4. RefInv' /\ {i \in Plugin : Exists(i)}' = {i \in Plugin : Exists(i)}
    BY <2>2, <2>3, SameHolders
  <2>5. AppType'
    BY <1>2, <1>6, <1>10, <2>1 DEF AppInv, AppType
  <2>6. OwnerInv' /\ ResolveInv'
    BY <2>1 DEF OwnerInv, ResolveInv
  <2>7. PhaseInv'
    BY <2>1 DEF PhaseInv, InRegistry, InRuntime
  <2>8. ObjectInv'
    <3>1. objects' = {i \in Plugin : Exists(i)}
      BY <1>5, <1>8, <1>10 DEF DestroyObject
    <3> QED BY <2>1, <2>4, <3>1 DEF ObjectInv
  <2> QED BY <1>7, <2>1, <2>4, <2>5, <2>6, <2>7, <2>8 DEF AppInv
<1> QED BY <1>9, <1>10 DEF MakeAdapter

(* An adapter that is gone has given back its handle.                      *)
LEMMA AdapterGoneKeeps ==
  ASSUME AppInv, AdapterGone
  PROVE  AppInv'
<1>1. PICK j \in Plugin :
        /\ inst[j] = "destroying"
        /\ inst' = [inst EXCEPT ![j] = "gone"]
        /\ objects' = objects \ {j}
        /\ IF library[j] = NoPath THEN UNCHANGED refs ELSE Release(library[j])
  BY DEF AdapterGone
<1>2. /\ UNCHANGED <<mapVars, registry, config, pc, next, library, error>>
      /\ pc = "unwind"
  BY DEF AdapterGone
<1>3. Plugin' = Plugin /\ Len(config') = Len(config)
  BY <1>2 DEF Plugin
<1>4. /\ inst \in [Plugin -> InstState] /\ library \in [Plugin -> Path \cup {NoPath}]
      /\ refs \in [Path -> Int]
  BY DEF AppInv, AppType
<1>5. MapInv' /\ \A p \in Path : Holds(p)' = Holds(p)
  BY <1>2, SameMaps DEF AppInv
<1>6. /\ inst' \in [Plugin -> InstState]
      /\ \A i \in Plugin : Exists(i)' = (i # j /\ Exists(i))
      /\ Exists(j)
  BY <1>1, <1>4 DEF Exists, InstState
<1>7. \A p \in Path : Users(p)' = IF p = library[j] THEN Users(p) \ {j} ELSE Users(p)
  <2> SUFFICES ASSUME NEW p \in Path
               PROVE  Users(p)' = IF p = library[j] THEN Users(p) \ {j} ELSE Users(p)
    OBVIOUS
  <2>1. Users(p)' = {i \in Plugin : Exists(i)' /\ library[i] = p}
    BY <1>2, <1>3 DEF Users
  <2>2. Users(p) = {i \in Plugin : Exists(i) /\ library[i] = p}
    BY DEF Users
  <2> QED BY <1>6, <2>1, <2>2
<1>8. /\ refs' \in [Path -> Int]
      /\ \A p \in Path : refs'[p] = IF p = library[j] THEN refs[p] - 1 ELSE refs[p]
  <2>1. CASE library[j] = NoPath
    BY <1>1, <1>4, <2>1, RegistryAssumption DEF RegistryAssumption
  <2>2. CASE library[j] # NoPath
    <3>1. library[j] \in Path /\ refs' = [refs EXCEPT ![library[j]] = @ - 1]
      BY <1>1, <1>4, <2>2 DEF Release
    <3> QED BY <1>4, <3>1
  <2> QED BY <2>1, <2>2
<1>9. RefInv'
  <2> SUFFICES ASSUME NEW p \in Path
               PROVE  refs'[p] = (IF registry' = "alive" THEN Holds(p)' ELSE 0)
                                 + Cardinality(Users(p)')
    BY DEF RefInv
  <2> DEFINE h == IF registry = "alive" THEN Holds(p) ELSE 0
  <2>1. /\ IsFiniteSet(Users(p)) /\ Cardinality(Users(p)) \in Nat
        /\ h \in Nat
    BY HoldersLemma DEF AppInv, AppType
  <2>2. refs[p] = h + Cardinality(Users(p))
    BY DEF AppInv, RefInv
  <2>3. h = IF registry' = "alive" THEN Holds(p)' ELSE 0
    BY <1>2, <1>5
  <2> HIDE DEF h
  <2>4. CASE p = library[j]
    <3>1. j \in Users(p)
      BY <1>6, <2>4 DEF Users
    <3>2. Cardinality(Users(p) \ {j}) = Cardinality(Users(p)) - 1
      BY <2>1, <3>1, FS_RemoveElement
    <3>3. Users(p)' = Users(p) \ {j} /\ refs'[p] = refs[p] - 1
      BY <1>7, <1>8, <2>4
    <3> QED BY <2>1, <2>2, <2>3, <3>2, <3>3
  <2>5. CASE p # library[j]
    <3>1. Users(p)' = Users(p) /\ refs'[p] = refs[p]
      BY <1>7, <1>8, <2>5
    <3> QED BY <2>2, <2>3, <3>1
  <2> QED BY <2>4, <2>5
<1>10. AppType'
  BY <1>2, <1>3, <1>4, <1>6, <1>8 DEF AppInv, AppType
<1>11. OwnerInv' /\ ResolveInv' /\ PhaseInv' /\ ErrorInv'
  BY <1>2 DEF OwnerInv, ResolveInv, PhaseInv, InRegistry, InRuntime, ErrorInv, AppInv
<1>12. ObjectInv'
  <2>1. {i \in Plugin : Exists(i)}' = {i \in Plugin : Exists(i)} \ {j}
    BY <1>3, <1>6
  <2>2. objects = {i \in Plugin : Exists(i)}
    BY <1>2 DEF AppInv, ObjectInv
  <2> QED BY <1>1, <1>2, <2>1, <2>2 DEF ObjectInv
<1> QED BY <1>5, <1>9, <1>10, <1>11, <1>12 DEF AppInv

(* The registry goes, at the end of its scope or by an exception.          *)
LEMMA RegistryGoneKeeps ==
  ASSUME AppInv, CreateReturn \/ UnwindRegistry
  PROVE  AppInv'
<1>1. /\ DestroyRegistry /\ UNCHANGED <<config, inst, library, objects, error>>
      /\ \/ pc = "create" /\ pc' = "construct" /\ next' = 1
         \/ pc = "unwind" /\ pc' = "unwind" /\ next' = next
  BY DEF CreateReturn, UnwindRegistry, pluginVars
<1>2. registry = "alive" /\ registry' = "gone" /\ UNCHANGED mapVars
  BY <1>1 DEF DestroyRegistry
<1>3. Len(config) \in Nat /\ Plugin' = Plugin /\ Len(config') = Len(config)
  BY <1>1, PluginLemma DEF Plugin, AppInv, AppType
<1>4. \A i \in Plugin : Exists(i)' = Exists(i)
  BY <1>1 DEF Exists
<1>5. MapInv'
  BY <1>2, SameMaps DEF AppInv
<1>6. refs' = [p \in Path |-> refs[p] - Holds(p)]
  BY <1>1 DEF DestroyRegistry
<1>7. \A p \in Path : /\ Holds(p) \in Nat /\ Cardinality(Users(p)) \in Nat
                      /\ refs[p] = Holds(p) + Cardinality(Users(p))
                      /\ Users(p)' = Users(p)
  <2>1. \A p \in Path : Holds(p) \in Nat /\ Cardinality(Users(p)) \in Nat
    BY HoldersLemma DEF AppInv, AppType
  <2>2. \A p \in Path : refs[p] = Holds(p) + Cardinality(Users(p))
    BY <1>2 DEF AppInv, RefInv
  <2>3. \A p \in Path : Users(p)' = Users(p)
    BY <1>1, <1>3, <1>4 DEF Users
  <2> QED BY <2>1, <2>2, <2>3
<1>8. \A p \in Path : refs'[p] = Cardinality(Users(p))
  BY <1>6, <1>7
<1>9. RefInv' /\ refs' \in [Path -> Int]
  <2>1. \A p \in Path : Cardinality(Users(p))' = Cardinality(Users(p))
    BY <1>7
  <2>2. \A p \in Path : refs'[p] = 0 + Cardinality(Users(p))'
    BY <1>7, <1>8, <2>1
  <2>3. RefInv'
    BY <1>2, <2>2 DEF RefInv
  <2>4. refs' \in [Path -> Int]
    BY <1>6, <1>7, <1>8
  <2> QED BY <2>3, <2>4
<1>10. next' \in 1..(Len(config) + 1)
  BY <1>1, <1>3 DEF AppInv, AppType
<1>11. AppType'
  BY <1>1, <1>2, <1>3, <1>9, <1>10 DEF AppInv, AppType, InRuntime
<1>12. OwnerInv' /\ ResolveInv' /\ PhaseInv' /\ ErrorInv'
  BY <1>1, <1>2 DEF OwnerInv, ResolveInv, PhaseInv, InRegistry, InRuntime, ErrorInv, AppInv
<1>13. ObjectInv'
  <2>1. {i \in Plugin : Exists(i)}' = {i \in Plugin : Exists(i)}
    BY <1>3, <1>4
  <2> QED BY <1>1, <2>1 DEF AppInv, ObjectInv
<1> QED BY <1>5, <1>9, <1>11, <1>12, <1>13 DEF AppInv

-----------------------------------------------------------------------------
(* load_dynamic_plugins() *)

(* A step before create(): no adapter exists, and what the registry takes  *)
(* is what it holds.                                                       *)
LEMMA LoadFrame ==
  ASSUME AppInv, UNCHANGED <<config, pluginVars, registry>>,
         pc \in {"register", "load"}, pc' \in {"register", "load", "unwind", "aborted"},
         next' \in 1..(Len(config) + 1), refs' \in [Path -> Int],
         \A p \in Path : refs'[p] = refs[p] + (Holds(p)' - Holds(p)),
         \A p \in Path : Holds(p)' \in Nat,
         MapInv', OwnerInv', ResolveInv', ErrorInv'
  PROVE  AppInv'
<1> USE DEF pluginVars
<1>1. Plugin' = Plugin /\ Len(config') = Len(config)
  BY DEF Plugin
<1>2. registry = "alive" /\ \A i \in Plugin : inst[i] = "none"
  BY DEF AppInv, PhaseInv, InRegistry
<1>3. \A i \in Plugin : Exists(i)' = Exists(i)
  BY DEF Exists
<1>4. RefInv'
  <2> SUFFICES ASSUME NEW p \in Path
               PROVE  refs'[p] = (IF registry' = "alive" THEN Holds(p)' ELSE 0)
                                 + Cardinality(Users(p)')
    BY DEF RefInv
  <2>1. Holds(p) \in Nat /\ Cardinality(Users(p)) \in Nat
    BY HoldersLemma DEF AppInv, AppType
  <2>2. refs[p] = Holds(p) + Cardinality(Users(p))
    BY <1>2 DEF AppInv, RefInv
  <2>3. Users(p)' = Users(p)
    BY <1>1, <1>3 DEF Users
  <2>4. Holds(p)' \in Nat /\ refs'[p] = refs[p] + (Holds(p)' - Holds(p)) /\ registry' = "alive"
    BY <1>2
  <2> QED BY <2>1, <2>2, <2>3, <2>4
<1>5. AppType'
  BY <1>1 DEF AppInv, AppType, InRegistry
<1>6. PhaseInv'
  BY <1>1, <1>2 DEF PhaseInv, InRegistry, InRuntime
<1>7. ObjectInv'
  <2>1. {i \in Plugin : Exists(i)}' = {i \in Plugin : Exists(i)}
    BY <1>1, <1>3
  <2> QED BY <2>1 DEF AppInv, ObjectInv
<1> QED BY <1>4, <1>5, <1>6, <1>7 DEF AppInv

(* What a new factory does to the maps.                                    *)
LEMMA NewFactoryMaps ==
  ASSUME MapInv, NEW k, k \notin DOMAIN factories, NEW v \in Path \cup {NoPath},
         factories' = Bind(factories, k, v), dynamic_plugins' \subseteq Path,
         dynamic_plugin_sources' \in {dynamic_plugin_sources, Bind(dynamic_plugin_sources, k, v)}
  PROVE  MapInv' /\ \A i \in Plugin : config' = config /\ Resolved(i) => Resolved(i)'
<1>1. /\ DOMAIN factories' = DOMAIN factories \cup {k}
      /\ factories'[k] = v
      /\ \A x \in DOMAIN factories : factories'[x] = factories[x]
  BY DEF Bind, MapInv
<1>2. IsMap(factories)'
  BY DEF IsMap, Bind
<1>3. IsFiniteSet(DOMAIN factories')
  BY <1>1, FS_AddElement DEF MapInv
<1>4. \A x \in DOMAIN factories' : factories'[x] \in Path \cup {NoPath}
  BY <1>1 DEF MapInv
<1>5. \A x \in DOMAIN dynamic_plugin_sources' :
        x \in DOMAIN factories' /\ factories'[x] = dynamic_plugin_sources'[x]
  <2>1. CASE dynamic_plugin_sources' = dynamic_plugin_sources
    BY <1>1, <2>1 DEF MapInv
  <2>2. CASE dynamic_plugin_sources' = Bind(dynamic_plugin_sources, k, v)
    <3>1. /\ DOMAIN dynamic_plugin_sources' = DOMAIN dynamic_plugin_sources \cup {k}
          /\ dynamic_plugin_sources'[k] = v
          /\ \A x \in DOMAIN dynamic_plugin_sources \ {k} :
               dynamic_plugin_sources'[x] = dynamic_plugin_sources[x]
      BY <2>2 DEF Bind
    <3> QED BY <1>1, <3>1 DEF MapInv
  <2> QED BY <2>1, <2>2
<1>6. MapInv'
  BY <1>2, <1>3, <1>4, <1>5 DEF MapInv
<1>7. \A i \in Plugin : config' = config /\ Resolved(i) => Resolved(i)'
  BY <1>1 DEF Resolved, HasFactory, KeyOf, Spec
<1> QED BY <1>6, <1>7

(* A factory of the program holds no library.                              *)
LEMMA RegisterKeeps ==
  ASSUME AppInv, Register
  PROVE  AppInv'
<1>1. PICK k \in InProgram : RegisterFactory(k)
  BY DEF Register
<1>2. /\ k \notin DOMAIN factories /\ factories' = Bind(factories, k, NoPath)
      /\ UNCHANGED <<dynamic_plugins, dynamic_plugin_sources,
                     dynamic_library_owners, registry, refs>>
  BY <1>1 DEF RegisterFactory
<1>3. UNCHANGED <<config, pc, next, pluginVars, error>> /\ pc = "register"
  BY DEF Register
<1>4. MapInv
  BY DEF AppInv
<1>5. MapInv'
  BY <1>2, <1>4, NewFactoryMaps DEF MapInv
<1>6. \A p \in Path : Makers(p)' = Makers(p)
  <2> SUFFICES ASSUME NEW p \in Path PROVE Makers(p)' = Makers(p)
    OBVIOUS
  <2>1. p # NoPath
    BY RegistryAssumption DEF RegistryAssumption
  <2>2. Makers(p)' = IF NoPath = p THEN Makers(p) \cup {k} ELSE Makers(p)
    BY <1>2, <1>4, NewFactory
  <2> QED BY <2>1, <2>2
<1>7. \A p \in Path : Holds(p)' = Holds(p) /\ Holds(p) \in Nat
  <2>1. \A p \in Path : Holds(p) \in Nat
    BY HoldersLemma DEF AppInv, AppType
  <2>2. \A p \in Path : Holds(p)' = Holds(p)
    BY <1>2, <1>6 DEF Holds, Makers
  <2> QED BY <2>1, <2>2
<1>8. refs' \in [Path -> Int] /\ \A p \in Path : refs'[p] = refs[p] + (Holds(p)' - Holds(p))
  <2>1. refs \in [Path -> Int] /\ refs' = refs
    BY <1>2 DEF AppInv, AppType
  <2> QED BY <1>7, <2>1
<1>9. OwnerInv' /\ ErrorInv' /\ ResolveInv'
  BY <1>2, <1>3 DEF OwnerInv, ErrorInv, ResolveInv, AppInv
<1>10. next' \in 1..(Len(config) + 1)
  BY <1>3 DEF AppInv, AppType
<1> QED BY <1>2, <1>3, <1>5, <1>7, <1>8, <1>9, <1>10, LoadFrame

LEMMA LoadKeeps ==
  ASSUME AppInv, Load
  PROVE  AppInv'
<1>1. /\ UNCHANGED <<mapVars, registry, refs, config, next, pluginVars, error>>
      /\ pc = "register" /\ pc' = "load"
  BY DEF Load, BeginLoading
<1>2. MapInv' /\ \A p \in Path : Holds(p)' = Holds(p) /\ Holds(p) \in Nat
  BY <1>1, SameMaps, HoldersLemma DEF AppInv, AppType
<1>3. refs' \in [Path -> Int] /\ \A p \in Path : refs'[p] = refs[p] + (Holds(p)' - Holds(p))
  <2>1. refs \in [Path -> Int] /\ refs' = refs
    BY <1>1 DEF AppInv, AppType
  <2> QED BY <1>2, <2>1
<1>4. OwnerInv' /\ ErrorInv'
  BY <1>1 DEF OwnerInv, ErrorInv, AppInv, mapVars
<1>5. next = 1 /\ next' = 1 /\ next' \in 1..(Len(config) + 1)
  BY <1>1 DEF AppInv, AppType, ResolveInv
<1>6. ResolveInv'
  <2>1. \A i \in Plugin' : ~(i < next')
    <3>1. Plugin' = 1..Len(config) /\ Len(config) \in Nat
      BY <1>1, PluginLemma DEF Plugin, AppInv, AppType
    <3> QED BY <1>5, <3>1
  <2> QED BY <1>1, <2>1 DEF ResolveInv
<1> QED BY <1>1, <1>2, <1>3, <1>4, <1>5, <1>6, LoadFrame

(* A library that an entry may claim is not open yet.                      *)
LEMMA ClaimedIsNew ==
  ASSUME AppInv, pc = "load", NEW s, WantsLibrary(s), Claimable(s)
  PROVE  s.library \notin dynamic_plugins
BY DEF AppInv, OwnerInv, WantsLibrary, Claimable, Loaded

(* An entry that needs nothing has its factory.                            *)
LEMMA LoadNothingKeeps ==
  ASSUME AppInv, pc = "load", next \in Plugin, LoadNothing(Spec(next)),
         next' = next + 1, UNCHANGED <<pc, error, config, pluginVars>>
  PROVE  AppInv'
<1>1. UNCHANGED <<mapVars, registry, refs, config, factories>>
  BY DEF LoadNothing, registryVars, mapVars
<1>2. MapInv' /\ \A p \in Path : Holds(p)' = Holds(p) /\ Holds(p) \in Nat
  BY <1>1, SameMaps, HoldersLemma DEF AppInv, AppType
<1>3. refs' \in [Path -> Int] /\ \A p \in Path : refs'[p] = refs[p] + (Holds(p)' - Holds(p))
  <2>1. refs \in [Path -> Int] /\ refs' = refs
    BY <1>1 DEF AppInv, AppType
  <2> QED BY <1>2, <2>1
<1>4. OwnerInv' /\ ErrorInv'
  BY <1>1 DEF OwnerInv, ErrorInv, AppInv, mapVars
<1>5. Len(config) \in Nat /\ Plugin = 1..Len(config) /\ next \in Nat
  BY PluginLemma DEF AppInv, AppType
<1>6. next' \in 1..(Len(config) + 1)
  BY <1>5
<1>7. Resolved(next)
  BY DEF LoadNothing, NothingToLoad, Resolved, Loaded, SameLibrary, HasFactory, AppInv, MapInv
<1>8. \A i \in Plugin : i < next' => Resolved(i)
  BY <1>5, <1>7 DEF AppInv, ResolveInv
<1>9. ResolveInv'
  BY <1>1, <1>8, SameResolved DEF ResolveInv
<1> QED BY <1>1, <1>2, <1>3, <1>4, <1>6, <1>9, LoadFrame

(* A loaded library has two holders: dynamic_plugins_ and the factory.     *)
LEMMA LoadLibraryKeeps ==
  ASSUME AppInv, pc = "load", next \in Plugin, LoadLibrary(Spec(next)),
         next' = next + 1, UNCHANGED <<pc, error, config, pluginVars>>
  PROVE  AppInv'
<1> DEFINE k == KeyOf(Spec(next))
           L == Spec(next).library
<1>1. /\ dynamic_library_owners' = Bind(dynamic_library_owners, L, k)
      /\ dynamic_plugins' = dynamic_plugins \cup {L}
      /\ refs' = [refs EXCEPT ![L] = @ + 2]
      /\ factories' = Bind(factories, k, L)
      /\ dynamic_plugin_sources' = Bind(dynamic_plugin_sources, k, L)
      /\ registry' = registry
      /\ k \notin DOMAIN factories
  BY DEF LoadLibrary, Claim, Retain, WantsLibrary, HasFactory
<1>2. L \in Path
  <2>1. Spec(next) \in PluginSpec
    BY PluginLemma DEF AppInv, AppType
  <2> QED BY <2>1 DEF LoadLibrary, WantsLibrary, PluginSpec
<1>3. L \notin dynamic_plugins
  BY ClaimedIsNew DEF LoadLibrary
<1>4. MapInv /\ config \in Configs /\ refs \in [Path -> Int]
  BY DEF AppInv, AppType
<1> HIDE DEF L, k
<1>5. MapInv' /\ \A i \in Plugin : Resolved(i) => Resolved(i)'
  <2>1. dynamic_plugins' \subseteq Path
    BY <1>1, <1>2, <1>4 DEF MapInv
  <2> QED BY <1>1, <1>2, <1>4, <2>1, NewFactoryMaps
<1>6. \A p \in Path : /\ Holds(p) \in Nat
                      /\ Holds(p)' = IF p = L THEN Holds(p) + 2 ELSE Holds(p)
  <2> SUFFICES ASSUME NEW p \in Path
               PROVE  /\ Holds(p) \in Nat
                      /\ Holds(p)' = IF p = L THEN Holds(p) + 2 ELSE Holds(p)
    OBVIOUS
  <2>1. /\ IsFiniteSet(Makers(p)) /\ Cardinality(Makers(p)) \in Nat
        /\ Holds(p) = (IF p \in dynamic_plugins THEN 1 ELSE 0) + Cardinality(Makers(p))
        /\ Holds(p) \in Nat
    BY <1>4, HoldersLemma
  <2>2. Holds(p)' = (IF p \in dynamic_plugins' THEN 1 ELSE 0) + Cardinality(Makers(p)')
    BY DEF Holds, Makers
  <2>3. Makers(p)' = IF L = p THEN Makers(p) \cup {k} ELSE Makers(p)
    BY <1>1, <1>4, NewFactory
  <2>4. CASE p = L
    <3>1. k \notin Makers(p)
      BY <1>1 DEF Makers
    <3>2. Cardinality(Makers(p) \cup {k}) = Cardinality(Makers(p)) + 1
      BY <2>1, <3>1, FS_AddElement
    <3>3. p \notin dynamic_plugins /\ p \in dynamic_plugins'
      BY <1>1, <1>3, <2>4
    <3>4. Cardinality(Makers(p)') = Cardinality(Makers(p)) + 1
      BY <2>3, <2>4, <3>2
    <3> QED BY <2>1, <2>2, <2>4, <3>3, <3>4
  <2>5. CASE p # L
    <3>1. (p \in dynamic_plugins') = (p \in dynamic_plugins) /\ Makers(p)' = Makers(p)
      BY <1>1, <2>3, <2>5
    <3> QED BY <2>1, <2>2, <2>5, <3>1
  <2> QED BY <2>4, <2>5
<1>7. /\ refs' \in [Path -> Int] /\ \A p \in Path : Holds(p)' \in Nat
      /\ \A p \in Path : refs'[p] = refs[p] + (Holds(p)' - Holds(p))
  <2>1. refs' \in [Path -> Int] /\ \A p \in Path : refs'[p] = IF p = L THEN refs[p] + 2 ELSE refs[p]
    BY <1>1, <1>2, <1>4
  <2>2. \A p \in Path : refs[p] \in Int
    BY <1>4
  <2> QED BY <1>6, <2>1, <2>2
<1>8. OwnerInv'
  <2> SUFFICES ASSUME NEW p \in dynamic_plugins'
               PROVE  /\ p \in DOMAIN dynamic_library_owners'
                      /\ dynamic_library_owners'[p] \in DOMAIN dynamic_plugin_sources'
    BY DEF OwnerInv
  <2>1. /\ DOMAIN dynamic_library_owners' = DOMAIN dynamic_library_owners \cup {L}
        /\ dynamic_library_owners'[L] = k
        /\ \A q \in DOMAIN dynamic_library_owners \ {L} :
             dynamic_library_owners'[q] = dynamic_library_owners[q]
    BY <1>1 DEF Bind
  <2>2. DOMAIN dynamic_plugin_sources' = DOMAIN dynamic_plugin_sources \cup {k}
    BY <1>1 DEF Bind
  <2>3. CASE p = L
    BY <2>1, <2>2, <2>3
  <2>4. CASE p # L
    <3>1. p \in dynamic_plugins
      BY <1>1, <2>4
    <3>2. /\ p \in DOMAIN dynamic_library_owners
          /\ dynamic_library_owners[p] \in DOMAIN dynamic_plugin_sources
      BY <3>1 DEF AppInv, OwnerInv
    <3> QED BY <2>1, <2>2, <2>4, <3>2
  <2> QED BY <2>3, <2>4
<1>9. Len(config) \in Nat /\ Plugin = 1..Len(config) /\ next \in Nat
  BY PluginLemma DEF AppInv, AppType
<1>10. next' \in 1..(Len(config) + 1)
  BY <1>9
<1>11. ResolveInv'
  <2>1. Plugin' = Plugin
    BY DEF Plugin
  <2>2. \A i \in Plugin : i < next => Resolved(i)'
    BY <1>5 DEF AppInv, ResolveInv
  <2>3. \A i \in Plugin : i = next => Resolved(i)'
    <3>1. k \in DOMAIN factories' /\ factories'[k] = L
      BY <1>1 DEF Bind
    <3> QED BY <3>1 DEF k, L, Resolved, HasFactory, KeyOf, Spec
  <2>4. \A i \in Plugin : i < next' => Resolved(i)'
    BY <1>9, <2>2, <2>3
  <2> QED BY <2>1, <2>4 DEF ResolveInv
<1>12. ErrorInv'
  BY DEF AppInv, ErrorInv
<1> QED BY <1>1, <1>5, <1>7, <1>8, <1>10, <1>11, <1>12, LoadFrame

(* An exception: what was opened before it stays with dynamic_plugins_.    *)
LEMMA LoadThrowsKeeps ==
  ASSUME AppInv, pc = "load", next \in Plugin, LoadThrows(Spec(next)),
         Throw("host", "load"), UNCHANGED <<next, config, pluginVars>>
  PROVE  AppInv'
<1> DEFINE L == Spec(next).library
<1>1. ErrorInv' /\ pc' \in {"unwind", "aborted"}
  BY ThrowLemma
<1>2. OwnerInv' /\ ResolveInv' /\ next' \in 1..(Len(config) + 1)
  BY <1>1 DEF OwnerInv, ResolveInv, AppInv, AppType
<1>3. /\ UNCHANGED <<factories, dynamic_plugin_sources, registry>>
      /\ \/ UNCHANGED <<dynamic_plugins, refs>>
         \/ /\ WantsLibrary(Spec(next)) /\ Claimable(Spec(next))
            /\ dynamic_plugins' = dynamic_plugins \cup {L}
            /\ refs' = [refs EXCEPT ![L] = @ + 1]
  BY DEF LoadThrows, registryVars, mapVars, Retain
<1>4. MapInv /\ config \in Configs /\ refs \in [Path -> Int]
  BY DEF AppInv, AppType
<1>5. \A p \in Path : /\ Holds(p) \in Nat /\ Cardinality(Makers(p)) \in Nat
                      /\ Holds(p) = (IF p \in dynamic_plugins THEN 1 ELSE 0) + Cardinality(Makers(p))
                      /\ Holds(p)' = (IF p \in dynamic_plugins' THEN 1 ELSE 0) + Cardinality(Makers(p))
  <2>1. \A p \in Path : Holds(p)' = (IF p \in dynamic_plugins' THEN 1 ELSE 0) + Cardinality(Makers(p))
    BY <1>3 DEF Holds, Makers
  <2> QED BY <1>4, <2>1, HoldersLemma
<1>6. CASE UNCHANGED <<dynamic_plugins, refs>>
  <2>1. MapInv'
    BY <1>3, <1>4, <1>6 DEF MapInv, IsMap
  <2>2. \A p \in Path : Holds(p)' = Holds(p)
    BY <1>5, <1>6
  <2>3. \A p \in Path : Holds(p)' \in Nat /\ refs'[p] = refs[p] + (Holds(p)' - Holds(p))
    BY <1>4, <1>5, <1>6, <2>2
  <2> QED BY <1>1, <1>2, <1>3, <1>4, <1>6, <2>1, <2>3, LoadFrame
<1>7. CASE /\ WantsLibrary(Spec(next)) /\ Claimable(Spec(next))
           /\ dynamic_plugins' = dynamic_plugins \cup {L}
           /\ refs' = [refs EXCEPT ![L] = @ + 1]
  <2>1. L \in Path
    <3>1. Spec(next) \in PluginSpec
      BY PluginLemma DEF AppInv, AppType
    <3> QED BY <1>7, <3>1 DEF WantsLibrary, PluginSpec
  <2>2. L \notin dynamic_plugins
    BY <1>7, ClaimedIsNew
  <2> HIDE DEF L
  <2>3. MapInv'
    BY <1>3, <1>4, <1>7, <2>1 DEF MapInv, IsMap
  <2>4. \A p \in Path : Holds(p)' = IF p = L THEN Holds(p) + 1 ELSE Holds(p)
    BY <1>5, <1>7, <2>2
  <2>5. refs' \in [Path -> Int] /\ \A p \in Path : refs'[p] = IF p = L THEN refs[p] + 1 ELSE refs[p]
    BY <1>4, <1>7, <2>1
  <2>6. \A p \in Path : Holds(p)' \in Nat /\ refs'[p] = refs[p] + (Holds(p)' - Holds(p))
    <3>1. \A p \in Path : refs[p] \in Int
      BY <1>4
    <3> QED BY <1>5, <2>4, <2>5, <3>1
  <2> QED BY <1>1, <1>2, <1>3, <2>3, <2>5, <2>6, LoadFrame
<1> QED BY <1>3, <1>6, <1>7

LEMMA LoadEntryKeeps ==
  ASSUME AppInv, LoadEntry
  PROVE  AppInv'
BY LoadNothingKeeps, LoadLibraryKeeps, LoadThrowsKeeps DEF LoadEntry

-----------------------------------------------------------------------------
(* The theorems *)

LEMMA InitEstablishes ==
  ASSUME Init
  PROVE  AppInv
<1> USE DEF Init, RegistryInit, EmptyMap
<1>1. config \in Configs /\ Len(config) \in Nat /\ Plugin = 1..Len(config)
  BY PluginLemma
<1>2. \A i \in Plugin : inst[i] = "none" /\ ~Exists(i) /\ library[i] = NoPath
  BY DEF Plugin, Exists
<1>3. AppType
  <2>1. next \in 1..(Len(config) + 1) /\ refs \in [Path -> Int]
    BY <1>1
  <2>2. inst \in [Plugin -> InstState] /\ library \in [Plugin -> Path \cup {NoPath}]
    BY DEF Plugin, InstState
  <2> QED BY <1>1, <2>1, <2>2 DEF AppType, InRegistry
<1>4. DOMAIN factories = {} /\ DOMAIN dynamic_plugin_sources = {}
  OBVIOUS
<1>5. MapInv
  <2>1. IsFiniteSet(DOMAIN factories)
    BY <1>4, FS_EmptySet
  <2>2. IsMap(factories)
    BY DEF IsMap
  <2> QED BY <1>4, <2>1, <2>2 DEF MapInv
<1>6. OwnerInv /\ ErrorInv
  BY DEF OwnerInv, ErrorInv, NoError
<1>7. ResolveInv
  BY <1>1 DEF ResolveInv
<1>8. PhaseInv
  BY <1>2 DEF PhaseInv, InRegistry, InRuntime
<1>9. ObjectInv
  BY <1>2 DEF ObjectInv
<1>10. RefInv
  <2> SUFFICES ASSUME NEW p \in Path
               PROVE  refs[p] = (IF registry = "alive" THEN Holds(p) ELSE 0) + Cardinality(Users(p))
    BY DEF RefInv
  <2>1. Makers(p) = {} /\ Users(p) = {}
    BY <1>2, <1>4 DEF Makers, Users
  <2>2. Cardinality({}) = 0
    BY FS_EmptySet
  <2>3. Holds(p) = 0 + Cardinality(Makers(p))
    BY DEF Holds, Makers
  <2> QED BY <2>1, <2>2, <2>3
<1> QED BY <1>3, <1>5, <1>6, <1>7, <1>8, <1>9, <1>10 DEF AppInv

(* AppInv holds in every state of main(): above all, the handles of every  *)
(* library are exactly those of the registry, while it lives, and of the   *)
(* adapters, on every path of normal and exceptional control.              *)
THEOREM AppInvariant == AppSpec => []AppInv
<1>1. Init => AppInv
  BY InitEstablishes
<1>2. AppInv /\ [Next]_vars => AppInv'
  <2> SUFFICES ASSUME AppInv, [Next]_vars PROVE AppInv'
    OBVIOUS
  <2>1. CASE Register
    BY <2>1, RegisterKeeps
  <2>2. CASE Load \/ LoadEntry \/ LoadReturn
    BY <2>2, LoadKeeps, LoadEntryKeeps, LoadReturnKeeps
  <2>3. CASE CreateEntry \/ FactoryCall \/ MakeAdapter
    BY <2>3, CreateEntryKeeps, FactoryCallKeeps, MakeAdapterKeeps
  <2>4. CASE CreateReturn \/ UnwindRegistry
    BY <2>4, RegistryGoneKeeps
  <2>5. CASE Configure \/ ValidateThrows \/ Constructed
    BY <2>5, ConstructKeeps
  <2>6. CASE StartPlugin \/ StartThrows \/ Started
    BY <2>6, StartKeeps
  <2>7. CASE Sleep \/ WaitReturn \/ Stop
    BY <2>7, WaitKeeps
  <2>8. CASE DestroyAdapter \/ Unwound \/ Handler
    BY <2>8, UnwindKeeps
  <2>9. CASE AdapterGone
    BY <2>9, AdapterGoneKeeps
  <2>10. CASE Signal \/ Terminated \/ UNCHANGED vars
    <3>1. UNCHANGED <<registryVars, config, pc, next, pluginVars, error>>
      BY <2>10 DEF Signal, Terminated, vars
    <3> QED BY <3>1, Idle
  <2> QED
    BY <2>1, <2>2, <2>3, <2>4, <2>5, <2>6, <2>7, <2>8, <2>9, <2>10 DEF Next, MainStep
<1> QED BY <1>1, <1>2, PTL DEF AppSpec

(* A library that a factory or an adapter holds is open.                   *)
LEMMA HeldIsMapped ==
  ASSUME AppInv, NEW p \in Path,
         (registry = "alive" /\ Makers(p) # {}) \/ Users(p) # {}
  PROVE  Mapped(p)
<1>1. /\ IsFiniteSet(Makers(p)) /\ Cardinality(Makers(p)) \in Nat
      /\ IsFiniteSet(Users(p)) /\ Cardinality(Users(p)) \in Nat
      /\ Holds(p) = (IF p \in dynamic_plugins THEN 1 ELSE 0) + Cardinality(Makers(p))
      /\ Holds(p) \in Nat
  BY HoldersLemma DEF AppInv, AppType
<1>2. refs[p] = (IF registry = "alive" THEN Holds(p) ELSE 0) + Cardinality(Users(p))
  BY DEF AppInv, RefInv
<1>3. (Cardinality(Makers(p)) = 0 => Makers(p) = {}) /\ (Cardinality(Users(p)) = 0 => Users(p) = {})
  BY <1>1, FS_EmptySet
<1>4. refs[p] > 0
  BY <1>1, <1>2, <1>3
<1> QED BY <1>4 DEF Mapped, Open

(* Plugin code runs only while its library is open: in create_plugin, and  *)
(* through an adapter until destroy_plugin has returned; and only          *)
(* configure() and start() let an exception of a plugin's own class out.   *)
THEOREM PluginCodeIsMapped == AppSpec => []PluginCodeMapped
<1>1. AppInv => PluginCodeMapped
  <2> SUFFICES ASSUME AppInv PROVE PluginCodeMapped
    OBVIOUS
  <2>1. ASSUME pc \in {"factory", "adapter"}, FactoryLibrary # NoPath
        PROVE  Mapped(FactoryLibrary)
    <3>1. registry = "alive" /\ HasFactory(Spec(next))
      BY <2>1 DEF AppInv, PhaseInv, InRegistry
    <3>2. FactoryLibrary \in Path /\ KeyOf(Spec(next)) \in Makers(FactoryLibrary)
      BY <2>1, <3>1 DEF HasFactory, FactoryLibrary, Makers, AppInv, MapInv
    <3> QED BY <3>1, <3>2, HeldIsMapped
  <2>2. ASSUME NEW i \in Plugin, Exists(i), library[i] # NoPath
        PROVE  Mapped(library[i])
    <3>1. library[i] \in Path /\ i \in Users(library[i])
      BY <2>2 DEF Users, AppInv, AppType
    <3> QED BY <3>1, HeldIsMapped
  <2> QED BY <2>1, <2>2 DEF PluginCodeMapped, AppInv, ErrorInv
<1> QED BY <1>1, AppInvariant, PTL

(* Every plugin object belongs to one adapter or to the factory making     *)
(* one, and when main() ends no object and no handle of a library is left. *)
THEOREM MainLeaksNothing == AppSpec => []NothingLeaks
<1>1. AppInv => NothingLeaks
  <2> SUFFICES ASSUME AppInv PROVE NothingLeaks
    OBVIOUS
  <2>1. objects = {i \in Plugin : Exists(i)} \cup (IF pc = "adapter" THEN {next} ELSE {})
    BY DEF AppInv, ObjectInv
  <2>2. ASSUME pc = "exit", NEW p \in Path
        PROVE  refs[p] = 0
    <3>1. registry = "gone" /\ Users(p) = {}
      BY <2>2 DEF AppInv, PhaseInv, Users
    <3>2. refs[p] = 0 + Cardinality(Users(p))
      BY <3>1 DEF AppInv, RefInv
    <3> QED BY <3>1, <3>2, FS_EmptySet
  <2> QED BY <2>1, <2>2 DEF NothingLeaks
<1> QED BY <1>1, AppInvariant, PTL

(* Once load_dynamic_plugins() has returned, every plugin create() will    *)
(* make has a factory, from the library its entry names: create() never    *)
(* reports an unknown type.                                                *)
THEOREM LoadingResolvesConfig == AppSpec => []LoadResolvesConfig
<1>1. AppInv => LoadResolvesConfig
  BY DEF AppInv, ResolveInv, ErrorInv, Resolved, LoadResolvesConfig
<1> QED BY <1>1, AppInvariant, PTL
=============================================================================
