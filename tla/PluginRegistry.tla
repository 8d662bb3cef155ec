---------------------------- MODULE PluginRegistry ----------------------------
(***************************************************************************)
(* PluginRegistry of src/src/core/plugin_registry.cpp: which shared        *)
(* libraries it opens for a configuration, which factories it registers,   *)
(* and who keeps a library open.  The four categories of plugins share the *)
(* definitions: their code differs only in that drivers have no enabled    *)
(* flag.  Application calls the registry the way main() does.              *)
(***************************************************************************)
EXTENDS Naturals, Sequences, FiniteSets

CONSTANTS
  Type,          \* plugin types, as named in the configuration
  Path,          \* library paths, as spelled in the configuration
  File,          \* external: File[p] is the file the path p leads to
  Incomplete,    \* paths that are not a filename with a suffix
  NoPath         \* the empty path

Kind == {"driver", "processor", "publisher", "source"}
Key == Kind \X Type

ASSUME RegistryAssumption ==
  /\ NoPath \notin Path
  /\ Incomplete \subseteq Path
  /\ DOMAIN File = Path

(* PluginSpec and PluginConfig; a driver is always enabled *)
PluginSpec ==
  {s \in [kind: Kind, type: Type, library: Path \cup {NoPath}, enabled: BOOLEAN] :
     s.kind = "driver" => s.enabled}

VARIABLES
  factories,              \* library of each registered factory, by key
  dynamic_plugins,        \* paths of the opened libraries
  dynamic_plugin_sources, dynamic_library_owners,
  dynamic_loading_called,
  registry,               \* the registry object: "alive" or "gone"
  refs                    \* shared_ptrs to the DynamicPluginLoader of a path

mapVars == <<factories, dynamic_plugins, dynamic_plugin_sources,
             dynamic_library_owners>>
registryVars == <<mapVars, dynamic_loading_called, registry, refs>>

EmptyMap == [k \in {} |-> NoPath]

(* The std::map m after m.emplace(k, v); k is new, or bound to v already *)
Bind(m, k, v) == [x \in DOMAIN m \cup {k} |-> IF x = k THEN v ELSE m[x]]

RegistryInit ==
  /\ factories = EmptyMap
  /\ dynamic_plugins = {}
  /\ dynamic_plugin_sources = EmptyMap
  /\ dynamic_library_owners = EmptyMap
  /\ dynamic_loading_called = FALSE
  /\ registry = "alive"
  /\ refs = [p \in Path |-> 0]

-----------------------------------------------------------------------------
(* DynamicPluginLoader: open from dlopen() until its last shared_ptr is    *)
(* gone.  Two paths to one file share its mapping.                         *)

Open(p) == refs[p] > 0
Mapped(p) == \E q \in Path : Open(q) /\ File[q] = File[p]

Retain(p, n) == refs' = [refs EXCEPT ![p] = @ + n]
Release(p) == refs' = [refs EXCEPT ![p] = @ - 1]

-----------------------------------------------------------------------------
(* register_driver() and its siblings, for a factory inside the program *)

KeyOf(s) == <<s.kind, s.type>>
HasFactory(s) == KeyOf(s) \in DOMAIN factories

RegisterFactory(k) ==
  /\ registry = "alive"
  /\ k \notin DOMAIN factories
  /\ factories' = Bind(factories, k, NoPath)
  /\ UNCHANGED <<dynamic_plugins, dynamic_plugin_sources,
                 dynamic_library_owners, dynamic_loading_called, registry, refs>>

-----------------------------------------------------------------------------
(* load_dynamic_plugins() *)

BeginLoading ==
  /\ registry = "alive"
  /\ ~dynamic_loading_called
  /\ dynamic_loading_called' = TRUE
  /\ UNCHANGED <<mapVars, registry, refs>>

Loaded(s) == KeyOf(s) \in DOMAIN dynamic_plugin_sources

(* Mutant: the library of a type that is loaded already is not compared *)
SameLibraryUnchecked(s) == TRUE

SameLibrary(s) == dynamic_plugin_sources[KeyOf(s)] = s.library

(* The early returns: the plugin is disabled, is part of the program, or   *)
(* was loaded for an earlier entry                                         *)
NothingToLoad(s) ==
  \/ ~s.enabled
  \/ s.library = NoPath /\ HasFactory(s)
  \/ s.library # NoPath /\ Loaded(s) /\ SameLibrary(s)

(* claim_library finds no other owner *)
Claimable(s) ==
  s.library \in DOMAIN dynamic_library_owners =>
    dynamic_library_owners[s.library] = KeyOf(s)

(* The entry passes the checks that come before the claim *)
WantsLibrary(s) ==
  s.enabled /\ s.library # NoPath /\ ~Loaded(s) /\ ~HasFactory(s)

Claim(s) ==
  dynamic_library_owners' = Bind(dynamic_library_owners, s.library, KeyOf(s))

(* One entry is loaded: claim_library, find_or_open, the two symbols, the  *)
(* factory.  find_or_open always opens here: a path in dynamic_plugins_    *)
(* belongs to a type that is loaded already.  The new loader is held by    *)
(* dynamic_plugins_ and by the factory.                                    *)
LoadLibrary(s) ==
  /\ WantsLibrary(s) /\ Claimable(s)
  /\ s.library \notin Incomplete
  /\ Claim(s)
  /\ dynamic_plugins' = dynamic_plugins \cup {s.library}
  /\ Retain(s.library, 2)
  /\ factories' = Bind(factories, KeyOf(s), s.library)
  /\ dynamic_plugin_sources' = Bind(dynamic_plugin_sources, KeyOf(s), s.library)
  /\ UNCHANGED <<dynamic_loading_called, registry>>

LoadNothing(s) == NothingToLoad(s) /\ UNCHANGED registryVars

(* An exception: the entry contradicts an earlier one or names nothing; or *)
(* the filename is incomplete or dlopen fails, and the claim stays; or a   *)
(* symbol is missing, and the library stays open                           *)
LoadThrows(s) ==
  /\ ~NothingToLoad(s)
  /\ \/ ~(WantsLibrary(s) /\ Claimable(s)) /\ UNCHANGED registryVars
     \/ /\ WantsLibrary(s) /\ Claimable(s)
        /\ Claim(s)
        /\ \/ UNCHANGED <<dynamic_plugins, refs>>
           \/ /\ s.library \notin Incomplete
              /\ dynamic_plugins' = dynamic_plugins \cup {s.library}
              /\ Retain(s.library, 1)
        /\ UNCHANGED <<factories, dynamic_plugin_sources,
                       dynamic_loading_called, registry>>

-----------------------------------------------------------------------------
(* ~PluginRegistry(): the factories and dynamic_plugins_ let their handles *)
(* go                                                                      *)

Holds(p) == (IF p \in dynamic_plugins THEN 1 ELSE 0)
            + Cardinality({k \in DOMAIN factories : factories[k] = p})

DestroyRegistry ==
  /\ registry = "alive"
  /\ registry' = "gone"
  /\ refs' = [p \in Path |-> refs[p] - Holds(p)]
  /\ UNCHANGED <<mapVars, dynamic_loading_called>>
=============================================================================
