----------------------------- MODULE Configuration -----------------------------
(***************************************************************************)
(* From the file to the running gateway: load_config() and parse_config()  *)
(* of src/src/core/config.cpp, the factories of the plugins                *)
(* (PluginSettings), and the checks that GatewayRuntime and its parts make *)
(* of what they are given: its constructor, the raw queue, the control     *)
(* queue, the normalizer, and the scheduler's policy in start(); and the   *)
(* points of time that start(), poll_group() and main() make of durations. *)
(*                                                                         *)
(* All failures of the parser are exceptions, told apart only by their     *)
(* text: a part of the parser is the predicate that no check fails (named  *)
(* ...Accepted) and the function that reads the value.  settings_json is   *)
(* the object itself: dump() and the parse of the plugin are inverse.      *)
(***************************************************************************)
EXTENDS PluginSettings, Functions

CONSTANTS
  Documents,       \* JSON values the file may hold
  NoPath,          \* the empty path
  PerMillisecond,  \* 10^6: the clock counts nanoseconds
  MaxNow           \* the latest time that the clock shows

ASSUME ClockAssumption == PerMillisecond \in Nat \ {0} /\ MaxNow \in Nat

VARIABLES
  document,
  stage,         \* what main() does next
  config,        \* the ApplicationConfig, once it is parsed
  refusal,       \* who has ended the program
  next_due,      \* of each group, from start_time
  deadline,      \* of the last poll, for its group, from when it began
  run_until      \* for each run_duration, from when main() waits

clockVars == <<next_due, deadline, run_until>>
vars == <<document, stage, config, refusal, clockVars>>

Default == [control_queue_capacity |-> 64]

-----------------------------------------------------------------------------
(* The members of a JSON object v *)

Has(v, key) == Is(v, "object") /\ key \in DOMAIN v.object
Get(v, key) == v.object[key]
ObjectMember(v, key) == Has(v, key) /\ Is(Get(v, key), "object")
ArrayMember(v, key) == Has(v, key) /\ Is(Get(v, key), "array")
Text(v, key, allow_empty) == Has(v, key) /\ IsString(Get(v, key), allow_empty)

(* missing or null *)
Absent(v, key) == Has(v, key) => Is(Get(v, key), "null")

PathAccepted(v, key) == Absent(v, key) \/ IsString(Get(v, key), FALSE)
PathValue(v, key) == IF Absent(v, key) THEN NoPath ELSE Get(v, key).string

EnabledAccepted(v) == Has(v, "enabled") => Is(Get(v, "enabled"), "bool")
EnabledValue(v) == IF Has(v, "enabled") THEN Get(v, "enabled").bool ELSE TRUE

Unsigned(v, key) == Has(v, key) /\ Is(Get(v, key), "integer") /\ Get(v, key).integer \in Nat

(* Mutant: a size may be zero *)
SizeAcceptedZero(v, key) == Unsigned(v, key) /\ Get(v, key).integer <= MaxU64

SizeAccepted(v, key) == Unsigned(v, key) /\ Get(v, key).integer \in 1..MaxU64
SizeValue(v, key) == Get(v, key).integer

MillisecondsAccepted(v, key) == Unsigned(v, key) /\ Get(v, key).integer \in 1..MaxI64
MillisecondsValue(v, key) == ToInt64(Get(v, key).integer)

NumberAccepted(v, key) ==
  Has(v, key) /\ (Is(Get(v, key), "integer") \/ Is(Get(v, key), "float"))

(* An optional is a set of at most one value *)
OptionalNumberAccepted(v, key) == Absent(v, key) \/ NumberAccepted(v, key)
OptionalNumberValue(v, key) == IF Absent(v, key) THEN {} ELSE {Double(Get(v, key))}

StringMap(v, key) ==
  ObjectMember(v, key) /\ \A k \in DOMAIN Get(v, key).object :
    IsString(Get(v, key).object[k], TRUE)

Items(v, key) == Get(v, key).array

(* No two objects of a JSON array have the same string as this member *)
UniqueMember(s, key) == IsInjective([i \in DOMAIN s |-> Get(s[i], key).string])

(* No two records of a sequence have the same id *)
UniqueIds(s) == IsInjective([i \in DOMAIN s |-> s[i].id])

-----------------------------------------------------------------------------
(* The sections of the document *)

ValueTypeName == {"integer", "double", "boolean", "string", "bytes", "byte_array"}

PointAccepted(v) ==
  /\ Text(v, "name", FALSE)
  /\ Text(v, "type", FALSE) /\ Get(v, "type").string \in ValueTypeName
  /\ Text(v, "unit", TRUE) /\ StringMap(v, "address")
  /\ NumberAccepted(v, "scale") /\ NumberAccepted(v, "offset")
  /\ OptionalNumberAccepted(v, "minimum") /\ OptionalNumberAccepted(v, "maximum")
  /\ \A l \in OptionalNumberValue(v, "minimum"), h \in OptionalNumberValue(v, "maximum") : l <= h

Point(v) ==
  [name |-> Get(v, "name").string,
   minimum |-> OptionalNumberValue(v, "minimum"),
   maximum |-> OptionalNumberValue(v, "maximum")]

DeviceAccepted(v) ==
  /\ Text(v, "id", FALSE) /\ Text(v, "driver", FALSE)
  /\ ObjectMember(v, "driver_config") /\ PathAccepted(v, "library")
  /\ StringMap(v, "connection")
  /\ ArrayMember(v, "points") /\ Items(v, "points") # <<>>
  /\ \A i \in DOMAIN Items(v, "points") : PointAccepted(Items(v, "points")[i])
  /\ UniqueMember(Items(v, "points"), "name")

Device(v) ==
  [id |-> Get(v, "id").string, driver |-> Get(v, "driver").string,
   library |-> PathValue(v, "library"),
   points |-> [i \in DOMAIN Items(v, "points") |-> Point(Items(v, "points")[i])]]

DevicesAccepted(root) ==
  /\ ArrayMember(root, "devices") /\ Items(root, "devices") # <<>>
  /\ \A i \in DOMAIN Items(root, "devices") : DeviceAccepted(Items(root, "devices")[i])
  /\ UniqueMember(Items(root, "devices"), "id")

Devices(root) == [i \in DOMAIN Items(root, "devices") |-> Device(Items(root, "devices")[i])]

Group(v) ==
  [id |-> Get(v, "id").string, device_id |-> Get(v, "device_id").string,
   interval |-> MillisecondsValue(v, "interval_ms"),
   timeout |-> MillisecondsValue(v, "timeout_ms"),
   points |-> {Items(v, "points")[i].string : i \in DOMAIN Items(v, "points")}]

GroupAccepted(v, devices) ==
  /\ Text(v, "id", FALSE) /\ Text(v, "device_id", FALSE)
  /\ MillisecondsAccepted(v, "interval_ms") /\ MillisecondsAccepted(v, "timeout_ms")
  /\ ArrayMember(v, "points") /\ Items(v, "points") # <<>>
  /\ UniqueStrings(Items(v, "points"))
  /\ \E i \in DOMAIN devices :
       /\ devices[i].id = Group(v).device_id
       /\ Group(v).points \subseteq
            {devices[i].points[j].name : j \in DOMAIN devices[i].points}

GroupsAccepted(root, devices) ==
  /\ ArrayMember(root, "groups")
  /\ \A i \in DOMAIN Items(root, "groups") : GroupAccepted(Items(root, "groups")[i], devices)
  /\ UniqueMember(Items(root, "groups"), "id")

Groups(root) == [i \in DOMAIN Items(root, "groups") |-> Group(Items(root, "groups")[i])]

PluginAccepted(v) ==
  /\ Text(v, "id", FALSE) /\ Text(v, "type", FALSE)
  /\ EnabledAccepted(v) /\ ObjectMember(v, "config") /\ PathAccepted(v, "library")

Plugin(v) ==
  [id |-> Get(v, "id").string, type |-> Get(v, "type").string, enabled |-> EnabledValue(v),
   settings |-> Get(v, "config").object, library |-> PathValue(v, "library")]

PluginsAccepted(root, key, optional) ==
  \/ optional /\ ~Has(root, key)
  \/ /\ ArrayMember(root, key)
     /\ \A i \in DOMAIN Items(root, key) : PluginAccepted(Items(root, key)[i])
     /\ UniqueMember(Items(root, key), "id")

Plugins(root, key) ==
  IF Has(root, key) THEN [i \in DOMAIN Items(root, key) |-> Plugin(Items(root, key)[i])]
  ELSE <<>>

RuntimeAccepted(v) ==
  /\ Absent(v, "run_duration_ms") \/ MillisecondsAccepted(v, "run_duration_ms")
  /\ SizeAccepted(v, "raw_queue_capacity")
  /\ Has(v, "control_queue_capacity") => SizeAccepted(v, "control_queue_capacity")

ParseAccepted(root) ==
  /\ ObjectMember(root, "runtime") /\ RuntimeAccepted(Get(root, "runtime"))
  /\ DevicesAccepted(root)
  /\ GroupsAccepted(root, Devices(root))
  /\ PluginsAccepted(root, "processors", FALSE)
  /\ PluginsAccepted(root, "event_publishers", FALSE)
  /\ PluginsAccepted(root, "device_control_sources", TRUE)

ParseApplicationConfig(root) ==
  LET runtime == Get(root, "runtime") IN
  [run_duration |-> IF Absent(runtime, "run_duration_ms") THEN {}
                    ELSE {MillisecondsValue(runtime, "run_duration_ms")},
   raw_queue_capacity |-> SizeValue(runtime, "raw_queue_capacity"),
   control_queue_capacity |->
     IF Has(runtime, "control_queue_capacity")
     THEN SizeValue(runtime, "control_queue_capacity")
     ELSE Default.control_queue_capacity,
   devices |-> Devices(root),
   groups |-> Groups(root),
   processors |-> Plugins(root, "processors"),
   event_publishers |-> Plugins(root, "event_publishers"),
   device_control_sources |-> Plugins(root, "device_control_sources")]

-----------------------------------------------------------------------------
(* The checks after the parser *)

QueueChecks(capacity) == capacity > 0

NormalizerChecks ==
  /\ UniqueIds(config.devices)
  /\ \A i \in DOMAIN config.devices :
       LET d == config.devices[i] IN
       /\ d.id # "" /\ IsInjective([j \in DOMAIN d.points |-> d.points[j].name])
       /\ \A j \in DOMAIN d.points :
            /\ d.points[j].name # ""
            /\ \A l \in d.points[j].minimum, h \in d.points[j].maximum : l <= h

(* create() has made one driver of each device *)
DriverChecks ==
  UniqueIds(config.devices) /\ \A i \in DOMAIN config.devices : config.devices[i].id # ""

GroupChecks ==
  /\ UniqueIds(config.groups)
  /\ \A i \in DOMAIN config.groups :
       LET g == config.groups[i] IN g.id # "" /\ g.interval > 0 /\ g.timeout > 0

DeviceIds == {config.devices[i].id : i \in DOMAIN config.devices}

(* mode[d] is the AcquisitionMode that the driver of d reports *)
GroupsPolled(mode) ==
  \A i \in DOMAIN config.groups :
    config.groups[i].device_id \in DeviceIds /\ mode[config.groups[i].device_id] = "Poll"

Enabled(s) == {i \in DOMAIN s : s[i].enabled}

(* The publishers are the enabled ones *)
PublisherChecks ==
  LET ps == config.event_publishers IN
  /\ \A i, j \in Enabled(ps) : ps[i].id = ps[j].id => i = j
  /\ \A i \in Enabled(ps) : ps[i].id # ""

PublishersConfigured ==
  LET ps == config.event_publishers IN
  \A i \in Enabled(ps) : ps[i].type = "mqtt" => ConfigureMqtt(ps[i].settings, DeviceIds)

(* The constructor of FixedIntervalSequentialPolicy *)
ScheduleChecks ==
  /\ UniqueIds(config.groups)
  /\ \A i \in DOMAIN config.groups : config.groups[i].id # "" /\ config.groups[i].interval > 0

-----------------------------------------------------------------------------
(* The clock.  TimePoints are 64-bit nanoseconds, kept here as their       *)
(* distance from the reading that they were computed from.                 *)

TimePoint == -(MaxI64 + 1)..MaxI64

(* now + ms[i] for each i.  An overflow, of the conversion to nanoseconds  *)
(* or of the sum, is undefined: the result is any number of the type.      *)
After(now, ms) ==
  {[i \in DOMAIN ms |-> IF i \in DOMAIN undefined THEN undefined[i] - now
                        ELSE ms[i] * PerMillisecond] :
     undefined \in [{i \in DOMAIN ms : now + ms[i] * PerMillisecond > MaxI64} -> TimePoint]}

-----------------------------------------------------------------------------
Init ==
  /\ document \in Documents
  /\ stage = "load"
  /\ config = {}
  /\ refusal = "none"
  /\ next_due = <<>> /\ deadline = <<>> /\ run_until = <<>>

Refuse(who) ==
  /\ stage' = "failed"
  /\ refusal' = who
  /\ UNCHANGED config

Proceed(next) ==
  /\ stage' = next
  /\ UNCHANGED <<config, refusal>>

(* The file cannot be opened or read, or is not JSON *)
Unreadable ==
  /\ stage = "load"
  /\ Refuse("file")
  /\ UNCHANGED <<document, clockVars>>

ParseConfig ==
  /\ stage = "load"
  /\ IF ParseAccepted(document)
     THEN /\ config' = ParseApplicationConfig(document)
          /\ stage' = "create"
          /\ UNCHANGED refusal
     ELSE Refuse("parser")
  /\ UNCHANGED <<document, clockVars>>

Created(s) == \A i \in Enabled(s) : CreatePlugin(s[i].type, s[i].settings)

(* The factories; a plugin that is not of the repository may refuse *)
Create ==
  /\ stage = "create"
  /\ \/ /\ Created(config.processors) /\ Created(config.event_publishers)
        /\ Proceed("construct")
     \/ Refuse("plugin")
  /\ UNCHANGED <<document, clockVars>>

(* GatewayRuntime's constructor, in the order of its checks *)
Construct ==
  /\ stage = "construct"
  /\ \E mode \in [DeviceIds -> {"Poll", "Push"}] :
       IF ~(QueueChecks(config.raw_queue_capacity) /\ NormalizerChecks /\ DriverChecks
              /\ GroupChecks)
       THEN Refuse("runtime")
       ELSE IF ~GroupsPolled(mode) THEN Refuse("mode")
       ELSE IF ~PublisherChecks THEN Refuse("runtime")
       ELSE IF ~PublishersConfigured THEN Refuse("plugin")
       ELSE IF ~QueueChecks(config.control_queue_capacity) THEN Refuse("runtime")
       ELSE Proceed("start")
  /\ UNCHANGED <<document, clockVars>>

(* start() makes the tasks of the scheduler *)
Start ==
  /\ stage = "start"
  /\ \E now \in 0..MaxNow :
       next_due' \in After(now, [i \in DOMAIN config.groups |-> config.groups[i].interval])
  /\ IF ScheduleChecks THEN Proceed("running") ELSE Refuse("runtime")
  /\ UNCHANGED <<document, deadline, run_until>>

(* poll_group() of the i-th group, up to its deadline *)
PollGroup(i) ==
  /\ stage = "running"
  /\ \E now \in 0..MaxNow : deadline' \in After(now, [j \in {i} |-> config.groups[i].timeout])
  /\ UNCHANGED <<document, stage, config, refusal, next_due, run_until>>

(* main() begins to wait, with or without an end *)
WaitForShutdown ==
  /\ stage = "running"
  /\ run_until = <<>>
  /\ \E now \in 0..MaxNow : run_until' \in After(now, [d \in config.run_duration |-> d])
  /\ UNCHANGED <<document, stage, config, refusal, next_due, deadline>>

Terminated == stage \in {"running", "failed"} /\ UNCHANGED vars

Next == \/ Unreadable \/ ParseConfig \/ Create \/ Construct \/ Start
        \/ \E i \in DOMAIN next_due : PollGroup(i)
        \/ WaitForShutdown \/ Terminated

Spec == Init /\ [][Next]_vars

-----------------------------------------------------------------------------
(* Properties *)

(* What the parser accepts, the runtime never refuses for a reason the     *)
(* document shows: the checks of the queues, the normalizer, the           *)
(* constructor and the scheduler's policy can fail only for a group on a   *)
(* push driver, of which the parser cannot know.                           *)
AcceptedIsValid == refusal # "runtime"

(* The clock waits for n milliseconds, if it can show their end *)
Waits(n, delay) ==
  MaxNow + n * PerMillisecond <= MaxI64 => delay = n * PerMillisecond

(* Every number of the document that the gateway runs with is the one that *)
(* is written there: no literal is cut to a narrower type on its way to a  *)
(* queue or to Paho, and none is dropped unless it is null or absent.  A   *)
(* poll is due, and ends, and main() stops, as many milliseconds later as  *)
(* is written, if the clock reaches so far: the parser accepts durations   *)
(* whose end it cannot represent, and the sum then overflows.              *)
NumbersExact ==
  stage = "running" =>
    LET runtime == Get(document, "runtime")
        group(i) == Items(document, "groups")[i]
        written(v, key) == Get(v, key).integer
    IN /\ written(runtime, "raw_queue_capacity") = config.raw_queue_capacity
       /\ Has(runtime, "control_queue_capacity") =>
            written(runtime, "control_queue_capacity") = config.control_queue_capacity
       /\ config.run_duration = {} => Absent(runtime, "run_duration_ms")
       /\ \A d \in DOMAIN run_until : Waits(written(runtime, "run_duration_ms"), run_until[d])
       /\ DOMAIN next_due = DOMAIN Items(document, "groups")
       /\ \A i \in DOMAIN next_due : Waits(written(group(i), "interval_ms"), next_due[i])
       /\ \A i \in DOMAIN deadline : Waits(written(group(i), "timeout_ms"), deadline[i])
       /\ \A i \in DOMAIN config.event_publishers :
            LET p == config.event_publishers[i]
                o == Get(Items(document, "event_publishers")[i], "config").object
            IN p.enabled /\ p.type = "mqtt" =>
                 \A key \in DOMAIN PahoOptions(p.settings) :
                   o[key].integer = PahoOptions(p.settings)[key]
=============================================================================
