-------------------------- MODULE ConfigurationProofs --------------------------
(***************************************************************************)
(* Proofs about the configuration, for every set of JSON documents and     *)
(* every width of the integer types: what the parser accepts, the runtime  *)
(* accepts, and every number arrives as it is written.                     *)
(***************************************************************************)
EXTENDS Configuration, TLAPS

-----------------------------------------------------------------------------
(* The inductive invariant *)

Parsed == {"create", "construct", "start", "running"}

ConfigInv ==
  /\ stage \in Parsed =>
       ParseAccepted(document) /\ config = ParseApplicationConfig(document)
  /\ stage \in Parsed \ {"create"} => Created(config.event_publishers)
  /\ refusal # "runtime"

(* What was computed of the durations in config *)
ClockInv ==
  /\ stage = "running" =>
       /\ DOMAIN next_due = DOMAIN config.groups
       /\ \A i \in DOMAIN next_due : Waits(config.groups[i].interval, next_due[i])
  /\ stage # "running" => deadline = <<>> /\ run_until = <<>>
  /\ \A i \in DOMAIN deadline :
       i \in DOMAIN config.groups /\ Waits(config.groups[i].timeout, deadline[i])
  /\ \A d \in DOMAIN run_until : d \in config.run_duration /\ Waits(d, run_until[d])

-----------------------------------------------------------------------------
(* What the parser reads *)

LEMMA ConfigFields ==
  ASSUME config = ParseApplicationConfig(document)
  PROVE  /\ config.devices = Devices(document) /\ config.groups = Groups(document)
         /\ config.event_publishers = Plugins(document, "event_publishers")
         /\ config.raw_queue_capacity = SizeValue(Get(document, "runtime"), "raw_queue_capacity")
         /\ config.control_queue_capacity =
              IF Has(Get(document, "runtime"), "control_queue_capacity")
              THEN SizeValue(Get(document, "runtime"), "control_queue_capacity")
              ELSE 64
         /\ config.run_duration =
              IF Absent(Get(document, "runtime"), "run_duration_ms") THEN {}
              ELSE {MillisecondsValue(Get(document, "runtime"), "run_duration_ms")}
<1>1. Default.control_queue_capacity = 64
  BY DEF Default
<1> QED BY <1>1 DEF ParseApplicationConfig

(* A duration keeps its value and is positive.                             *)
LEMMA MillisecondsLemma ==
  ASSUME NEW v, NEW key, MillisecondsAccepted(v, key)
  PROVE  /\ MillisecondsValue(v, key) = Get(v, key).integer
         /\ MillisecondsValue(v, key) \in Nat \ {0}
<1>1. MaxI64 \in Nat
  BY WidthAssumption DEF WidthAssumption
<1>2. Get(v, key).integer \in 1..MaxI64
  BY DEF MillisecondsAccepted
<1> QED BY <1>1, <1>2 DEF MillisecondsValue, ToInt64

LEMMA SizeLemma ==
  ASSUME NEW v, NEW key, SizeAccepted(v, key)
  PROVE  SizeValue(v, key) = Get(v, key).integer /\ SizeValue(v, key) > 0
BY WidthAssumption DEF WidthAssumption, SizeAccepted, SizeValue

LEMMA QueuesValid ==
  ASSUME ParseAccepted(document), config = ParseApplicationConfig(document)
  PROVE  QueueChecks(config.raw_queue_capacity) /\ QueueChecks(config.control_queue_capacity)
<1>1. RuntimeAccepted(Get(document, "runtime"))
  BY DEF ParseAccepted
<1>2. /\ SizeAccepted(Get(document, "runtime"), "raw_queue_capacity")
      /\ Has(Get(document, "runtime"), "control_queue_capacity") =>
           SizeAccepted(Get(document, "runtime"), "control_queue_capacity")
  BY <1>1 DEF RuntimeAccepted
<1>3. 64 > 0
  OBVIOUS
<1> QED BY <1>2, <1>3, ConfigFields, SizeLemma DEF QueueChecks

(* The members of the devices and of their points.                         *)
LEMMA DeviceFields ==
  ASSUME DevicesAccepted(document)
  PROVE  LET ds == Devices(document)
             vs == Items(document, "devices") IN
         /\ DOMAIN ds = DOMAIN vs
         /\ \A i \in DOMAIN ds :
              /\ ds[i].id = Get(vs[i], "id").string /\ ds[i].id # ""
              /\ DOMAIN ds[i].points = DOMAIN Items(vs[i], "points")
              /\ \A j \in DOMAIN ds[i].points :
                   /\ ds[i].points[j] = Point(Items(vs[i], "points")[j])
                   /\ PointAccepted(Items(vs[i], "points")[j])
              /\ UniqueMember(Items(vs[i], "points"), "name")
<1> DEFINE ds == Devices(document)
           vs == Items(document, "devices")
<1>1. DOMAIN ds = DOMAIN vs /\ \A i \in DOMAIN ds : ds[i] = Device(vs[i])
  BY DEF Devices
<1>2. \A i \in DOMAIN vs : DeviceAccepted(vs[i])
  BY DEF DevicesAccepted
<1> HIDE DEF ds, vs
<1>3. ASSUME NEW i \in DOMAIN ds
      PROVE  /\ ds[i].id = Get(vs[i], "id").string /\ ds[i].id # ""
             /\ DOMAIN ds[i].points = DOMAIN Items(vs[i], "points")
             /\ \A j \in DOMAIN ds[i].points :
                  /\ ds[i].points[j] = Point(Items(vs[i], "points")[j])
                  /\ PointAccepted(Items(vs[i], "points")[j])
             /\ UniqueMember(Items(vs[i], "points"), "name")
  <2>1. DeviceAccepted(vs[i]) /\ ds[i] = Device(vs[i])
    BY <1>1, <1>2
  <2>2. /\ ds[i].id = Get(vs[i], "id").string
        /\ ds[i].points = [j \in DOMAIN Items(vs[i], "points") |-> Point(Items(vs[i], "points")[j])]
    BY <2>1 DEF Device
  <2>3. Get(vs[i], "id").string # ""
    BY <2>1 DEF DeviceAccepted, Text, IsString
  <2>4. /\ \A j \in DOMAIN Items(vs[i], "points") : PointAccepted(Items(vs[i], "points")[j])
        /\ UniqueMember(Items(vs[i], "points"), "name")
    BY <2>1 DEF DeviceAccepted
  <2> QED BY <2>2, <2>3, <2>4
<1> QED BY <1>1, <1>3 DEF ds, vs

(* What is unique in the document is unique in the configuration.          *)
LEMMA UniqueDevices ==
  ASSUME DevicesAccepted(document)
  PROVE  UniqueIds(Devices(document))
<1> DEFINE ds == Devices(document)
           vs == Items(document, "devices")
<1>1. DOMAIN ds = DOMAIN vs /\ \A i \in DOMAIN ds : ds[i].id = Get(vs[i], "id").string
  BY DeviceFields
<1>2. UniqueMember(vs, "id")
  BY DEF DevicesAccepted
<1> HIDE DEF ds, vs
<1>3. [i \in DOMAIN ds |-> ds[i].id] = [i \in DOMAIN vs |-> Get(vs[i], "id").string]
  BY <1>1
<1>4. IsInjective([i \in DOMAIN ds |-> ds[i].id])
  BY <1>2, <1>3 DEF UniqueMember
<1> QED BY <1>4 DEF UniqueIds, ds

LEMMA NormalizerValid ==
  ASSUME ParseAccepted(document), config = ParseApplicationConfig(document)
  PROVE  NormalizerChecks /\ DriverChecks
<1>1. config.devices = Devices(document) /\ DevicesAccepted(document)
  BY ConfigFields DEF ParseAccepted
<1>2. UniqueIds(config.devices)
  BY <1>1, UniqueDevices
<1>3. ASSUME NEW i \in DOMAIN config.devices
      PROVE  LET d == config.devices[i] IN
             /\ d.id # "" /\ IsInjective([j \in DOMAIN d.points |-> d.points[j].name])
             /\ \A j \in DOMAIN d.points :
                  /\ d.points[j].name # ""
                  /\ \A l \in d.points[j].minimum, h \in d.points[j].maximum : l <= h
  <2> DEFINE d == config.devices[i]
             ps == Items(Items(document, "devices")[i], "points")
  <2>1. /\ d.id # "" /\ DOMAIN d.points = DOMAIN ps
        /\ \A j \in DOMAIN d.points : d.points[j] = Point(ps[j]) /\ PointAccepted(ps[j])
        /\ UniqueMember(ps, "name")
    <3>1. i \in DOMAIN Devices(document) /\ d = Devices(document)[i]
      BY <1>1, <1>3
    <3> HIDE DEF d
    <3> QED BY <1>1, <3>1, DeviceFields, Zenon
  <2> HIDE DEF d, ps
  <2>2. \A j \in DOMAIN d.points :
          /\ d.points[j].name = Get(ps[j], "name").string
          /\ d.points[j].minimum = OptionalNumberValue(ps[j], "minimum")
          /\ d.points[j].maximum = OptionalNumberValue(ps[j], "maximum")
    <3>1. ASSUME NEW v
          PROVE  /\ Point(v).name = Get(v, "name").string
                 /\ Point(v).minimum = OptionalNumberValue(v, "minimum")
                 /\ Point(v).maximum = OptionalNumberValue(v, "maximum")
      BY DEF Point
    <3> QED BY <2>1, <3>1
  <2>3. [j \in DOMAIN d.points |-> d.points[j].name] = [j \in DOMAIN ps |-> Get(ps[j], "name").string]
    BY <2>1, <2>2
  <2>4. IsInjective([j \in DOMAIN d.points |-> d.points[j].name])
    BY <2>1, <2>3 DEF UniqueMember
  <2>5. \A j \in DOMAIN d.points :
          /\ Get(ps[j], "name").string # ""
          /\ \A l \in OptionalNumberValue(ps[j], "minimum"),
                h \in OptionalNumberValue(ps[j], "maximum") : l <= h
    BY <2>1 DEF PointAccepted, Text, IsString
  <2> QED BY <2>1, <2>2, <2>4, <2>5 DEF d
<1> QED BY <1>2, <1>3 DEF NormalizerChecks, DriverChecks

(* The members of the groups.                                              *)
LEMMA GroupFields ==
  ASSUME GroupsAccepted(document, Devices(document))
  PROVE  LET gs == Groups(document)
             vs == Items(document, "groups") IN
         /\ DOMAIN gs = DOMAIN vs /\ UniqueIds(gs)
         /\ \A i \in DOMAIN gs :
              /\ gs[i].id # ""
              /\ gs[i].interval = Get(vs[i], "interval_ms").integer /\ gs[i].interval \in Nat \ {0}
              /\ gs[i].timeout = Get(vs[i], "timeout_ms").integer /\ gs[i].timeout \in Nat \ {0}
<1> DEFINE gs == Groups(document)
           vs == Items(document, "groups")
<1>1. DOMAIN gs = DOMAIN vs /\ \A i \in DOMAIN gs : gs[i] = Group(vs[i])
  BY DEF Groups
<1>2. UniqueMember(vs, "id") /\ \A i \in DOMAIN vs : GroupAccepted(vs[i], Devices(document))
  BY DEF GroupsAccepted
<1> HIDE DEF gs, vs
<1>3. ASSUME NEW i \in DOMAIN gs
      PROVE  /\ gs[i].id = Get(vs[i], "id").string /\ gs[i].id # ""
             /\ gs[i].interval = Get(vs[i], "interval_ms").integer /\ gs[i].interval \in Nat \ {0}
             /\ gs[i].timeout = Get(vs[i], "timeout_ms").integer /\ gs[i].timeout \in Nat \ {0}
  <2>1. gs[i] = Group(vs[i]) /\ GroupAccepted(vs[i], Devices(document))
    BY <1>1, <1>2
  <2>2. /\ gs[i].id = Get(vs[i], "id").string
        /\ gs[i].interval = MillisecondsValue(vs[i], "interval_ms")
        /\ gs[i].timeout = MillisecondsValue(vs[i], "timeout_ms")
    BY <2>1 DEF Group
  <2>3. /\ Get(vs[i], "id").string # "" /\ MillisecondsAccepted(vs[i], "interval_ms")
        /\ MillisecondsAccepted(vs[i], "timeout_ms")
    BY <2>1 DEF GroupAccepted, Text, IsString
  <2> QED BY <2>2, <2>3, MillisecondsLemma
<1>4. [i \in DOMAIN gs |-> gs[i].id] = [i \in DOMAIN vs |-> Get(vs[i], "id").string]
  BY <1>1, <1>3
<1>5. UniqueIds(gs)
  BY <1>2, <1>4 DEF UniqueMember, UniqueIds
<1> QED BY <1>1, <1>3, <1>5 DEF gs, vs

LEMMA GroupsValid ==
  ASSUME ParseAccepted(document), config = ParseApplicationConfig(document)
  PROVE  GroupChecks /\ ScheduleChecks
<1>1. config.groups = Groups(document) /\ GroupsAccepted(document, Devices(document))
  BY ConfigFields DEF ParseAccepted
<1>2. /\ UniqueIds(config.groups)
      /\ \A i \in DOMAIN config.groups :
           /\ config.groups[i].id # "" /\ config.groups[i].interval \in Nat \ {0}
           /\ config.groups[i].timeout \in Nat \ {0}
  BY <1>1, GroupFields
<1>3. \A i \in DOMAIN config.groups :
         config.groups[i].interval > 0 /\ config.groups[i].timeout > 0
  <2>1. \A n \in Nat \ {0} : n > 0
    OBVIOUS
  <2> QED BY <1>2, <2>1, Zenon
<1> QED BY <1>2, <1>3 DEF GroupChecks, ScheduleChecks

(* The members of the publishers.                                          *)
LEMMA PublisherFields ==
  ASSUME PluginsAccepted(document, "event_publishers", FALSE)
  PROVE  LET ps == Plugins(document, "event_publishers")
             vs == Items(document, "event_publishers") IN
         /\ DOMAIN ps = DOMAIN vs
         /\ \A i, j \in DOMAIN ps : ps[i].id = ps[j].id => i = j
         /\ \A i \in DOMAIN ps : ps[i].id # "" /\ ps[i].settings = Get(vs[i], "config").object
<1> DEFINE ps == Plugins(document, "event_publishers")
           vs == Items(document, "event_publishers")
<1>1. /\ Has(document, "event_publishers") /\ UniqueMember(vs, "id")
      /\ \A i \in DOMAIN vs : PluginAccepted(vs[i])
  BY DEF PluginsAccepted, ArrayMember
<1>2. DOMAIN ps = DOMAIN vs /\ \A i \in DOMAIN ps : ps[i] = Plugin(vs[i])
  BY <1>1 DEF Plugins
<1> HIDE DEF ps, vs
<1>3. \A i \in DOMAIN ps : /\ ps[i].id = Get(vs[i], "id").string
                           /\ ps[i].settings = Get(vs[i], "config").object
  BY <1>2 DEF Plugin
<1>4. \A i \in DOMAIN ps : ps[i].id # ""
  BY <1>1, <1>2, <1>3 DEF PluginAccepted, Text, IsString
<1>5. \A i, j \in DOMAIN vs : Get(vs[i], "id").string = Get(vs[j], "id").string => i = j
  BY <1>1 DEF UniqueMember, IsInjective
<1>6. \A i, j \in DOMAIN ps : ps[i].id = ps[j].id => i = j
  BY <1>2, <1>3, <1>5
<1> QED BY <1>2, <1>3, <1>4, <1>6 DEF ps, vs

LEMMA PublishersValid ==
  ASSUME ParseAccepted(document), config = ParseApplicationConfig(document)
  PROVE  PublisherChecks
<1>1. /\ config.event_publishers = Plugins(document, "event_publishers")
      /\ PluginsAccepted(document, "event_publishers", FALSE)
  BY ConfigFields DEF ParseAccepted
<1> DEFINE ps == config.event_publishers
<1>2. /\ \A i, j \in DOMAIN ps : ps[i].id = ps[j].id => i = j
      /\ \A i \in DOMAIN ps : ps[i].id # ""
  BY <1>1, PublisherFields, ZenonT(60)
<1>3. Enabled(ps) \subseteq DOMAIN ps
  BY DEF Enabled
<1> HIDE DEF ps
<1>4. /\ \A i, j \in Enabled(ps) : ps[i].id = ps[j].id => i = j
      /\ \A i \in Enabled(ps) : ps[i].id # ""
  BY <1>2, <1>3
<1> QED BY <1>4 DEF PublisherChecks, ps

-----------------------------------------------------------------------------
(* The theorems *)

(* ConfigInv holds in every state: a configuration that is used is the one *)
(* the document says, and no check after the parser refuses it.            *)
THEOREM ConfigInvariant == Spec => []ConfigInv
<1>1. Init => ConfigInv
  BY DEF Init, ConfigInv, Parsed
<1>2. ConfigInv /\ [Next]_vars => ConfigInv'
  <2> SUFFICES ASSUME ConfigInv, [Next]_vars PROVE ConfigInv'
    OBVIOUS
  <2> USE DEF Refuse, Proceed
  <2>1. CASE Unreadable
    BY <2>1 DEF Unreadable, ConfigInv, Parsed
  <2>2. CASE ParseConfig
    BY <2>2 DEF ParseConfig, ConfigInv, Parsed
  <2>3. CASE Create
    BY <2>3 DEF Create, ConfigInv, Parsed
  <2>4. CASE Construct
    <3>1. ParseAccepted(document) /\ config = ParseApplicationConfig(document)
      BY <2>4 DEF Construct, ConfigInv, Parsed
    <3>2. /\ QueueChecks(config.raw_queue_capacity) /\ NormalizerChecks /\ DriverChecks
          /\ GroupChecks /\ PublisherChecks /\ QueueChecks(config.control_queue_capacity)
      BY <3>1, QueuesValid, NormalizerValid, GroupsValid, PublishersValid
    <3>3. Refuse("mode") \/ Refuse("plugin") \/ Proceed("start")
      BY <2>4, <3>2 DEF Construct
    <3>4. UNCHANGED document /\ stage = "construct"
      BY <2>4 DEF Construct
    <3> QED BY <3>3, <3>4 DEF ConfigInv, Parsed
  <2>5. CASE Start
    <3>1. ParseAccepted(document) /\ config = ParseApplicationConfig(document)
      BY <2>5 DEF Start, ConfigInv, Parsed
    <3>2. ScheduleChecks
      BY <3>1, GroupsValid
    <3> QED BY <2>5, <3>2 DEF Start, ConfigInv, Parsed
  <2>6. CASE (\E i \in DOMAIN next_due : PollGroup(i)) \/ WaitForShutdown
    BY <2>6 DEF PollGroup, WaitForShutdown, ConfigInv, Parsed, Created, Enabled
  <2>7. CASE Terminated \/ UNCHANGED vars
    BY <2>7 DEF Terminated, vars, ConfigInv, Created, Enabled
  <2> QED BY <2>1, <2>2, <2>3, <2>4, <2>5, <2>6, <2>7 DEF Next
<1> QED BY <1>1, <1>2, PTL DEF Spec

(* What the parser accepts, no queue, normalizer, constructor or scheduler *)
(* refuses.                                                                *)
THEOREM WhatIsAcceptedIsValid == Spec => []AcceptedIsValid
<1>1. ConfigInv => AcceptedIsValid
  BY DEF ConfigInv, AcceptedIsValid
<1> QED BY <1>1, ConfigInvariant, PTL

(* A number within int survives the casts.                                 *)
LEMMA CastLemma ==
  ASSUME NEW n \in 0..MaxUInt
  PROVE  ToUInt(n) = n /\ (n <= MaxInt => ToInt(n) = n)
<1>1. MaxUInt \in Nat /\ MaxInt \in Nat
  BY WidthAssumption DEF WidthAssumption
<1>2. ToUInt(n) = n
  BY <1>1 DEF ToUInt
<1> QED BY <1>1, <1>2 DEF ToInt

(* The numbers that Paho is given are those of the settings.               *)
LEMMA PahoLemma ==
  ASSUME NEW o, CreateMqtt(o)
  PROVE  \A key \in DOMAIN PahoOptions(o) : o[key].integer = PahoOptions(o)[key]
<1> DEFINE c == MqttConfig(o)
<1>1. MaxInt \in Nat /\ MaxUInt = 2 * MaxInt + 1 /\ MaxPort \in Nat
      /\ MaxPort < MaxInt /\ 2 < MaxPort
  BY WidthAssumption DEF WidthAssumption
<1>2. /\ o["port"].integer \in 1..MaxPort /\ o["keepalive"].integer \in 0..MaxPort
      /\ o["qos"].integer \in 0..2
      /\ o["reconnect_delay"].integer \in 0..MaxUInt
      /\ o["reconnect_delay_max"].integer \in 0..MaxUInt
  <2>1. /\ IntMember(o, "port", 1, MaxPort) /\ IntMember(o, "keepalive", 0, MaxPort)
        /\ IntMember(o, "qos", 0, 2)
        /\ UnsignedMember(o, "reconnect_delay") /\ UnsignedMember(o, "reconnect_delay_max")
    BY DEF CreateMqtt, MqttMembers
  <2> QED BY <1>1, <2>1 DEF IntMember, UnsignedMember, UnsignedIntegerMember
<1>3. /\ c.port = o["port"].integer /\ c.keepalive = o["keepalive"].integer
      /\ c.qos = o["qos"].integer /\ c.reconnect_delay = o["reconnect_delay"].integer
      /\ c.reconnect_delay_max = o["reconnect_delay_max"].integer
  <2>1. /\ c.port = ToInt(o["port"].integer) /\ c.keepalive = ToInt(o["keepalive"].integer)
        /\ c.qos = ToInt(o["qos"].integer)
        /\ c.reconnect_delay = ToUInt(o["reconnect_delay"].integer)
        /\ c.reconnect_delay_max = ToUInt(o["reconnect_delay_max"].integer)
    BY DEF MqttConfig
  <2>2. \A n \in 0..MaxPort : n \in 0..MaxUInt /\ n <= MaxInt
    BY <1>1
  <2>3. /\ o["port"].integer \in 0..MaxPort /\ o["qos"].integer \in 0..MaxPort
    BY <1>1, <1>2
  <2> QED BY <1>2, <2>1, <2>2, <2>3, CastLemma
<1>4. c.reconnect_delay <= c.reconnect_delay_max /\ c.reconnect_delay_max <= MaxInt
  BY DEF CreateMqtt, ValidateConfig
<1>5. /\ ToInt(c.reconnect_delay) = o["reconnect_delay"].integer
      /\ ToInt(c.reconnect_delay_max) = o["reconnect_delay_max"].integer
  <2>1. c.reconnect_delay <= MaxInt
    BY <1>1, <1>2, <1>3, <1>4
  <2> QED BY <1>2, <1>3, <1>4, <2>1, CastLemma
<1>6. PahoOptions(o) = [port |-> c.port, keepalive |-> c.keepalive, qos |-> c.qos,
                        reconnect_delay |-> ToInt(c.reconnect_delay),
                        reconnect_delay_max |-> ToInt(c.reconnect_delay_max)]
  BY DEF PahoOptions
<1> HIDE DEF c
<1> QED BY <1>3, <1>5, <1>6

(* A duration whose end the clock can show is added to any of its readings *)
(* without overflow.                                                       *)
LEMMA AfterLemma ==
  ASSUME NEW now \in 0..MaxNow, NEW ms, \A i \in DOMAIN ms : ms[i] \in Nat,
         NEW f \in After(now, ms)
  PROVE  DOMAIN f = DOMAIN ms /\ \A i \in DOMAIN f : Waits(ms[i], f[i])
<1>1. MaxNow \in Nat /\ PerMillisecond \in Nat /\ MaxI64 \in Nat
  BY ClockAssumption, WidthAssumption DEF ClockAssumption, WidthAssumption
<1> DEFINE beyond == {i \in DOMAIN ms : now + ms[i] * PerMillisecond > MaxI64}
<1>2. PICK u \in [beyond -> TimePoint] :
        f = [i \in DOMAIN ms |-> IF i \in DOMAIN u THEN u[i] - now ELSE ms[i] * PerMillisecond]
  BY DEF After
<1>3. ASSUME NEW i \in DOMAIN ms PROVE Waits(ms[i], f[i])
  <2>1. ms[i] * PerMillisecond \in Nat
    BY <1>1
  <2>2. MaxNow + ms[i] * PerMillisecond <= MaxI64 => i \notin beyond
    BY <1>1, <2>1
  <2>3. i \notin beyond => f[i] = ms[i] * PerMillisecond
    BY <1>2
  <2> HIDE DEF beyond
  <2> QED BY <2>2, <2>3 DEF Waits
<1> QED BY <1>2, <1>3

(* The durations of an accepted configuration are natural numbers.         *)
LEMMA DurationsNatural ==
  ASSUME ConfigInv, stage \in Parsed
  PROVE  /\ \A i \in DOMAIN config.groups :
              config.groups[i].interval \in Nat /\ config.groups[i].timeout \in Nat
         /\ \A d \in config.run_duration : d \in Nat
<1>1. ParseAccepted(document) /\ config = ParseApplicationConfig(document)
  BY DEF ConfigInv
<1>2. config.groups = Groups(document) /\ GroupsAccepted(document, Devices(document))
  BY <1>1, ConfigFields DEF ParseAccepted
<1>3. \A i \in DOMAIN config.groups :
        config.groups[i].interval \in Nat /\ config.groups[i].timeout \in Nat
  BY <1>2, GroupFields
<1>4. \/ Absent(Get(document, "runtime"), "run_duration_ms")
      \/ MillisecondsAccepted(Get(document, "runtime"), "run_duration_ms")
  BY <1>1 DEF ParseAccepted, RuntimeAccepted
<1>5. \A d \in config.run_duration : d \in Nat
  BY <1>1, <1>4, ConfigFields, MillisecondsLemma
<1> QED BY <1>3, <1>5

(* The clock waits for what config says.                                   *)
LEMMA ClockInvariant == Spec => []ClockInv
<1>1. Init => ClockInv
  BY DEF Init, ClockInv
<1>2. ConfigInv /\ ClockInv /\ [Next]_vars => ClockInv'
  <2> SUFFICES ASSUME ConfigInv, ClockInv, [Next]_vars PROVE ClockInv'
    OBVIOUS
  <2>1. CASE Unreadable \/ ParseConfig \/ Create \/ Construct
    <3>1. stage # "running" /\ stage' # "running" /\ UNCHANGED clockVars
      BY <2>1 DEF Unreadable, ParseConfig, Create, Construct, Refuse, Proceed
    <3> QED BY <3>1 DEF ClockInv, clockVars
  <2>2. CASE Start
    <3> DEFINE ms == [i \in DOMAIN config.groups |-> config.groups[i].interval]
    <3>1. /\ stage = "start" /\ UNCHANGED <<config, deadline, run_until>>
          /\ \E now \in 0..MaxNow : next_due' \in After(now, ms)
      BY <2>2 DEF Start, Refuse, Proceed
    <3>2. \A i \in DOMAIN ms : ms[i] \in Nat
      BY <3>1, DurationsNatural DEF Parsed
    <3> HIDE DEF ms
    <3>3. DOMAIN next_due' = DOMAIN ms /\ \A i \in DOMAIN next_due' : Waits(ms[i], next_due'[i])
      BY <3>1, <3>2, AfterLemma
    <3> USE DEF ms
    <3>4. /\ DOMAIN next_due' = DOMAIN config.groups
          /\ \A i \in DOMAIN next_due' : Waits(config.groups[i].interval, next_due'[i])
      BY <3>3
    <3> QED BY <3>1, <3>4 DEF ClockInv
  <2>3. ASSUME NEW g \in DOMAIN next_due, PollGroup(g) PROVE ClockInv'
    <3> DEFINE ms == [j \in {g} |-> config.groups[g].timeout]
    <3>1. /\ stage = "running" /\ UNCHANGED <<stage, config, next_due, run_until>>
          /\ \E now \in 0..MaxNow : deadline' \in After(now, ms)
      BY <2>3 DEF PollGroup
    <3>2. g \in DOMAIN config.groups
      BY <3>1 DEF ClockInv
    <3>3. \A i \in DOMAIN ms : ms[i] \in Nat
      BY <3>1, <3>2, DurationsNatural DEF Parsed
    <3> HIDE DEF ms
    <3>4. DOMAIN deadline' = DOMAIN ms /\ \A i \in DOMAIN deadline' : Waits(ms[i], deadline'[i])
      BY <3>1, <3>3, AfterLemma
    <3> USE DEF ms
    <3>5. \A i \in DOMAIN deadline' :
            i \in DOMAIN config.groups /\ Waits(config.groups[i].timeout, deadline'[i])
      BY <3>2, <3>4
    <3> QED BY <3>1, <3>5 DEF ClockInv
  <2>4. CASE WaitForShutdown
    <3> DEFINE ms == [d \in config.run_duration |-> d]
    <3>1. /\ stage = "running" /\ UNCHANGED <<stage, config, next_due, deadline>>
          /\ \E now \in 0..MaxNow : run_until' \in After(now, ms)
      BY <2>4 DEF WaitForShutdown
    <3>2. \A d \in DOMAIN ms : ms[d] \in Nat
      BY <3>1, DurationsNatural DEF Parsed
    <3> HIDE DEF ms
    <3>3. DOMAIN run_until' = DOMAIN ms /\ \A d \in DOMAIN run_until' : Waits(ms[d], run_until'[d])
      BY <3>1, <3>2, AfterLemma
    <3> USE DEF ms
    <3>4. \A d \in DOMAIN run_until' : d \in config.run_duration /\ Waits(d, run_until'[d])
      BY <3>3
    <3> QED BY <3>1, <3>4 DEF ClockInv
  <2>5. CASE Terminated \/ UNCHANGED vars
    BY <2>5 DEF Terminated, vars, clockVars, ClockInv
  <2> QED BY <2>1, <2>2, <2>3, <2>4, <2>5 DEF Next
<1> QED BY <1>1, <1>2, ConfigInvariant, PTL DEF Spec

(* Every number the gateway runs with is the one in the document: none is  *)
(* cut to a narrower type on its way to a queue or to Paho, none is        *)
(* dropped unless it is null or absent, and the clock waits as long as is  *)
(* written, if it can show the end of that time.                           *)
THEOREM NumbersAreExact == Spec => []NumbersExact
<1>1. ConfigInv /\ ClockInv => NumbersExact
  <2> SUFFICES ASSUME ConfigInv, ClockInv, stage = "running" PROVE NumbersExact
    BY DEF NumbersExact
  <2> DEFINE runtime == Get(document, "runtime")
  <2>1. /\ ParseAccepted(document) /\ config = ParseApplicationConfig(document)
        /\ Created(config.event_publishers)
    BY DEF ConfigInv, Parsed
  <2>2. RuntimeAccepted(runtime) /\ GroupsAccepted(document, Devices(document))
        /\ PluginsAccepted(document, "event_publishers", FALSE)
    BY <2>1 DEF ParseAccepted
  <2>3. /\ SizeAccepted(runtime, "raw_queue_capacity")
        /\ Has(runtime, "control_queue_capacity") => SizeAccepted(runtime, "control_queue_capacity")
        /\ Absent(runtime, "run_duration_ms") \/ MillisecondsAccepted(runtime, "run_duration_ms")
    BY <2>2 DEF RuntimeAccepted
  <2>4. /\ Get(runtime, "raw_queue_capacity").integer = config.raw_queue_capacity
        /\ Has(runtime, "control_queue_capacity") =>
             Get(runtime, "control_queue_capacity").integer = config.control_queue_capacity
    BY <2>1, <2>3, ConfigFields, SizeLemma
  <2>5. /\ config.run_duration = {} => Absent(runtime, "run_duration_ms")
        /\ \A d \in DOMAIN run_until :
             Waits(Get(runtime, "run_duration_ms").integer, run_until[d])
    <3>1. /\ config.run_duration = {} => Absent(runtime, "run_duration_ms")
          /\ \A d \in config.run_duration : Get(runtime, "run_duration_ms").integer = d
      BY <2>1, <2>3, ConfigFields, MillisecondsLemma
    <3> QED BY <3>1 DEF ClockInv
  <2>6. /\ DOMAIN next_due = DOMAIN Items(document, "groups")
        /\ \A i \in DOMAIN next_due :
             Waits(Get(Items(document, "groups")[i], "interval_ms").integer, next_due[i])
        /\ \A i \in DOMAIN deadline :
             Waits(Get(Items(document, "groups")[i], "timeout_ms").integer, deadline[i])
    <3>1. config.groups = Groups(document)
      BY <2>1, ConfigFields
    <3>2. /\ DOMAIN config.groups = DOMAIN Items(document, "groups")
          /\ \A i \in DOMAIN config.groups :
               /\ Get(Items(document, "groups")[i], "interval_ms").integer = config.groups[i].interval
               /\ Get(Items(document, "groups")[i], "timeout_ms").integer = config.groups[i].timeout
      BY <2>2, <3>1, GroupFields
    <3> QED BY <3>2 DEF ClockInv
  <2>7. ASSUME NEW i \in DOMAIN config.event_publishers,
               config.event_publishers[i].enabled, config.event_publishers[i].type = "mqtt",
               NEW key \in DOMAIN PahoOptions(config.event_publishers[i].settings)
        PROVE  Get(Items(document, "event_publishers")[i], "config").object[key].integer =
                 PahoOptions(config.event_publishers[i].settings)[key]
    <3> DEFINE o == config.event_publishers[i].settings
    <3>1. config.event_publishers = Plugins(document, "event_publishers")
      BY <2>1, ConfigFields
    <3>2. o = Get(Items(document, "event_publishers")[i], "config").object
      BY <2>2, <3>1, PublisherFields
    <3>3. CreateMqtt(o)
      <4>1. CreatePlugin("mqtt", o)
        BY <2>1, <2>7 DEF Created, Enabled
      <4> QED BY <4>1 DEF CreatePlugin
    <3> HIDE DEF o
    <3>4. \A k \in DOMAIN PahoOptions(o) : o[k].integer = PahoOptions(o)[k]
      BY <3>3, PahoLemma
    <3> QED BY <2>7, <3>2, <3>4 DEF o
  <2> QED BY <2>4, <2>5, <2>6, <2>7 DEF NumbersExact
<1> QED BY <1>1, ConfigInvariant, ClockInvariant, PTL
=============================================================================
