---------------------------- MODULE PluginSettings ----------------------------
(***************************************************************************)
(* What the plugins of the repository accept as settings: the helpers of   *)
(* src/include/plugin_support/plugin_json.hpp, the factories of the three  *)
(* processors and of the MQTT publisher, and the numbers it hands to Paho. *)
(* Every failure of the code (a wrong type, a missing member, a value out  *)
(* of range) makes create_plugin return null, so a factory is the          *)
(* predicate that tells when it does not.  Configuration EXTENDS this      *)
(* module.                                                                 *)
(*                                                                         *)
(* A JSON value is a record whose one field names its type.  Integers keep *)
(* their widths, in small: a number of the document is an integer exactly  *)
(* if it has a 64-bit type, and casts wrap around.                         *)
(***************************************************************************)
EXTENDS Integers, Sequences

CONSTANTS
  MaxU64, MaxI64,    \* largest std::uint64_t (and std::size_t), std::int64_t
  MaxUInt, MaxInt,   \* largest unsigned and int
  MaxPort,           \* 65535
  Wild               \* strings with a +, a # or a NUL

ASSUME WidthAssumption ==
  /\ MaxInt \in Nat /\ MaxUInt = 2 * MaxInt + 1
  /\ MaxI64 \in Nat /\ MaxU64 = 2 * MaxI64 + 1
  /\ MaxPort \in Nat /\ 2 < MaxPort /\ MaxPort < MaxInt /\ MaxUInt < MaxI64

Is(v, type) == type \in DOMAIN v

(* external: how nlohmann::json reads an integer literal *)
Number(n) == IF n \in -(MaxI64 + 1)..MaxU64 THEN [integer |-> n] ELSE [float |-> 2 * n]

(* get<double>(), in halves.  It is finite: the parser refuses a literal   *)
(* that is not.                                                            *)
Double(v) == IF Is(v, "integer") THEN 2 * v.integer ELSE v.float

(* external: static_cast between the integer types *)
ToUInt(n) == n % (MaxUInt + 1)
ToInt(n) == LET u == ToUInt(n) IN IF u > MaxInt THEN u - (MaxUInt + 1) ELSE u
ToInt64(n) == IF n > MaxI64 THEN n - (MaxU64 + 1) ELSE n

-----------------------------------------------------------------------------
(* The members of a settings object o, a function from keys to values *)

IsString(v, allow_empty) == Is(v, "string") /\ (allow_empty \/ v.string # "")

StringMember(o, key, allow_empty) == key \in DOMAIN o /\ IsString(o[key], allow_empty)

BoolMember(o, key) == key \in DOMAIN o /\ Is(o[key], "bool")

UnsignedIntegerMember(o, key) ==
  key \in DOMAIN o /\ Is(o[key], "integer") /\ o[key].integer \in Nat

PositiveSizeMember(o, key) ==
  UnsignedIntegerMember(o, key) /\ o[key].integer \in 1..MaxU64

IntMember(o, key, minimum, maximum) ==
  UnsignedIntegerMember(o, key) /\ o[key].integer \in minimum..maximum

(* Mutant: the width of unsigned is not looked at *)
UnsignedMemberUnbounded(o, key) == UnsignedIntegerMember(o, key)

UnsignedMember(o, key) ==
  UnsignedIntegerMember(o, key) /\ o[key].integer <= MaxUInt

NumberMember(o, key) ==
  key \in DOMAIN o /\ (Is(o[key], "integer") \/ Is(o[key], "float"))

UniqueStrings(a) ==
  /\ \A i \in DOMAIN a : IsString(a[i], FALSE)
  /\ \A i, j \in DOMAIN a : a[i].string = a[j].string => i = j

StringArrayMember(o, key) ==
  /\ key \in DOMAIN o /\ Is(o[key], "array")
  /\ o[key].array # <<>> /\ UniqueStrings(o[key].array)

-----------------------------------------------------------------------------
(* The factories of the processors *)

MakeThreshold(o) ==
  StringMember(o, "input", FALSE) /\ NumberMember(o, "greater_than")
    /\ StringMember(o, "output", FALSE)

MakeWindowAverage(o) ==
  StringMember(o, "input", FALSE) /\ PositiveSizeMember(o, "window")
    /\ StringMember(o, "output", FALSE)

MakeInference(o) ==
  /\ StringMember(o, "runner", FALSE)
  /\ StringArrayMember(o, "inputs") /\ StringArrayMember(o, "outputs")
  /\ o["runner"].string = "demo_rms"
  /\ Len(o["outputs"].array) = 1

-----------------------------------------------------------------------------
(* The MQTT publisher: create_plugin, validate_config() and the numbers    *)
(* that start() and publish() hand to Paho                                 *)

MqttMembers(o) ==
  /\ \A key \in {"host", "client_id", "topic_prefix"} : StringMember(o, key, FALSE)
  /\ \A key \in {"username", "password"} : StringMember(o, key, TRUE)
  /\ \A key \in {"retain", "clean_session", "reconnect_exponential_backoff"} :
       BoolMember(o, key)
  /\ IntMember(o, "port", 1, MaxPort)
  /\ IntMember(o, "keepalive", 0, MaxPort)
  /\ IntMember(o, "qos", 0, 2)
  /\ UnsignedMember(o, "reconnect_delay") /\ UnsignedMember(o, "reconnect_delay_max")

MqttConfig(o) ==
  [port |-> ToInt(o["port"].integer),
   keepalive |-> ToInt(o["keepalive"].integer),
   qos |-> ToInt(o["qos"].integer),
   reconnect_delay |-> ToUInt(o["reconnect_delay"].integer),
   reconnect_delay_max |-> ToUInt(o["reconnect_delay_max"].integer),
   host |-> o["host"].string,
   client_id |-> o["client_id"].string,
   topic_prefix |-> o["topic_prefix"].string,
   backoff |-> o["reconnect_exponential_backoff"].bool]

ValidateConfig(c) ==
  /\ "" \notin {c.host, c.client_id, c.topic_prefix}
  /\ c.port \in 1..MaxPort
  /\ c.keepalive \in {0} \cup 2..MaxPort
  /\ c.topic_prefix \notin Wild
  /\ c.qos \in 0..2
  /\ 1 <= c.reconnect_delay /\ c.reconnect_delay <= c.reconnect_delay_max
  /\ c.reconnect_delay_max <= MaxInt
  /\ c.backoff

CreateMqtt(o) == MqttMembers(o) /\ ValidateConfig(MqttConfig(o))

(* configure() *)
ConfigureMqtt(o, device_ids) ==
  ValidateConfig(MqttConfig(o)) /\ device_ids \cap Wild = {}

PahoOptions(o) ==
  LET c == MqttConfig(o) IN
  [port |-> c.port, keepalive |-> c.keepalive, qos |-> c.qos,
   reconnect_delay |-> ToInt(c.reconnect_delay),
   reconnect_delay_max |-> ToInt(c.reconnect_delay_max)]

-----------------------------------------------------------------------------
(* create_plugin of a type; a plugin that is not of the repository may     *)
(* accept anything                                                         *)
CreatePlugin(type, o) ==
  CASE type = "threshold" -> MakeThreshold(o)
    [] type = "window_average" -> MakeWindowAverage(o)
    [] type = "inference" -> MakeInference(o)
    [] type = "mqtt" -> CreateMqtt(o)
    [] OTHER -> TRUE
=============================================================================
