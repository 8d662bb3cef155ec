---------------------------- MODULE MCConfiguration ----------------------------
(***************************************************************************)
(* A complete document, and every document in which one member is another  *)
(* value or missing; with two entries in each list, and with both members  *)
(* of a pair that is compared.  64-bit integers are 6 bits wide, int has 4 *)
(* and a port 2.                                                           *)
(***************************************************************************)
EXTENDS Configuration, TLC

String(s) == [string |-> s]
Bool(b) == [bool |-> b]
Object(o) == [object |-> o]
Array(s) == [array |-> s]
Null == [null |-> "null"]

(* Around zero and around the end of every integer type; 20 is 4 again     *)
(* when it is cut to unsigned, and 14 milliseconds are the longest that    *)
(* the clock can always add                                                *)
Numbers == {Number(n) : n \in {-33, -1, 0, 1, 2, 3, 4, 7, 8, 14, 15, 16, 20, 31, 32, 63, 64}}
Values ==
  Numbers \cup {Null, [float |-> 1], Object([k \in {"a"} |-> Null]), Object([k \in {} |-> Null])}
    \cup {Bool(b) : b \in BOOLEAN} \cup {String(s) : s \in {"", "a", "a+", "t", "bytes"}}
    \cup {Array(s) : s \in {<<>>, <<String("t")>>, <<String("t"), String("t")>>,
                            <<String("t"), String("u")>>, <<String("")>>, <<Null>>}}

Without(o, key) == [k \in DOMAIN o \ {key} |-> o[k]]
Vary(o, keys) ==
  {[o EXCEPT ![k] = v] : k \in keys, v \in Values} \cup {Without(o, k) : k \in keys}
VaryObject(o) == {Object(x) : x \in Vary(o, DOMAIN o)}

-----------------------------------------------------------------------------
Runtime ==
  [run_duration_ms |-> Number(3), raw_queue_capacity |-> Number(2),
   control_queue_capacity |-> Number(2)]
PointT ==
  [name |-> String("t"), type |-> String("double"), unit |-> String(""),
   address |-> Object([k \in {"register"} |-> String("1")]), scale |-> Number(1),
   offset |-> Number(0), minimum |-> Number(0), maximum |-> Number(2)]
DeviceA ==
  [id |-> String("a"), driver |-> String("poll"), driver_config |-> Object([k \in {} |-> Null]),
   library |-> String("./p.so"), connection |-> Object([k \in {} |-> Null]),
   points |-> Array(<<Object(PointT)>>)]
GroupA ==
  [id |-> String("a"), device_id |-> String("a"), interval_ms |-> Number(2),
   timeout_ms |-> Number(1), points |-> Array(<<String("t")>>)]

Threshold == [input |-> String("t"), greater_than |-> Number(1), output |-> String("u")]
WindowAverage == [input |-> String("t"), window |-> Number(2), output |-> String("u")]
Inference ==
  [runner |-> String("demo_rms"), inputs |-> Array(<<String("t")>>),
   outputs |-> Array(<<String("u")>>)]
Mqtt ==
  [host |-> String("h"), port |-> Number(2), keepalive |-> Number(2),
   client_id |-> String("c"), topic_prefix |-> String("a"), qos |-> Number(1),
   retain |-> Bool(FALSE), clean_session |-> Bool(TRUE), username |-> String(""),
   password |-> String(""), reconnect_delay |-> Number(1), reconnect_delay_max |-> Number(4),
   reconnect_exponential_backoff |-> Bool(TRUE)]

Entry(id, type, o) ==
  [id |-> String(id), type |-> String(type), enabled |-> Bool(TRUE), config |-> Object(o),
   library |-> String("./q.so")]
List(es) == Array([i \in DOMAIN es |-> Object(es[i])])

Root ==
  [runtime |-> Object(Runtime), devices |-> List(<<DeviceA>>), groups |-> List(<<GroupA>>),
   processors |-> List(<<Entry("a", "threshold", Threshold)>>),
   event_publishers |-> List(<<Entry("a", "mqtt", Mqtt)>>),
   device_control_sources |-> List(<<Entry("a", "periodic_control", [k \in {} |-> Null])>>)]

Put(key, values) == {[Root EXCEPT ![key] = v] : v \in values}

Points == {<<Object(PointT), p>> : p \in VaryObject([PointT EXCEPT !.name = String("u")])}
            \cup {<<Object([PointT EXCEPT !.minimum = m, !.maximum = n])>> : m, n \in Numbers}
DeviceLists ==
  {<<d, [DeviceA EXCEPT !.id = String("b")]>> : d \in Vary(DeviceA, DOMAIN DeviceA \ {"points"})}
    \cup {<<DeviceA, [DeviceA EXCEPT !.id = i]>> : i \in Values}
    \cup {<<[DeviceA EXCEPT !.points = Array(ps)]>> : ps \in Points}
    \cup {<<d>> : d \in Vary(DeviceA, {"points"})}
GroupLists ==
  {<<GroupA, g>> : g \in Vary([GroupA EXCEPT !.id = String("b")], DOMAIN GroupA)}
Processors ==
  {<<Entry("a", t, o)>> :
     t \in {"threshold"}, o \in Vary(Threshold, DOMAIN Threshold)}
    \cup {<<Entry("a", "window_average", o)>> : o \in Vary(WindowAverage, DOMAIN WindowAverage)}
    \cup {<<Entry("a", "inference", o)>> : o \in Vary(Inference, DOMAIN Inference)}
Publishers ==
  {<<Entry("a", "mqtt", Mqtt), p>> :
     p \in Vary(Entry("b", "print", Threshold), DOMAIN Entry("b", "print", Threshold))}
    \cup {<<Entry("a", "mqtt", o)>> : o \in Vary(Mqtt, DOMAIN Mqtt)}
    \cup {<<Entry("a", "mqtt", [Mqtt EXCEPT !.reconnect_delay = m, !.reconnect_delay_max = n])>> :
            m, n \in Numbers}

Lists(es) == {List(e) : e \in es}

MCDocuments ==
  Values \cup VaryObject(Root) \cup {Object(Root)}
    \cup {Object(r) : r \in
            Put("runtime", VaryObject(Runtime)) \cup Put("devices", Lists(DeviceLists))
              \cup Put("groups", Lists(GroupLists)) \cup Put("processors", Lists(Processors))
              \cup Put("event_publishers", Lists(Publishers))}
=============================================================================
