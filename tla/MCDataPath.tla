------------------------------ MODULE MCDataPath ------------------------------
(***************************************************************************)
(* Small instances of DataPath.                                            *)
(***************************************************************************)
EXTENDS DataPath

Config(type, scale, offset, minimum, maximum) ==
  [type |-> type, scale |-> scale, offset |-> offset,
   minimum |-> minimum, maximum |-> maximum]

Sample(point, value, status) == [point |-> point, value |-> value, status |-> status]

Batch(d, samples) == [device_id |-> d, samples |-> samples]

-----------------------------------------------------------------------------
(* The stream: two devices with one measured point each *)

StreamPoints ==
  [a |-> [t |-> Config("Double", 1, 0, {}, {8})],
   b |-> [t |-> Config("Double", 2, 1, {}, {})]]

(* A small and a larger value, one beyond the limit, and none at all *)
StreamBatches ==
  {Batch("a", <<Sample("t", DoubleScalar(Num(3)), "Good")>>),
   Batch("a", <<Sample("t", DoubleScalar(Num(6)), "Good")>>),
   Batch("a", <<Sample("t", DoubleScalar(Num(12)), "Good")>>),
   Batch("b", <<Sample("u", Text("other"), "Timeout"),
                Sample("t", IntegerScalar(1), "Good")>>)}

(* For liveness: what the batch holds does not matter *)
LiveBatches == {Batch("a", <<Sample("t", DoubleScalar(Num(3)), "Good")>>)}

(* An average, a processor of another plugin, and two that work on the     *)
(* average                                                                 *)
StreamProcessors ==
  <<[kind |-> "window_average", input |-> "t", window |-> 2, output |-> "avg"],
    [kind |-> "other"],
    [kind |-> "threshold", input |-> "avg", greater_than |-> 4, output |-> "high"],
    [kind |-> "inference", inputs |-> <<"t", "avg">>, output |-> "rms"]>>

-----------------------------------------------------------------------------
(* The conversions: every kind of value against every kind of point *)

ConversionPoints ==
  [a |-> [i  |-> Config("Integer", 1, 0, {}, {}),
          il |-> Config("Integer", 2, -1, {-6}, {8}),
          d  |-> Config("Double", 4, 0, {}, {}),
          dl |-> Config("Double", -1, 1, {-4}, {4}),
          b  |-> Config("Boolean", 1, 0, {}, {}),
          bl |-> Config("Boolean", 1, 0, {1}, {}),
          s  |-> Config("String", 1, 0, {}, {}),
          sl |-> Config("String", 1, 0, {}, {8}),
          y  |-> Config("ByteArray", 1, 0, {}, {})]]

Doubles == {Num(h) : h \in {x \in -36..36 : ToDouble(x) = Num(x)}}
             \cup {Special("inf"), Special("-inf"), Special("nan")}

Scalars ==
  {IntegerScalar(i) : i \in MinInt..MaxInt} \cup {DoubleScalar(d) : d \in Doubles}
    \cup {BooleanScalar(b) : b \in BOOLEAN} \cup {ByteArrayScalar}
    \cup {Text(w) : w \in {"true", "false", "other"}}
    \cup {ScalarToString(IntegerScalar(i)) : i \in MinInt..MaxInt}
    \cup {StringScalar("number", d) : d \in Doubles}

ConversionBatches ==
  {Batch("a", <<Sample(p, v, q)>>) :
     p \in DOMAIN ConversionPoints["a"] \cup {"unknown"}, v \in Scalars,
     q \in {"Good", "Timeout"}}
  \cup {Batch("c", <<Sample("i", v, "Good")>>) : v \in Scalars}

NoProcessors == <<>>
=============================================================================
