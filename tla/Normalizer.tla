------------------------------ MODULE Normalizer ------------------------------
(***************************************************************************)
(* The value conversions of src/src/core/normalizer.cpp and model.cpp, as  *)
(* operators.  The integers end at MaxInt instead of 2^63 - 1.  A double   *)
(* is a number of half units, or infinite, or NaN.  Like the real one it   *)
(* represents all small numbers and only every second large integer, so    *)
(* the largest integer has no double and its cast gives the next power of  *)
(* two.                                                                    *)
(***************************************************************************)
EXTENDS Integers

CONSTANT MaxInt

(* As for every two's complement type of 4 bits and more *)
ASSUME NormalizerAssumption == MaxInt \in Nat /\ (MaxInt + 1) % 8 = 0

MinInt == -(MaxInt + 1)

Quality == {"Good", "Timeout", "Disconnected", "DecodeError", "OutOfRange", "Bad"}
ValueType == {"Integer", "Double", "Boolean", "String", "ByteArray"}

-----------------------------------------------------------------------------
(* Doubles, and std::optional<double> *)

Abs(n) == IF n < 0 THEN -n ELSE n
Sign(n) == IF n < 0 THEN -1 ELSE 1

Num(h) == [class |-> "num", h |-> h]
Special(class) == [class |-> class, h |-> 0]   \* inf, -inf, nan; none for nullopt
Finite(d) == d.class = "num"

(* The double nearest to h half units; ties go to the even one *)
ToDouble(h) ==
  LET q == Abs(h) \div 4
      r == Abs(h) % 4
      up == IF r > 2 \/ (r = 2 /\ q % 2 = 1) THEN 1 ELSE 0
  IN IF Abs(h) <= MaxInt THEN Num(h)
     ELSE IF Abs(h) > 4 * (MaxInt + 1) THEN Special(IF h < 0 THEN "-inf" ELSE "inf")
     ELSE Num(Sign(h) * 4 * (q + up))

(* Comparisons with a finite double; false for NaN *)
Less(d, h) == d.class = "-inf" \/ (Finite(d) /\ d.h < h)
Greater(d, h) == d.class = "inf" \/ (Finite(d) /\ d.h > h)

(* value * scale + offset, of a finite value *)
Affine(d, c) ==
  LET product == ToDouble(d.h * c.scale)
  IN IF Finite(product) THEN ToDouble(product.h + c.offset) ELSE product

-----------------------------------------------------------------------------
(* Scalars.  A string is told apart by how it reads: "true", "false", the  *)
(* decimal digits of an integer, any other number, or no number at all.    *)

IntegerScalar(i) == [type |-> "Integer", i |-> i]
DoubleScalar(d) == [type |-> "Double", d |-> d]
BooleanScalar(b) == [type |-> "Boolean", b |-> b]
ByteArrayScalar == [type |-> "ByteArray"]
StringScalar(word, d) == [type |-> "String", word |-> word, d |-> d]
Text(word) == StringScalar(word, Special("none"))

Double == [class: {"num", "inf", "-inf", "nan"}, h: Int]
Scalar ==
  [type: {"Integer"}, i: MinInt..MaxInt] \cup [type: {"Double"}, d: Double]
    \cup [type: {"Boolean"}, b: BOOLEAN] \cup [type: {"ByteArray"}]
    \cup [type: {"String"}, word: STRING, d: Double \cup {Special("none")}]

NumericValue(v) ==
  CASE v.type = "Integer" -> ToDouble(2 * v.i)
    [] v.type \in {"Double", "String"} -> v.d
    [] v.type = "Boolean" -> Num(IF v.b THEN 2 ELSE 0)
    [] v.type = "ByteArray" -> Special("none")

(* std::optional<bool>, as the set of what it holds *)
BooleanValue(v) ==
  CASE v.type = "Boolean" -> {v.b}
    [] v.type = "Integer" -> {v.i # 0}
    [] v.type = "Double" -> {v.d # Num(0)}
    [] v.type = "ByteArray" -> {}
    [] v.type = "String" ->
         IF v.word = "true" \/ v = StringScalar("digits", Num(2)) THEN {TRUE}
         ELSE IF v.word = "false" \/ v = StringScalar("digits", Num(0)) THEN {FALSE}
         ELSE {}

(* Three decimals are enough for half units.  Infinities and NaN are       *)
(* printed as words that read as numbers again.                            *)
ScalarToString(v) ==
  CASE v.type = "Boolean" -> Text(IF v.b THEN "true" ELSE "false")
    [] v.type = "Double" -> StringScalar("number", v.d)
    [] v.type = "Integer" -> StringScalar("digits", ToDouble(2 * v.i))
    [] v.type = "ByteArray" -> Text("other")
    [] v.type = "String" -> v

-----------------------------------------------------------------------------
(* convert_value().  The optional limits of a point are sets of at most    *)
(* one number; limits and offset are in half units.                        *)

PointConfig ==
  [type: ValueType, scale: Int, offset: Int, minimum: SUBSET Int, maximum: SUBSET Int]

(* std::llround: halves go away from zero.  Its result is unspecified for  *)
(* the one double above MaxInt that the range check lets through; builds   *)
(* return either end of the range.                                         *)
Llround(h) ==
  LET i == Sign(h) * ((Abs(h) + 1) \div 2)
  IN IF i > MaxInt THEN {MinInt, MaxInt} ELSE {i}

WithinLimits(v, c) ==
  LET n == NumericValue(v)
  IN /\ \A m \in c.minimum : ~Less(n, m)
     /\ \A m \in c.maximum : ~Greater(n, m)

(* Mutant: only the upper end of the integer range is checked *)
FitsIntegerHigh(d) == ~Greater(d, ToDouble(2 * MaxInt).h)

(* scaled lies between the ends of the integer range, cast to double *)
FitsInteger(d) == ~Less(d, 2 * MinInt) /\ ~Greater(d, ToDouble(2 * MaxInt).h)

Result(v, q) == [value |-> v, quality |-> q]

(* The set of possible results of convert_value *)
ConvertValue(v, c, q) ==
  LET n == NumericValue(v)
      converted ==
        CASE c.type = "String" -> {ScalarToString(v)}
          [] c.type = "ByteArray" -> {v} \cap {ByteArrayScalar}
          [] c.type = "Boolean" -> {BooleanScalar(b) : b \in BooleanValue(v)}
          [] c.type = "Double" /\ Finite(n) -> {DoubleScalar(Affine(n, c))}
          [] c.type = "Integer" /\ Finite(n) /\ FitsInteger(Affine(n, c)) ->
               {IntegerScalar(i) : i \in Llround(Affine(n, c).h)}
          [] OTHER -> {}
  IN IF q # "Good" THEN {Result(v, q)}
     ELSE IF converted # {}
     THEN {Result(w, IF WithinLimits(w, c) THEN "Good" ELSE "OutOfRange") : w \in converted}
     ELSE {Result(v, IF c.type = "Integer" /\ Finite(n) THEN "OutOfRange"
                     ELSE "DecodeError")}
=============================================================================
