------------------------------- MODULE Coerce -------------------------------
(***************************************************************************)
(* How a stored value becomes a reading of the type that its resource      *)
(* declares, and how the text of a default value becomes a stored value.   *)
(*                                                                         *)
(* A type goes by its name in Go (Int8 is "int8", Object is "map").  A     *)
(* number is counted in halves when it is a float, so that cutting it to   *)
(* an integer shows.  A text is told apart by what the parsers of strconv  *)
(* make of it.  What fails yields Error; a conversion that Go leaves to    *)
(* the machine yields more than one result.                                *)
(***************************************************************************)
EXTENDS Integers

CONSTANTS
  Half,             \* 2^(w-1), for the widths w = 8, 16, 32, 64
  Exact32, Exact64, \* 2^24 and 2^53: a float has that many steps before it skips
  Ulps,             \* how far apart two floats can be: the powers of 2
  MaxFloat32,       \* in halves, as infinity and NaN
  Inf, NaN

ASSUME WidthAssumption ==
  /\ Half \in [{8, 16, 32, 64} -> Nat \ {0}]
  /\ Half[8] <= Half[16] /\ Half[16] <= Half[32] /\ 2 * Half[32] <= Half[64]
ASSUME FloatAssumption ==
  /\ Exact32 \in Nat \ {0} /\ Exact64 \in Nat /\ Exact32 % 2 = 0 /\ Exact64 % 2 = 0
  /\ Exact32 <= Exact64
  /\ MaxFloat32 \in Nat /\ Inf \in Nat /\ NaN \in Nat
  /\ 4 * Half[64] < MaxFloat32 /\ MaxFloat32 < Inf /\ Inf < NaN
\* 1, and each twice the one before, until a float32 with such steps is infinite.
ASSUME UlpAssumption ==
  /\ Ulps \subseteq Nat \ {0} /\ 1 \in Ulps
  /\ \A s \in Ulps : s # 1 => s % 2 = 0 /\ s \div 2 \in Ulps
  /\ \A s, u \in Ulps : s < u => 2 * s <= u
  /\ \E s \in Ulps : Inf <= s * Exact32

Signed(w) == -Half[w] .. Half[w] - 1
Unsigned(w) == 0 .. 2 * Half[w] - 1

SignedTypes == {"int8", "int16", "int32", "int64"}
UnsignedTypes == {"uint8", "uint16", "uint32", "uint64"}
FloatTypes == {"float32", "float64"}

Bits(type) == CASE type \in {"int8", "uint8"}   -> 8
                [] type \in {"int16", "uint16"} -> 16
                [] type \in {"int32", "uint32"} -> 32
                [] type \in {"int64", "uint64"} -> 64

\* as: how a text reads ("int", "frac", "bool", "hex", "list", "object" or "word");
\* n: its number, or which of several values of no number it is.
V(go, n) == [go |-> go, as |-> "none", n |-> n]
Text(as, n) == [go |-> "string", as |-> as, n |-> n]
Error == V("error", 0)

Texts == [go : {"string"}, as : {"int", "frac", "bool", "hex", "list", "object", "word"}, n : Int]

\* The values of any other type.
ValuesOf(type) ==
  [go : {type}, as : {"none"},
   n : CASE type \in SignedTypes   -> Signed(Bits(type))
         [] type \in UnsignedTypes -> Unsigned(Bits(type))
         [] type = "float32"       -> (-MaxFloat32 .. MaxFloat32) \cup {-Inf, Inf, NaN}
         [] OTHER                  -> Int]

-----------------------------------------------------------------------------
(* Numbers.                                                                *)

Finite(x) == -Inf < x /\ x < Inf

Trunc(x) == IF x >= 0 THEN x \div 2 ELSE -((-x) \div 2)

\* The distance of the floats around x.
Ulp(x, exact) ==
  LET a == IF x >= 0 THEN x ELSE -x
  IN  CHOOSE s \in Ulps :
        a < s * exact /\ (s > 1 => a >= (s \div 2) * exact)

\* To the nearest float, to the even one between two.
Rounded(x, exact) ==
  IF ~Finite(x) THEN x
  ELSE LET s == Ulp(x, exact)
           a == IF x >= 0 THEN x ELSE -x
           q == a \div s
           r == a % s
           up == 2 * r > s \/ (2 * r = s /\ q % 2 = 1)
           m == s * (IF up THEN q + 1 ELSE q)
       IN  IF x >= 0 THEN m ELSE -m

\* int64 of a float: when it does not fit, the least integer on amd64; on arm64 the
\* nearest one, and 0 of NaN.
Int64Of(x) ==
  IF Finite(x) /\ Trunc(x) \in Signed(64) THEN {Trunc(x)}
  ELSE {-Half[64], IF x = NaN THEN 0 ELSE IF x > 0 THEN Half[64] - 1 ELSE -Half[64]}

\* uint64 of a float that is not negative.
Uint64Of(x) ==
  IF Finite(x) /\ Trunc(x) \in Unsigned(64) THEN {Trunc(x)}
  ELSE {Half[64], 2 * Half[64] - 1}

\* strconv.ParseFloat: a number that is rounded beyond the limit is an error, the word
\* for an infinity is not.
ParseFloat(text, exact, limit) ==
  LET number == IF text.as = "int" THEN 2 * text.n ELSE text.n
  IN  IF text.as = "frac" /\ text.n \in {-Inf, Inf, NaN} THEN {text.n}
      ELSE {n \in {Rounded(number, exact)} : text.as \in {"int", "frac"} /\ n \in -limit..limit}

-----------------------------------------------------------------------------
(* toInt64, toUint64 and toFloat64: the set of the result, or of none.     *)

\* Mutant: the nearest integer instead of cutting.
toInt64_rounds(v) ==
  CASE v.go \in SignedTypes \cup (UnsignedTypes \ {"uint64"}) -> {v.n}
    [] v.go \in FloatTypes -> Int64Of(v.n + 1)
    [] v.go = "string" /\ v.as = "int" ->
         IF v.n \in Signed(64) THEN {v.n}
         ELSE IF v.n \in Unsigned(64) THEN {v.n - 2 * Half[64]} ELSE {}
    [] OTHER -> {}

\* A text above the range is read as an uint64 whose bits are an int64.
toInt64(v) ==
  CASE v.go \in SignedTypes \cup (UnsignedTypes \ {"uint64"}) -> {v.n}
    [] v.go \in FloatTypes -> Int64Of(v.n)
    [] v.go = "string" /\ v.as = "int" ->
         IF v.n \in Signed(64) THEN {v.n}
         ELSE IF v.n \in Unsigned(64) THEN {v.n - 2 * Half[64]} ELSE {}
    [] OTHER -> {}

toUint64(v) ==
  CASE v.go \in SignedTypes \cup UnsignedTypes -> {n \in {v.n} : n >= 0}
    [] v.go \in FloatTypes -> IF v.n >= 0 /\ v.n # NaN THEN Uint64Of(v.n) ELSE {}
    [] v.go = "string" /\ v.as = "int" -> {n \in {v.n} : n \in Unsigned(64)}
    [] OTHER -> {}

toFloat64(v) ==
  CASE v.go \in SignedTypes \cup UnsignedTypes -> {Rounded(2 * v.n, Exact64)}
    [] v.go \in FloatTypes -> {v.n}
    [] v.go = "string" -> ParseFloat(v, Exact64, Inf - 1)
    [] OTHER -> {}

\* strconv.ParseBool takes the words for it, 0 and 1.
ParseBool(v) == {n \in {v.n} : v.as = "bool" \/ (v.as = "int" /\ v.n \in {0, 1})}

Sprint(v) ==
  CASE v.go \in SignedTypes \cup UnsignedTypes -> Text("int", v.n)
    [] v.go \in FloatTypes ->
         IF ~Finite(v.n) THEN Text("frac", v.n)
         ELSE IF v.n % 2 = 0 THEN Text("int", Trunc(v.n)) ELSE Text("frac", v.n)
    [] v.go = "bool" -> Text("bool", v.n)
    [] OTHER -> Text("word", v.n)

-----------------------------------------------------------------------------
(* coerceTo.                                                               *)

\* The results among the values of the type; Error of the others, and when there is none.
Checked(type, results, values) ==
  IF results = {} THEN {Error} ELSE {IF n \in values THEN V(type, n) ELSE Error : n \in results}

toBool(v) ==
  CASE v.go = "bool" -> {v}
    [] v.go = "string" -> Checked("bool", ParseBool(v), Int)
    [] v.go \in {"float64", "int32", "int64", "uint32", "uint64"} ->
         {V("bool", IF v.n # 0 THEN 1 ELSE 0)}
    [] OTHER -> {Error}

\* A text of decimal digits is hex too, if their number is even.
toBytes(v) ==
  CASE v.go = "[]byte" -> {v}
    [] v.go = "string" /\ v.as = "hex" -> {V("[]byte", v.n)}
    [] v.go = "string" /\ v.as = "int" -> {V("[]byte", v.n), Error}
    [] OTHER -> {Error}

toFloat32(v) ==
  LET inRange == (-MaxFloat32 .. MaxFloat32) \cup {NaN}
  IN  {IF r = Error THEN r ELSE V("float32", Rounded(r.n, Exact32)) :
         r \in Checked("float64", toFloat64(v), inRange)}

\* Mutant: the greatest number of an unsigned type is refused.
coerceTo_below(v, type) ==
  CASE type \in SignedTypes -> Checked(type, toInt64(v), Signed(Bits(type)))
    [] type \in UnsignedTypes -> Checked(type, toUint64(v), 0 .. 2 * Half[Bits(type)] - 2)
    [] type = "float32" -> toFloat32(v)
    [] type = "float64" -> Checked(type, toFloat64(v), Int)
    [] type = "bool" -> toBool(v)
    [] type = "string" -> {IF v.go = "string" THEN v ELSE Sprint(v)}
    [] type = "[]byte" -> toBytes(v)
    [] OTHER -> {Error}

coerceTo(v, type) ==
  CASE type \in SignedTypes -> Checked(type, toInt64(v), Signed(Bits(type)))
    [] type \in UnsignedTypes -> Checked(type, toUint64(v), Unsigned(Bits(type)))
    [] type = "float32" -> toFloat32(v)
    [] type = "float64" -> Checked(type, toFloat64(v), Int)
    [] type = "bool" -> toBool(v)
    [] type = "string" -> {IF v.go = "string" THEN v ELSE Sprint(v)}
    [] type = "[]byte" -> toBytes(v)
    [] OTHER -> {Error}   \* arrays and objects among them

-----------------------------------------------------------------------------
(* parseDefaultValue: the types it knows; every other default stays text.  *)

parseDefaultValue(text, type) ==
  LET float == ParseFloat(text, Exact32, MaxFloat32)
  IN  CASE type = "float32" /\ float # {} -> V(type, CHOOSE n \in float : TRUE)
        [] type \in {"uint8", "uint16"} /\ text.as = "int" /\ text.n \in Unsigned(Bits(type)) ->
             V(type, text.n)
        [] type = "bool" /\ ParseBool(text) # {} -> V(type, text.n)
        [] type = "[]float32" /\ text.as = "list" -> V(type, text.n)
        [] type = "map" /\ text.as = "object" -> V(type, text.n)
        [] OTHER -> text
=============================================================================
