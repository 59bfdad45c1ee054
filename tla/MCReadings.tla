----------------------------- MODULE MCReadings -----------------------------
(***************************************************************************)
(* Readings at scaled widths (3, 4, 5 and 7 bits for 8, 16, 32 and 64; 5   *)
(* and 6 bits for the digits of floats) that keep the order of the real    *)
(* ones: an uint16 fits into a float32, an uint32 does not, nor an int64   *)
(* into a float64.  Every declared type meets defaults at its limit,       *)
(* beyond it and of another form, and values of frames on both sides.      *)
(***************************************************************************)
EXTENDS ReadingsProps, TLC

CONSTANT dev

MCHalf == (8 :> 4) @@ (16 :> 8) @@ (32 :> 16) @@ (64 :> 64)

R(name, type, default) == [name |-> name, type |-> type, default |-> default]
I(n) == Text("int", n)

Types == SignedTypes \cup UnsignedTypes \cup FloatTypes \cup {"bool", "string", "[]byte", "map", "[]float32"}

\* A default at the limit of its type, one just beyond it, and one of another form.
Within(type) ==
  CASE type \in SignedTypes -> I(Half[Bits(type)] - 1)
    [] type \in UnsignedTypes -> I(2 * Half[Bits(type)] - 1)
    [] OTHER -> I(1)
Beyond(type) ==
  CASE type \in SignedTypes -> I(Half[Bits(type)])
    [] type \in UnsignedTypes -> I(2 * Half[Bits(type)])
    [] OTHER -> I(500)
Other(type) ==
  CASE type \in SignedTypes -> I(-Half[Bits(type)])
    [] type \in UnsignedTypes -> I(-1)
    [] type \in FloatTypes -> Text("frac", 127)
    [] type = "bool" -> Text("bool", 0)
    [] type = "[]byte" -> Text("hex", 1)
    [] type = "map" -> Text("object", 1)
    [] type = "[]float32" -> Text("list", 1)
    [] OTHER -> Text("frac", NaN)

\* "word" and "float" are brought by frames, "other" is not.
Profile(type) ==
  <<R("word", type, Within(type)), R("float", type, Beyond(type)), R("other", type, Other(type)),
    R("state", "uint8", I(0)), R("period", "uint32", I(1)), R("lastDataTimestamp", "int64", I(0)),
    R("topologyDiagram", "map", Text("object", 0))>>

MCProfiles == {Profile(t) : t \in Types}

\* What metadata brings instead.
MCUpdates ==
  {<<R("float", "float32", I(0)), R("word", "uint16", I(1)), R("lastDataTimestamp", "int64", I(0))>>}

Frame(w, f) == <<[name |-> "word", value |-> V("uint16", w)], [name |-> "float", value |-> V("float32", f)]>>
MCReports ==
  {Frame(7, 7), Frame(8, -300), Frame(0, NaN), <<>>,
   <<[name |-> "topologyDiagram", value |-> V("[]node", 1)]>>}

MCRequests ==
  {<<"lastDataTimestamp", "word", "float">>, <<"other", "float", "word">>,
   <<"topologyDiagram", "word", "state">>}

\* As sensors have them: the period is declared Uint32, and stays a text.
MCSensors == {Profile("uint16")}
=============================================================================
