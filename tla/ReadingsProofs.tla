--------------------------- MODULE ReadingsProofs ---------------------------
(***************************************************************************)
(* What the table of values keeps, and what is read of it, for all widths, *)
(* profiles and updates, whatever the frames bring, and any number of      *)
(* callbacks.                                                              *)
(***************************************************************************)
EXTENDS ReadingsProps, SequenceTheorems, WellFoundedInduction, TLAPS

Resources == UNION {Range(p) : p \in Profiles \cup Updates}
Values == UNION {Range(report) : report \in Reports}

\* The names in a list, and those that the device d has a value of in the table m.
Names(list) == {r.name : r \in Range(list)}
Held(m, d) == IF d \in DOMAIN m THEN DOMAIN m[d] ELSE {}

\* The resources that a callback has yet to store for d.
Owed(c, d) == IF c.op = "init" /\ c.dev = d THEN Names(c.todo) ELSE {}

Callbacks ==
  [op : {"none", "remove"}, dev : Devices \cup {None}, todo : {<<>>}]
    \cup [op : {"init"}, dev : Devices, todo : Seq(Resources) \ {<<>>}]

Shape ==
  /\ profile \in [Devices -> Profiles \cup Updates \cup {<<>>}]
  /\ cb \in Callbacks

\* A name of a device's profile has a value, or the callback in progress has yet to
\* store it.
NoneLost(p, m, c) ==
  \A d \in Devices : p[d] # <<>> => Names(p[d]) \subseteq Held(m, d) \cup Owed(c, d)

-----------------------------------------------------------------------------
(* Lists, and the table after one more value.                              *)

\* The names of a list are those of its head and of its tail.
LEMMA NamesOfTail ==
  ASSUME NEW S, NEW list \in Seq(S), list # <<>>
  PROVE  /\ Head(list) \in Range(list) /\ Tail(list) \in Seq(S)
         /\ Range(list) \subseteq S
         /\ Names(list) = {Head(list).name} \cup Names(Tail(list))
         /\ Len(list) = 1 => Tail(list) = <<>>
         /\ Len(list) # 1 => Tail(list) # <<>>
<1> DEFINE n == Len(list)
<1>1. n \in Nat /\ n > 0 /\ DOMAIN list = 1..n /\ Head(list) = list[1] /\ Tail(list) \in Seq(S)
  OBVIOUS
<1>2. DOMAIN Tail(list) = 1..n - 1 /\ \A i \in 1..n - 1 : Tail(list)[i] = list[i + 1]
  OBVIOUS
<1>3. Range(list) = {list[1]} \cup Range(Tail(list))
  <2>1. ASSUME NEW i \in 1..n, i # 1  PROVE i - 1 \in 1..n - 1 /\ list[i] = Tail(list)[i - 1]
    BY <2>1, <1>1, <1>2
  <2>2. ASSUME NEW i \in 1..n - 1  PROVE i + 1 \in 1..n
    BY <1>1
  <2>3. 1 \in 1..n
    BY <1>1
  <2>4. \A x : (\E i \in 1..n : list[i] = x) <=>
                 (x = list[1] \/ \E i \in 1..n - 1 : Tail(list)[i] = x)
    BY <2>1, <2>2, <2>3, <1>2
  <2> HIDE DEF n
  <2>5. \A x : x \in Range(list) <=> \E i \in 1..n : list[i] = x
    BY <1>1 DEF Range
  <2>6. \A x : x \in Range(Tail(list)) <=> \E i \in 1..n - 1 : Tail(list)[i] = x
    BY <1>2 DEF Range
  <2> QED
    BY <2>4, <2>5, <2>6
<1>4. Range(list) \subseteq S
  BY <1>1 DEF Range
<1>5. Len(list) = 1 <=> Tail(list) = <<>>
  <2>1. Len(Tail(list)) = n - 1
    OBVIOUS
  <2>2. Tail(list) = <<>> <=> Len(Tail(list)) = 0
    BY <1>1, EmptySeq
  <2> QED
    BY <1>1, <2>1, <2>2
<1> QED
  BY <1>1, <1>3, <1>4, <1>5 DEF Names

\* The table m after the value v for r of d, as Store leaves it.
Stored(m, d, r, v) == With(m, d, With(IF d \in DOMAIN m THEN m[d] ELSE <<>>, r, v))

\* What a value more changes: no device loses one, and the values of the other names
\* are those of before.
LEMMA HeldAfter ==
  ASSUME NEW m, NEW d, NEW r, NEW v
  PROVE  /\ \A e : Held(m, e) \subseteq Held(Stored(m, d, r, v), e)
         /\ r \in Held(Stored(m, d, r, v), d)
         /\ \A e : \A s \in Held(Stored(m, d, r, v), e) :
              IF e = d /\ s = r THEN Stored(m, d, r, v)[e][s] = v
              ELSE s \in Held(m, e) /\ Stored(m, d, r, v)[e][s] = m[e][s]
<1> DEFINE n == Stored(m, d, r, v)
           f == IF d \in DOMAIN m THEN m[d] ELSE <<>>
           g == With(f, r, v)
<1>1. DOMAIN g = DOMAIN f \cup {r} /\ \A s \in DOMAIN g : g[s] = IF s = r THEN v ELSE f[s]
  BY Zenon DEF With
<1>2. DOMAIN n = DOMAIN m \cup {d} /\ \A e \in DOMAIN n : n[e] = IF e = d THEN g ELSE m[e]
  BY Zenon DEF With, Stored
<1>3. DOMAIN f = Held(m, d)
  BY DEF Held
<1> HIDE DEF n
<1>4. ASSUME NEW e, e # d  PROVE Held(n, e) = Held(m, e)
                                 /\ \A s \in Held(n, e) : n[e][s] = m[e][s]
  <2> HIDE DEF g
  <2> QED
    BY <1>2, <1>4 DEF Held
<1>5. Held(n, d) = Held(m, d) \cup {r} /\ n[d] = g
  <2> HIDE DEF g, f
  <2> QED
    BY <1>1, <1>2, <1>3 DEF Held
<1>6. \A s \in Held(m, d) : f[s] = m[d][s]
  BY DEF Held
<1> HIDE DEF f, g
<1>7. /\ \A e : Held(m, e) \subseteq Held(n, e)
      /\ r \in Held(n, d)
      /\ \A e : \A s \in Held(n, e) :
           IF e = d /\ s = r THEN n[e][s] = v ELSE s \in Held(m, e) /\ n[e][s] = m[e][s]
  BY <1>1, <1>3, <1>4, <1>5, <1>6
<1> QED
  BY Zenon, <1>7 DEF n

-----------------------------------------------------------------------------
(* The invariant, step by step.                                            *)

\* A state is the default one, and a period is of no type that the health check takes.
Silent(m) ==
  \A d : /\ "state" \in Held(m, d) => m[d]["state"] = V("uint8", 0)
         /\ "period" \in Held(m, d) => m[d]["period"].go # "uint32"

\* What the parser has yet to store, and the period that the health check has read.
InHand ==
  /\ "todo" \in DOMAIN parser /\ parser.todo \in Seq(Values)
  /\ {"todo", "dev", "stamp", "period"} \subseteq DOMAIN check
  /\ check.dev # None => check.period.go # "uint32"

Kept == Shape /\ NoneLost(profile, ValuesMap, cb) /\ Silent(ValuesMap) /\ InHand

\* What a value is, for the invariant, that the table may take for a name.
Fits(r, v) == (r = "state" => v = V("uint8", 0)) /\ (r = "period" => v.go # "uint32")

\* A value more loses none and keeps the table silent.
LEMMA StoreKeeps ==
  ASSUME NEW m, NEW d, NEW r, NEW v, NEW p, NEW c,
         Fits(r, v), Silent(m), NoneLost(p, m, c)
  PROVE  Silent(Stored(m, d, r, v)) /\ NoneLost(p, Stored(m, d, r, v), c)
<1> DEFINE n == Stored(m, d, r, v)
<1>1. /\ \A e : Held(m, e) \subseteq Held(n, e)
      /\ \A e : \A s \in Held(n, e) :
           IF e = d /\ s = r THEN n[e][s] = v ELSE s \in Held(m, e) /\ n[e][s] = m[e][s]
  <2>1. /\ \A e : Held(m, e) \subseteq Held(n, e)
        /\ r \in Held(n, d)
        /\ \A e : \A s \in Held(n, e) :
             IF e = d /\ s = r THEN n[e][s] = v ELSE s \in Held(m, e) /\ n[e][s] = m[e][s]
    BY HeldAfter
  <2> QED
    BY Zenon, <2>1
<1> HIDE DEF n
<1>2. Silent(n)
  BY <1>1 DEF Silent, Fits
<1>3. NoneLost(p, n, c)
  BY <1>1 DEF NoneLost
<1> QED
  BY Zenon, <1>2, <1>3 DEF n

\* A default is never an uint32; a reported value is of no state or period.
LEMMA Defaulted ==
  ASSUME NEW r \in Resources
  PROVE  Fits(r.name, parseDefaultValue(r.default, r.type))
<1>1. PICK p \in Profiles \cup Updates : r \in Range(p)
  BY DEF Resources
<1>2. r.default.go = "string" /\ (r.name = "state" => parseDefaultValue(r.default, r.type) = V("uint8", 0))
  BY <1>1, ProfileAssumption DEF Texts
<1>3. parseDefaultValue(r.default, r.type).go # "uint32"
  BY <1>2 DEF parseDefaultValue, V
<1> QED
  BY <1>2, <1>3 DEF Fits

LEMMA Reported ==
  ASSUME NEW q \in Values  PROVE  Fits(q.name, q.value)
BY ReportAssumption DEF Values, Fits

\* In the beginning every resource has its default.
LEMMA InitKept == Init => Kept
<1> SUFFICES ASSUME Init PROVE Kept
  OBVIOUS
<1>1. PICK p \in Profiles : profile = [d \in Devices |-> p] /\ ValuesMap = [d \in Devices |-> Defaults(p)]
  BY Zenon DEF Init
<1>2. Shape
  BY <1>1 DEF Init, Shape, NoCallback, Callbacks
<1>3. \A d \in Devices : Held(ValuesMap, d) = Names(p)
  <2>1. DOMAIN Defaults(p) = Names(p)
    <3>1. {p[i].name : i \in DOMAIN p} = Names(p)
      BY DEF Names, Range
    <3> QED
      BY <3>1 DEF Defaults
  <2> QED
    BY <1>1, <2>1 DEF Held
<1>4. NoneLost(profile, ValuesMap, cb)
  BY <1>1, <1>3 DEF NoneLost
<1>5. ASSUME NEW n \in Names(p)  PROVE Fits(n, Defaults(p)[n])
  <2>1. PICK r \in Range(p) : r.name = n
    BY <1>5 DEF Names
  <2> DEFINE d == CHOOSE d \in Range(p) : d.name = n
  <2>2. d \in Range(p) /\ d.name = n
    BY <2>1
  <2>3. d \in Resources
    BY <2>2 DEF Resources
  <2>4. Defaults(p)[n] = parseDefaultValue(d.default, d.type)
    <3>1. {p[i].name : i \in DOMAIN p} = Names(p)
      BY DEF Names, Range
    <3> QED
      BY <3>1, <1>5 DEF Defaults
  <2> HIDE DEF d
  <2> QED
    BY <2>2, <2>3, <2>4, Defaulted
<1>6. Silent(ValuesMap)
  <2>1. \A d : Held(ValuesMap, d) # {} => d \in Devices
    BY <1>1 DEF Held
  <2>2. \A d \in Devices : ValuesMap[d] = Defaults(p)
    BY <1>1
  <2> QED
    BY <1>3, <1>5, <2>1, <2>2 DEF Silent, Fits
<1>7. InHand
  BY EmptySeq DEF Init, InHand, NoFrame, NoCheck
<1> QED
  BY <1>2, <1>4, <1>6, <1>7 DEF Kept

\* Store is one value more.
LEMMA StoreIsStored ==
  ASSUME NEW d, NEW r, NEW v, NEW t, Store(d, r, v, t)
  PROVE  ValuesMap' = Stored(ValuesMap, d, r, v)
BY Zenon DEF Store, Stored

\* A step that stores a value that fits, or none, and leaves the callback alone.
LEMMA OtherStep ==
  ASSUME Kept, profile' = profile, cb' = cb, InHand',
         \/ ValuesMap' = ValuesMap
         \/ \E d, r, v : Fits(r, v) /\ ValuesMap' = Stored(ValuesMap, d, r, v)
  PROVE  Kept'
<1>1. Shape'
  BY DEF Kept, Shape
<1>2. Silent(ValuesMap') /\ NoneLost(profile, ValuesMap', cb)
  <2>1. CASE ValuesMap' = ValuesMap
    BY Zenon, <2>1 DEF Kept
  <2>2. CASE \E d, r, v : Fits(r, v) /\ ValuesMap' = Stored(ValuesMap, d, r, v)
    BY <2>2, StoreKeeps DEF Kept
  <2> QED
    BY <2>1, <2>2
<1> QED
  BY <1>1, <1>2 DEF Kept

LEMMA AddDeviceKept == ASSUME Kept, NEW d \in Devices, AddDevice(d) PROVE Kept'
<1>1. PICK p \in Updates : profile' = [profile EXCEPT ![d] = p] /\ cb' = [op |-> "init", dev |-> d, todo |-> p]
  BY Zenon DEF AddDevice
<1>2. p # <<>> /\ p \in Seq(Resources)
  <2>1. p # <<>> /\ p \in Seq(Range(p)) /\ Range(p) \subseteq Resources
    BY ProfileAssumption DEF Resources
  <2> QED
    BY <2>1
<1>3. Shape'
  BY <1>1, <1>2 DEF Kept, Shape, Callbacks
<1>4. NoneLost(profile', ValuesMap', cb')
  <2>1. profile'[d] = p /\ \A e \in Devices : e # d => profile'[e] = profile[e]
    BY <1>1 DEF Kept, Shape
  <2>2. Owed(cb', d) = Names(p)
    BY <1>1 DEF Owed
  <2>3. \A e : Owed(cb, e) = {}
    BY DEF AddDevice, NoCallback, Owed
  <2>4. ValuesMap' = ValuesMap
    BY DEF AddDevice
  <2> QED
    BY <2>1, <2>2, <2>3, <2>4 DEF Kept, NoneLost
<1>5. Silent(ValuesMap') /\ InHand'
  BY DEF Kept, Silent, Held, InHand, AddDevice
<1> QED
  BY <1>3, <1>4, <1>5 DEF Kept

LEMMA DeviceInitKept == ASSUME Kept, DeviceInit PROVE Kept'
<1> DEFINE r == Head(cb.todo)
           v == parseDefaultValue(r.default, r.type)
           n == Stored(ValuesMap, cb.dev, r.name, v)
<1>1. cb.op = "init" /\ cb.dev \in Devices /\ cb.todo \in Seq(Resources) /\ cb.todo # <<>>
  BY DEF DeviceInit, Kept, Shape, Callbacks
<1>2. /\ r \in Resources /\ Tail(cb.todo) \in Seq(Resources)
      /\ Names(cb.todo) = {r.name} \cup Names(Tail(cb.todo))
      /\ Len(cb.todo) = 1 => Tail(cb.todo) = <<>>
      /\ Len(cb.todo) # 1 => Tail(cb.todo) # <<>>
  BY <1>1, NamesOfTail
<1>3. ValuesMap' = n
  BY StoreIsStored DEF DeviceInit
<1>4. Fits(r.name, v)
  BY <1>2, Defaulted
<1>5. Shape'
  <2>1. CASE Len(cb.todo) = 1
    BY <2>1 DEF DeviceInit, Kept, Shape, Callbacks, NoCallback
  <2>2. CASE Len(cb.todo) # 1
    <3>1. cb' = [op |-> "init", dev |-> cb.dev, todo |-> Tail(cb.todo)]
      BY <1>1, <2>2 DEF DeviceInit, Kept, Shape, Callbacks
    <3> QED
      BY <1>1, <1>2, <2>2, <3>1 DEF DeviceInit, Kept, Shape, Callbacks
  <2> QED
    BY <2>1, <2>2
<1>6. \A e : Owed(cb, e) \subseteq Owed(cb', e) \cup (IF e = cb.dev THEN {r.name} ELSE {})
  <2>1. CASE Len(cb.todo) = 1
    <3>1. Names(cb.todo) = {r.name}
      BY <1>2, <2>1 DEF Names, Range
    <3> QED
      BY <3>1 DEF Owed
  <2>2. CASE Len(cb.todo) # 1
    <3>1. cb'.op = "init" /\ cb'.dev = cb.dev /\ cb'.todo = Tail(cb.todo)
      BY <1>1, <2>2 DEF DeviceInit, Kept, Shape, Callbacks
    <3> QED
      BY <1>2, <3>1 DEF Owed
  <2> QED
    BY <2>1, <2>2
<1> HIDE DEF n, r, v
<1>7. Silent(n) /\ NoneLost(profile, n, cb) /\ r.name \in Held(n, cb.dev)
  BY <1>4, StoreKeeps, HeldAfter DEF Kept, n
<1>8. NoneLost(profile', n, cb')
  BY <1>6, <1>7 DEF NoneLost, DeviceInit
<1>9. InHand'
  BY DEF DeviceInit, Kept, InHand
<1> QED
  BY <1>3, <1>5, <1>7, <1>8, <1>9 DEF Kept

LEMMA RemoveDeviceKept == ASSUME Kept, NEW d \in Devices, RemoveDevice(d) PROVE Kept'
<1>1. profile' = [profile EXCEPT ![d] = <<>>]
  BY DEF RemoveDevice
<1>2. \A e : Owed(cb, e) = {}
  BY DEF RemoveDevice, NoCallback, Owed
<1>3. \A e : e # d => Held(ValuesMap', e) = Held(ValuesMap, e)
                      /\ \A s \in Held(ValuesMap', e) : ValuesMap'[e][s] = ValuesMap[e][s]
  BY DEF RemoveDevice, Held
<1>4. Held(ValuesMap', d) = {}
  BY DEF RemoveDevice, Held
<1>5. Shape'
  BY <1>1 DEF RemoveDevice, Kept, Shape, Callbacks, NoCallback
<1>6. NoneLost(profile', ValuesMap', cb')
  BY <1>1, <1>2, <1>3 DEF Kept, Shape, NoneLost
<1>7. Silent(ValuesMap')
  BY <1>3, <1>4 DEF Kept, Silent
<1>8. InHand'
  BY DEF RemoveDevice, Kept, InHand
<1> QED
  BY <1>5, <1>6, <1>7, <1>8 DEF Kept

LEMMA DeleteMappingKept == ASSUME Kept, DeleteMapping PROVE Kept'
<1>1. Shape'
  BY DEF DeleteMapping, Kept, Shape, Callbacks, NoCallback
<1>2. \A e : Owed(cb, e) = {}
  BY DEF DeleteMapping, Owed
<1>3. ValuesMap' = ValuesMap /\ profile' = profile /\ InHand'
  BY DEF DeleteMapping, Kept, InHand
<1>4. NoneLost(profile', ValuesMap', cb')
  BY <1>2, <1>3 DEF Kept, NoneLost
<1> QED
  BY <1>1, <1>3, <1>4 DEF Kept

\* The parser: what it stores is a time stamp, or what a report brings.
LEMMA ParserKept ==
  ASSUME Kept,
         \/ \E d \in Devices : LookupDeviceName(d)
         \/ onDataReceived \/ parseTopo \/ SetDeviceValue
  PROVE  Kept'
<1>1. CASE \E d \in Devices : LookupDeviceName(d)
  <2>1. PICK report \in Reports : \E d \in Devices : parser' = [dev |-> d, at |-> 0, todo |-> report]
    BY <1>1 DEF LookupDeviceName
  <2>2. report \in Seq(Values)
    <3>1. report \in Seq(Range(report)) /\ Range(report) \subseteq Values
      BY ReportAssumption DEF Values
    <3> QED
      BY <3>1
  <2>3. InHand' /\ profile' = profile /\ cb' = cb /\ ValuesMap' = ValuesMap
    BY <1>1, <2>1, <2>2 DEF LookupDeviceName, tables, Kept, InHand
  <2> QED
    BY <2>3, OtherStep
<1>2. CASE onDataReceived
  <2>1. ValuesMap' = Stored(ValuesMap, parser.dev, "lastDataTimestamp", V("int64", now))
    BY <1>2, StoreIsStored DEF onDataReceived
  <2>2. Fits("lastDataTimestamp", V("int64", now))
    BY DEF Fits
  <2>3. InHand'
    BY <1>2, EmptySeq DEF onDataReceived, Kept, InHand, NoFrame
  <2>4. profile' = profile /\ cb' = cb
    BY <1>2 DEF onDataReceived
  <2> QED
    BY <2>1, <2>2, <2>3, <2>4, OtherStep
<1>3. CASE parseTopo
  <2>1. InHand' /\ profile' = profile /\ cb' = cb /\ ValuesMap' = ValuesMap
    BY <1>3 DEF parseTopo, Kept, InHand
  <2> QED
    BY <2>1, OtherStep
<1>4. CASE SetDeviceValue
  <2> DEFINE q == Head(parser.todo)
  <2>1. ValuesMap' = Stored(ValuesMap, parser.dev, q.name, q.value)
    BY <1>4, StoreIsStored DEF SetDeviceValue
  <2>2. parser.todo \in Seq(Values) /\ parser.todo # <<>> /\ "todo" \in DOMAIN parser
    BY <1>4 DEF SetDeviceValue, Pending, Kept, InHand
  <2>3. q \in Values /\ Tail(parser.todo) \in Seq(Values)
    BY <2>2, NamesOfTail
  <2>4. Fits(q.name, q.value)
    BY <2>3, Reported
  <2>5. InHand'
    BY <1>4, <2>2, <2>3, EmptySeq DEF SetDeviceValue, Kept, InHand, NoFrame
  <2>6. profile' = profile /\ cb' = cb
    BY <1>4 DEF SetDeviceValue
  <2> HIDE DEF q
  <2> QED
    BY <2>1, <2>4, <2>5, <2>6, OtherStep
<1> QED
  BY <1>1, <1>2, <1>3, <1>4

\* The health check: it takes a period that is no uint32, and so it stores nothing.
LEMMA CheckKept ==
  ASSUME Kept, Tick \/ WriteState \/ \E d \in Devices : ReadValues(d)
  PROVE  Kept'
<1>1. CASE Tick
  <2>1. InHand' /\ profile' = profile /\ cb' = cb /\ ValuesMap' = ValuesMap
    BY <1>1 DEF Tick, tables, Kept, InHand, NoCheck
  <2> QED
    BY <2>1, OtherStep
<1>2. CASE WriteState
  <2>1. check.period.go # "uint32"
    BY <1>2 DEF WriteState, Kept, InHand
  <2>2. ValuesMap' = ValuesMap /\ profile' = profile /\ cb' = cb /\ parser' = parser
    BY <1>2, <2>1 DEF WriteState
  <2>3. InHand'
    BY <1>2, <2>2 DEF WriteState, Kept, InHand, NextDevice, NoCheck
  <2> QED
    BY <2>2, <2>3, OtherStep
<1>3. CASE \E d \in Devices : ReadValues(d)
  <2>1. PICK d \in Devices : ReadValues(d)
    BY <1>3
  <2>2. ValuesMap' = ValuesMap /\ profile' = profile /\ cb' = cb /\ parser' = parser
    BY <2>1 DEF ReadValues, tables
  <2>3. "period" \in Held(ValuesMap, d) => ValuesMap[d]["period"].go # "uint32"
    BY DEF Kept, Silent
  <2>4. check'.dev # None => check'.period.go # "uint32"
    <3>1. CASE d \in DOMAIN ValuesMap /\ {"lastDataTimestamp", "period"} \subseteq DOMAIN ValuesMap[d]
      BY <2>1, <2>3, <3>1 DEF ReadValues, Held, Kept, InHand
    <3>2. CASE ~(d \in DOMAIN ValuesMap /\ {"lastDataTimestamp", "period"} \subseteq DOMAIN ValuesMap[d])
      BY <2>1, <3>2 DEF ReadValues, NextDevice, NoCheck
    <3> QED
      BY <3>1, <3>2
  <2>5. {"todo", "dev", "stamp", "period"} \subseteq DOMAIN check'
    BY <2>1 DEF ReadValues, NextDevice, NoCheck, Kept, InHand
  <2>6. InHand'
    BY <2>2, <2>4, <2>5 DEF Kept, InHand
  <2> QED
    BY <2>2, <2>6, OtherStep
<1> QED
  BY <1>1, <1>2, <1>3

\* A read request writes nothing.
LEMMA RequestKept ==
  ASSUME Kept,
         \/ \E d \in Devices : Call(d)
         \/ GetDeviceValues \/ HandleReadCommands \/ Return
         \/ UNCHANGED vars
  PROVE  Kept'
<1>1. UNCHANGED <<tables, cb, parser, check>>
  BY DEF Call, GetDeviceValues, HandleReadCommands, Return, vars
<1> QED
  BY <1>1, OtherStep DEF tables, Kept, InHand

LEMMA NextKept == Kept /\ [Next]_vars => Kept'
<1> SUFFICES ASSUME Kept, [Next]_vars PROVE Kept'
  OBVIOUS
<1>1. ASSUME NEW d \in Devices, AddDevice(d) PROVE Kept'
  BY <1>1, AddDeviceKept
<1>2. ASSUME NEW d \in Devices, RemoveDevice(d) PROVE Kept'
  BY <1>2, RemoveDeviceKept
<1>3. CASE (\E d \in Devices : LookupDeviceName(d)) \/ onDataReceived \/ parseTopo \/ SetDeviceValue
  BY <1>3, ParserKept
<1>4. CASE DeviceInit
  BY <1>4, DeviceInitKept
<1>5. CASE DeleteMapping
  BY <1>5, DeleteMappingKept
<1>6. CASE Tick \/ WriteState \/ \E d \in Devices : ReadValues(d)
  BY <1>6, CheckKept
<1>7. CASE (\E d \in Devices : Call(d)) \/ GetDeviceValues \/ HandleReadCommands \/ Return \/ UNCHANGED vars
  BY <1>7, RequestKept
<1> QED
  BY <1>1, <1>2, <1>3, <1>4, <1>5, <1>6, <1>7 DEF Next

-----------------------------------------------------------------------------
\* What is neither held nor owed is missing: nothing, when no callback owes.
LEMMA KeptMissesNothing == Kept => NothingMissing
<1> SUFFICES ASSUME Kept, NEW d \in Devices, profile[d] # <<>>, ~(cb.dev = d /\ cb.op = "init")
             PROVE  d \in DOMAIN ValuesMap /\ Names(profile[d]) \subseteq DOMAIN ValuesMap[d]
  BY DEF NothingMissing, Names
<1>1. Names(profile[d]) \subseteq Held(ValuesMap, d)
  BY DEF Kept, NoneLost, Owed
<1>2. profile[d] \in Profiles \cup Updates
  BY DEF Kept, Shape
<1>3. Names(profile[d]) # {}
  <2>1. profile[d] \in Seq(Range(profile[d]))
    BY <1>2, ProfileAssumption
  <2>2. Head(profile[d]) \in Range(profile[d])
    BY <2>1, NamesOfTail
  <2> QED
    BY <2>2 DEF Names
<1> QED
  BY <1>1, <1>3 DEF Held

\* A device that is not removed keeps every value of its profile: what UpdateDevice has
\* yet to store is all that can be missing, while it runs.
THEOREM NothingIsLost == Spec => []NothingMissing
BY KeptMissesNothing, InitKept, NextKept, PTL DEF Spec

-----------------------------------------------------------------------------
(* The moments of the values: the history "written", next to the table.    *)

Stamp == "lastDataTimestamp"

\* r comes before s in every report that brings s, and there is one.
Precedes(r, s) ==
  /\ \A report \in Reports : \A m \in DOMAIN report :
       report[m].name = s => \E l \in 1..m - 1 : report[l].name = r
  /\ \E report \in Reports : \E m \in DOMAIN report : report[m].name = s

\* What two values of a device, written at a and b, say of a moment.
InOrder(r, s, a, b) == (a > 0 /\ (r = Stamp \/ (Precedes(r, s) /\ b > 0))) => b <= a

\* The times in w: none is after n, and those of a device are in order.
Moments(w, n) ==
  \A d : \A r, s \in Held(w, d) : w[d][r] \in 0..n /\ InOrder(r, s, w[d][r], w[d][s])

\* The frame in hand: the last len of its values are to be stored; those stored already
\* have its time, unless they have been deleted or have got their defaults since.
FrameIn(p, w, report, k) ==
  /\ report \in Seq(Range(report)) /\ k \in 0..Len(report) /\ Len(p.todo) = Len(report) - k
  /\ \A i \in 1..Len(p.todo) : p.todo[i] = report[k + i]
  /\ p.at = 0 => k = 0
  /\ \A l \in 1..k : report[l].name \in Held(w, p.dev) => w[p.dev][report[l].name] \in {0, p.at}

\* While it is stored no value is later than its time.
Storing(p, w, n) ==
  /\ {"dev", "at", "todo"} \subseteq DOMAIN p /\ p.at \in 0..n
  /\ p.at # 0 => \A d : \A s \in Held(w, d) : w[d][s] <= p.at
  /\ p.at # 0 /\ Stamp \in Held(w, p.dev) => w[p.dev][Stamp] \in {0, p.at}
  /\ p.dev = None => p.at = 0
  /\ p.dev # None => \E report \in Reports : \E k \in Nat : FrameIn(p, w, report, k)

\* A request in progress: its copy is of one moment, and its answers are from there.
OfOneCopy(q) ==
  /\ {"dev", "state", "reqs", "values", "written", "answer"} \subseteq DOMAIN q
  /\ DOMAIN q.written = DOMAIN q.values
  /\ \A r, s \in DOMAIN q.written : q.written[r] \in Nat /\ InOrder(r, s, q.written[r], q.written[s])
  /\ q.answer \in Seq(Range(q.answer))
  /\ q.state = "called" => q.answer = <<>>
  /\ \A i \in DOMAIN q.answer :
       q.reqs[i].name # "topologyDiagram" =>
         q.reqs[i].name \in DOMAIN q.written /\ q.answer[i].at = q.written[q.reqs[i].name]

Timed ==
  /\ now \in Nat
  /\ DOMAIN written = DOMAIN ValuesMap /\ \A d : Held(written, d) = Held(ValuesMap, d)
  /\ Moments(written, now)
  /\ Storing(parser, written, now)
  /\ OfOneCopy(request)

\* Store writes the time of the value next to it.
LEMMA StoreIsTimed ==
  ASSUME NEW d, NEW r, NEW v, NEW t, Store(d, r, v, t), Timed
  PROVE  /\ written' = Stored(written, d, r, t)
         /\ DOMAIN written' = DOMAIN ValuesMap' /\ \A e : Held(written', e) = Held(ValuesMap', e)
<1>1. written' = Stored(written, d, r, t) /\ ValuesMap' = Stored(ValuesMap, d, r, v)
  BY Zenon DEF Store, Stored
<1>2. ASSUME NEW m, NEW x
      PROVE  /\ DOMAIN Stored(m, d, r, x) = DOMAIN m \cup {d}
             /\ \A e : Held(Stored(m, d, r, x), e) = Held(m, e) \cup (IF e = d THEN {r} ELSE {})
  <2> DEFINE n == Stored(m, d, r, x)
             f == IF d \in DOMAIN m THEN m[d] ELSE <<>>
             g == With(f, r, x)
  <2>1. DOMAIN g = DOMAIN f \cup {r}
    BY Zenon DEF With
  <2>2. DOMAIN n = DOMAIN m \cup {d} /\ \A e \in DOMAIN n : n[e] = IF e = d THEN g ELSE m[e]
    BY Zenon DEF With, Stored
  <2>3. DOMAIN f = Held(m, d)
    BY DEF Held
  <2> HIDE DEF n, f, g
  <2>4. \A e : Held(n, e) = Held(m, e) \cup (IF e = d THEN {r} ELSE {})
    BY <2>1, <2>2, <2>3 DEF Held
  <2> QED
    BY Zenon, <2>2, <2>4 DEF n
<1>3. /\ DOMAIN Stored(written, d, r, t) = DOMAIN written \cup {d}
      /\ \A e : Held(Stored(written, d, r, t), e) = Held(written, e) \cup (IF e = d THEN {r} ELSE {})
  BY Zenon, <1>2
<1>4. /\ DOMAIN Stored(ValuesMap, d, r, v) = DOMAIN ValuesMap \cup {d}
      /\ \A e : Held(Stored(ValuesMap, d, r, v), e) = Held(ValuesMap, e) \cup (IF e = d THEN {r} ELSE {})
  BY Zenon, <1>2
<1>5. DOMAIN written' = DOMAIN ValuesMap'
  BY Zenon, <1>1, <1>3, <1>4 DEF Timed
<1>6. \A e : Held(written', e) = Held(ValuesMap', e)
  BY Zenon, <1>1, <1>3, <1>4 DEF Timed
<1> QED
  BY Zenon, <1>1, <1>5, <1>6

\* A default is of time 0: it takes nothing out of order.
LEMMA DefaultKeepsTime ==
  ASSUME NEW w, NEW d, NEW r, NEW p, NEW n \in Nat, Moments(w, n), Storing(p, w, n)
  PROVE  Moments(Stored(w, d, r, 0), n) /\ Storing(p, Stored(w, d, r, 0), n)
<1> DEFINE u == Stored(w, d, r, 0)
<1>1. \A e : \A s \in Held(u, e) : u[e][s] = 0 \/ (s \in Held(w, e) /\ u[e][s] = w[e][s])
  BY HeldAfter
<1> HIDE DEF u
<1>2. Moments(u, n)
  BY <1>1 DEF Moments, InOrder
<1>3. ASSUME NEW report \in Reports, NEW k \in Nat, FrameIn(p, w, report, k)
      PROVE  FrameIn(p, u, report, k)
  BY <1>1, <1>3 DEF FrameIn
<1>4. Storing(p, u, n)
  BY <1>1, <1>3 DEF Storing
<1> QED
  BY <1>2, <1>4 DEF u

\* No report brings a time stamp.
LEMMA StampNotBrought ==
  \A report \in Reports : \A m \in DOMAIN report : report[m].name # Stamp
BY ReportAssumption DEF Range, Stamp

\* The time stamp of a frame: later than all there is.
LEMMA StampKeepsTime ==
  ASSUME NEW w, NEW p, NEW n \in Nat, Moments(w, n), Storing(p, w, n), p.at = 0, p.dev # None
  PROVE  /\ Moments(Stored(w, p.dev, Stamp, n), n)
         /\ Storing([p EXCEPT !.at = n], Stored(w, p.dev, Stamp, n), n)
<1> DEFINE u == Stored(w, p.dev, Stamp, n)
           o == [p EXCEPT !.at = n]
<1>1. \A e : \A s \in Held(u, e) :
        IF e = p.dev /\ s = Stamp THEN u[e][s] = n ELSE s \in Held(w, e) /\ u[e][s] = w[e][s]
  BY HeldAfter
<1> HIDE DEF u
<1>2. \A r, s : Precedes(r, s) => s # Stamp
  BY StampNotBrought DEF Precedes
<1>3. \A e : \A s \in Held(u, e) : u[e][s] \in 0..n
  BY <1>1 DEF Moments
<1>4. Moments(u, n)
  <2>1. ASSUME NEW e, NEW r \in Held(u, e), NEW s \in Held(u, e)
        PROVE  InOrder(r, s, u[e][r], u[e][s])
    <3>1. CASE e = p.dev /\ r = Stamp
      BY <3>1, <1>1, <1>3 DEF InOrder
    <3>2. CASE e = p.dev /\ s = Stamp /\ r # Stamp
      BY <3>2, <1>2 DEF InOrder
    <3>3. CASE e # p.dev \/ (r # Stamp /\ s # Stamp)
      BY <3>3, <1>1 DEF Moments
    <3> QED
      BY <3>1, <3>2, <3>3
  <2> QED
    BY <1>3, <2>1 DEF Moments
<1>5. PICK report \in Reports, k \in Nat : FrameIn(p, w, report, k)
  BY DEF Storing
<1>6. o.at = n /\ o.dev = p.dev /\ o.todo = p.todo /\ {"dev", "at", "todo"} \subseteq DOMAIN o
  BY DEF Storing
<1> HIDE DEF o
<1>7. FrameIn(o, u, report, k)
  BY <1>5, <1>6 DEF FrameIn
<1>8. Storing(o, u, n)
  <2>1. \A d : \A s \in Held(u, d) : u[d][s] <= n
    BY <1>3
  <2>2. Stamp \in Held(u, p.dev) => u[p.dev][Stamp] = n
    BY <1>1
  <2> QED
    BY <1>6, <1>7, <2>1, <2>2 DEF Storing
<1> QED
  BY <1>4, <1>8 DEF u, o

\* A value of a frame: later than all there is or of the same time, and what must come
\* before it has that time.
LEMMA ValueKeepsTime ==
  ASSUME NEW w, NEW p, NEW n \in Nat, Moments(w, n), Storing(p, w, n),
         p.at # 0, p.todo \in Seq(Values), p.todo # <<>>
  PROVE  /\ Moments(Stored(w, p.dev, Head(p.todo).name, p.at), n)
         /\ Storing([p EXCEPT !.todo = Tail(@)], Stored(w, p.dev, Head(p.todo).name, p.at), n)
<1> DEFINE x == Head(p.todo).name
           u == Stored(w, p.dev, x, p.at)
           o == [p EXCEPT !.todo = Tail(@)]
<1>1. \A e : \A s \in Held(u, e) :
        IF e = p.dev /\ s = x THEN u[e][s] = p.at ELSE s \in Held(w, e) /\ u[e][s] = w[e][s]
  BY HeldAfter
<1>2. PICK report \in Reports, k \in Nat : FrameIn(p, w, report, k)
  BY DEF Storing
<1>3. /\ Len(p.todo) \in Nat /\ Len(p.todo) > 0 /\ Head(p.todo) = p.todo[1]
      /\ Len(Tail(p.todo)) = Len(p.todo) - 1
      /\ \A i \in 1..Len(p.todo) - 1 : Tail(p.todo)[i] = p.todo[i + 1]
  OBVIOUS
<1>4. k + 1 \in 1..Len(report) /\ report[k + 1].name = x /\ DOMAIN report = 1..Len(report)
      /\ Len(report) \in Nat
  BY <1>2, <1>3 DEF FrameIn
<1>5. x # Stamp
  BY <1>4, StampNotBrought
<1>6. p.at \in 0..n
  BY DEF Storing
<1>7. o.at = p.at /\ o.dev = p.dev /\ o.todo = Tail(p.todo) /\ {"dev", "at", "todo"} \subseteq DOMAIN o
  BY DEF Storing
<1> HIDE DEF u, x, o
<1>8. \A e : \A s \in Held(u, e) : u[e][s] \in 0..n /\ u[e][s] <= p.at
  BY <1>1, <1>6 DEF Moments, Storing
<1>9. Moments(u, n)
  <2>1. ASSUME NEW e, NEW r \in Held(u, e), NEW s \in Held(u, e)
        PROVE  InOrder(r, s, u[e][r], u[e][s])
    <3>1. CASE e = p.dev /\ r = x
      BY <3>1, <1>1, <1>8 DEF InOrder
    <3>2. CASE e = p.dev /\ s = x /\ r # x
      <4>1. r \in Held(w, e) /\ u[e][r] = w[e][r] /\ u[e][s] = p.at
        BY <3>2, <1>1
      <4>2. r = Stamp => w[e][r] \in {0, p.at}
        BY <3>2, <4>1 DEF Storing
      <4>3. Precedes(r, s) => w[e][r] \in {0, p.at}
        <5>1. ASSUME Precedes(r, s) PROVE \E l \in 1..k : report[l].name = r
          <6>1. \E l \in 1..(k + 1) - 1 : report[l].name = r
            BY <5>1, <1>4, <3>2 DEF Precedes
          <6> QED
            BY <6>1
        <5> QED
          BY <5>1, <4>1, <3>2, <1>2 DEF FrameIn
      <4> QED
        BY <4>1, <4>2, <4>3, <1>6 DEF InOrder
    <3>3. CASE e # p.dev \/ (r # x /\ s # x)
      BY <3>3, <1>1 DEF Moments
    <3> QED
      BY <3>1, <3>2, <3>3
  <2> QED
    BY <1>8, <2>1 DEF Moments
<1>10. FrameIn(o, u, report, k + 1)
  <2>1. /\ report \in Seq(Range(report)) /\ k + 1 \in 0..Len(report)
        /\ Len(o.todo) = Len(report) - (k + 1) /\ o.at # 0
    <3>1. report \in Seq(Range(report)) /\ Len(p.todo) = Len(report) - k
      BY <1>2 DEF FrameIn
    <3>2. Len(o.todo) = Len(p.todo) - 1 /\ o.at # 0
      BY <1>3, <1>7
    <3>3. k + 1 \in 0..Len(report)
      BY <1>4
    <3>4. Len(o.todo) = Len(report) - (k + 1)
      <4>1. Len(p.todo) \in Nat /\ Len(report) \in Nat
        BY <1>3, <1>4
      <4> QED
        BY <4>1, <3>1, <3>2
    <3> QED
      BY Zenon, <3>1, <3>2, <3>3, <3>4
  <2>2. \A i \in 1..Len(o.todo) : o.todo[i] = report[(k + 1) + i]
    <3> SUFFICES ASSUME NEW i \in 1..Len(p.todo) - 1 PROVE Tail(p.todo)[i] = report[(k + 1) + i]
      BY <1>3, <1>7
    <3>1. i + 1 \in 1..Len(p.todo) /\ Tail(p.todo)[i] = p.todo[i + 1]
      BY <1>3
    <3>2. p.todo[i + 1] = report[k + (i + 1)]
      BY <3>1, <1>2 DEF FrameIn
    <3>3. k + (i + 1) = (k + 1) + i
      OBVIOUS
    <3> QED
      BY <3>1, <3>2, <3>3
  <2>3. ASSUME NEW l \in 1..k + 1, report[l].name \in Held(u, o.dev)
        PROVE  u[o.dev][report[l].name] \in {0, o.at}
    <3>1. CASE report[l].name = x
      BY <3>1, <2>3, <1>1, <1>7
    <3>2. CASE report[l].name # x
      <4>1. l \in 1..k
        BY <3>2, <1>4
      <4>2. report[l].name \in Held(w, p.dev) /\ u[p.dev][report[l].name] = w[p.dev][report[l].name]
        BY <3>2, <2>3, <1>1, <1>7
      <4>3. w[p.dev][report[l].name] \in {0, p.at}
        BY <4>1, <4>2, <1>2 DEF FrameIn
      <4> QED
        BY <4>2, <4>3, <1>7
    <3> QED
      BY <3>1, <3>2
  <2> QED
    BY <2>1, <2>2, <2>3 DEF FrameIn
<1>11. Storing(o, u, n)
  <2>1. Stamp \in Held(u, p.dev) => u[p.dev][Stamp] \in {0, p.at}
    BY <1>1, <1>5 DEF Storing
  <2>2. p.dev # None
    BY DEF Storing
  <2>3. k + 1 \in Nat
    OBVIOUS
  <2> QED
    BY <1>6, <1>7, <1>8, <1>10, <2>1, <2>2, <2>3 DEF Storing
<1> QED
  BY <1>9, <1>11 DEF u, o, x

\* Time goes on; what there is stays in order.
LEMMA Later ==
  ASSUME NEW w, NEW p, NEW n \in Nat, Moments(w, n), Storing(p, w, n)
  PROVE  Moments(w, n + 1) /\ Storing(p, w, n + 1)
<1>1. Moments(w, n + 1)
  BY DEF Moments
<1>2. Storing(p, w, n + 1)
  BY DEF Storing
<1> QED
  BY <1>1, <1>2

LEMMA InitTimed == Init => Timed
<1> SUFFICES ASSUME Init PROVE Timed
  OBVIOUS
<1>1. /\ DOMAIN ValuesMap = Devices /\ DOMAIN written = Devices
      /\ \A d \in Devices : DOMAIN written[d] = DOMAIN ValuesMap[d]
                            /\ \A r \in DOMAIN written[d] : written[d][r] = 0
  BY DEF Init
<1>2. \A d : Held(written, d) = Held(ValuesMap, d) /\ \A r \in Held(written, d) : written[d][r] = 0
  BY <1>1 DEF Held
<1>3. now = 0 /\ parser = NoFrame /\ request = NoRequest
  BY DEF Init
<1>4. Moments(written, now)
  BY <1>2, <1>3 DEF Moments, InOrder
<1>5. Storing(parser, written, now)
  BY <1>3 DEF Storing, NoFrame
<1>6. OfOneCopy(request)
  BY <1>3 DEF OfOneCopy, NoRequest, Range
<1> QED
  BY <1>1, <1>2, <1>3, <1>4, <1>5, <1>6 DEF Timed

\* Whoever writes no value and takes no frame or request.
LEMMA TimedUnchanged ==
  ASSUME Timed, UNCHANGED <<now, ValuesMap, written, parser>>, OfOneCopy(request')
  PROVE  Timed'
BY DEF Timed

LEMMA CallbackTimed ==
  ASSUME Kept, Timed,
         \/ \E d \in Devices : AddDevice(d) \/ RemoveDevice(d)
         \/ DeviceInit \/ DeleteMapping
  PROVE  Timed'
<1>1. CASE (\E d \in Devices : AddDevice(d)) \/ DeleteMapping
  BY <1>1, TimedUnchanged DEF AddDevice, DeleteMapping, Timed
<1>2. CASE DeviceInit
  <2> DEFINE r == Head(cb.todo).name
             u == Stored(written, cb.dev, r, 0)
  <2>1. /\ written' = u
        /\ DOMAIN written' = DOMAIN ValuesMap' /\ \A e : Held(written', e) = Held(ValuesMap', e)
    BY <1>2, StoreIsTimed DEF DeviceInit
  <2>2. Moments(u, now) /\ Storing(parser, u, now)
    BY DefaultKeepsTime DEF Timed
  <2>3. UNCHANGED <<now, parser, request>>
    BY <1>2 DEF DeviceInit
  <2> HIDE DEF u
  <2> QED
    BY <2>1, <2>2, <2>3 DEF Timed
<1>3. ASSUME NEW d \in Devices, RemoveDevice(d) PROVE Timed'
  <2>1. UNCHANGED <<now, parser, request>>
    BY <1>3 DEF RemoveDevice
  <2>2. /\ DOMAIN written' = DOMAIN written \ {d} /\ DOMAIN ValuesMap' = DOMAIN ValuesMap \ {d}
        /\ \A e \in DOMAIN written' : written'[e] = written[e]
        /\ \A e \in DOMAIN ValuesMap' : ValuesMap'[e] = ValuesMap[e]
    BY <1>3 DEF RemoveDevice
  <2>3. DOMAIN written' = DOMAIN ValuesMap' /\ \A e : Held(written', e) = Held(ValuesMap', e)
    BY <2>2 DEF Timed, Held
  <2>4. \A e : \A s \in Held(written', e) : s \in Held(written, e) /\ written'[e][s] = written[e][s]
    BY <2>2 DEF Held
  <2>5. Moments(written', now)
    BY <2>4 DEF Timed, Moments
  <2>6. \A report, k : FrameIn(parser, written, report, k) => FrameIn(parser, written', report, k)
    BY <2>4 DEF FrameIn
  <2>7. Storing(parser, written', now)
    BY <2>4, <2>6 DEF Timed, Storing
  <2> QED
    BY <2>1, <2>3, <2>5, <2>7 DEF Timed
<1> QED
  BY <1>1, <1>2, <1>3

LEMMA ParserTimed ==
  ASSUME Kept, Timed,
         \/ \E d \in Devices : LookupDeviceName(d)
         \/ onDataReceived \/ parseTopo \/ SetDeviceValue
  PROVE  Timed'
<1>1. CASE \E d \in Devices : LookupDeviceName(d)
  <2>1. PICK report \in Reports, d \in Devices : parser' = [dev |-> d, at |-> 0, todo |-> report]
    BY <1>1 DEF LookupDeviceName
  <2>2. now' = now + 1 /\ UNCHANGED <<ValuesMap, written, request>>
    BY <1>1 DEF LookupDeviceName, tables
  <2>3. Moments(written, now') /\ now' \in Nat
    BY <2>2, Later DEF Timed
  <2>4. d # None /\ report \in Seq(Range(report)) /\ Len(report) \in Nat
    BY ReportAssumption
  <2>5. FrameIn(parser', written, report, 0)
    BY <2>1, <2>4 DEF FrameIn
  <2>6. Storing(parser', written, now')
    BY <2>1, <2>3, <2>4, <2>5 DEF Storing
  <2> QED
    BY <2>2, <2>3, <2>6 DEF Timed
<1>2. CASE onDataReceived
  <2> DEFINE u == Stored(written, parser.dev, Stamp, now)
  <2>1. /\ written' = u
        /\ DOMAIN written' = DOMAIN ValuesMap' /\ \A e : Held(written', e) = Held(ValuesMap', e)
    BY <1>2, StoreIsTimed DEF onDataReceived, Stamp
  <2>2. Moments(u, now) /\ Storing([parser EXCEPT !.at = now], u, now)
    BY <1>2, StampKeepsTime DEF onDataReceived, Timed
  <2>3. UNCHANGED <<now, request>> /\ parser' \in {NoFrame, [parser EXCEPT !.at = now]}
    BY <1>2 DEF onDataReceived
  <2> HIDE DEF u
  <2>4. Storing(NoFrame, u, now)
    BY DEF Storing, NoFrame, Timed
  <2> QED
    BY <2>1, <2>2, <2>3, <2>4 DEF Timed
<1>3. CASE parseTopo
  BY <1>3, TimedUnchanged DEF parseTopo, Timed
<1>4. CASE SetDeviceValue
  <2> DEFINE u == Stored(written, parser.dev, Head(parser.todo).name, parser.at)
  <2>1. /\ written' = u
        /\ DOMAIN written' = DOMAIN ValuesMap' /\ \A e : Held(written', e) = Held(ValuesMap', e)
    BY <1>4, StoreIsTimed DEF SetDeviceValue
  <2>2. Moments(u, now) /\ Storing([parser EXCEPT !.todo = Tail(@)], u, now)
    <3>1. parser.at # 0 /\ parser.todo # <<>> /\ parser.todo \in Seq(Values)
      BY <1>4 DEF SetDeviceValue, Pending, Kept, InHand
    <3> QED
      BY <3>1, ValueKeepsTime DEF Timed
  <2>3. UNCHANGED <<now, request>> /\ parser' \in {NoFrame, [parser EXCEPT !.todo = Tail(@)]}
    BY <1>4 DEF SetDeviceValue
  <2> HIDE DEF u
  <2>4. Storing(NoFrame, u, now)
    BY DEF Storing, NoFrame, Timed
  <2> QED
    BY <2>1, <2>2, <2>3, <2>4 DEF Timed
<1> QED
  BY <1>1, <1>2, <1>3, <1>4

LEMMA CheckTimed ==
  ASSUME Kept, Timed, Tick \/ WriteState \/ \E d \in Devices : ReadValues(d)
  PROVE  Timed'
<1>1. CASE Tick
  <2>1. now' = now + 1 /\ UNCHANGED <<ValuesMap, written, parser, request>>
    BY <1>1 DEF Tick, tables
  <2>2. Moments(written, now') /\ Storing(parser, written, now') /\ now' \in Nat
    BY <2>1, Later DEF Timed
  <2> QED
    BY <2>1, <2>2 DEF Timed
<1>2. CASE WriteState
  <2>1. check.period.go # "uint32"
    BY <1>2 DEF WriteState, Kept, InHand
  <2> QED
    BY <1>2, <2>1, TimedUnchanged DEF WriteState, Timed
<1>3. CASE \E d \in Devices : ReadValues(d)
  BY <1>3, TimedUnchanged DEF ReadValues, tables, Timed
<1> QED
  BY <1>1, <1>2, <1>3

\* A request: its copy is of one moment, since the table is.
LEMMA RequestTimed ==
  ASSUME Timed,
         \/ \E d \in Devices : Call(d)
         \/ GetDeviceValues \/ HandleReadCommands \/ Return
         \/ UNCHANGED vars
  PROVE  Timed'
<1>1. UNCHANGED <<now, ValuesMap, written, parser>>
  BY DEF Call, GetDeviceValues, HandleReadCommands, Return, vars, tables
<1>2. ASSUME NEW f, DOMAIN f = {"dev", "state", "reqs", "values", "written", "answer"},
             f.values = <<>>, f.written = <<>>, f.answer = <<>>
      PROVE  OfOneCopy(f)
  BY <1>2 DEF OfOneCopy, Range
<1>3. CASE \E d \in Devices : Call(d)
  <2>1. PICK reqs : \E d \in Devices :
          request' = [NoRequest EXCEPT !.dev = d, !.state = "called", !.reqs = reqs]
    BY <1>3 DEF Call
  <2>2. PICK d \in Devices :
          request' = [NoRequest EXCEPT !.dev = d, !.state = "called", !.reqs = reqs]
    BY <2>1
  <2>3. OfOneCopy(request')
    BY <2>2, <1>2 DEF NoRequest
  <2> QED
    BY <1>1, <2>3, TimedUnchanged
<1>4. CASE GetDeviceValues
  <2> DEFINE d == request.dev
  <2>1. CASE d \in DOMAIN ValuesMap
    <3>1. DOMAIN written[d] = DOMAIN ValuesMap[d] /\ d \in DOMAIN written
      BY <2>1 DEF Timed, Held
    <3>2. \A r, s \in DOMAIN written[d] : written[d][r] \in Nat /\ InOrder(r, s, written[d][r], written[d][s])
      BY <3>1 DEF Timed, Moments, Held
    <3>3. /\ request'.state = "reading" /\ request'.values = ValuesMap[d] /\ request'.written = written[d]
          /\ request'.answer = <<>> /\ DOMAIN request' = DOMAIN request
      BY <1>4, <2>1 DEF GetDeviceValues, Timed, OfOneCopy
    <3>4. OfOneCopy(request')
      BY <3>1, <3>2, <3>3 DEF Timed, OfOneCopy, Range
    <3> QED
      BY <1>1, <3>4, TimedUnchanged
  <2>2. CASE d \notin DOMAIN ValuesMap
    <3>1. OfOneCopy(request')
      BY <1>4, <2>2 DEF GetDeviceValues, Timed, OfOneCopy
    <3> QED
      BY <1>1, <3>1, TimedUnchanged
  <2> QED
    BY <2>1, <2>2
<1>5. CASE HandleReadCommands
  <2>1. CASE request' = [request EXCEPT !.state = "failed"]
    <3>1. OfOneCopy(request')
      BY <2>1 DEF Timed, OfOneCopy
    <3> QED
      BY <1>1, <3>1, TimedUnchanged
  <2>2. CASE \E a \in Answers : request' = [request EXCEPT !.answer = Append(@, a)]
    <3>1. PICK a \in Answers : request' = [request EXCEPT !.answer = Append(@, a)]
      BY <2>2
    <3> DEFINE n == Len(request.answer)
               new == request'.answer
    <3>2. Asked.name # "topologyDiagram" =>
            Asked.name \in DOMAIN request.written /\ a.at = request.written[Asked.name]
      BY DEF Answers, Copied, Timed, OfOneCopy
    <3>3. /\ new = Append(request.answer, a) /\ DOMAIN request' = DOMAIN request
          /\ UNCHANGED <<request.dev, request.state, request.reqs, request.values, request.written>>
      BY <3>1 DEF Timed, OfOneCopy
    <3>4. /\ n \in Nat /\ DOMAIN new = 1..n + 1 /\ new[n + 1] = a
          /\ \A i \in 1..n : new[i] = request.answer[i]
          /\ DOMAIN request.answer = 1..n
      BY <3>3 DEF Timed, OfOneCopy
    <3>5. new \in Seq(Range(new))
      <4>1. Range(request.answer) \subseteq Range(new) /\ a \in Range(new)
        BY <3>4 DEF Range
      <4>2. request.answer \in Seq(Range(new))
        BY <4>1 DEF Timed, OfOneCopy
      <4> QED
        BY <3>3, <4>1, <4>2
    <3>6. Asked = request.reqs[n + 1] /\ request.state = "reading"
      BY <1>5 DEF Asked, HandleReadCommands
    <3> HIDE DEF new, n
    <3>7. ASSUME NEW i \in DOMAIN new, request.reqs[i].name # "topologyDiagram"
          PROVE  request.reqs[i].name \in DOMAIN request.written
                 /\ new[i].at = request.written[request.reqs[i].name]
      <4>1. CASE i = n + 1
        BY <4>1, <3>2, <3>4, <3>6, <3>7
      <4>2. CASE i # n + 1
        <5>1. i \in 1..n
          BY <4>2, <3>4
        <5> QED
          BY <5>1, <3>4, <3>7 DEF Timed, OfOneCopy
      <4> QED
        BY <4>1, <4>2
    <3>8. OfOneCopy(request')
      BY <3>3, <3>5, <3>6, <3>7 DEF Timed, OfOneCopy, new
    <3> QED
      BY <1>1, <3>8, TimedUnchanged
  <2> QED
    BY <1>5, <2>1, <2>2 DEF HandleReadCommands
<1>6. CASE Return
  BY <1>6, <1>1, <1>2, TimedUnchanged DEF Return, NoRequest
<1>7. CASE UNCHANGED vars
  BY <1>7, <1>1, TimedUnchanged DEF vars, Timed
<1> QED
  BY <1>3, <1>4, <1>5, <1>6, <1>7

LEMMA NextTimed == Kept /\ Timed /\ [Next]_vars => Timed'
<1> SUFFICES ASSUME Kept, Timed, [Next]_vars PROVE Timed'
  OBVIOUS
<1>1. CASE (\E d \in Devices : AddDevice(d) \/ RemoveDevice(d)) \/ DeviceInit \/ DeleteMapping
  BY <1>1, CallbackTimed
<1>2. CASE (\E d \in Devices : LookupDeviceName(d)) \/ onDataReceived \/ parseTopo \/ SetDeviceValue
  BY <1>2, ParserTimed
<1>3. CASE Tick \/ WriteState \/ \E d \in Devices : ReadValues(d)
  BY <1>3, CheckTimed
<1>4. CASE (\E d \in Devices : Call(d)) \/ GetDeviceValues \/ HandleReadCommands \/ Return \/ UNCHANGED vars
  BY <1>4, RequestTimed
<1> QED
  BY <1>1, <1>2, <1>3, <1>4 DEF Next

-----------------------------------------------------------------------------
\* The values of an answer are of one moment: a request answers from a copy, and at no
\* time does the table hold a value that is out of order, whatever the frames bring and
\* whoever deletes or resets values while one of them is stored.
THEOREM AnswersAreOfOneMoment == Spec => []AnswersOfOneMoment
<1>1. Timed => AnswersOfOneMoment
  <2> SUFFICES ASSUME Timed PROVE AnswersOfOneMoment
    OBVIOUS
  <2> DEFINE name(k) == request.reqs[k].name
             at(k) == request.answer[k].at
  <2>1. ASSUME NEW i \in DOMAIN request.answer, NEW j \in DOMAIN request.answer,
               name(i) # "topologyDiagram", name(j) # "topologyDiagram"
        PROVE  /\ at(i) \in Nat /\ at(j) \in Nat
               /\ InOrder(name(i), name(j), at(i), at(j))
    BY <2>1 DEF Timed, OfOneCopy
  <2> QED
    BY <2>1 DEF AnswersOfOneMoment, InOrder, Precedes, Stamp
<1> QED
  BY <1>1, InitKept, NextKept, InitTimed, NextTimed, PTL DEF Spec

-----------------------------------------------------------------------------
(* Numbers: division, the distance of floats, and rounding.                *)

\* A set of naturals has a least one.
LEMMA LeastElement ==
  ASSUME NEW T, T \subseteq Nat, T # {}
  PROVE  \E n \in T : \A m \in T : n <= m
<1>1. PICK n \in T : \A m \in T : <<m, n>> \notin OpToRel(<, Nat)
  BY WFMin, NatLessThanWellFounded, Zenon
<1>2. ASSUME NEW m \in T, m < n PROVE FALSE
  BY <1>1, <1>2, Zenon DEF OpToRel
<1>. QED  BY <1>2

\* A number is the quotient times the divisor and a remainder.
LEMMA DivisionIs ==
  ASSUME NEW a \in Nat, NEW s \in Nat \ {0}
  PROVE  /\ a \div s \in Nat /\ a % s \in 0..s - 1
         /\ a = s * (a \div s) + (a % s)
  OBVIOUS

\* Quotient and remainder are what makes up the number.
LEMMA QuotientIs ==
  ASSUME NEW s \in Nat \ {0}, NEW q \in Nat, NEW r \in 0..s - 1
  PROVE  (s * q + r) \div s = q /\ (s * q + r) % s = r
  OBVIOUS

\* s is the distance of the floats around a.
Between(s, a, exact) == s \in Ulps /\ a < s * exact /\ (s > 1 => a >= (s \div 2) * exact)

\* The steps are halves of each other, down to 1.
LEMMA UlpsAre ==
  \A s \in Ulps : /\ s \in Nat /\ s > 0
                  /\ s > 1 => s \div 2 \in Ulps /\ s = 2 * (s \div 2) /\ s \div 2 > 0
<1> SUFFICES ASSUME NEW s \in Ulps
             PROVE  /\ s \in Nat /\ s > 0
                    /\ s > 1 => s \div 2 \in Ulps /\ s = 2 * (s \div 2) /\ s \div 2 > 0
  OBVIOUS
<1>1. s \in Nat /\ s > 0 /\ (s > 1 => s \div 2 \in Ulps /\ s % 2 = 0)
  BY UlpAssumption
<1> QED
  BY <1>1

\* Below infinity every number has such a distance, the least that reaches beyond it.
LEMMA UlpExists ==
  ASSUME NEW exact \in {Exact32, Exact64}, NEW a \in Nat, a < Inf
  PROVE  \E s \in Ulps : Between(s, a, exact)
<1> DEFINE T == {s \in Ulps : a < s * exact}
<1>1. exact \in Nat /\ exact >= Exact32 /\ Exact32 \in Nat /\ Inf \in Nat /\ T \subseteq Nat
  BY FloatAssumption, UlpsAre
<1>2. PICK s \in Ulps : Inf <= s * Exact32
  BY UlpAssumption
<1>3. s * Exact32 <= s * exact /\ s * Exact32 \in Nat /\ s * exact \in Nat
  BY <1>1, UlpsAre
<1>4. a < s * exact
  BY <1>1, <1>2, <1>3
<1>5. PICK u \in T : \A t \in T : u <= t
  BY <1>1, <1>4, LeastElement
<1>6. ASSUME u > 1 PROVE a >= (u \div 2) * exact
  <2>1. u \div 2 \in Ulps /\ u \div 2 < u /\ u \div 2 \in Nat /\ u \in Nat
    BY <1>6, UlpsAre
  <2>2. u \div 2 \notin T
    BY <1>5, <2>1
  <2>3. (u \div 2) * exact \in Nat
    BY <2>1, <1>1
  <2> QED
    BY <2>1, <2>2, <2>3
<1> QED
  BY <1>5, <1>6 DEF Between

\* It is the least step that reaches beyond a.
LEMMA UlpLeast ==
  ASSUME NEW exact \in {Exact32, Exact64}, NEW a \in Nat, NEW s \in Ulps, NEW t \in Ulps,
         a < s * exact, t > 1 => a >= (t \div 2) * exact
  PROVE  t <= s
<1>1. s \in Nat /\ s > 0 /\ t \in Nat /\ exact \in Nat
  BY UlpsAre, FloatAssumption
<1> SUFFICES ASSUME s < t PROVE FALSE
  BY <1>1
<1>2. 2 * s <= t /\ t = 2 * (t \div 2) /\ t \div 2 \in Nat
  BY <1>1, UlpAssumption, UlpsAre
<1>3. s <= t \div 2
  BY <1>1, <1>2
<1>4. s * exact <= (t \div 2) * exact /\ s * exact \in Nat /\ (t \div 2) * exact \in Nat
  BY <1>1, <1>2, <1>3
<1> QED
  BY <1>1, <1>4

\* The value of a number without its sign.
Abs(x) == IF x >= 0 THEN x ELSE -x

\* Ulp is well defined: the CHOOSE has something to choose.
LEMMA UlpIs ==
  ASSUME NEW exact \in {Exact32, Exact64}, NEW x \in Int, Finite(x)
  PROVE  Between(Ulp(x, exact), Abs(x), exact)
<1>1. Abs(x) \in Nat /\ Abs(x) < Inf
  BY FloatAssumption DEF Abs, Finite
<1>2. \E s \in Ulps : Between(s, Abs(x), exact)
  BY <1>1, UlpExists
<1>3. Ulp(x, exact) = CHOOSE s \in Ulps : Between(s, Abs(x), exact)
  BY Zenon, UlpsAre DEF Ulp, Abs, Between
<1> QED
  BY <1>2, <1>3

\* The multiple of s next to a, the even one between two.
Nearest(a, s) ==
  LET q == a \div s
      r == a % s
  IN  s * (IF 2 * r > s \/ (2 * r = s /\ q % 2 = 1) THEN q + 1 ELSE q)

\* Rounding is to the multiple next to the number, on both sides of 0.
LEMMA RoundedIs ==
  ASSUME NEW exact \in {Exact32, Exact64}, NEW x \in Int, Finite(x)
  PROVE  Rounded(x, exact) = IF x >= 0 THEN Nearest(Abs(x), Ulp(x, exact))
                             ELSE -Nearest(Abs(x), Ulp(x, exact))
BY DEF Rounded, Nearest, Abs

\* It is off by half a step at most.
LEMMA NearestIs ==
  ASSUME NEW a \in Nat, NEW s \in Ulps
  PROVE  /\ Nearest(a, s) \in Nat
         /\ 2 * (Nearest(a, s) - a) \in -s..s
         /\ s = 1 => Nearest(a, s) = a
<1> DEFINE q == a \div s
           r == a % s
           p == s * q
<1>1. s \in Nat \ {0}
  BY UlpsAre
<1>2. q \in Nat /\ r \in 0..s - 1 /\ a = s * q + r
  BY Zenon, <1>1, DivisionIs
<1>3. Nearest(a, s) = s * (IF 2 * r > s \/ (2 * r = s /\ q % 2 = 1) THEN q + 1 ELSE q)
  BY Zenon DEF Nearest
<1> HIDE DEF q, r
<1>4. a = p + r /\ p \in Nat /\ s * (q + 1) = p + s
  BY <1>1, <1>2
<1>5. Nearest(a, s) = IF 2 * r > s \/ (2 * r = s /\ q % 2 = 1) THEN p + s ELSE p
  BY <1>3, <1>4
<1> HIDE DEF p
<1>6. CASE 2 * r > s \/ (2 * r = s /\ q % 2 = 1)
  BY <1>1, <1>2, <1>4, <1>5, <1>6
<1>7. CASE ~(2 * r > s \/ (2 * r = s /\ q % 2 = 1))
  <2>1. 2 * r <= s /\ Nearest(a, s) = p
    BY <1>1, <1>2, <1>4, <1>5, <1>7
  <2>2. s = 1 => r = 0
    BY <1>2
  <2> QED
    BY <1>1, <1>2, <1>4, <2>1, <2>2, SMT
<1> QED
  BY <1>6, <1>7

\* A number with a smaller remainder than half of the step goes to the multiple below.
LEMMA NearestBelow ==
  ASSUME NEW s \in Ulps, NEW q \in Nat, NEW r \in Nat, 2 * r < s
  PROVE  Nearest(s * q + r, s) = s * q
<1>1. s \in Nat \ {0} /\ r \in 0..s - 1
  BY UlpsAre
<1>2. (s * q + r) \div s = q /\ (s * q + r) % s = r
  BY <1>1, QuotientIs
<1> QED
  BY <1>1, <1>2 DEF Nearest

\* Up to the limit of exact integers nothing is rounded; beyond it by half a step.
LEMMA RoundedNear ==
  ASSUME NEW exact \in {Exact32, Exact64}, NEW x \in Int, Finite(x)
  PROVE  /\ Rounded(x, exact) \in Int
         /\ x \in -exact..exact => Rounded(x, exact) = x
         /\ 2 * (Rounded(x, exact) - x) \in -Ulp(x, exact)..Ulp(x, exact)
         /\ Abs(Rounded(x, exact)) = Nearest(Abs(x), Ulp(x, exact))
         /\ x >= 0 => Rounded(x, exact) >= 0
         /\ x <= 0 => Rounded(x, exact) <= 0
<1> DEFINE s == Ulp(x, exact)
           a == Abs(x)
           m == Nearest(a, s)
<1>1. s \in Ulps /\ a < s * exact /\ (s > 1 => a >= (s \div 2) * exact)
  BY UlpIs DEF Between
<1>2. s \in Nat /\ s > 0 /\ exact \in Nat /\ exact > 0 /\ exact % 2 = 0
  BY <1>1, UlpsAre, FloatAssumption
<1>3. a \in Nat /\ (x >= 0 => a = x) /\ (x < 0 => a = -x)
  BY DEF Abs
<1>4. m \in Nat /\ 2 * (m - a) \in -s..s /\ (s = 1 => m = a)
  BY <1>1, <1>3, NearestIs
<1>5. Rounded(x, exact) = IF x >= 0 THEN m ELSE -m
  BY RoundedIs
<1>6. ASSUME a <= exact PROVE m = a
  <2>1. CASE s = 1
    BY <2>1, <1>4
  <2>2. CASE s # 1
    <3>1. s > 1 /\ s = 2 * (s \div 2) /\ s \div 2 \in Nat /\ s \div 2 > 0
      BY <1>1, <1>2, <2>2, UlpsAre
    <3>2. s \div 2 <= 1
      <4> DEFINE h == s \div 2
      <4>1. h \in Nat /\ h * exact <= exact
        BY <3>1, <1>1, <1>2, <1>3, <1>6
      <4> HIDE DEF h
      <4>2. ASSUME h >= 2 PROVE FALSE
        <5>1. 2 * exact <= h * exact
          BY <4>1, <4>2, <1>2
        <5> QED
          BY <5>1, <4>1, <1>2
      <4>3. h <= 1
        BY <4>1, <4>2
      <4> QED
        BY <4>3 DEF h
    <3>3. s = 2 /\ a = exact
      BY <3>1, <3>2, <1>1, <1>2, <1>3, <1>6
    <3>4. exact = 2 * (exact \div 2) + 0 /\ exact \div 2 \in Nat
      BY <1>2
    <3>5. Nearest(2 * (exact \div 2) + 0, 2) = 2 * (exact \div 2)
      BY <3>3, <3>4, <1>1, NearestBelow
    <3> QED
      BY <3>3, <3>4, <3>5
  <2> QED
    BY <2>1, <2>2
<1> HIDE DEF s, a, m
<1>7. x \in -exact..exact => a <= exact
  BY <1>2, <1>3
<1>8. Rounded(x, exact) \in Int /\ (x \in -exact..exact => Rounded(x, exact) = x)
  BY <1>3, <1>4, <1>5, <1>6, <1>7
<1>9. 2 * (Rounded(x, exact) - x) \in -s..s
  BY <1>2, <1>3, <1>4, <1>5
<1>10. Abs(Rounded(x, exact)) = m /\ (x >= 0 => Rounded(x, exact) >= 0) /\ (x <= 0 => Rounded(x, exact) <= 0)
  <2>1. x = 0 => m = 0
    BY <1>2, <1>3, <1>6
  <2> QED
    BY <2>1, <1>4, <1>5 DEF Abs
<1> QED
  BY <1>8, <1>9, <1>10 DEF s, a, m

\* A number is at most doubled.
LEMMA RoundedBound ==
  ASSUME NEW exact \in {Exact32, Exact64}, NEW x \in Int, Finite(x)
  PROVE  Abs(Rounded(x, exact)) <= 2 * Abs(x)
<1> DEFINE s == Ulp(x, exact)
           a == Abs(x)
           m == Nearest(a, s)
<1>1. s \in Ulps /\ a < s * exact /\ (s > 1 => a >= (s \div 2) * exact)
  BY UlpIs DEF Between
<1>2. s \in Nat /\ s > 0 /\ exact \in Nat /\ exact >= 2 /\ a \in Nat
  BY <1>1, UlpsAre, FloatAssumption DEF Abs
<1>3. m \in Nat /\ 2 * (m - a) \in -s..s /\ (s = 1 => m = a)
  BY <1>1, <1>2, NearestIs
<1>4. Abs(Rounded(x, exact)) = m
  BY RoundedNear
<1>5. ASSUME s > 1 PROVE s <= a
  <2> DEFINE h == s \div 2
  <2>1. h \in Nat /\ s = 2 * h /\ h * exact <= a
    BY <1>1, <1>2, <1>5, UlpsAre
  <2> HIDE DEF h
  <2>2. h * 2 <= h * exact
    BY <2>1, <1>2
  <2>3. h * exact \in Nat
    BY <2>1, <1>2
  <2> QED
    BY <2>1, <2>2, <2>3, <1>2
<1> HIDE DEF s, a, m
<1>6. m <= 2 * a
  BY <1>2, <1>3, <1>5
<1> QED
  BY <1>4, <1>6 DEF a

\* To a float64 first and then to a float32: off by at most one step of a float32.
LEMMA RoundedTwice ==
  ASSUME NEW x \in Int, Finite(x), Finite(Rounded(x, Exact64))
  PROVE  LET z == Rounded(Rounded(x, Exact64), Exact32)
         IN  /\ z \in Int
             /\ x \in -Exact32..Exact32 => z = x
             /\ z - x \in -Ulp(x, Exact32)..Ulp(x, Exact32)
<1> DEFINE y == Rounded(x, Exact64)
           z == Rounded(y, Exact32)
           s == Ulp(x, Exact32)
           t == Ulp(x, Exact64)
           u == Ulp(y, Exact32)
           a == Abs(x)
           b == Abs(y)
           c == Abs(z)
<1>1. Exact32 \in Nat /\ Exact64 \in Nat /\ Exact32 >= 2 /\ Exact32 % 2 = 0 /\ Exact32 <= Exact64
  BY FloatAssumption
<1>2. /\ y \in Int /\ (x \in -Exact64..Exact64 => y = x) /\ b = Nearest(a, t)
      /\ (x >= 0 => y >= 0) /\ (x <= 0 => y <= 0)
  BY RoundedNear
<1>3. /\ z \in Int /\ (y \in -Exact32..Exact32 => z = y) /\ c = Nearest(b, u)
      /\ (y >= 0 => z >= 0) /\ (y <= 0 => z <= 0)
  BY <1>2, RoundedNear
<1>4. /\ s \in Ulps /\ a < s * Exact32 /\ (s > 1 => a >= (s \div 2) * Exact32)
      /\ t \in Ulps /\ a < t * Exact64 /\ (t > 1 => a >= (t \div 2) * Exact64)
      /\ u \in Ulps /\ b < u * Exact32 /\ (u > 1 => b >= (u \div 2) * Exact32)
  BY <1>2, UlpIs DEF Between
<1>5. a \in Nat /\ b \in Nat /\ c \in Nat
  BY <1>2, <1>3 DEF Abs
<1>6. s \in Nat /\ s > 0 /\ t \in Nat /\ t > 0 /\ u \in Nat /\ u > 0
  BY <1>4, UlpsAre
<1>7. 2 * (b - a) \in -t..t /\ 2 * (c - b) \in -u..u
  BY <1>2, <1>3, <1>4, <1>5, NearestIs
<1>8. x \in -Exact32..Exact32 => z = x
  BY <1>1, <1>2, <1>3
<1>9. t <= s
  <2>1. s * Exact32 <= s * Exact64 /\ s * Exact32 \in Nat /\ s * Exact64 \in Nat
    BY <1>1, <1>6
  <2>2. a < s * Exact64
    BY <2>1, <1>4, <1>5
  <2> QED
    BY <2>2, <1>4, <1>5, UlpLeast
<1>10. c - a \in -s..s
  <2>1. CASE b < s * Exact32
    <3>1. u <= s
      BY <2>1, <1>4, <1>5, UlpLeast
    <3> HIDE DEF a, b, c, s, t, u
    <3> QED
      BY <3>1, <1>5, <1>6, <1>7, <1>9
  <2>2. CASE b >= s * Exact32
    <3> DEFINE h == Exact32 \div 2
               p == s * Exact32
    <3>1. p \in Nat /\ a < p /\ p <= b /\ 2 * (b - p) < s
      BY <1>1, <1>4, <1>5, <1>6, <1>7, <1>9, <2>2
    <3>2. u > s
      <4> SUFFICES ASSUME u <= s PROVE FALSE
        BY <1>6
      <4>1. u * Exact32 <= s * Exact32 /\ u * Exact32 \in Nat
        BY <1>1, <1>6
      <4> QED
        BY <4>1, <3>1, <1>4, <1>5
    <3>3. 2 * s <= u
      BY <3>2, <1>4, UlpAssumption
    <3>4. u = 2 * s
      <4> DEFINE v == u \div 2
      <4>1. v \in Ulps /\ u = 2 * v /\ v \in Nat /\ v * Exact32 <= b
        BY <3>2, <1>4, <1>6, UlpsAre
      <4> HIDE DEF v
      <4>2. v <= s
        <5> SUFFICES ASSUME s < v PROVE FALSE
          BY <4>1, <1>6
        <5>1. 2 * s <= v
          BY <4>1, <1>4, UlpAssumption
        <5>2. (2 * s) * Exact32 <= v * Exact32 /\ (2 * s) * Exact32 = p + p
          BY <5>1, <4>1, <1>1, <1>6
        <5>3. s <= p
          BY <1>1, <1>6
        <5> QED
          BY <5>2, <5>3, <4>1, <3>1, <1>1, <1>5, <1>6
      <4> QED
        BY <4>1, <4>2, <3>3, <1>6
    <3>5. h \in Nat /\ Exact32 = 2 * h
      BY <1>1
    <3> HIDE DEF h
    <3>6. u * h = p
      BY <3>4, <3>5, <1>6
    <3>7. b = u * h + (b - p) /\ b - p \in Nat /\ 2 * (b - p) < u
      BY <3>1, <3>4, <3>6, <1>5, <1>6
    <3>8. c = p
      BY <3>5, <3>6, <3>7, <1>3, <1>4, NearestBelow
    <3> QED
      BY <3>1, <3>8, <1>5, <1>6, <1>7, <1>9
  <2> QED
    BY <2>1, <2>2, <1>1, <1>5, <1>6
<1>11. z - x \in -s..s
  <2>1. CASE x >= 0
    BY <2>1, <1>2, <1>3, <1>5, <1>6, <1>10 DEF Abs
  <2>2. CASE x < 0
    <3>1. a = -x /\ c = -z
      BY <2>2, <1>2, <1>3 DEF Abs
    <3> HIDE DEF a, c, z, s
    <3> QED
      BY <3>1, <1>3, <1>6, <1>10
  <2> QED
    BY <2>1, <2>2
<1> HIDE DEF y, z, s
<1> QED
  BY <1>3, <1>8, <1>11 DEF y, z, s

-----------------------------------------------------------------------------
(* The values in the table, and what coerceTo makes of them.               *)

\* What parseDefaultValue, the readers and the parser put there: no uint64 among it.
Kinds == {"uint8", "uint16", "uint32", "int16", "int64", "float32", "bool", "[]float32", "[]uint16", "[]node", "map"}
IsValue(v) == v \in Texts \/ (v.go \in Kinds /\ v \in ValuesOf(v.go))

\* The four classes they fall into.
IsText(v) == v.go = "string" /\ v.as \in {"int", "frac", "bool", "hex", "list", "object", "word"}
IsInteger(v) ==
  v.go \in {"uint8", "uint16", "uint32", "int16", "int64"} /\ v.as = "none" /\ v.n \in Signed(64)
IsFloat(v) ==
  v.go = "float32" /\ v.as = "none" /\ v.n \in (-MaxFloat32 .. MaxFloat32) \cup {-Inf, Inf, NaN}
IsOther(v) == v.go \in {"bool", "[]float32", "[]uint16", "[]node", "map"} /\ v.as = "none"

\* The constants in the form the proofs use.
LEMMA Widths ==
  /\ Half[8] \in Nat /\ Half[16] \in Nat /\ Half[32] \in Nat /\ Half[64] \in Nat
  /\ Half[8] > 0 /\ Half[16] > 0 /\ Half[32] > 0 /\ Half[64] > 0
  /\ Half[8] <= Half[16] /\ Half[16] <= Half[32] /\ 2 * Half[32] <= Half[64]
  /\ MaxFloat32 \in Nat /\ Inf \in Nat /\ NaN \in Nat
  /\ 4 * Half[64] < MaxFloat32 /\ MaxFloat32 < Inf /\ Inf < NaN
BY WidthAssumption, FloatAssumption

\* A type narrower than 64 bits has at most 32.
LEMMA BitsAre ==
  /\ \A type \in SignedTypes : Half[Bits(type)] \in Nat /\ (Half[Bits(type)] <= Half[32] \/ type = "int64")
  /\ \A type \in UnsignedTypes : Half[Bits(type)] \in Nat /\ (Half[Bits(type)] <= Half[32] \/ type = "uint64")
  /\ Bits("uint8") = 8 /\ Bits("uint16") = 16 /\ Bits("uint32") = 32 /\ Bits("uint64") = 64
  /\ Bits("int16") = 16 /\ Bits("int64") = 64
BY Widths DEF SignedTypes, UnsignedTypes, Bits

\* Every value is of one of the classes.
LEMMA ValueIs ==
  ASSUME NEW v, IsValue(v)
  PROVE  v.n \in Int /\ (IsText(v) \/ IsInteger(v) \/ IsFloat(v) \/ IsOther(v))
<1>1. CASE v \in Texts
  BY <1>1 DEF Texts, IsText
<1>2. CASE v.go \in Kinds /\ v \in ValuesOf(v.go)
  <2>1. CASE v.go \in {"uint8", "uint16", "uint32"}
    <3> DEFINE h == Half[Bits(v.go)]
    <3>1. v.as = "none" /\ v.n \in 0..2 * h - 1
      BY <1>2, <2>1 DEF ValuesOf, SignedTypes, UnsignedTypes, Unsigned
    <3>2. h \in Nat /\ h <= Half[32]
      BY <2>1, BitsAre DEF UnsignedTypes
    <3> HIDE DEF h
    <3>3. v.n \in Int /\ v.n \in -Half[64]..Half[64] - 1
      BY <3>1, <3>2, Widths
    <3> QED
      BY <2>1, <3>1, <3>3 DEF IsInteger, Signed
  <2>2. CASE v.go \in {"int16", "int64"}
    <3> DEFINE h == Half[Bits(v.go)]
    <3>1. v.as = "none" /\ v.n \in -h..h - 1
      BY <1>2, <2>2 DEF ValuesOf, SignedTypes, UnsignedTypes, Signed
    <3>2. h \in Nat /\ h <= Half[64]
      BY <2>2, BitsAre, Widths DEF SignedTypes
    <3> HIDE DEF h
    <3>3. v.n \in Int /\ v.n \in -Half[64]..Half[64] - 1
      BY <3>1, <3>2, Widths
    <3> QED
      BY <2>2, <3>1, <3>3 DEF IsInteger, Signed
  <2>3. CASE v.go = "float32"
    <3>1. v.as = "none" /\ v.n \in (-MaxFloat32 .. MaxFloat32) \cup {-Inf, Inf, NaN}
      BY <1>2, <2>3 DEF ValuesOf, SignedTypes, UnsignedTypes
    <3>2. v.n \in Int
      BY <3>1, Widths
    <3> QED
      BY <2>3, <3>1, <3>2 DEF IsFloat
  <2>4. CASE v.go \in {"bool", "[]float32", "[]uint16", "[]node", "map"}
    <3>1. v.as = "none" /\ v.n \in Int
      BY <1>2, <2>4 DEF ValuesOf, SignedTypes, UnsignedTypes
    <3> QED
      BY <2>4, <3>1 DEF IsOther
  <2> QED
    BY <1>2, <2>1, <2>2, <2>3, <2>4 DEF Kinds
<1> QED
  BY <1>1, <1>2 DEF IsValue

\* Cutting a whole number changes nothing.
LEMMA TruncIs ==
  /\ \A x \in Int : Trunc(x) \in Int
  /\ \A n \in Int : Trunc(2 * n) = n
BY DEF Trunc

\* What has a number has one in Int, that of an integer twice its own.
LEMMA NumberIs ==
  ASSUME NEW v, v.n \in Int, IsText(v) \/ IsInteger(v) \/ IsFloat(v) \/ IsOther(v)
  PROVE  /\ Number(v) \in Int
         /\ IsInteger(v) \/ (v.go = "string" /\ v.as = "int") => Number(v) = 2 * v.n /\ Trunc(Number(v)) = v.n
         /\ IsFloat(v) \/ v.as = "frac" => Number(v) = v.n
         /\ IsInteger(v) => HasNumber(v) /\ v.go # "string" /\ v.as # "frac"
         /\ IsFloat(v) => (HasNumber(v) <=> Finite(v.n)) /\ v.go # "string" /\ v.as # "frac"
         /\ IsText(v) => v.go = "string" /\ (HasNumber(v) <=> (v.as = "int" \/ (v.as = "frac" /\ Finite(v.n))))
         /\ IsOther(v) => ~HasNumber(v)
<1>1. Trunc(2 * v.n) = v.n /\ 2 * v.n \in Int
  BY TruncIs
<1>2. Number(v) = v.n \/ Number(v) = 2 * v.n
  BY DEF Number
<1> QED
  BY <1>1, <1>2 DEF Number, HasNumber, IsText, IsInteger, IsFloat, IsOther, SignedTypes, UnsignedTypes, FloatTypes

\* What Checked lets through, and when it fails.
LEMMA CheckedIs ==
  ASSUME NEW type, NEW results, NEW values
  PROVE  /\ Checked(type, results, values) # {}
         /\ \A r \in Checked(type, results, values) :
              r # Error => \E n \in results : n \in values /\ r = V(type, n)
         /\ results # {} /\ results \subseteq values /\ type # "error" => Error \notin Checked(type, results, values)
<1>1. type # "error" => \A n : V(type, n) # Error
  BY DEF V, Error
<1> QED
  BY <1>1 DEF Checked

\* What ReadFaithful says of a stored value, a declared type and the reading.
Said(v, type, reading) ==
  /\ reading.go = type
  /\ reading.go \in SignedTypes => reading.n \in Signed(Bits(reading.go))
  /\ reading.go \in UnsignedTypes => reading.n \in Unsigned(Bits(reading.go))
  /\ HasNumber(v) => SaysTheNumber(v, reading)

\* A reading of a signed type says the number.  What an int64 cannot hold becomes a
\* number that no narrower type has, so that the range check finds it.
LEMMA SignedSaid ==
  ASSUME NEW v, IsValue(v), NEW type \in SignedTypes,
         NEW reading \in coerceTo(v, type), reading # Error
  PROVE  Said(v, type, reading)
<1> DEFINE x == Number(v)
<1>1. v.n \in Int /\ (IsText(v) \/ IsInteger(v) \/ IsFloat(v) \/ IsOther(v))
  BY ValueIs
<1>2. PICK n \in toInt64(v) : n \in Signed(Bits(type)) /\ reading = V(type, n)
  <2>1. coerceTo(v, type) = Checked(type, toInt64(v), Signed(Bits(type)))
    BY DEF coerceTo, SignedTypes, UnsignedTypes
  <2> QED
    BY <2>1, CheckedIs
<1>3. reading.go = type /\ reading.n = n /\ type \notin UnsignedTypes
  BY <1>2 DEF V, SignedTypes, UnsignedTypes
<1>4. HasNumber(v) => SaysTheNumber(v, reading)
  <2>1. CASE IsText(v)
    <3>1. v.go = "string" /\ v.as = "int" /\ n = IF v.n \in Signed(64) THEN v.n ELSE v.n - 2 * Half[64]
      BY <1>2, <2>1 DEF toInt64, IsText, SignedTypes, UnsignedTypes, FloatTypes
    <3>2. Trunc(x) = v.n
      BY <3>1, <1>1, NumberIs
    <3>3. v.n \in Unsigned(64) \cup Signed(64)
      BY <1>2, <2>1, <3>1 DEF toInt64, IsText, SignedTypes, UnsignedTypes, FloatTypes
    <3>4. n = IF v.n >= Half[64] THEN v.n - 2 * Half[64] ELSE v.n
      BY <3>1, <3>3, <1>1, Widths DEF Signed, Unsigned
    <3>5. reading.n = IF Trunc(x) >= Half[64] THEN Trunc(x) - 2 * Half[64] ELSE Trunc(x)
      BY <1>3, <3>2, <3>4
    <3> QED
      BY <1>3, <3>1, <3>5 DEF SaysTheNumber, SignedTypes, UnsignedTypes
  <2>2. CASE IsInteger(v)
    <3>1. n = v.n
      BY <1>2, <2>2 DEF toInt64, IsInteger, SignedTypes, UnsignedTypes, FloatTypes
    <3>2. Trunc(x) = v.n /\ v.go # "string"
      BY <2>2, <1>1, NumberIs
    <3> QED
      BY <1>3, <3>1, <3>2 DEF SaysTheNumber, SignedTypes, UnsignedTypes
  <2>3. CASE IsFloat(v)
    <3>1. v.go # "string" /\ x = v.n /\ v.go \in FloatTypes
      BY <2>3, <1>1, NumberIs DEF IsFloat, FloatTypes
    <3>2. HasNumber(v) => Finite(v.n)
      BY <2>3, <1>1, NumberIs
    <3>3. n \in Int64Of(v.n)
      BY <1>2, <2>3 DEF toInt64, IsFloat, SignedTypes, UnsignedTypes, FloatTypes
    <3>4. CASE Trunc(v.n) \in Signed(64)
      <4>1. HasNumber(v) => n = Trunc(v.n)
        BY <3>2, <3>3, <3>4 DEF Int64Of
      <4> QED
        BY <1>3, <3>1, <4>1 DEF SaysTheNumber, SignedTypes, UnsignedTypes
    <3>5. CASE Trunc(v.n) \notin Signed(64)
      <4>1. n \in {-Half[64], 0, Half[64] - 1}
        BY <3>3, <3>5 DEF Int64Of
      <4>2. HasNumber(v) => n # 0
        <5>1. HasNumber(v) => v.n # NaN
          BY <3>2, Widths DEF Finite
        <5> QED
          BY <5>1, <3>3, <3>5, Widths DEF Int64Of
      <4>3. HasNumber(v) => type = "int64"
        <5> DEFINE h == Half[Bits(type)]
        <5>1. h \in Nat /\ (h <= Half[32] \/ type = "int64") /\ n \in -h..h - 1
          BY <1>2, BitsAre DEF Signed
        <5> HIDE DEF h
        <5> QED
          BY <5>1, <4>1, <4>2, Widths
      <4> QED
        BY <1>3, <3>1, <3>5, <4>3 DEF SaysTheNumber, SignedTypes, UnsignedTypes
    <3> QED
      BY <3>4, <3>5
  <2>4. CASE IsOther(v)
    BY <2>4, <1>1, NumberIs
  <2> QED
    BY <1>1, <2>1, <2>2, <2>3, <2>4
<1> QED
  BY <1>2, <1>3, <1>4 DEF Said

\* The same of the unsigned types.
LEMMA UnsignedSaid ==
  ASSUME NEW v, IsValue(v), NEW type \in UnsignedTypes,
         NEW reading \in coerceTo(v, type), reading # Error
  PROVE  Said(v, type, reading)
<1> DEFINE x == Number(v)
<1>1. v.n \in Int /\ (IsText(v) \/ IsInteger(v) \/ IsFloat(v) \/ IsOther(v))
  BY ValueIs
<1>2. PICK n \in toUint64(v) : n \in Unsigned(Bits(type)) /\ reading = V(type, n)
  <2>1. coerceTo(v, type) = Checked(type, toUint64(v), Unsigned(Bits(type)))
    BY DEF coerceTo, SignedTypes, UnsignedTypes
  <2> QED
    BY <2>1, CheckedIs
<1>3. reading.go = type /\ reading.n = n /\ type \notin SignedTypes
  BY <1>2 DEF V, SignedTypes, UnsignedTypes
<1>4. HasNumber(v) => SaysTheNumber(v, reading)
  <2>1. CASE IsText(v) \/ IsInteger(v)
    <3>1. n = v.n /\ (IsInteger(v) \/ (v.go = "string" /\ v.as = "int"))
      BY <1>2, <2>1 DEF toUint64, IsText, IsInteger, SignedTypes, UnsignedTypes, FloatTypes
    <3>2. Trunc(x) = v.n
      BY <3>1, <1>1, NumberIs
    <3> QED
      BY <1>3, <3>1, <3>2 DEF SaysTheNumber, SignedTypes, UnsignedTypes
  <2>2. CASE IsFloat(v)
    <3>1. x = v.n /\ v.go \in FloatTypes
      BY <2>2, <1>1, NumberIs DEF IsFloat, FloatTypes
    <3>2. HasNumber(v) => Finite(v.n)
      BY <2>2, <1>1, NumberIs
    <3>3. n \in Uint64Of(v.n)
      BY <1>2, <2>2 DEF toUint64, IsFloat, SignedTypes, UnsignedTypes, FloatTypes
    <3>4. CASE Trunc(v.n) \in Unsigned(64)
      <4>1. HasNumber(v) => n = Trunc(v.n)
        BY <3>2, <3>3, <3>4 DEF Uint64Of
      <4> QED
        BY <1>3, <3>1, <4>1 DEF SaysTheNumber, SignedTypes, UnsignedTypes
    <3>5. CASE Trunc(v.n) \notin Unsigned(64)
      <4>1. n \in {Half[64], 2 * Half[64] - 1}
        BY <3>3, <3>5 DEF Uint64Of
      <4>2. type = "uint64"
        <5> DEFINE h == Half[Bits(type)]
        <5>1. h \in Nat /\ (h <= Half[32] \/ type = "uint64") /\ n \in 0..2 * h - 1
          BY <1>2, BitsAre DEF Unsigned
        <5> HIDE DEF h
        <5> QED
          BY <5>1, <4>1, Widths
      <4> QED
        BY <1>3, <3>1, <3>5, <4>2 DEF SaysTheNumber, SignedTypes, UnsignedTypes
    <3> QED
      BY <3>4, <3>5
  <2>3. CASE IsOther(v)
    BY <2>3, <1>1, NumberIs
  <2> QED
    BY <1>1, <2>1, <2>2, <2>3
<1> QED
  BY <1>2, <1>3, <1>4 DEF Said

\* The float64 of a number: itself or the one next to it, and none that is infinite.
LEMMA Float64Is ==
  ASSUME NEW v, IsValue(v), HasNumber(v), NEW y \in toFloat64(v)
  PROVE  /\ Number(v) \in Int /\ Finite(Number(v)) /\ y \in Int /\ Finite(y)
         /\ y = Number(v) \/ y = Rounded(Number(v), Exact64)
<1> DEFINE x == Number(v)
<1>1. v.n \in Int /\ (IsText(v) \/ IsInteger(v) \/ IsFloat(v) \/ IsOther(v))
  BY ValueIs
<1>2. x \in Int
  BY <1>1, NumberIs
<1>3. CASE IsText(v)
  <2>1. v.go = "string" /\ (v.as = "int" \/ (v.as = "frac" /\ Finite(v.n)))
    BY <1>1, <1>3, NumberIs
  <2>2. x = IF v.as = "int" THEN 2 * v.n ELSE v.n
    BY <1>1, <1>3, <2>1, NumberIs
  <2>3. y \in ParseFloat(v, Exact64, Inf - 1)
    BY <2>1 DEF toFloat64, SignedTypes, UnsignedTypes, FloatTypes
  <2>4. ~(v.as = "frac" /\ v.n \in {-Inf, Inf, NaN})
    BY <1>1, <2>1, Widths DEF Finite
  <2>5. y = Rounded(x, Exact64) /\ y \in -(Inf - 1)..(Inf - 1)
    BY <2>2, <2>3, <2>4 DEF ParseFloat
  <2>6. y \in Int /\ Finite(y)
    BY <2>5, Widths DEF Finite
  <2>7. Finite(x)
    BY <2>5, <2>6 DEF Rounded
  <2> QED
    BY <1>2, <2>5, <2>6, <2>7
<1>4. CASE IsInteger(v)
  <2>1. x = 2 * v.n /\ y = Rounded(x, Exact64)
    <3>1. y = Rounded(2 * v.n, Exact64)
      BY <1>4 DEF toFloat64, IsInteger, SignedTypes, UnsignedTypes, FloatTypes
    <3> QED
      BY <3>1, <1>1, <1>4, NumberIs
  <2>2. Abs(x) \in Nat /\ Abs(x) <= 2 * Half[64] /\ Finite(x)
    BY <1>2, <1>4, <2>1, Widths DEF IsInteger, Signed, Abs, Finite
  <2>3. y \in Int /\ Abs(y) <= 2 * Abs(x)
    BY <1>2, <2>1, <2>2, RoundedNear, RoundedBound
  <2>4. Abs(y) <= 4 * Half[64]
    BY <2>2, <2>3, Widths DEF Abs
  <2>5. Finite(y)
    BY <2>3, <2>4, Widths DEF Abs, Finite
  <2> QED
    BY <1>2, <2>1, <2>2, <2>3, <2>5
<1>5. CASE IsFloat(v)
  <2>1. y = v.n /\ x = v.n /\ Finite(v.n)
    BY <1>1, <1>5, NumberIs DEF toFloat64, IsFloat, SignedTypes, UnsignedTypes, FloatTypes
  <2> QED
    BY <2>1, <1>1
<1>6. CASE IsOther(v)
  BY <1>1, <1>6, NumberIs
<1> QED
  BY <1>1, <1>3, <1>4, <1>5, <1>6

\* A reading of a float type is off by one step at most, though a float32 is rounded
\* twice on the way from an integer or a text.
LEMMA FloatSaid ==
  ASSUME NEW v, IsValue(v), NEW type \in FloatTypes,
         NEW reading \in coerceTo(v, type), reading # Error
  PROVE  Said(v, type, reading)
<1> DEFINE x == Number(v)
<1>1. CASE type = "float64"
  <2>1. PICK y \in toFloat64(v) : reading = V("float64", y)
    <3>1. coerceTo(v, type) = Checked(type, toFloat64(v), Int)
      BY <1>1 DEF coerceTo, SignedTypes, UnsignedTypes
    <3> QED
      BY <1>1, <3>1, CheckedIs
  <2>2. reading.go = "float64" /\ reading.n = y /\ type \notin SignedTypes \cup UnsignedTypes
    BY <1>1, <2>1 DEF V, SignedTypes, UnsignedTypes
  <2>3. ASSUME HasNumber(v) PROVE SaysTheNumber(v, reading)
    <3> DEFINE s == Ulp(x, Exact64)
    <3>1. x \in Int /\ Finite(x) /\ (y = x \/ y = Rounded(x, Exact64))
      BY <2>3, Float64Is
    <3>2. s \in Nat /\ s > 0
      BY <3>1, UlpIs, UlpsAre DEF Between
    <3>3. y \in Int /\ (x \in -Exact64..Exact64 => y = x) /\ 2 * (y - x) \in -s..s
      BY <3>1, <3>2, RoundedNear
    <3> HIDE DEF s, x
    <3>4. y - x \in -s..s
      BY <3>1, <3>2, <3>3
    <3> QED
      BY <2>2, <3>3, <3>4 DEF SaysTheNumber, s, x, SignedTypes, UnsignedTypes
  <2> QED
    BY <1>1, <2>2, <2>3 DEF Said
<1>2. CASE type = "float32"
  <2> DEFINE inRange == (-MaxFloat32 .. MaxFloat32) \cup {NaN}
  <2>1. PICK r \in Checked("float64", toFloat64(v), inRange) :
          reading = IF r = Error THEN r ELSE V("float32", Rounded(r.n, Exact32))
    <3>1. reading \in toFloat32(v)
      BY <1>2 DEF coerceTo, SignedTypes, UnsignedTypes
    <3> QED
      BY <3>1 DEF toFloat32
  <2>2. PICK y \in toFloat64(v) : r = V("float64", y)
    BY <2>1, CheckedIs
  <2>3. reading.go = "float32" /\ reading.n = Rounded(y, Exact32) /\ type \notin SignedTypes \cup UnsignedTypes
    BY <1>2, <2>1, <2>2 DEF V, SignedTypes, UnsignedTypes
  <2>4. ASSUME HasNumber(v) PROVE SaysTheNumber(v, reading)
    <3> DEFINE s == Ulp(x, Exact32)
               z == reading.n
    <3>1. /\ x \in Int /\ Finite(x) /\ y \in Int /\ Finite(y)
          /\ y = x \/ y = Rounded(x, Exact64)
      BY <2>4, Float64Is
    <3>2. s \in Nat /\ s > 0
      BY <3>1, UlpIs, UlpsAre DEF Between
    <3>3. (x \in -Exact32..Exact32 => z = x) /\ z - x \in -s..s
      <4>1. CASE y = x
        <5>1. z \in Int /\ (x \in -Exact32..Exact32 => z = x) /\ 2 * (z - x) \in -s..s
          BY <2>3, <3>1, <4>1, RoundedNear
        <5> HIDE DEF x, z, s
        <5> QED
          BY <5>1, <3>1, <3>2
      <4>2. CASE y = Rounded(x, Exact64)
        BY <2>3, <3>1, <4>2, RoundedTwice
      <4> QED
        BY <3>1, <4>1, <4>2
    <3> HIDE DEF s, x, z
    <3> QED
      BY <2>3, <3>3 DEF SaysTheNumber, s, x, z, SignedTypes, UnsignedTypes
  <2> QED
    BY <1>2, <2>3, <2>4 DEF Said
<1> QED
  BY <1>1, <1>2 DEF FloatTypes

\* A text of a number is the text of this number.
LEMMA StringSaid ==
  ASSUME NEW v, IsValue(v), NEW reading \in coerceTo(v, "string")
  PROVE  Said(v, "string", reading)
<1> DEFINE x == Number(v)
<1>1. v.n \in Int /\ (IsText(v) \/ IsInteger(v) \/ IsFloat(v) \/ IsOther(v))
  BY ValueIs
<1>2. reading = IF v.go = "string" THEN v ELSE Sprint(v)
  BY DEF coerceTo, SignedTypes, UnsignedTypes
<1>3. reading.go = "string"
  BY <1>2 DEF Sprint, Text
<1>4. ASSUME HasNumber(v) PROVE Number(reading) = x
  <2>1. CASE IsText(v)
    BY <1>1, <1>2, <2>1, NumberIs
  <2>2. CASE IsInteger(v)
    <3>1. reading.as = "int" /\ reading.n = v.n
      BY <1>2, <2>2 DEF Sprint, Text, IsInteger, SignedTypes, UnsignedTypes, FloatTypes
    <3>2. Number(reading) = 2 * reading.n
      BY <1>3, <3>1 DEF Number, FloatTypes
    <3> QED
      BY <3>1, <3>2, <1>1, <2>2, NumberIs
  <2>3. CASE IsFloat(v)
    <3>1. x = v.n /\ Finite(v.n)
      BY <1>1, <1>4, <2>3, NumberIs
    <3>2. reading = IF v.n % 2 = 0 THEN Text("int", Trunc(v.n)) ELSE Text("frac", v.n)
      BY <1>2, <2>3, <3>1 DEF Sprint, IsFloat, SignedTypes, UnsignedTypes, FloatTypes
    <3>3. v.n % 2 = 0 => 2 * Trunc(v.n) = v.n
      BY <1>1 DEF Trunc
    <3> QED
      BY <3>1, <3>2, <3>3 DEF Number, Text, FloatTypes
  <2> QED
    BY <1>1, <1>4, <2>1, <2>2, <2>3, NumberIs
<1>5. HasNumber(v) => SaysTheNumber(v, reading)
  BY <1>3, <1>4 DEF SaysTheNumber, SignedTypes, UnsignedTypes
<1> QED
  BY <1>3, <1>5 DEF Said, SignedTypes, UnsignedTypes

\* The remaining types: bool, bytes, and those that are always refused.
LEMMA OtherSaid ==
  ASSUME NEW v, IsValue(v), NEW type,
         type \notin SignedTypes \cup UnsignedTypes \cup FloatTypes \cup {"string"},
         NEW reading \in coerceTo(v, type), reading # Error
  PROVE  Said(v, type, reading)
<1> DEFINE x == Number(v)
<1>1. v.n \in Int /\ (IsText(v) \/ IsInteger(v) \/ IsFloat(v) \/ IsOther(v))
  BY ValueIs
<1>2. CASE type = "bool"
  <2>1. reading \in toBool(v)
    BY <1>2 DEF coerceTo, SignedTypes, UnsignedTypes
  <2>2. CASE v.go = "bool"
    <3>1. reading = v /\ ~HasNumber(v)
      BY <1>1, <2>1, <2>2, NumberIs DEF toBool, IsText, IsInteger, IsFloat
    <3> QED
      BY <1>2, <2>2, <3>1 DEF Said, SignedTypes, UnsignedTypes
  <2>3. CASE v.go = "string"
    <3>1. PICK n \in ParseBool(v) : reading = V("bool", n)
      <4>1. toBool(v) = Checked("bool", ParseBool(v), Int)
        BY <2>3 DEF toBool
      <4> QED
        BY <2>1, <4>1, CheckedIs
    <3>2. reading.go = "bool" /\ reading.n = v.n
      BY <3>1 DEF V, ParseBool
    <3>3. HasNumber(v) => v.as = "int" /\ v.n \in {0, 1} /\ x = 2 * v.n
      BY <1>1, <2>3, <3>1, NumberIs DEF ParseBool, IsInteger, IsFloat, IsOther
    <3>4. HasNumber(v) => reading.n = IF x = 0 THEN 0 ELSE 1
      BY <3>2, <3>3
    <3> QED
      BY <1>2, <3>2, <3>4 DEF Said, SaysTheNumber, SignedTypes, UnsignedTypes
  <2>4. CASE v.go \notin {"bool", "string"}
    <3>1. IsInteger(v) /\ reading = V("bool", IF v.n # 0 THEN 1 ELSE 0)
      BY <1>1, <2>1, <2>4 DEF toBool, IsText, IsInteger, IsFloat, IsOther
    <3>2. reading.go = "bool" /\ reading.n = IF v.n # 0 THEN 1 ELSE 0
      BY <3>1 DEF V
    <3>3. x = 2 * v.n
      BY <1>1, <3>1, NumberIs
    <3>4. reading.n = IF x = 0 THEN 0 ELSE 1
      BY <1>1, <3>2, <3>3
    <3> QED
      BY <1>2, <3>2, <3>4 DEF Said, SaysTheNumber, SignedTypes, UnsignedTypes
  <2> QED
    BY <2>2, <2>3, <2>4
<1>3. CASE type = "[]byte"
  <2>1. reading \in toBytes(v)
    BY <1>3 DEF coerceTo, SignedTypes, UnsignedTypes
  <2>2. reading.go = "[]byte"
    BY <2>1 DEF toBytes, V
  <2> QED
    BY <1>3, <2>2 DEF Said, SaysTheNumber, SignedTypes, UnsignedTypes
<1>4. CASE type \notin {"bool", "[]byte"}
  BY <1>4 DEF coerceTo, FloatTypes
<1> QED
  BY <1>2, <1>3, <1>4

\* All types together.
LEMMA Coerced ==
  ASSUME NEW v, IsValue(v), NEW type, NEW reading \in coerceTo(v, type), reading # Error
  PROVE  Said(v, type, reading)
BY SignedSaid, UnsignedSaid, FloatSaid, StringSaid, OtherSaid

\* coerceTo always comes to something.
LEMMA CoercesToSomething ==
  ASSUME NEW v, NEW type  PROVE coerceTo(v, type) # {}
<1>1. toBool(v) # {} /\ toBytes(v) # {}
  <2>1. CASE v.go = "string"
    BY <2>1, CheckedIs DEF toBool, toBytes
  <2>2. CASE v.go # "string"
    BY <2>2 DEF toBool, toBytes
  <2> QED
    BY <2>1, <2>2
<1>2. toFloat32(v) # {}
  <2>1. Checked("float64", toFloat64(v), (-MaxFloat32 .. MaxFloat32) \cup {NaN}) # {}
    BY CheckedIs
  <2> QED
    BY <2>1 DEF toFloat32
<1>3. CASE type \in SignedTypes
  BY <1>3, CheckedIs DEF coerceTo, SignedTypes, UnsignedTypes
<1>4. CASE type \in UnsignedTypes
  BY <1>4, CheckedIs DEF coerceTo, SignedTypes, UnsignedTypes
<1>5. CASE type \in FloatTypes
  BY <1>2, <1>5, CheckedIs DEF coerceTo, SignedTypes, UnsignedTypes, FloatTypes
<1>6. CASE type \notin SignedTypes \cup UnsignedTypes \cup FloatTypes
  BY <1>1, <1>6 DEF coerceTo, FloatTypes
<1> QED
  BY <1>3, <1>4, <1>5, <1>6

\* What can be said in a type is not refused.
LEMMA NotRefused ==
  ASSUME NEW v, IsValue(v), NEW type, Representable(v, type)
  PROVE  Error \notin coerceTo(v, type)
<1> DEFINE x == Number(v)
<1>1. v.n \in Int /\ (IsText(v) \/ IsInteger(v) \/ IsFloat(v) \/ IsOther(v))
  BY ValueIs
<1>2. CASE type \in SignedTypes
  <2>1. coerceTo(v, type) = Checked(type, toInt64(v), Signed(Bits(type))) /\ type # "error"
    BY <1>2 DEF coerceTo, SignedTypes, UnsignedTypes
  <2>2. HasNumber(v) /\ v.as # "frac" /\ Trunc(x) \in Signed(Bits(type))
    BY <1>2 DEF Representable, SignedTypes, UnsignedTypes
  <2>3. Trunc(x) \in Signed(64)
    <3> DEFINE h == Half[Bits(type)]
    <3>1. h \in Nat /\ h <= Half[64]
      BY <1>2, BitsAre, Widths DEF SignedTypes, Bits
    <3>2. Trunc(x) \in -h..h - 1
      BY <2>2 DEF Signed
    <3> HIDE DEF h
    <3> QED
      BY <3>1, <3>2, Widths DEF Signed
  <2>4. toInt64(v) = {Trunc(x)}
    <3>1. CASE IsText(v)
      <4>1. v.go = "string" /\ v.as = "int" /\ Trunc(x) = v.n
        BY <1>1, <2>2, <3>1, NumberIs
      <4> QED
        BY <2>3, <4>1 DEF toInt64, SignedTypes, UnsignedTypes, FloatTypes
    <3>2. CASE IsInteger(v)
      <4>1. Trunc(x) = v.n
        BY <1>1, <3>2, NumberIs
      <4> QED
        BY <3>2, <4>1 DEF toInt64, IsInteger, SignedTypes, UnsignedTypes, FloatTypes
    <3>3. CASE IsFloat(v)
      <4>1. x = v.n /\ Finite(v.n)
        BY <1>1, <2>2, <3>3, NumberIs
      <4> QED
        BY <2>3, <3>3, <4>1 DEF toInt64, Int64Of, IsFloat, SignedTypes, UnsignedTypes, FloatTypes
    <3> QED
      BY <1>1, <2>2, <3>1, <3>2, <3>3, NumberIs
  <2> QED
    BY <2>1, <2>2, <2>4, CheckedIs
<1>3. CASE type \in UnsignedTypes
  <2>1. coerceTo(v, type) = Checked(type, toUint64(v), Unsigned(Bits(type))) /\ type # "error"
    BY <1>3 DEF coerceTo, SignedTypes, UnsignedTypes
  <2>2. HasNumber(v) /\ v.as # "frac" /\ x >= 0 /\ Trunc(x) \in Unsigned(Bits(type))
    BY <1>3 DEF Representable, SignedTypes, UnsignedTypes
  <2>3. Trunc(x) \in Unsigned(64) /\ Trunc(x) >= 0
    <3> DEFINE h == Half[Bits(type)]
    <3>1. h \in Nat /\ h <= Half[64]
      BY <1>3, BitsAre, Widths DEF UnsignedTypes, Bits
    <3>2. Trunc(x) \in 0..2 * h - 1
      BY <2>2 DEF Unsigned
    <3> HIDE DEF h
    <3> QED
      BY <3>1, <3>2, Widths DEF Unsigned
  <2>4. toUint64(v) = {Trunc(x)}
    <3>1. CASE IsText(v)
      <4>1. v.go = "string" /\ v.as = "int" /\ Trunc(x) = v.n
        BY <1>1, <2>2, <3>1, NumberIs
      <4> QED
        BY <2>3, <4>1 DEF toUint64, SignedTypes, UnsignedTypes, FloatTypes
    <3>2. CASE IsInteger(v)
      <4>1. Trunc(x) = v.n
        BY <1>1, <3>2, NumberIs
      <4> QED
        BY <2>3, <3>2, <4>1 DEF toUint64, IsInteger, SignedTypes, UnsignedTypes, FloatTypes
    <3>3. CASE IsFloat(v)
      <4>1. x = v.n /\ Finite(v.n) /\ v.n # NaN
        BY <1>1, <2>2, <3>3, NumberIs, Widths DEF Finite
      <4> QED
        BY <2>2, <2>3, <3>3, <4>1 DEF toUint64, Uint64Of, IsFloat, SignedTypes, UnsignedTypes, FloatTypes
    <3> QED
      BY <1>1, <2>2, <3>1, <3>2, <3>3, NumberIs
  <2> QED
    BY <2>1, <2>2, <2>4, CheckedIs
<1>4. CASE type \in FloatTypes
  <2>1. HasNumber(v) /\ Finite(Rounded(x, Exact64))
    BY <1>4, Widths DEF Representable, FloatTypes, SignedTypes, UnsignedTypes, Finite
  <2>2. \A y \in toFloat64(v) : y \in Int /\ (y = x \/ y = Rounded(x, Exact64))
    BY <2>1, Float64Is
  <2>3. toFloat64(v) # {}
    <3>1. CASE IsText(v)
      <4>1. v.go = "string" /\ v.as \in {"int", "frac"} /\ x = IF v.as = "int" THEN 2 * v.n ELSE v.n
        BY <1>1, <2>1, <3>1, NumberIs
      <4>2. Rounded(x, Exact64) \in -(Inf - 1)..(Inf - 1)
        <5>1. x \in Int
          BY <1>1, NumberIs
        <5>2. Rounded(x, Exact64) \in Int
          BY <5>1, RoundedNear DEF Rounded
        <5> QED
          BY <2>1, <5>2, Widths DEF Finite
      <4>3. ParseFloat(v, Exact64, Inf - 1) # {}
        BY <4>1, <4>2 DEF ParseFloat
      <4> QED
        BY <4>1, <4>3 DEF toFloat64, SignedTypes, UnsignedTypes, FloatTypes
    <3>2. CASE ~IsText(v)
      BY <1>1, <2>1, <3>2, NumberIs DEF toFloat64, IsInteger, IsFloat, SignedTypes, UnsignedTypes, FloatTypes
    <3> QED
      BY <3>1, <3>2
  <2>4. CASE type = "float64"
    <3>1. coerceTo(v, type) = Checked(type, toFloat64(v), Int)
      BY <2>4 DEF coerceTo, SignedTypes, UnsignedTypes
    <3> QED
      BY <2>2, <2>3, <2>4, <3>1, CheckedIs
  <2>5. CASE type = "float32"
    <3> DEFINE inRange == (-MaxFloat32 .. MaxFloat32) \cup {NaN}
               rs == Checked("float64", toFloat64(v), inRange)
    <3>1. Rounded(x, Exact64) \in -MaxFloat32..MaxFloat32
      BY <2>5 DEF Representable, SignedTypes, UnsignedTypes
    <3>2. \A y \in toFloat64(v) : y \in inRange
      <4>1. CASE IsFloat(v)
        <5>1. x = v.n /\ Finite(v.n) /\ toFloat64(v) = {v.n}
          BY <1>1, <2>1, <4>1, NumberIs DEF toFloat64, IsFloat, SignedTypes, UnsignedTypes, FloatTypes
        <5> QED
          BY <4>1, <5>1, <1>1, Widths DEF IsFloat, Finite
      <4>2. CASE IsText(v)
        <5>1. v.go = "string"
          BY <4>2 DEF IsText
        <5>2. \A y \in toFloat64(v) : y = Rounded(x, Exact64)
          <6>1. x = IF v.as = "int" THEN 2 * v.n ELSE v.n
            BY <1>1, <2>1, <4>2, NumberIs
          <6>2. ~(v.as = "frac" /\ v.n \in {-Inf, Inf, NaN})
            BY <1>1, <2>1, <4>2, NumberIs, Widths DEF Finite
          <6> QED
            BY <5>1, <6>1, <6>2 DEF toFloat64, ParseFloat, SignedTypes, UnsignedTypes, FloatTypes
        <5> QED
          BY <3>1, <5>2
      <4>3. CASE IsInteger(v)
        <5>1. x = 2 * v.n
          BY <1>1, <4>3, NumberIs
        <5>2. toFloat64(v) = {Rounded(2 * v.n, Exact64)}
          BY <4>3 DEF toFloat64, IsInteger, SignedTypes, UnsignedTypes, FloatTypes
        <5> QED
          BY <3>1, <5>1, <5>2
      <4> QED
        BY <1>1, <2>1, <4>1, <4>2, <4>3, NumberIs
    <3>3. Error \notin rs
      BY <2>3, <3>2, CheckedIs
    <3> HIDE DEF rs
    <3>4. coerceTo(v, type) = {IF r = Error THEN r ELSE V("float32", Rounded(r.n, Exact32)) : r \in rs}
      BY <2>5 DEF coerceTo, toFloat32, rs, SignedTypes, UnsignedTypes
    <3>5. \A n : V("float32", n) # Error
      BY DEF V, Error
    <3> QED
      BY <3>3, <3>4, <3>5
  <2> QED
    BY <1>4, <2>4, <2>5 DEF FloatTypes
<1>5. CASE type = "bool"
  <2>1. coerceTo(v, type) = toBool(v)
    BY <1>5 DEF coerceTo, SignedTypes, UnsignedTypes
  <2>2. CASE v.go = "bool"
    BY <2>1, <2>2 DEF toBool, Error, V
  <2>3. CASE v.go # "bool"
    <3>1. v.as = "bool"
      BY <1>5, <2>3 DEF Representable, SignedTypes, UnsignedTypes
    <3>2. v.go = "string"
      BY <1>1, <3>1 DEF IsText, IsInteger, IsFloat, IsOther
    <3>3. ParseBool(v) = {v.n}
      BY <3>1 DEF ParseBool
    <3> QED
      BY <1>1, <2>1, <3>2, <3>3, CheckedIs DEF toBool
  <2> QED
    BY <2>2, <2>3
<1>6. CASE type = "string"
  <2>1. coerceTo(v, type) = {IF v.go = "string" THEN v ELSE Sprint(v)}
    BY <1>6 DEF coerceTo, SignedTypes, UnsignedTypes
  <2>2. \A r \in coerceTo(v, type) : r.go = "string"
    BY <2>1 DEF Sprint, Text
  <2> QED
    BY <2>2 DEF Error, V
<1> QED
  BY <1>2, <1>3, <1>4, <1>5, <1>6 DEF Representable, FloatTypes

\* A value of one of the kinds, by its number.
LEMMA OfAKind ==
  ASSUME NEW go \in Kinds, NEW n \in Int,
         go \in {"uint8", "uint16", "uint32"} => n \in Unsigned(Bits(go)),
         go \in {"int16", "int64"} => n \in Signed(Bits(go)),
         go = "float32" => n \in (-MaxFloat32 .. MaxFloat32) \cup {-Inf, Inf, NaN}
  PROVE  IsValue(V(go, n))
<1> DEFINE S == CASE go \in SignedTypes   -> Signed(Bits(go))
                  [] go \in UnsignedTypes -> Unsigned(Bits(go))
                  [] go = "float32"       -> (-MaxFloat32 .. MaxFloat32) \cup {-Inf, Inf, NaN}
                  [] OTHER                -> Int
<1>1. n \in S
  <2>1. CASE go \in {"uint8", "uint16", "uint32"}
    BY <2>1 DEF SignedTypes, UnsignedTypes
  <2>2. CASE go \in {"int16", "int64"}
    BY <2>2 DEF SignedTypes, UnsignedTypes
  <2>3. CASE go = "float32"
    <3>1. S = (-MaxFloat32 .. MaxFloat32) \cup {-Inf, Inf, NaN}
      BY <2>3 DEF SignedTypes, UnsignedTypes
    <3> HIDE DEF S
    <3> QED
      BY <2>3, <3>1
  <2>4. CASE go \in {"bool", "[]float32", "[]uint16", "[]node", "map"}
    BY <2>4 DEF SignedTypes, UnsignedTypes
  <2> QED
    BY <2>1, <2>2, <2>3, <2>4 DEF Kinds
<1>2. ValuesOf(go) = [go : {go}, as : {"none"}, n : S]
  BY DEF ValuesOf
<1> HIDE DEF S
<1> QED
  BY <1>1, <1>2 DEF IsValue, V

\* A default value is one of the values of the table.
LEMMA DefaultIsValue ==
  ASSUME NEW text \in Texts, NEW type
  PROVE  IsValue(parseDefaultValue(text, type))
<1> DEFINE float == ParseFloat(text, Exact32, MaxFloat32)
           v == parseDefaultValue(text, type)
<1>1. text.n \in Int
  BY DEF Texts
<1>2. CASE type = "float32" /\ float # {}
  <2>1. PICK n \in float : v = V("float32", n)
    BY <1>2 DEF parseDefaultValue
  <2>2. n \in (-MaxFloat32 .. MaxFloat32) \cup {-Inf, Inf, NaN}
    BY <2>1 DEF ParseFloat
  <2>3. n \in Int
    BY <2>2, Widths
  <2> QED
    BY <2>1, <2>2, <2>3, OfAKind DEF Kinds
<1>3. CASE type \in {"uint8", "uint16"} /\ text.as = "int" /\ text.n \in Unsigned(Bits(type))
  <2>1. v = V(type, text.n)
    BY <1>3 DEF parseDefaultValue
  <2> QED
    BY <1>1, <2>1, <1>3, OfAKind DEF Kinds
<1>4. CASE v = V(type, text.n) /\ type \in {"bool", "[]float32", "map"}
  <2> QED
    BY <1>1, <1>4, OfAKind DEF Kinds
<1>5. CASE v = text
  BY <1>5 DEF IsValue
<1>6. \/ type = "float32" /\ float # {}
      \/ type \in {"uint8", "uint16"} /\ text.as = "int" /\ text.n \in Unsigned(Bits(type))
      \/ v = V(type, text.n) /\ type \in {"bool", "[]float32", "map"}
      \/ v = text
  BY DEF parseDefaultValue
<1> QED
  BY <1>2, <1>3, <1>4, <1>5, <1>6

-----------------------------------------------------------------------------
(* What the table and a request hold are values; what a request has        *)
(* answered is made of them.                                               *)

Typed ==
  /\ now \in 0..MaxTime
  /\ \A d : \A r \in Held(ValuesMap, d) : IsValue(ValuesMap[d][r])
  /\ \A r \in DOMAIN request.values : IsValue(request.values[r])
  /\ \A i \in Answered :
       /\ IsValue(request.answer[i].from) /\ request.answer[i].reading # Error
       /\ request.answer[i].reading \in coerceTo(request.answer[i].from, request.reqs[i].type)

\* In the beginning all values are defaults.
LEMMA InitTyped == Init => Typed
<1> SUFFICES ASSUME Init PROVE Typed
  OBVIOUS
<1>1. PICK p \in Profiles : ValuesMap = [d \in Devices |-> Defaults(p)]
  BY Zenon DEF Init
<1>2. ASSUME NEW d, NEW n \in Held(ValuesMap, d)  PROVE IsValue(ValuesMap[d][n])
  <2>1. d \in Devices /\ ValuesMap[d] = Defaults(p) /\ n \in DOMAIN Defaults(p)
    BY <1>1 DEF Held
  <2>2. n \in Names(p)
    BY <2>1 DEF Defaults, Names, Range
  <2> DEFINE r == CHOOSE r \in Range(p) : r.name = n
  <2>3. r \in Range(p)
    BY <2>2 DEF Names
  <2>4. r.default \in Texts
    BY <2>3, ProfileAssumption
  <2>5. ValuesMap[d][n] = parseDefaultValue(r.default, r.type)
    BY <2>1 DEF Defaults
  <2> HIDE DEF r
  <2> QED
    BY <2>4, <2>5, DefaultIsValue
<1>3. now = 0 /\ request = NoRequest
  BY DEF Init
<1>4. 0 \in 0..MaxTime
  BY TimeAssumption, Widths
<1> QED
  BY <1>2, <1>3, <1>4 DEF Typed, NoRequest, Answered

\* A step that stores a value, or none, and leaves the request alone.
LEMMA StoreTyped ==
  ASSUME Typed, now' \in 0..MaxTime, request' = request,
         \/ \A d : \A r \in Held(ValuesMap', d) : r \in Held(ValuesMap, d) /\ ValuesMap'[d][r] = ValuesMap[d][r]
         \/ \E d, r, v : IsValue(v) /\ ValuesMap' = Stored(ValuesMap, d, r, v)
  PROVE  Typed'
<1>1. \A d : \A r \in Held(ValuesMap', d) : IsValue(ValuesMap'[d][r])
  <2>1. CASE \A d : \A r \in Held(ValuesMap', d) : r \in Held(ValuesMap, d) /\ ValuesMap'[d][r] = ValuesMap[d][r]
    BY <2>1 DEF Typed
  <2>2. CASE \E d, r, v : IsValue(v) /\ ValuesMap' = Stored(ValuesMap, d, r, v)
    <3>1. PICK d, r, v : IsValue(v) /\ ValuesMap' = Stored(ValuesMap, d, r, v)
      BY <2>2
    <3>2. \A e : \A s \in Held(ValuesMap', e) :
            IF e = d /\ s = r THEN ValuesMap'[e][s] = v
            ELSE s \in Held(ValuesMap, e) /\ ValuesMap'[e][s] = ValuesMap[e][s]
      BY <3>1, HeldAfter
    <3> QED
      BY <3>1, <3>2 DEF Typed
  <2> QED
    BY <2>1, <2>2
<1> QED
  BY <1>1 DEF Typed, Answered

\* The parser, the callbacks and the health check store values.
LEMMA StoringTyped ==
  ASSUME Kept, Timed, Typed,
         \/ \E d \in Devices : AddDevice(d) \/ RemoveDevice(d) \/ LookupDeviceName(d) \/ ReadValues(d)
         \/ DeviceInit \/ DeleteMapping \/ onDataReceived \/ parseTopo \/ SetDeviceValue
         \/ Tick \/ WriteState
  PROVE  Typed'
<1>1. now' \in 0..MaxTime /\ request' = request
  <2>1. now' = now \/ (now < MaxTime /\ now' = now + 1)
    BY DEF AddDevice, RemoveDevice, LookupDeviceName, ReadValues, DeviceInit, DeleteMapping,
       onDataReceived, parseTopo, SetDeviceValue, Tick, WriteState
  <2>2. request' = request
    BY DEF AddDevice, RemoveDevice, LookupDeviceName, ReadValues, DeviceInit, DeleteMapping,
       onDataReceived, parseTopo, SetDeviceValue, Tick, WriteState
  <2> QED
    BY <2>1, <2>2, TimeAssumption, Widths DEF Typed
<1>2. CASE \/ \E d \in Devices : AddDevice(d) \/ LookupDeviceName(d) \/ ReadValues(d)
           \/ DeleteMapping \/ parseTopo \/ Tick
  <2>1. ValuesMap' = ValuesMap
    BY <1>2 DEF AddDevice, LookupDeviceName, ReadValues, DeleteMapping, parseTopo, Tick, tables
  <2> QED
    BY <1>1, <2>1, StoreTyped
<1>3. CASE \E d \in Devices : RemoveDevice(d)
  <2>1. \A d : \A r \in Held(ValuesMap', d) : r \in Held(ValuesMap, d) /\ ValuesMap'[d][r] = ValuesMap[d][r]
    BY <1>3 DEF RemoveDevice, Held
  <2> QED
    BY <1>1, <2>1, StoreTyped
<1>4. CASE DeviceInit
  <2> DEFINE r == Head(cb.todo)
  <2>1. cb.todo \in Seq(Resources) /\ cb.todo # <<>>
    BY <1>4 DEF DeviceInit, Kept, Shape, Callbacks
  <2>2. r \in Resources
    BY <2>1, NamesOfTail
  <2>3. r.default \in Texts
    BY <2>2, ProfileAssumption DEF Resources
  <2>4. ValuesMap' = Stored(ValuesMap, cb.dev, r.name, parseDefaultValue(r.default, r.type))
    BY <1>4, StoreIsStored DEF DeviceInit
  <2> QED
    BY <1>1, <2>3, <2>4, DefaultIsValue, StoreTyped
<1>5. CASE onDataReceived
  <2>1. ValuesMap' = Stored(ValuesMap, parser.dev, "lastDataTimestamp", V("int64", now))
    BY <1>5, StoreIsStored DEF onDataReceived
  <2>2. now \in Int /\ now \in Signed(Bits("int64"))
    BY TimeAssumption, BitsAre, Widths DEF Typed, Signed
  <2>3. IsValue(V("int64", now))
    BY <2>2, OfAKind DEF Kinds
  <2> QED
    BY <1>1, <2>1, <2>3, StoreTyped
<1>6. CASE SetDeviceValue
  <2> DEFINE q == Head(parser.todo)
  <2>1. ValuesMap' = Stored(ValuesMap, parser.dev, q.name, q.value)
    BY <1>6, StoreIsStored DEF SetDeviceValue
  <2>2. parser.todo \in Seq(Values) /\ parser.todo # <<>>
    BY <1>6 DEF SetDeviceValue, Pending, Kept, InHand
  <2>3. q \in Values
    BY <2>2, NamesOfTail
  <2>4. IsValue(q.value)
    BY <2>3, ReportAssumption DEF Values, IsValue, Kinds
  <2> QED
    BY <1>1, <2>1, <2>4, StoreTyped
<1>7. CASE WriteState
  <2>1. check.period.go # "uint32"
    BY <1>7 DEF WriteState, Kept, InHand
  <2>2. ValuesMap' = ValuesMap
    BY <1>7, <2>1 DEF WriteState
  <2> QED
    BY <1>1, <2>2, StoreTyped
<1> QED
  BY <1>2, <1>3, <1>4, <1>5, <1>6, <1>7

\* A request in progress: its answers are made of its copy.
LEMMA RequestTyped ==
  ASSUME Timed, Typed,
         \/ \E d \in Devices : Call(d)
         \/ GetDeviceValues \/ HandleReadCommands \/ Return
         \/ UNCHANGED vars
  PROVE  Typed'
<1>1. UNCHANGED <<now, ValuesMap>>
  BY DEF Call, GetDeviceValues, HandleReadCommands, Return, vars, tables
<1>2. ASSUME request'.values = <<>>, request'.answer = <<>>
      PROVE  Typed'
  BY <1>1, <1>2 DEF Typed, Answered
<1>3. CASE \E d \in Devices : Call(d)
  <2>1. request'.values = <<>> /\ request'.answer = <<>>
    BY <1>3 DEF Call, NoRequest
  <2> QED
    BY <1>2, <2>1
<1>4. CASE GetDeviceValues
  <2>1. /\ DOMAIN request = DOMAIN request' /\ request'.answer = <<>>
        /\ request'.values = request.values
             \/ (request.dev \in DOMAIN ValuesMap /\ request'.values = ValuesMap[request.dev])
    BY <1>4 DEF GetDeviceValues, Timed, OfOneCopy
  <2>2. \A r \in DOMAIN request'.values : IsValue(request'.values[r])
    BY <2>1 DEF Typed, Held
  <2> QED
    BY <1>1, <2>1, <2>2 DEF Typed, Answered
<1>5. CASE HandleReadCommands
  <2>1. CASE request' = [request EXCEPT !.state = "failed"]
    <3>1. UNCHANGED <<request.values, request.answer, request.reqs>>
      BY <2>1 DEF Timed, OfOneCopy
    <3> QED
      BY <1>1, <3>1 DEF Typed, Answered
  <2>2. CASE \E a \in Answers : a.reading # Error /\ request' = [request EXCEPT !.answer = Append(@, a)]
    <3>1. PICK a \in Answers : a.reading # Error /\ request' = [request EXCEPT !.answer = Append(@, a)]
      BY <2>2
    <3> DEFINE n == Len(request.answer)
               new == request'.answer
    <3>2. Asked.name # "topologyDiagram" => IsValue(a.from) /\ a.reading \in coerceTo(a.from, Asked.type)
      BY DEF Answers, Copied, Typed
    <3>3. UNCHANGED <<request.values, request.reqs>> /\ new = Append(request.answer, a)
      BY <3>1 DEF Timed, OfOneCopy
    <3>4. /\ n \in Nat /\ DOMAIN new = 1..n + 1 /\ new[n + 1] = a
          /\ \A i \in 1..n : new[i] = request.answer[i]
          /\ DOMAIN request.answer = 1..n
      BY <3>3 DEF Timed, OfOneCopy
    <3>5. Asked = request.reqs[n + 1]
      BY DEF Asked
    <3> HIDE DEF new, n
    <3>6. ASSUME NEW i \in DOMAIN new, request.reqs[i].name # "topologyDiagram"
          PROVE  /\ IsValue(new[i].from) /\ new[i].reading # Error
                 /\ new[i].reading \in coerceTo(new[i].from, request.reqs[i].type)
      <4>1. CASE i = n + 1
        BY <4>1, <3>1, <3>2, <3>4, <3>5, <3>6
      <4>2. CASE i # n + 1
        <5>1. i \in 1..n
          BY <4>2, <3>4
        <5> QED
          BY <5>1, <3>4, <3>6 DEF Typed, Answered
      <4> QED
        BY <4>1, <4>2
    <3> QED
      BY <1>1, <3>3, <3>6 DEF Typed, Answered, new
  <2> QED
    BY <1>5, <2>1, <2>2 DEF HandleReadCommands
<1>6. CASE Return
  <2>1. request'.values = <<>> /\ request'.answer = <<>>
    BY <1>6 DEF Return, NoRequest
  <2> QED
    BY <1>2, <2>1
<1>7. CASE UNCHANGED vars
  BY <1>7 DEF vars, tables, Typed, Answered
<1> QED
  BY <1>3, <1>4, <1>5, <1>6, <1>7

\* All steps together.
LEMMA NextTyped == Kept /\ Timed /\ Typed /\ [Next]_vars => Typed'
<1> SUFFICES ASSUME Kept, Timed, Typed, [Next]_vars PROVE Typed'
  OBVIOUS
<1>1. CASE \/ \E d \in Devices : AddDevice(d) \/ RemoveDevice(d) \/ LookupDeviceName(d) \/ ReadValues(d)
           \/ DeviceInit \/ DeleteMapping \/ onDataReceived \/ parseTopo \/ SetDeviceValue
           \/ Tick \/ WriteState
  BY <1>1, StoringTyped
<1>2. CASE (\E d \in Devices : Call(d)) \/ GetDeviceValues \/ HandleReadCommands \/ Return \/ UNCHANGED vars
  BY <1>2, RequestTyped
<1> QED
  BY <1>1, <1>2 DEF Next

\* No conversion on the way from the stored value to the reading changes the number: for
\* all widths, all values of the types that profiles and frames bring, and all declared
\* types; a text beyond int64 and a float beyond 64 bits are the exceptions.
THEOREM ReadingsAreFaithful == Spec => []ReadFaithful
<1>1. Typed => ReadFaithful
  <2> SUFFICES ASSUME Typed, NEW i \in Answered
               PROVE  Said(request.answer[i].from, request.reqs[i].type, request.answer[i].reading)
    BY DEF ReadFaithful, Said
  <2> QED
    BY Coerced DEF Typed
<1> QED
  BY <1>1, InitKept, NextKept, InitTimed, NextTimed, InitTyped, NextTyped, PTL DEF Spec

-----------------------------------------------------------------------------
(* Until the first callback no device is gone, and no value that a request *)
(* may ask for.                                                            *)

Served ==
  /\ calls \in Nat
  /\ calls = 0 => cb = NoCallback /\ \A d \in Devices : profile[d] # <<>>
  /\ request.reqs \in Seq(Range(request.reqs))
  /\ request.state = "called" => request.values = <<>>
  /\ request.state # "none" /\ calls = 0 =>
       request.dev \in Devices
         /\ \A i \in DOMAIN request.reqs : request.reqs[i].name \in Names(profile[request.dev])
  /\ request.state = "reading" /\ calls = 0 =>
       \A i \in DOMAIN request.reqs : request.reqs[i].name \in DOMAIN request.values
  /\ RefusedForAReason

\* Outside a request: a callback counts, and nothing else matters.
LEMMA ServedElsewhere ==
  ASSUME Served, request' = request,
         \/ calls' = calls + 1
         \/ calls # 0 /\ calls' = calls
         \/ calls' = calls /\ cb' = cb /\ profile' = profile
  PROVE  Served'
<1>1. calls' \in Nat /\ (calls' = 0 => calls = 0 /\ cb' = cb /\ profile' = profile)
  BY DEF Served
<1>2. RefusedForAReason'
  <2>1. Asked' = Asked /\ Copied(Asked.name)' = Copied(Asked.name)
    BY DEF Asked, Copied
  <2>2. calls > 0 => calls' > 0
    BY <1>1 DEF Served
  <2> QED
    BY <2>1, <2>2 DEF Served, RefusedForAReason
<1>3. calls' = 0 => cb' = NoCallback /\ \A d \in Devices : profile'[d] # <<>>
  BY <1>1 DEF Served
<1>4. request.state # "none" /\ calls' = 0 =>
        request.dev \in Devices
          /\ \A i \in DOMAIN request.reqs : request.reqs[i].name \in Names(profile'[request.dev])
  BY <1>1 DEF Served
<1> QED
  BY <1>1, <1>2, <1>3, <1>4 DEF Served

\* The SDK asks for resources of the profile.
LEMMA CallServed ==
  ASSUME Served, NEW d \in Devices, Call(d)
  PROVE  Served'
<1>1. PICK names \in Requests :
        /\ Range(names) \subseteq {r.name : r \in Range(profile[d])}
        /\ LET Resource(n) == CHOOSE r \in Range(profile[d]) : r.name = n
           IN  request' = [NoRequest EXCEPT !.dev = d, !.state = "called",
                             !.reqs = [i \in DOMAIN names |-> Resource(names[i])]]
  BY DEF Call
<1> DEFINE Resource(n) == CHOOSE r \in Range(profile[d]) : r.name = n
           reqs == [i \in DOMAIN names |-> Resource(names[i])]
<1>2. /\ request'.dev = d /\ request'.state = "called" /\ request'.values = <<>> /\ request'.reqs = reqs
      /\ UNCHANGED <<calls, cb, profile>>
  BY <1>1 DEF Call, NoRequest, tables
<1>3. names \in Seq(Range(names))
  BY ReportAssumption
<1>4. reqs \in Seq(Range(reqs))
  <2>1. DOMAIN reqs = 1..Len(names) /\ Len(names) \in Nat
    BY <1>3
  <2>2. \A i \in 1..Len(names) : reqs[i] \in Range(reqs)
    BY <2>1 DEF Range
  <2> QED
    BY <2>1, <2>2
<1>5. ASSUME NEW i \in DOMAIN reqs  PROVE reqs[i].name \in Names(profile[d])
  <2>1. names[i] \in Range(names)
    BY DEF Range
  <2>2. \E r \in Range(profile[d]) : r.name = names[i]
    BY <1>1, <2>1
  <2>3. Resource(names[i]) \in Range(profile[d])
    BY <2>2
  <2> QED
    BY <2>3 DEF Names
<1> HIDE DEF reqs
<1> QED
  BY <1>2, <1>4, <1>5 DEF Served, RefusedForAReason

\* Without a callback the device has values, and among them all of its profile.
LEMMA GetDeviceValuesServed ==
  ASSUME Kept, Timed, Served, GetDeviceValues
  PROVE  Served'
<1>1. /\ UNCHANGED <<calls, cb, profile, request.dev, request.reqs>> /\ request.state = "called"
      /\ IF request.dev \in DOMAIN ValuesMap
         THEN request'.state = "reading" /\ request'.values = ValuesMap[request.dev]
         ELSE request'.state = "failed" /\ request'.values = <<>>
  BY DEF GetDeviceValues, tables, Timed, OfOneCopy, Served
<1>2. ASSUME calls = 0
      PROVE  /\ request.dev \in Devices /\ request.dev \in DOMAIN ValuesMap
             /\ Names(profile[request.dev]) \subseteq DOMAIN ValuesMap[request.dev]
  <2>1. request.dev \in Devices /\ profile[request.dev] # <<>> /\ cb.op # "init"
    BY <1>1, <1>2 DEF Served, NoCallback
  <2> QED
    BY <2>1, KeptMissesNothing DEF NothingMissing, Names
<1>3. RefusedForAReason'
  BY <1>1, <1>2 DEF Served, RefusedForAReason
<1> QED
  BY <1>1, <1>2, <1>3 DEF Served

\* What fails is missing, or cannot be said in the declared type.
LEMMA HandleReadCommandsServed ==
  ASSUME Timed, Typed, Served, HandleReadCommands
  PROVE  Served'
<1>1. UNCHANGED <<calls, cb, profile>>
  BY DEF HandleReadCommands, tables
<1>2. CASE \E a \in Answers : request' = [request EXCEPT !.answer = Append(@, a)]
  <2>1. UNCHANGED <<request.dev, request.state, request.reqs, request.values>> /\ request.state = "reading"
    BY <1>2 DEF HandleReadCommands, Timed, OfOneCopy
  <2>2. RefusedForAReason'
    BY <2>1 DEF RefusedForAReason
  <2> QED
    BY <1>1, <2>1, <2>2 DEF Served
<1>3. CASE /\ request' = [request EXCEPT !.state = "failed"]
           /\ Answers = {} \/ \E a \in Answers : a.reading = Error
  <2> DEFINE k == Len(request.answer) + 1
  <2>1. /\ UNCHANGED <<request.dev, request.reqs, request.values, request.written, request.answer>>
        /\ request'.state = "failed" /\ request.state = "reading"
    BY <1>3 DEF HandleReadCommands, Timed, OfOneCopy
  <2>2. k \in DOMAIN request.reqs
    <3>1. Len(request.answer) \in Nat
      BY DEF Timed, OfOneCopy
    <3>2. Len(request.answer) < Len(request.reqs)
      BY DEF HandleReadCommands
    <3> QED
      BY <3>1, <3>2 DEF Served
  <2>3. Asked.name # "topologyDiagram"
    <3> SUFFICES ASSUME Asked.name = "topologyDiagram" PROVE FALSE
      OBVIOUS
    <3>1. V("map", TopoList) # Error
      BY DEF V, Error
    <3>2. Answers = {[from |-> V("[]node", 0), at |-> TopoList, reading |-> V("map", TopoList)]}
      BY DEF Answers
    <3>3. Answers # {}
      BY Zenon, <3>2
    <3>4. \A a \in Answers : a.reading = V("map", TopoList)
      BY <3>2
    <3> QED
      BY Zenon, <1>3, <3>1, <3>3, <3>4
  <2>4. CASE Asked.name \notin DOMAIN request.values
    <3>1. calls # 0
      BY <2>1, <2>2, <2>4 DEF Served, Asked
    <3> QED
      BY <1>1, <2>1, <2>4, <3>1 DEF Served, RefusedForAReason, Asked
  <2>5. CASE Asked.name \in DOMAIN request.values
    <3> DEFINE c == [value |-> request.values[Asked.name], at |-> request.written[Asked.name]]
    <3>1. Copied(Asked.name) = {c} /\ IsValue(c.value)
      BY <2>5 DEF Copied, Typed
    <3>2. Answers = {[from |-> c.value, at |-> c.at, reading |-> r] : r \in coerceTo(c.value, Asked.type)}
      <4> HIDE DEF c
      <4> QED
        BY <2>3, <3>1 DEF Answers
    <3> HIDE DEF c
    <3>3. Error \in coerceTo(c.value, Asked.type)
      <4> DEFINE S == coerceTo(c.value, Asked.type)
      <4>1. S # {}
        BY CoercesToSomething
      <4> HIDE DEF S
      <4>2. Answers = {[from |-> c.value, at |-> c.at, reading |-> r] : r \in S}
        BY <3>2 DEF S
      <4>3. Answers # {}
        BY Zenon, <4>1, <4>2
      <4>4. \A a \in Answers : a.reading \in S
        BY <4>2
      <4>5. Error \in S
        BY Zenon, <1>3, <4>3, <4>4
      <4> QED
        BY <4>5 DEF S
    <3>4. ~Representable(c.value, Asked.type)
      BY <3>1, <3>3, NotRefused
    <3>5. Asked' = Asked /\ Copied(Asked.name)' = Copied(Asked.name)
      BY <2>1 DEF Asked, Copied
    <3>6. RefusedForAReason'
      BY <3>1, <3>4, <3>5 DEF RefusedForAReason
    <3> QED
      BY <1>1, <2>1, <3>6 DEF Served
  <2> QED
    BY <2>4, <2>5
<1> QED
  BY <1>2, <1>3 DEF HandleReadCommands

\* All steps together.
LEMMA NextServed == Kept /\ Timed /\ Typed /\ Served /\ [Next]_vars => Served'
<1> SUFFICES ASSUME Kept, Timed, Typed, Served, [Next]_vars PROVE Served'
  OBVIOUS
<1>1. CASE \E d \in Devices : AddDevice(d) \/ RemoveDevice(d)
  <2>1. calls' = calls + 1 /\ request' = request
    BY <1>1 DEF AddDevice, RemoveDevice
  <2> QED
    BY <2>1, ServedElsewhere
<1>2. CASE DeviceInit \/ DeleteMapping
  <2>1. calls # 0 /\ calls' = calls /\ request' = request
    BY <1>2 DEF DeviceInit, DeleteMapping, Served, NoCallback
  <2> QED
    BY <2>1, ServedElsewhere
<1>3. CASE \/ \E d \in Devices : LookupDeviceName(d) \/ ReadValues(d)
           \/ onDataReceived \/ parseTopo \/ SetDeviceValue \/ Tick \/ WriteState \/ UNCHANGED vars
  <2>1. UNCHANGED <<calls, cb, profile, request>>
    BY <1>3 DEF LookupDeviceName, ReadValues, onDataReceived, parseTopo, SetDeviceValue, Tick, WriteState,
       vars, tables
  <2> QED
    BY <2>1, ServedElsewhere
<1>4. CASE \E d \in Devices : Call(d)
  BY <1>4, CallServed
<1>5. CASE GetDeviceValues
  BY <1>5, GetDeviceValuesServed
<1>6. CASE HandleReadCommands
  BY <1>6, HandleReadCommandsServed
<1>7. CASE Return
  <2>1. request' = NoRequest /\ UNCHANGED <<calls, cb, profile>>
    BY <1>7 DEF Return, tables
  <2>2. <<>> \in Seq(Range(<<>>))
    BY EmptySeq
  <2> QED
    BY <2>1, <2>2 DEF Served, NoRequest, RefusedForAReason
<1> QED
  BY <1>1, <1>2, <1>3, <1>4, <1>5, <1>6, <1>7 DEF Next

\* In the beginning there is no request, and every device has a profile.
LEMMA InitServed == Init => Served
<1> SUFFICES ASSUME Init PROVE Served
  OBVIOUS
<1>1. PICK p \in Profiles : profile = [d \in Devices |-> p]
  BY Zenon DEF Init
<1>2. p # <<>>
  BY ProfileAssumption
<1>3. calls = 0 /\ cb = NoCallback /\ request = NoRequest
  BY DEF Init
<1>4. <<>> \in Seq(Range(<<>>))
  BY EmptySeq
<1> QED
  BY <1>1, <1>2, <1>3, <1>4 DEF Served, NoRequest, RefusedForAReason

\* A number within the range of the declared type is never refused, nor a resource that
\* the device has: for all widths, profiles, frames and requests, a request fails only
\* for a value that cannot be said in the type, or after a callback took it away.
THEOREM RequestsFailForAReason == Spec => []RefusedForAReason
<1>1. Served => RefusedForAReason
  BY DEF Served
<1> QED
  BY <1>1, InitKept, NextKept, InitTimed, NextTimed, InitTyped, NextTyped, InitServed, NextServed, PTL DEF Spec
=============================================================================
