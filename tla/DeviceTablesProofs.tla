------------------------- MODULE DeviceTablesProofs -------------------------
(***************************************************************************)
(* The properties of the shared tables, for every set of devices and EIDs, *)
(* all profiles and any number of callbacks.                               *)
(***************************************************************************)
EXTENDS DeviceTablesProps, TLAPS

\* The values a frame can leave for a device that is gone.
Leftover(d) == ValuesMap[d] = None \/ ValuesMap[d] \subseteq {Stamp, Param}

\* What a callback in progress has noted in status, how far it is, and what holds
\* once it has deleted the values.
Callbacks ==
  /\ cb.op = "init" => status[cb.dev] = "in"
  /\ cb.op = "remove" =>
       /\ status[cb.dev] = "out" /\ cb.step \in {0, 1}
       /\ ~cb.early => start = "done"
       /\ ~cb.early /\ cb.step = 1 => Leftover(cb.dev)
  /\ calls = 0 => cb = Idle /\ \A d \in Devices : status[d] # "clean"

\* A device removed after Start had ended is in no mapping, and holds no more than
\* the frame that was in hand has left.
Removed ==
  \A d \in Devices : status[d] = "clean" =>
    start = "done" /\ Leftover(d) /\ \A e \in Eids : mapping[e] # d

\* Before the first callback: the listed devices have the resources of their
\* profiles, ...
Filled ==
  calls = 0 /\ start # "init" =>
    \A d \in Listed : ValuesMap[d] # None /\ Range(Profile[d]) \subseteq ValuesMap[d]

HasEid(d) == "eid" \in Range(Profile[d])

\* ... and those that UpdateSensorMapping has visited are mapped, once it is past them.
Mapped ==
  /\ start \in {"init", "parsing"} => seen = {} /\ found = None
  /\ start \in {"mapping", "done"} =>
       \A e \in Eids : mapping[e] # None => EidOf[mapping[e]] = e
  /\ calls = 0 /\ start = "mapping" => Listed \subseteq owed
  /\ calls = 0 /\ start = "done" => Listed \subseteq seen /\ found = None
  /\ calls = 0 /\ start \in {"mapping", "done"} =>
       \A d \in Listed \cap seen : HasEid(d) => d = found \/ mapping[EidOf[d]] # None

IInv ==
  /\ TypeOK /\ Callbacks /\ Removed /\ Filled /\ Mapped
  /\ start = "init" => parser = NoFrame
  /\ KilledOnlyByRemove

\* What the preset mapping has is a listed device, under its own EID.
PresetListed ==
  \A e \in Eids : Preset[e] # None =>
    Preset[e] \in Listed /\ HasEid(Preset[e]) /\ EidOf[Preset[e]] = e

\* RemoveDevice has deleted m's values and is about to delete its mapping entries.
Leaving(m) == cb.op = "remove" /\ cb.dev = m /\ cb.step = 1

KeepsEid(m) == ValuesMap[m] # None /\ "eid" \in ValuesMap[m]

\* An entry of the mapping is under its device's own EID, and until the mapping is
\* made anew its device keeps its "eid", unless it is leaving.
Entries ==
  \A e \in Eids : mapping[e] # None =>
    /\ EidOf[mapping[e]] = e
    /\ start = "init" => mapping[e] \in Listed /\ HasEid(mapping[e])
    /\ start = "parsing" => KeepsEid(mapping[e]) \/ Leaving(mapping[e])

\* UpdateSensorMapping is going to map an EID.
WillMap(e) ==
  \E m \in Devices : EidOf[m] = e /\ (found = m \/ (m \in owed \ seen /\ KeepsEid(m)))

\* The EID of a frame in hand leads somewhere, or it will before the handler of a
\* response can look it up again, unless a device of it has been removed meanwhile.
Grounded ==
  /\ Entries
  /\ parser \notin {NoFrame, Printing} =>
       \/ RemovedMeanwhile(parser.eid)
       \/ mapping[parser.eid] # None
       \/ start = "mapping" /\ WillMap(parser.eid)
  /\ NamelessOnlyIfRemoved
-----------------------------------------------------------------------------
LEMMA ProfileResources ==
  /\ Stamp \in Resources /\ Param \in Resources
  /\ \A d \in Devices : Range(Profile[d]) \subseteq Resources
BY DEF Resources

LEMMA ProfileEntry ==
  ASSUME NEW d \in Devices, NEW k \in Nat, k < Len(Profile[d])
  PROVE  Profile[d][k + 1] \in Resources
<1>1. Profile[d] \in Seq(STRING)
  BY ProfileAssumption
<1>2. k + 1 \in DOMAIN Profile[d]
  BY <1>1
<1>3. Profile[d][k + 1] \in Range(Profile[d])
  BY <1>2 DEF Range
<1> QED BY <1>3, ProfileResources

\* The steps a frame in hand can still have before it.
LEMMA TodoShapes ==
  /\ Todos = {<<Stamp, Param>>, <<Stamp, "response">>, <<Param>>, <<"response">>, <<"print">>}
  /\ Stamp # Param /\ Stamp # "response" /\ Param # "response"
  /\ Stamp # "print" /\ Param # "print"
  /\ \A a, b : Head(<<a, b>>) = a /\ Tail(<<a, b>>) = <<b>> /\ Len(<<a, b>>) = 2
  /\ \A a : Head(<<a>>) = a /\ Len(<<a>>) = 1
BY DEF Todos, Frames, Stamp, Param

\* A frame that has something stored is of a device, and so is what is left of it.
LEMMA FrameInHand ==
  ASSUME TypeOK, NEW r \in {Stamp, Param, "response"}, Todo(r)
  PROVE  /\ parser.dev \in Devices /\ parser.eid \in Eids /\ parser \notin {NoFrame, Printing}
         /\ \/ Rest = NoFrame
            \/ /\ Rest.dev = parser.dev /\ Rest.eid = parser.eid
               /\ Rest.todo \in {<<Param>>, <<"response">>}
               /\ Rest \in [dev : Devices \cup {None}, eid : Eids \cup {None},
                           todo : {<<>>} \cup Todos]
<1>1. Head(<<"print">>) = "print"
  BY TodoShapes
<1>2. parser # NoFrame /\ parser # Printing
  BY <1>1, TodoShapes DEF Todo, Printing, NoFrame
<1>3. parser.dev \in Devices /\ parser.eid \in Eids /\ parser.todo \in Todos \ {<<"print">>}
  BY <1>2 DEF TypeOK
<1>4. CASE Len(parser.todo) = 1
  BY <1>2, <1>3, <1>4 DEF Rest
<1>5. CASE Len(parser.todo) # 1
  <2>1. Tail(parser.todo) \in {<<Param>>, <<"response">>}
    BY <1>3, <1>5, TodoShapes
  <2>2. Rest = [parser EXCEPT !.todo = Tail(parser.todo)]
    BY <1>5 DEF Rest
  <2>3. Tail(parser.todo) \in Todos
    BY <2>1, TodoShapes
  <2>4. parser \in [dev : Devices \cup {None}, eid : Eids \cup {None}, todo : {<<>>} \cup Todos]
    BY DEF TypeOK
  <2> QED BY <1>2, <1>3, <2>1, <2>2, <2>3, <2>4
<1> QED BY <1>2, <1>3, <1>4, <1>5

\* What SetDeviceValue does to a table.
LEMMA ValueSet ==
  ASSUME ValuesMap \in [Devices -> (SUBSET Resources) \cup {None}],
         NEW d \in Devices, NEW r \in Resources, SetDeviceValue(d, r)
  PROVE  /\ ValuesMap' \in [Devices -> (SUBSET Resources) \cup {None}]
         /\ ValuesMap'[d] # None /\ r \in ValuesMap'[d]
         /\ ValuesMap[d] # None => ValuesMap[d] \subseteq ValuesMap'[d]
         /\ ValuesMap'[d] \subseteq (IF ValuesMap[d] = None THEN {} ELSE ValuesMap[d]) \cup {r}
         /\ \A c \in Devices : c # d => ValuesMap'[c] = ValuesMap[c]
<1> DEFINE old == IF ValuesMap[d] = None THEN {} ELSE ValuesMap[d]
<1>1. ValuesMap' = [ValuesMap EXCEPT ![d] = old \cup {r}]
  BY DEF SetDeviceValue
<1>2. old \cup {r} \in SUBSET Resources
  <2>1. ValuesMap[d] \in SUBSET Resources \/ ValuesMap[d] = None
    OBVIOUS
  <2>2. old \subseteq Resources
    BY <2>1
  <2> QED BY <2>2
<1>3. old \cup {r} # None
  BY <1>2, ProfileAssumption
<1> QED BY <1>1, <1>2, <1>3
-----------------------------------------------------------------------------
\* The tables as the program text has them.
LEMMA InitInvariant == Init => IInv
<1> SUFFICES ASSUME Init PROVE IInv
  OBVIOUS
<1> USE ProfileAssumption DEF Init
<1>1. TypeOK
  <2>1. cb \in [op : {"none", "init", "remove"}, dev : Devices \cup {None},
               step : Nat, early : BOOLEAN]
    BY DEF Idle
  <2>2. parser \in [dev : Devices \cup {None}, eid : Eids \cup {None}, todo : {<<>>} \cup Todos]
    BY DEF NoFrame
  <2>3. calls \in 0..MaxCallbacks
    OBVIOUS
  <2> QED BY <2>1, <2>2, <2>3 DEF TypeOK
<1>2. Callbacks /\ Removed /\ Filled /\ Mapped /\ KilledOnlyByRemove
  BY DEF Callbacks, Removed, Filled, Mapped, KilledOnlyByRemove, Idle
<1> QED BY <1>1, <1>2 DEF IInv

\* Types.
LEMMA StepTypes == TypeOK /\ [Next]_vars => TypeOK'
<1> SUFFICES ASSUME TypeOK, [Next]_vars PROVE TypeOK'
  OBVIOUS
<1> DEFINE Cbs == [op : {"none", "init", "remove"}, dev : Devices \cup {None},
                   step : Nat, early : BOOLEAN]
           Frs == [dev : Devices \cup {None}, eid : Eids \cup {None}, todo : {<<>>} \cup Todos]
<1> USE ProfileAssumption DEF TypeOK
<1>1. CASE InitDeviceResources
  <2>1. ValuesMap' \in [Devices -> (SUBSET Resources) \cup {None}]
    BY <1>1, ProfileResources DEF InitDeviceResources
  <2> QED BY <1>1, <2>1 DEF InitDeviceResources
<1>2. CASE ClearMapping
  BY <1>2 DEF ClearMapping
<1>3. ASSUME NEW d \in Devices, ReadEid(d) PROVE TypeOK'
  BY <1>3 DEF ReadEid
<1>4. CASE WriteMapping
  <2>1. mapping' \in [Eids -> Devices \cup {None}]
    BY <1>4 DEF WriteMapping
  <2> QED BY <1>4, <2>1 DEF WriteMapping
<1>5. CASE UnlockMapping
  BY <1>5 DEF UnlockMapping
<1>6. ASSUME NEW op \in {"init", "remove"}, NEW d \in Devices, Begin(op, d) PROVE TypeOK'
  <2>1. cb' \in Cbs /\ cb'.op # "none" /\ cb'.dev \in Devices
    BY <1>6 DEF Begin
  <2>2. calls' \in 0..MaxCallbacks
    BY <1>6 DEF Begin
  <2>3. status' \in [Devices -> {"in", "out", "failed", "early", "clean"}]
    BY <1>6 DEF Begin
  <2> QED BY <1>6, <2>1, <2>2, <2>3 DEF Begin
<1>a. Idle \in Cbs
  BY DEF Idle
<1>b. cb.op # "none" => cb.dev \in Devices /\ cb \in Cbs
  BY DEF Idle
<1>d. ASSUME NEW n \in Nat
      PROVE  /\ [cb EXCEPT !.step = n] \in Cbs /\ [cb EXCEPT !.step = n].op = cb.op
             /\ [cb EXCEPT !.step = n].dev = cb.dev
  <2>1. cb \in Cbs
    OBVIOUS
  <2> QED BY <2>1
<1>7. CASE DeviceInit
  <2>1. CASE cb.step < Len(Profile[cb.dev])
    <3>1. Profile[cb.dev][cb.step + 1] \in Resources /\ cb.dev \in Devices
      BY <1>7, <1>b, <2>1, ProfileEntry DEF DeviceInit
    <3>2. ValuesMap' \in [Devices -> (SUBSET Resources) \cup {None}]
      BY <1>7, <2>1, <3>1, ValueSet DEF DeviceInit
    <3>3. cb' = [cb EXCEPT !.step = @ + 1]
      BY <1>7, <2>1 DEF DeviceInit
    <3>4. cb' \in Cbs /\ cb'.op = cb.op /\ cb'.dev = cb.dev
      <4>1. cb.step + 1 \in Nat
        OBVIOUS
      <4> QED BY <1>d, <3>3, <4>1
    <3> QED BY <1>7, <3>1, <3>2, <3>4 DEF DeviceInit
  <2>2. CASE cb' = Idle /\ UNCHANGED ValuesMap
    BY <1>7, <1>a, <2>2 DEF DeviceInit
  <2> QED BY <1>7, <2>1, <2>2 DEF DeviceInit
<1>8. CASE DeleteDeviceValues
  <2>1. ValuesMap' \in [Devices -> (SUBSET Resources) \cup {None}]
    BY <1>8 DEF DeleteDeviceValues
  <2>2. status' \in [Devices -> {"in", "out", "failed", "early", "clean"}]
    BY <1>8 DEF DeleteDeviceValues
  <2>3. cb' = Idle \/ (cb' \in Cbs /\ cb'.op = cb.op /\ cb'.dev = cb.dev)
    BY <1>d, <1>8 DEF DeleteDeviceValues
  <2>4. cb' \in Cbs /\ (cb' = Idle \/ (cb'.op # "none" /\ cb'.dev \in Devices))
    BY <1>a, <1>b, <1>8, <2>3 DEF DeleteDeviceValues
  <2> QED BY <1>8, <2>1, <2>2, <2>4 DEF DeleteDeviceValues
<1>9. CASE DeleteSensorIDMappingsByDevice
  <2>1. mapping' \in [Eids -> Devices \cup {None}]
    BY <1>9 DEF DeleteSensorIDMappingsByDevice
  <2>2. status' \in [Devices -> {"in", "out", "failed", "early", "clean"}]
    BY <1>9 DEF DeleteSensorIDMappingsByDevice
  <2> QED BY <1>9, <1>a, <2>1, <2>2 DEF DeleteSensorIDMappingsByDevice
<1>c. NoFrame \in Frs /\ Printing \in Frs
  BY DEF NoFrame, Printing, Todos
<1>10. ASSUME NEW e \in Eids, LookupDeviceName(e) PROVE TypeOK'
  <2>1. CASE parser' = Printing
    BY <1>10, <1>c, <2>1 DEF LookupDeviceName
  <2>2. CASE mapping[e] # None
    <3>1. PICK todo \in Frames : parser' = [dev |-> mapping[e], eid |-> e, todo |-> todo]
      BY <1>10, <2>2 DEF LookupDeviceName
    <3>2. mapping[e] \in Devices
      BY <2>2
    <3>3. todo \in Todos \ {<<"print">>}
      BY TodoShapes DEF Frames, Todos
    <3>4. parser' \in Frs
      BY <3>1, <3>2, <3>3
    <3> QED BY <1>10, <3>1, <3>2, <3>3, <3>4 DEF LookupDeviceName
  <2> QED BY <1>10, <2>1, <2>2 DEF LookupDeviceName
<1>11. CASE PrintMapping
  BY <1>11, <1>c DEF PrintMapping
<1>12. ASSUME parser' = Rest, NEW r \in {Stamp, Param, "response"}, Todo(r)
       PROVE  /\ parser' \in Frs
              /\ parser' = NoFrame \/ (parser'.dev \in Devices /\ parser'.eid \in Eids
                                      /\ parser'.todo \in Todos \ {<<"print">>})
  <2>1. <<Param>> # <<"print">> /\ <<"response">> # <<"print">>
    BY TodoShapes
  <2>2. <<Param>> \in Todos /\ <<"response">> \in Todos
    BY DEF Todos
  <2> QED BY <1>12, <1>c, <2>1, <2>2, FrameInHand
<1>13. CASE StoreValue
  <2>1. PICK r \in {Stamp, Param} : Todo(r) /\ r = Head(parser.todo)
    BY <1>13 DEF StoreValue, Todo
  <2>2. ValuesMap' \in [Devices -> (SUBSET Resources) \cup {None}]
    BY <1>13, <2>1, FrameInHand, ProfileResources, ValueSet DEF StoreValue
  <2> QED BY <1>12, <1>13, <2>1, <2>2 DEF StoreValue
<1>14. CASE StoreResponse
  <2>1. parser.eid \in Eids
    BY <1>14, FrameInHand DEF StoreResponse
  <2>2. ValuesMap' \in [Devices -> (SUBSET Resources) \cup {None}] /\ nameless' \in Eids \cup {None}
    BY <1>14, <2>1, ProfileResources, ValueSet DEF StoreResponse
  <2> QED BY <1>12, <1>14, <2>2 DEF StoreResponse
<1>15. CASE ConcurrentMapAccess
  <2>1. up' \in BOOLEAN /\ UNCHANGED <<ValuesMap, mapping, start, owed, seen, found, cb, calls, status,
                                      parser, nameless, deleted>>
    BY <1>15 DEF ConcurrentMapAccess
  <2> QED BY <2>1
<1>16. CASE UNCHANGED vars
  BY <1>16 DEF vars
<1> QED BY <1>1, <1>2, <1>3, <1>4, <1>5, <1>6, <1>7, <1>8, <1>9, <1>10, <1>11, <1>13,
           <1>14, <1>15, <1>16 DEF Next
\* What the parser stores leaves leftovers leftovers, and takes nothing away.
LEMMA Stored ==
  ASSUME TypeOK, StoreValue \/ StoreResponse, NEW c \in Devices
  PROVE  /\ Leftover(c) => Leftover(c)'
         /\ ValuesMap[c] # None => ValuesMap'[c] # None /\ ValuesMap[c] \subseteq ValuesMap'[c]
         /\ parser.dev # c /\ (\A e \in Eids : mapping[e] # c) => ValuesMap'[c] = ValuesMap[c]
         /\ parser' = Rest /\ \E r \in {Stamp, Param, "response"} : Todo(r)
<1>1. ASSUME NEW d \in Devices, NEW r \in {Stamp, Param}, SetDeviceValue(d, r)
      PROVE  /\ Leftover(c) => Leftover(c)'
             /\ ValuesMap[c] # None => ValuesMap'[c] # None /\ ValuesMap[c] \subseteq ValuesMap'[c]
             /\ c # d => ValuesMap'[c] = ValuesMap[c]
  <2>1. r \in Resources /\ ValuesMap \in [Devices -> (SUBSET Resources) \cup {None}]
    BY ProfileResources DEF TypeOK
  <2>2. c # d => ValuesMap'[c] = ValuesMap[c]
    BY <1>1, <2>1, ValueSet
  <2>3. CASE c = d
    BY <1>1, <2>1, <2>3, ValueSet DEF Leftover
  <2>4. CASE c # d
    BY <2>2, <2>4 DEF Leftover
  <2> QED BY <2>2, <2>3, <2>4
<1>2. CASE StoreValue
  <2>1. PICK r \in {Stamp, Param} : Todo(r) /\ SetDeviceValue(parser.dev, r) /\ parser' = Rest
    BY <1>2 DEF StoreValue, Todo
  <2>2. parser.dev \in Devices
    BY <2>1, FrameInHand
  <2> QED BY <1>1, <2>1, <2>2
<1>3. CASE StoreResponse
  <2>1. Todo("response") /\ parser' = Rest /\ parser.eid \in Eids
    BY <1>3, FrameInHand DEF StoreResponse
  <2>2. CASE mapping[parser.eid] = None
    <3>1. UNCHANGED ValuesMap
      BY <1>3, <2>2 DEF StoreResponse
    <3> QED BY <2>1, <3>1 DEF Leftover
  <2>3. CASE mapping[parser.eid] # None
    <3>1. SetDeviceValue(mapping[parser.eid], Param) /\ mapping[parser.eid] \in Devices
      BY <1>3, <2>1, <2>3 DEF StoreResponse, TypeOK
    <3> QED BY <1>1, <2>1, <3>1
  <2> QED BY <2>2, <2>3
<1> QED BY <1>2, <1>3

\* Begin notes in status what it begins.
LEMMA Begun ==
  ASSUME TypeOK, NEW op \in {"init", "remove"}, NEW d \in Devices, Begin(op, d)
  PROVE  /\ cb = Idle /\ cb'.op = op /\ cb'.dev = d /\ cb'.step = 0 /\ cb'.early = (start # "done")
         /\ status'[d] = (IF op = "init" THEN "in" ELSE "out")
         /\ \A c \in Devices : c # d => status'[c] = status[c]
         /\ calls' # 0 /\ UNCHANGED <<start, ValuesMap, mapping, parser>>
BY DEF Begin, TypeOK

\* The callback in progress.
LEMMA StepCallbacks == IInv /\ [Next]_vars => Callbacks'
<1> SUFFICES ASSUME TypeOK, Callbacks, [Next]_vars PROVE Callbacks'
  BY DEF IInv
<1>0. cb.op = "none" => cb = Idle
  BY DEF TypeOK
<1>a. Idle.op = "none"
  BY DEF Idle
<1>1. CASE UNCHANGED <<cb, status, calls, ValuesMap>> /\ (start = "done" => start' = "done")
  BY <1>1 DEF Callbacks, Leftover
<1>2. CASE InitDeviceResources
  BY <1>2 DEF InitDeviceResources, Callbacks
<1>3. ASSUME NEW op \in {"init", "remove"}, NEW d \in Devices, Begin(op, d) PROVE Callbacks'
  <2>1. /\ cb'.op = op /\ cb'.dev = d /\ cb'.step = 0 /\ cb'.early = (start # "done")
        /\ status'[d] = (IF op = "init" THEN "in" ELSE "out")
        /\ calls' # 0 /\ start' = start
    BY <1>3, Begun
  <2>2. 0 \in {0, 1} /\ 0 # 1
    OBVIOUS
  <2>3. (cb.op = "init" => status[cb.dev] = "in")'
    BY <2>1
  <2>4. cb'.op = "remove" =>
          /\ status'[cb'.dev] = "out" /\ cb'.step \in {0, 1} /\ cb'.step # 1
          /\ ~cb'.early => start' = "done"
    BY <2>1, <2>2
  <2> QED BY <2>1, <2>3, <2>4, Zenon DEF Callbacks
<1>4. CASE DeviceInit
  <2>1. cb.op = "init" /\ UNCHANGED <<status, calls>>
    BY <1>4 DEF DeviceInit
  <2>2. cb' = Idle \/ (cb'.op = "init" /\ cb'.dev = cb.dev)
    BY <1>4, <2>1 DEF DeviceInit, TypeOK
  <2> QED BY <1>a, <2>1, <2>2 DEF Callbacks
<1>5. CASE DeleteDeviceValues
  <2>1. cb.op = "remove" /\ cb.dev \in Devices /\ calls # 0 /\ UNCHANGED <<start, calls>>
    BY <1>5, <1>a DEF DeleteDeviceValues, TypeOK, Callbacks
  <2>2. CASE cb' = Idle
    BY <1>a, <2>1, <2>2 DEF Callbacks
  <2>3. CASE cb' = [cb EXCEPT !.step = 1] /\ UNCHANGED status
    <3>1. cb'.op = "remove" /\ cb'.dev = cb.dev /\ cb'.step = 1 /\ cb'.early = cb.early
      BY <2>1, <2>3 DEF TypeOK
    <3>2. ValuesMap'[cb.dev] = None
      BY <1>5, <2>1 DEF DeleteDeviceValues, TypeOK
    <3> QED BY <2>1, <2>3, <3>1, <3>2 DEF Callbacks, Leftover
  <2> QED BY <1>5, <2>2, <2>3 DEF DeleteDeviceValues
<1>6. CASE DeleteSensorIDMappingsByDevice
  <2>1. cb' = Idle /\ calls # 0 /\ UNCHANGED calls
    BY <1>6, <1>a DEF DeleteSensorIDMappingsByDevice, Callbacks
  <2> QED BY <1>a, <2>1 DEF Callbacks
<1>7. CASE StoreValue \/ StoreResponse
  <2>1. UNCHANGED <<cb, status, calls, start>>
    BY <1>7 DEF StoreValue, StoreResponse
  <2>2. cb.op = "remove" => cb.dev \in Devices
    BY <1>a DEF TypeOK
  <2>3. cb.op = "remove" /\ Leftover(cb.dev) => Leftover(cb.dev)'
    <3> SUFFICES ASSUME cb.op = "remove", Leftover(cb.dev) PROVE Leftover(cb.dev)'
      OBVIOUS
    <3>1. PICK c \in Devices : c = cb.dev /\ c = cb'.dev
      BY <2>1, <2>2
    <3>2. Leftover(c)'
      BY <1>7, <3>1, Stored DEF Leftover
    <3> QED BY <3>1, <3>2 DEF Leftover
  <2> QED BY <2>1, <2>3 DEF Callbacks
<1>8. CASE \/ ClearMapping \/ WriteMapping \/ UnlockMapping \/ (\E d \in Devices : ReadEid(d))
           \/ (\E e \in Eids : LookupDeviceName(e)) \/ PrintMapping \/ ConcurrentMapAccess
           \/ UNCHANGED vars
  <2>1. UNCHANGED <<cb, status, calls, ValuesMap>> /\ (start = "done" => start' = "done")
    BY <1>8 DEF ClearMapping, WriteMapping, UnlockMapping, ReadEid, LookupDeviceName,
                PrintMapping, ConcurrentMapAccess, vars
  <2> QED BY <1>1, <2>1
<1> QED BY <1>2, <1>3, <1>4, <1>5, <1>6, <1>7, <1>8 DEF Next

\* Devices that have been removed.
LEMMA StepRemoved == IInv /\ [Next]_vars => Removed'
<1> SUFFICES ASSUME TypeOK, Callbacks, Removed, [Next]_vars,
                    NEW d \in Devices, status'[d] = "clean"
             PROVE  start' = "done" /\ Leftover(d)' /\ \A e \in Eids : mapping'[e] # d
  BY DEF IInv, Removed
<1> DEFINE Clean == start = "done" /\ Leftover(d) /\ \A e \in Eids : mapping[e] # d
<1>0. status[d] = "clean" => Clean
  BY DEF Removed
<1>1. CASE UNCHANGED <<status, mapping>> /\ ValuesMap'[d] = ValuesMap[d]
           /\ (start = "done" => start' = "done")
  BY <1>0, <1>1 DEF Leftover
<1>2. CASE InitDeviceResources \/ ClearMapping \/ WriteMapping
  <2>1. UNCHANGED status /\ start # "done"
    BY <1>2 DEF InitDeviceResources, ClearMapping, WriteMapping
  <2> QED BY <1>0, <2>1
<1>3. ASSUME NEW op \in {"init", "remove"}, NEW c \in Devices, Begin(op, c)
      PROVE  Clean'
  <2>1. c # d
    BY <1>3, Begun
  <2> QED BY <1>0, <1>3, <2>1, Begun DEF Leftover
<1>4. CASE DeviceInit
  <2>1. UNCHANGED <<status, mapping, start>> /\ cb.op = "init" /\ cb.dev \in Devices
    BY <1>4 DEF DeviceInit, TypeOK, Idle
  <2>2. cb.dev # d
    BY <2>1 DEF Callbacks
  <2>3. ValuesMap'[d] = ValuesMap[d]
    BY <1>4, <2>1, <2>2 DEF DeviceInit, SetDeviceValue, TypeOK
  <2> QED BY <1>1, <2>1, <2>3
<1>5. CASE DeleteDeviceValues
  <2>1. UNCHANGED <<mapping, start>> /\ cb.op = "remove" /\ cb.dev \in Devices
    BY <1>5 DEF DeleteDeviceValues, TypeOK, Idle
  <2>2. cb.dev # d /\ status'[d] = status[d]
    BY <1>5, <2>1 DEF DeleteDeviceValues, Callbacks, TypeOK
  <2>3. ValuesMap'[d] = ValuesMap[d]
    BY <1>5, <2>1, <2>2 DEF DeleteDeviceValues, TypeOK
  <2> QED BY <1>0, <2>1, <2>2, <2>3 DEF Leftover
<1>6. CASE DeleteSensorIDMappingsByDevice
  <2>1. UNCHANGED <<ValuesMap, start>> /\ cb.op = "remove" /\ cb.step = 1 /\ cb.dev \in Devices
        /\ status' = [status EXCEPT ![cb.dev] = IF cb.early THEN "early" ELSE "clean"]
        /\ mapping' = [e \in Eids |-> IF mapping[e] = cb.dev THEN None ELSE mapping[e]]
    BY <1>6 DEF DeleteSensorIDMappingsByDevice, TypeOK, Idle
  <2>2. CASE cb.dev = d
    <3>1. ~cb.early
      BY <2>1, <2>2 DEF TypeOK
    <3>2. start = "done" /\ Leftover(d)
      BY <2>1, <2>2, <3>1 DEF Callbacks
    <3>3. \A e \in Eids : mapping'[e] # d
      BY <2>1, <2>2, ProfileAssumption
    <3> QED BY <2>1, <3>2, <3>3 DEF Leftover
  <2>3. CASE cb.dev # d
    <3>1. status[d] = "clean"
      BY <2>1, <2>3 DEF TypeOK
    <3>2. \A e \in Eids : mapping'[e] # d
      BY <1>0, <2>1, <3>1, ProfileAssumption
    <3> QED BY <1>0, <2>1, <3>1, <3>2 DEF Leftover
  <2> QED BY <2>2, <2>3
<1>7. CASE StoreValue \/ StoreResponse
  <2>1. UNCHANGED <<status, mapping, start>>
    BY <1>7 DEF StoreValue, StoreResponse
  <2> QED BY <1>0, <1>7, <2>1, Stored
<1>8. CASE \/ UnlockMapping \/ (\E c \in Devices : ReadEid(c))
           \/ (\E e \in Eids : LookupDeviceName(e)) \/ PrintMapping \/ ConcurrentMapAccess
           \/ UNCHANGED vars
  <2>1. UNCHANGED <<status, mapping>> /\ ValuesMap'[d] = ValuesMap[d]
        /\ (start = "done" => start' = "done")
    BY <1>8 DEF UnlockMapping, ReadEid, LookupDeviceName, PrintMapping, ConcurrentMapAccess, vars
  <2> QED BY <1>1, <2>1
<1> QED BY <1>2, <1>3, <1>4, <1>5, <1>6, <1>7, <1>8 DEF Next
\* Without a callback so far none is in progress, and there will have been none only
\* if there is none now.
LEMMA NoCallbackYet ==
  ASSUME TypeOK, Callbacks, [Next]_vars, calls' = 0
  PROVE  /\ calls = 0 /\ cb.op = "none"
         /\ ~(\E op \in {"init", "remove"}, d \in Devices : Begin(op, d))
         /\ ~DeviceInit /\ ~DeleteDeviceValues /\ ~DeleteSensorIDMappingsByDevice
<1>1. ~(\E op \in {"init", "remove"}, d \in Devices : Begin(op, d))
  BY Begun
<1>2. calls = 0
  BY <1>1 DEF Next, InitDeviceResources, ClearMapping, WriteMapping, UnlockMapping, ReadEid,
     DeviceInit, DeleteDeviceValues, DeleteSensorIDMappingsByDevice, LookupDeviceName, StoreValue,
     StoreResponse, PrintMapping, ConcurrentMapAccess, vars
<1>3. cb.op = "none"
  BY <1>2 DEF Callbacks, Idle
<1> QED BY <1>1, <1>2, <1>3 DEF DeviceInit, DeleteDeviceValues, DeleteSensorIDMappingsByDevice

\* The listed devices keep the resources of their profiles.
LEMMA StepFilled == IInv /\ [Next]_vars => Filled'
<1> SUFFICES ASSUME TypeOK, Callbacks, Filled, [Next]_vars, calls' = 0, start' # "init",
                    NEW d \in Listed
             PROVE  ValuesMap'[d] # None /\ Range(Profile[d]) \subseteq ValuesMap'[d]
  BY DEF IInv, Filled
<1>0. calls = 0 /\ d \in Devices
  BY NoCallbackYet, ProfileAssumption
<1>1. CASE InitDeviceResources
  <2>1. ValuesMap'[d] = Range(Profile[d])
    BY <1>0, <1>1 DEF InitDeviceResources
  <2>2. Range(Profile[d]) # None
    BY <1>0, ProfileResources, ProfileAssumption
  <2> QED BY <2>1, <2>2
<1>2. CASE StoreValue \/ StoreResponse
  <2>1. UNCHANGED start
    BY <1>2 DEF StoreValue, StoreResponse
  <2> QED BY <1>0, <1>2, <2>1, Stored DEF Filled
<1>3. CASE \/ ClearMapping \/ WriteMapping \/ UnlockMapping \/ (\E c \in Devices : ReadEid(c))
           \/ (\E e \in Eids : LookupDeviceName(e)) \/ PrintMapping \/ ConcurrentMapAccess
           \/ UNCHANGED vars
  <2>1. UNCHANGED ValuesMap /\ start # "init"
    BY <1>3 DEF ClearMapping, WriteMapping, UnlockMapping, ReadEid, LookupDeviceName,
                PrintMapping, ConcurrentMapAccess, vars
  <2> QED BY <1>0, <2>1 DEF Filled
<1> QED BY <1>1, <1>2, <1>3, NoCallbackYet DEF Next

\* UpdateSensorMapping maps the devices it has passed.
LEMMA StepMapped == IInv /\ [Next]_vars => Mapped'
<1> SUFFICES ASSUME TypeOK, Callbacks, Filled, Mapped, [Next]_vars PROVE Mapped'
  BY DEF IInv
<1>0. Listed \subseteq Devices /\ EidOf \in [Devices -> Eids] /\ None \notin Devices
  BY ProfileAssumption
<1> USE DEF Mapped
<1>1. CASE UNCHANGED <<start, mapping, owed, seen, found, calls>>
  BY <1>1
<1>2. CASE InitDeviceResources
  BY <1>2 DEF InitDeviceResources
<1>3. CASE ClearMapping
  <2>1. /\ mapping' = [e \in Eids |-> None] /\ start' = "mapping" /\ start = "parsing"
        /\ owed' = {d \in Devices : ValuesMap[d] # None} /\ UNCHANGED <<seen, found, calls>>
    BY <1>3 DEF ClearMapping
  <2>2. calls' = 0 => Listed \subseteq owed'
    BY <1>0, <2>1 DEF Filled
  <2> QED BY <2>1, <2>2
<1>4. ASSUME NEW d \in Devices, ReadEid(d) PROVE Mapped'
  <2>1. /\ start = "mapping" /\ found = None /\ seen' = seen \cup {d}
        /\ found' = IF "eid" \in ValuesMap[d] THEN d ELSE None
        /\ UNCHANGED <<start, mapping, owed, calls>>
    BY <1>4 DEF ReadEid
  <2>2. calls = 0 /\ d \in Listed /\ HasEid(d) => found' = d
    BY <2>1 DEF Filled, HasEid
  <2> QED BY <1>0, <2>1, <2>2
<1>5. CASE WriteMapping
  <2>1. /\ start = "mapping" /\ found \in Devices /\ found' = None
        /\ mapping' = [mapping EXCEPT ![EidOf[found]] = found]
        /\ UNCHANGED <<start, owed, seen, calls>>
    BY <1>5 DEF WriteMapping, TypeOK
  <2>2. /\ EidOf[found] \in Eids /\ mapping'[EidOf[found]] = found
        /\ \A e \in Eids : e # EidOf[found] => mapping'[e] = mapping[e]
    BY <1>0, <2>1 DEF TypeOK
  <2>3. \A e \in Eids : mapping'[e] # None => EidOf[mapping'[e]] = e
    BY <2>1, <2>2
  <2>4. calls = 0 => \A d \in Listed \cap seen : HasEid(d) => mapping'[EidOf[d]] # None
    BY <1>0, <2>1, <2>2
  <2> QED BY <2>1, <2>3, <2>4
<1>6. CASE UnlockMapping
  BY <1>6 DEF UnlockMapping
<1>7. ASSUME NEW op \in {"init", "remove"}, NEW d \in Devices, Begin(op, d) PROVE Mapped'
  <2>1. calls' # 0 /\ UNCHANGED <<start, mapping, owed, seen, found>>
    BY <1>7, Begun DEF Begin
  <2> QED BY <2>1
<1>8. CASE DeviceInit \/ DeleteDeviceValues \/ DeleteSensorIDMappingsByDevice
  <2>1. calls' # 0
    BY <1>8, NoCallbackYet
  <2>2. UNCHANGED <<start, seen, found>>
    BY <1>8 DEF DeviceInit, DeleteDeviceValues, DeleteSensorIDMappingsByDevice
  <2>3. \A e \in Eids : mapping'[e] = mapping[e] \/ mapping'[e] = None
    BY <1>8 DEF DeviceInit, DeleteDeviceValues, DeleteSensorIDMappingsByDevice
  <2>4. start \in {"mapping", "done"} => \A e \in Eids : mapping'[e] # None => EidOf[mapping'[e]] = e
    BY <2>3
  <2> QED BY <2>1, <2>2, <2>4
<1>9. CASE \/ (\E e \in Eids : LookupDeviceName(e)) \/ StoreValue \/ StoreResponse \/ PrintMapping
           \/ ConcurrentMapAccess \/ UNCHANGED vars
  <2>1. UNCHANGED <<start, mapping, owed, seen, found, calls>>
    BY <1>9 DEF LookupDeviceName, StoreValue, StoreResponse, PrintMapping, ConcurrentMapAccess, vars
  <2> QED BY <1>1, <2>1
<1> QED BY <1>2, <1>3, <1>4, <1>5, <1>6, <1>7, <1>8, <1>9 DEF Next

\* The parser starts after the values are there.
LEMMA StepQuiet ==
  IInv /\ [Next]_vars => (start = "init" => parser = NoFrame)'
<1> SUFFICES ASSUME TypeOK, start = "init" => parser = NoFrame, [Next]_vars, start' = "init"
             PROVE  parser' = NoFrame
  BY DEF IInv
<1>1. start = "init"
  BY DEF Next, InitDeviceResources, ClearMapping, WriteMapping, UnlockMapping, ReadEid, Begin,
     DeviceInit, DeleteDeviceValues, DeleteSensorIDMappingsByDevice, LookupDeviceName, StoreValue,
     StoreResponse, PrintMapping, ConcurrentMapAccess, vars
<1> QED BY <1>1 DEF Next, InitDeviceResources, ClearMapping, WriteMapping, UnlockMapping, ReadEid,
     Begin, DeviceInit, DeleteDeviceValues, DeleteSensorIDMappingsByDevice, LookupDeviceName,
     StoreValue, StoreResponse, PrintMapping, ConcurrentMapAccess, Todo, vars

\* Which accesses race, once Start has ended.
LEMMA StepKilled == IInv /\ [Next]_vars => KilledOnlyByRemove'
<1> SUFFICES ASSUME TypeOK, Callbacks, KilledOnlyByRemove, [Next]_vars, ~up', start' = "done"
             PROVE  /\ cb'.op = "remove" /\ cb'.step = 1
                    /\ parser' = NoFrame \/ Head(parser'.todo) \in {"print", "response"}
  BY DEF IInv, KilledOnlyByRemove
<1>1. CASE ConcurrentMapAccess
  <2>1. start = "done" /\ UNCHANGED <<cb, parser>>
    BY <1>1 DEF ConcurrentMapAccess
  <2>2. StartAccesses = {}
    BY <2>1 DEF StartAccesses
  <2>3. PICK a \in CallbackAccesses, b \in ParserAccesses :
           a.map = b.map /\ (a.lock # b.lock \/ a.lock = "none")
    BY <1>1, <2>2 DEF ConcurrentMapAccess, Race
  <2>4. cb.op \in {"none", "init", "remove"}
    BY DEF TypeOK
  <2>5. (a.map = "values" /\ a.lock = "Mu") \/ (cb.op = "remove" /\ cb.step # 0 /\ a.map = "mapping")
    BY <2>3, <2>4 DEF CallbackAccesses, Access
  <2>6. \/ b.map = "values" /\ b.lock = "Mu"
        \/ b.map = "mapping" /\ (parser = NoFrame \/ Head(parser.todo) \in {"print", "response"})
    <3>1. Head(Printing.todo) = "print"
      BY TodoShapes DEF Printing, NoFrame
    <3> QED BY <2>1, <2>3, <3>1 DEF ParserAccesses, Access, Todo
  <2>7. cb.op = "remove" /\ cb.step # 0 /\ (parser = NoFrame \/ Head(parser.todo) \in {"print", "response"})
    BY <2>3, <2>5, <2>6
  <2> QED BY <2>1, <2>7 DEF Callbacks
<1>2. CASE ~ConcurrentMapAccess
  <2>1. UNCHANGED vars
    BY <1>2 DEF Next, InitDeviceResources, ClearMapping, WriteMapping, UnlockMapping, ReadEid,
     Begin, DeviceInit, DeleteDeviceValues, DeleteSensorIDMappingsByDevice, LookupDeviceName,
     StoreValue, StoreResponse, PrintMapping, KilledOnlyByRemove, vars
  <2> QED BY <2>1 DEF KilledOnlyByRemove, vars
<1> QED BY <1>1, <1>2

LEMMA Invariance == Spec => []IInv
<1>1. IInv /\ [Next]_vars => IInv'
  BY StepTypes, StepCallbacks, StepRemoved, StepFilled, StepMapped, StepQuiet, StepKilled DEF IInv
<1> QED BY <1>1, InitInvariant, PTL DEF Spec
-----------------------------------------------------------------------------
\* The tables hold what they are made for.
THEOREM TypeCorrect == Spec => []TypeOK
BY Invariance, PTL DEF IInv

\* UpdateSensorMapping maps every listed device with an "eid", although it reads
\* ValuesMap without its lock while the parser fills it.
THEOREM EveryDeviceMapped == Spec => []StartMapsEveryDevice
<1>1. IInv => StartMapsEveryDevice
  <2> SUFFICES ASSUME IInv, start = "done", calls = 0, NEW d \in Listed, "eid" \in Range(Profile[d])
               PROVE  mapping[EidOf[d]] # None /\ EidOf[mapping[EidOf[d]]] = EidOf[d]
    BY DEF StartMapsEveryDevice
  <2>1. d \in Devices /\ EidOf[d] \in Eids /\ d # None
    BY ProfileAssumption
  <2>2. d \in Listed \cap seen /\ HasEid(d) /\ d # found
    BY <2>1 DEF IInv, Mapped, HasEid
  <2>3. mapping[EidOf[d]] # None
    BY <2>2 DEF IInv, Mapped
  <2> QED BY <2>1, <2>3 DEF IInv, Mapped
<1> QED BY <1>1, Invariance, PTL

\* After RemoveDevice at most the values of the frame in hand are there.
THEOREM NothingButLeftovers == Spec => []OnlyLeftovers
<1>1. IInv => OnlyLeftovers
  BY DEF IInv, Removed, Leftover, OnlyLeftovers
<1> QED BY <1>1, Invariance, PTL

\* Once Start has ended, only the unlocked deletion in RemoveDevice races.
THEOREM KilledOnly == Spec => []KilledOnlyByRemove
BY Invariance, PTL DEF IInv

\* After the frame in hand nothing is stored for a removed device, and no frame of
\* it is taken.
THEOREM Quiet == Spec => QuietAfterRemove
<1>1. ASSUME IInv, [Next]_vars, NEW d \in Devices, status[d] = "clean", status'[d] = "clean",
             parser.dev # d
      PROVE  ValuesMap'[d] = ValuesMap[d] /\ parser'.dev # d
  <2>0. TypeOK /\ start = "done" /\ (\A e \in Eids : mapping[e] # d) /\ d # None
    BY <1>1, ProfileAssumption DEF IInv, Removed
  <2>a. NoFrame.dev = None /\ Printing.dev = None
    BY DEF NoFrame, Printing
  <2>1. CASE DeviceInit \/ DeleteDeviceValues
    <3>1. cb.dev \in Devices /\ cb.op \in {"init", "remove"} /\ UNCHANGED parser
      BY <2>0, <2>1 DEF DeviceInit, DeleteDeviceValues, TypeOK, Idle
    <3>2. cb.dev # d
      BY <1>1, <3>1 DEF IInv, Callbacks
    <3>3. ValuesMap'[d] = ValuesMap[d]
      BY <2>0, <2>1, <3>1, <3>2 DEF DeviceInit, DeleteDeviceValues, SetDeviceValue, TypeOK
    <3> QED BY <1>1, <3>1, <3>3
  <2>2. CASE StoreValue \/ StoreResponse
    <3>1. ValuesMap'[d] = ValuesMap[d] /\ parser' = Rest
      BY <1>1, <2>0, <2>2, Stored
    <3>2. Rest = NoFrame \/ Rest.dev = parser.dev
      BY <2>0, <2>2, Stored, FrameInHand
    <3> QED BY <1>1, <2>0, <2>a, <3>1, <3>2
  <2>3. ASSUME NEW e \in Eids, LookupDeviceName(e)
        PROVE  ValuesMap'[d] = ValuesMap[d] /\ parser'.dev # d
    BY <2>0, <2>a, <2>3 DEF LookupDeviceName
  <2>4. CASE PrintMapping
    BY <2>0, <2>a, <2>4 DEF PrintMapping
  <2>5. CASE \/ InitDeviceResources \/ ClearMapping \/ WriteMapping \/ UnlockMapping
             \/ (\E c \in Devices : ReadEid(c)) \/ DeleteSensorIDMappingsByDevice
             \/ (\E op \in {"init", "remove"}, c \in Devices : Begin(op, c))
             \/ ConcurrentMapAccess \/ UNCHANGED vars
    BY <1>1, <2>0, <2>5 DEF InitDeviceResources, ClearMapping, WriteMapping, UnlockMapping, ReadEid,
       DeleteSensorIDMappingsByDevice, Begin, ConcurrentMapAccess, vars
  <2> QED BY <1>1, <2>1, <2>2, <2>3, <2>4, <2>5 DEF Next
<1>2. IInv /\ [Next]_vars =>
        [\A d \in Devices :
           (status[d] = "clean" /\ status'[d] = "clean" /\ parser.dev # d)
             => ValuesMap'[d] = ValuesMap[d] /\ parser'.dev # d]_vars
  BY <1>1
<1> QED BY <1>2, Invariance, PTL DEF Spec, QuietAfterRemove

-----------------------------------------------------------------------------
\* Whoever was removed since the lookup stays so until the next lookup.
LEMMA StepRemovedMeanwhile ==
  ASSUME TypeOK, Callbacks, [Next]_vars, NEW e \in Eids, RemovedMeanwhile(e)
  PROVE  RemovedMeanwhile(e)' \/ \E f \in Eids : LookupDeviceName(f)
<1>1. PICK d \in Devices : EidOf[d] = e /\ (d \in deleted \/ (cb.op = "remove" /\ cb.dev = d /\ cb.step = 1))
  BY DEF RemovedMeanwhile
<1>0. Idle.op = "none"
  BY DEF Idle
<1>2. CASE DeleteSensorIDMappingsByDevice
  BY <1>1, <1>2 DEF DeleteSensorIDMappingsByDevice, RemovedMeanwhile
<1>3. CASE ~DeleteSensorIDMappingsByDevice /\ ~(\E f \in Eids : LookupDeviceName(f))
  <2>1. deleted' = deleted
    BY <1>3 DEF Next, InitDeviceResources, ClearMapping, WriteMapping, UnlockMapping, ReadEid, Begin,
       DeviceInit, DeleteDeviceValues, StoreValue, StoreResponse, PrintMapping, ConcurrentMapAccess, vars
  <2>2. cb.op = "remove" /\ cb.step = 1 => cb' = cb
    BY <1>0, <1>3 DEF Next, InitDeviceResources, ClearMapping, WriteMapping, UnlockMapping, ReadEid, Begin,
       DeviceInit, DeleteDeviceValues, StoreValue, StoreResponse, PrintMapping, ConcurrentMapAccess, vars
  <2> QED BY <1>1, <2>1, <2>2 DEF RemovedMeanwhile
<1> QED BY <1>2, <1>3

\* A device that keeps its "eid" loses it only when RemoveDevice deletes its values.
LEMMA StepKeepsEid ==
  ASSUME TypeOK, [Next]_vars, start # "init", NEW m \in Devices, KeepsEid(m)
  PROVE  KeepsEid(m)' \/ (DeleteDeviceValues /\ Leaving(m)')
<1>1. CASE DeleteDeviceValues
  <2>1. cb.dev = m => cb' = [cb EXCEPT !.step = 1] /\ cb.op = "remove"
    BY <1>1 DEF DeleteDeviceValues, KeepsEid
  <2>2. cb.dev = m => Leaving(m)'
    BY <2>1 DEF Leaving, TypeOK
  <2>3. cb.dev # m => ValuesMap'[m] = ValuesMap[m]
    BY <1>1 DEF DeleteDeviceValues, TypeOK
  <2> QED BY <1>1, <2>2, <2>3 DEF KeepsEid
<1>2. CASE StoreValue \/ StoreResponse
  BY <1>2, Stored DEF KeepsEid
<1>3. CASE DeviceInit
  <2>1. CASE UNCHANGED ValuesMap
    BY <2>1 DEF KeepsEid
  <2>2. CASE cb.step < Len(Profile[cb.dev])
    <3>1. Profile[cb.dev][cb.step + 1] \in Resources /\ cb.dev \in Devices
      BY <1>3, <2>2, ProfileEntry DEF DeviceInit, TypeOK, Idle
    <3>2. SetDeviceValue(cb.dev, Profile[cb.dev][cb.step + 1])
      BY <1>3, <2>2 DEF DeviceInit
    <3>3. ValuesMap \in [Devices -> (SUBSET Resources) \cup {None}]
      BY DEF TypeOK
    <3>4. CASE m = cb.dev
      BY <3>1, <3>2, <3>3, <3>4, ValueSet DEF KeepsEid
    <3>5. CASE m # cb.dev
      BY <3>1, <3>2, <3>3, <3>5, ValueSet DEF KeepsEid
    <3> QED BY <3>4, <3>5
  <2> QED BY <1>3, <2>1, <2>2 DEF DeviceInit
<1>4. CASE ~DeleteDeviceValues /\ ~StoreValue /\ ~StoreResponse /\ ~DeviceInit
  <2>1. UNCHANGED ValuesMap
    BY <1>4 DEF Next, InitDeviceResources, ClearMapping, WriteMapping, UnlockMapping, ReadEid, Begin,
       DeleteSensorIDMappingsByDevice, LookupDeviceName, PrintMapping, ConcurrentMapAccess, vars
  <2> QED BY <2>1 DEF KeepsEid
<1> QED BY <1>1, <1>2, <1>3, <1>4

\* What is in the mapping, while it is preset and after it is made anew.
LEMMA StepEntries ==
  ASSUME TypeOK, Callbacks, Entries, [Next]_vars
  PROVE  Entries'
<1> SUFFICES ASSUME NEW e \in Eids, NEW m, m = mapping'[e], m # None
             PROVE  /\ EidOf[m] = e
                    /\ start' = "init" => m \in Listed /\ HasEid(m)
                    /\ start' = "parsing" => KeepsEid(m)' \/ Leaving(m)'
  BY DEF Entries, KeepsEid, Leaving
<1>0. m = mapping[e] =>
        /\ m \in Devices /\ EidOf[m] = e
        /\ start = "init" => m \in Listed /\ HasEid(m)
        /\ start = "parsing" => KeepsEid(m) \/ Leaving(m)
  BY DEF TypeOK, Entries
<1>1. CASE InitDeviceResources
  <2>1. m = mapping[e] /\ start = "init" /\ start' = "parsing"
    BY <1>1 DEF InitDeviceResources
  <2>2. ValuesMap'[m] = Range(Profile[m])
    BY <1>0, <1>1, <2>1 DEF InitDeviceResources
  <2>3. Range(Profile[m]) # None
    BY <1>0, <2>1, ProfileResources, ProfileAssumption
  <2> QED BY <1>0, <2>1, <2>2, <2>3 DEF KeepsEid, HasEid
<1>2. CASE ClearMapping
  BY <1>2 DEF ClearMapping
<1>3. CASE WriteMapping
  <2>1. start' = "mapping" /\ found \in Devices /\ mapping' = [mapping EXCEPT ![EidOf[found]] = found]
    BY <1>3 DEF WriteMapping, TypeOK
  <2>2. EidOf[found] \in Eids
    BY <2>1, ProfileAssumption
  <2>3. (m = found /\ e = EidOf[found]) \/ m = mapping[e]
    BY <2>1, <2>2 DEF TypeOK
  <2> QED BY <1>0, <2>1, <2>3
<1>4. CASE DeleteSensorIDMappingsByDevice
  <2>1. m = mapping[e] /\ m # cb.dev /\ UNCHANGED <<start, ValuesMap>>
    BY <1>4 DEF DeleteSensorIDMappingsByDevice
  <2> QED BY <1>0, <2>1 DEF KeepsEid, Leaving
<1>5. CASE ~InitDeviceResources /\ ~ClearMapping /\ ~WriteMapping /\ ~DeleteSensorIDMappingsByDevice
  <2>1. UNCHANGED mapping /\ (start' = start \/ start' = "done")
    BY <1>5 DEF Next, UnlockMapping, ReadEid, Begin, DeviceInit, DeleteDeviceValues, LookupDeviceName,
       StoreValue, StoreResponse, PrintMapping, ConcurrentMapAccess, vars
  <2>2. Leaving(m) => Leaving(m)'
    <3>1. Idle.op = "none"
      BY DEF Idle
    <3> QED BY <1>5, <3>1 DEF Next, UnlockMapping, ReadEid, Begin, DeviceInit, DeleteDeviceValues,
       LookupDeviceName, StoreValue, StoreResponse, PrintMapping, ConcurrentMapAccess, vars, Leaving
  <2>3. m = mapping[e]
    BY <2>1
  <2>4. start = "parsing" /\ KeepsEid(m) => KeepsEid(m)' \/ Leaving(m)'
    BY <1>0, <2>3, StepKeepsEid
  <2> QED BY <1>0, <2>1, <2>2, <2>3, <2>4
<1> QED BY <1>1, <1>2, <1>3, <1>4, <1>5

\* A frame in hand stays grounded.
LEMMA StepFrame ==
  ASSUME TypeOK, Callbacks, Mapped, Grounded, [Next]_vars, parser' \notin {NoFrame, Printing}
  PROVE  (\/ RemovedMeanwhile(parser.eid)
          \/ mapping[parser.eid] # None
          \/ start = "mapping" /\ WillMap(parser.eid))'
<1>1. ASSUME NEW f \in Eids, LookupDeviceName(f)
      PROVE  mapping'[parser'.eid] # None
  BY <1>1 DEF LookupDeviceName
<1>2. CASE ~(\E f \in Eids : LookupDeviceName(f))
  <2>0. parser'.eid = parser.eid /\ parser.eid \in Eids /\ parser \notin {NoFrame, Printing}
    <3>1. CASE StoreValue \/ StoreResponse
      <4>1. parser' = Rest /\ \E r \in {Stamp, Param, "response"} : Todo(r)
        BY <3>1 DEF StoreValue, StoreResponse
      <4> QED BY <4>1, FrameInHand
    <3>2. CASE ~StoreValue /\ ~StoreResponse
      <4>1. parser' = parser
        BY <1>2, <3>2 DEF Next, InitDeviceResources, ClearMapping, WriteMapping, UnlockMapping, ReadEid,
           Begin, DeviceInit, DeleteDeviceValues, DeleteSensorIDMappingsByDevice, PrintMapping,
           ConcurrentMapAccess, vars
      <4> QED BY <4>1 DEF TypeOK
    <3> QED BY <3>1, <3>2
  <2>1. PICK e \in Eids : e = parser.eid /\ e = parser'.eid
    BY <2>0
  <2> SUFFICES RemovedMeanwhile(e)' \/ mapping'[e] # None \/ (start' = "mapping" /\ WillMap(e)')
    BY <2>1 DEF RemovedMeanwhile, WillMap, KeepsEid
  <2>2. CASE RemovedMeanwhile(e)
    BY <1>2, <2>2, StepRemovedMeanwhile
  <2>3. CASE mapping[e] # None
    <3>0. PICK m \in Devices : m = mapping[e]
      BY <2>3 DEF TypeOK
    <3>1. EidOf[m] = e /\ (start = "parsing" => KeepsEid(m) \/ Leaving(m))
      BY <2>3, <3>0 DEF Grounded, Entries
    <3>2. CASE ClearMapping
      <4>1. start = "parsing" /\ start' = "mapping" /\ UNCHANGED <<ValuesMap, seen, cb, deleted>>
            /\ owed' = {d \in Devices : ValuesMap[d] # None}
        BY <3>2 DEF ClearMapping
      <4>2. seen' = {}
        BY <4>1 DEF Mapped
      <4>3. CASE KeepsEid(m)
        BY <3>1, <4>1, <4>2, <4>3 DEF WillMap, KeepsEid
      <4>4. CASE Leaving(m)
        BY <3>1, <4>1, <4>4 DEF Leaving, RemovedMeanwhile
      <4> QED BY <3>1, <4>1, <4>3, <4>4
    <3>3. CASE DeleteSensorIDMappingsByDevice
      <4>1. CASE m = cb.dev
        BY <3>1, <3>3, <4>1 DEF DeleteSensorIDMappingsByDevice, RemovedMeanwhile
      <4>2. CASE m # cb.dev
        BY <2>3, <3>0, <3>3, <4>2 DEF DeleteSensorIDMappingsByDevice
      <4> QED BY <4>1, <4>2
    <3>4. CASE WriteMapping
      BY <2>1, <2>3, <3>4 DEF WriteMapping, TypeOK
    <3>5. CASE ~ClearMapping /\ ~DeleteSensorIDMappingsByDevice /\ ~WriteMapping
      <4>1. UNCHANGED mapping
        BY <1>2, <3>5 DEF Next, InitDeviceResources, UnlockMapping, ReadEid,
           Begin, DeviceInit, DeleteDeviceValues, StoreValue, StoreResponse, PrintMapping,
           ConcurrentMapAccess, vars
      <4> QED BY <2>1, <2>3, <4>1
    <3> QED BY <3>2, <3>3, <3>4, <3>5
  <2>4. CASE start = "mapping" /\ WillMap(e) /\ mapping[e] = None
    <3>1. PICK m \in Devices : EidOf[m] = e /\ (found = m \/ (m \in owed \ seen /\ KeepsEid(m)))
      BY <2>4 DEF WillMap
    <3>0. m # None
      BY ProfileAssumption
    <3>2. CASE found = m
      <4>1. CASE WriteMapping
        BY <2>1, <3>0, <3>1, <3>2, <4>1 DEF WriteMapping, TypeOK
      <4>2. CASE ~WriteMapping
        <5>1. UNCHANGED <<start, found>>
          BY <1>2, <2>4, <3>0, <3>2, <4>2 DEF Next, InitDeviceResources, ClearMapping, UnlockMapping,
             ReadEid, Begin, DeviceInit, DeleteDeviceValues, DeleteSensorIDMappingsByDevice, StoreValue,
             StoreResponse, PrintMapping, ConcurrentMapAccess, vars
        <5> QED BY <2>1, <2>4, <3>1, <3>2, <5>1 DEF WillMap
      <4> QED BY <4>1, <4>2
    <3>3. CASE m \in owed \ seen /\ KeepsEid(m)
      <4>1. KeepsEid(m)' \/ (DeleteDeviceValues /\ Leaving(m)')
        BY <2>4, <3>3, StepKeepsEid
      <4>2. CASE Leaving(m)'
        BY <3>1, <4>2 DEF Leaving, RemovedMeanwhile
      <4>3. CASE KeepsEid(m)'
        <5>1. CASE ReadEid(m)
          <6>1. found' = m /\ start' = "mapping"
            BY <3>3, <5>1 DEF ReadEid, KeepsEid
          <6> QED BY <2>1, <3>1, <6>1 DEF WillMap
        <5>2. CASE UnlockMapping
          BY <3>3, <5>2 DEF UnlockMapping
        <5>3. CASE DeleteDeviceValues
          <6>1. m # cb.dev
            BY <4>3, <5>3 DEF DeleteDeviceValues, KeepsEid, TypeOK
          <6>2. m \in owed' \ seen' /\ UNCHANGED start
            BY <3>3, <5>3, <6>1 DEF DeleteDeviceValues
          <6> QED BY <2>1, <2>4, <3>1, <4>3, <6>2 DEF WillMap
        <5>4. CASE ~ReadEid(m) /\ ~UnlockMapping /\ ~DeleteDeviceValues
          <6>1. m \in owed' \ seen' /\ UNCHANGED start
            BY <1>2, <2>4, <3>3, <5>4 DEF Next, InitDeviceResources, ClearMapping, WriteMapping,
               ReadEid, Begin, DeviceInit, DeleteSensorIDMappingsByDevice, StoreValue,
               StoreResponse, PrintMapping, ConcurrentMapAccess, vars
          <6> QED BY <2>1, <2>4, <3>1, <4>3, <6>1 DEF WillMap
        <5> QED BY <5>1, <5>2, <5>3, <5>4
      <4> QED BY <4>1, <4>2, <4>3
    <3> QED BY <3>1, <3>2, <3>3
  <2> QED BY <2>0, <2>1, <2>2, <2>3, <2>4 DEF Grounded
<1> QED BY <1>1, <1>2

\* What is stored under no name, is so after a removal.
LEMMA StepNameless ==
  ASSUME TypeOK, Callbacks, Grounded, [Next]_vars
  PROVE  NamelessOnlyIfRemoved'
<1>1. CASE StoreResponse
  <2>1. Todo("response") /\ start # "mapping" /\ UNCHANGED <<cb, deleted>>
    BY <1>1 DEF StoreResponse
  <2>2. parser.eid \in Eids /\ parser \notin {NoFrame, Printing}
    BY <2>1, FrameInHand
  <2>3. CASE nameless' = parser.eid /\ mapping[parser.eid] = None
    <3>1. RemovedMeanwhile(parser.eid)
      BY <2>1, <2>2, <2>3 DEF Grounded
    <3> QED BY <2>1, <2>3, <3>1 DEF NamelessOnlyIfRemoved, RemovedMeanwhile
  <2>4. CASE UNCHANGED nameless
    BY <2>1, <2>4 DEF Grounded, NamelessOnlyIfRemoved, RemovedMeanwhile
  <2> QED BY <1>1, <2>3, <2>4 DEF StoreResponse
<1>2. ASSUME NEW f \in Eids, LookupDeviceName(f) PROVE NamelessOnlyIfRemoved'
  BY <1>2 DEF LookupDeviceName, NamelessOnlyIfRemoved
<1>3. CASE ~StoreResponse /\ ~(\E f \in Eids : LookupDeviceName(f))
  <2>1. UNCHANGED nameless
    BY <1>3 DEF Next, InitDeviceResources, ClearMapping, WriteMapping, UnlockMapping, ReadEid, Begin,
       DeviceInit, DeleteDeviceValues, DeleteSensorIDMappingsByDevice, StoreValue, PrintMapping,
       ConcurrentMapAccess, vars
  <2>2. CASE nameless = None
    BY <2>1, <2>2 DEF NamelessOnlyIfRemoved
  <2>3. CASE nameless # None
    <3>1. PICK e \in Eids : e = nameless
      BY <2>3 DEF TypeOK
    <3>2. RemovedMeanwhile(e)
      BY <2>3, <3>1 DEF Grounded, NamelessOnlyIfRemoved
    <3>3. RemovedMeanwhile(e)'
      BY <1>3, <3>2, StepRemovedMeanwhile
    <3> QED BY <2>1, <3>1, <3>3 DEF NamelessOnlyIfRemoved, RemovedMeanwhile
  <2> QED BY <2>2, <2>3
<1> QED BY <1>1, <1>2, <1>3

\* With a preset mapping of listed devices under their own EIDs, like the one in the
\* program text, a response is stored under no name only if RemoveDevice has taken a
\* device of its EID away between the two lookups.
THEOREM NamelessOnly == PresetListed => (Spec => []NamelessOnlyIfRemoved)
<1> SUFFICES ASSUME PresetListed PROVE Spec => []NamelessOnlyIfRemoved
  OBVIOUS
<1>1. Init => Grounded
  BY DEF Init, Grounded, Entries, NamelessOnlyIfRemoved, PresetListed
<1>2. Grounded => NamelessOnlyIfRemoved
  BY DEF Grounded
<1>3. IInv /\ Grounded /\ [Next]_vars => Grounded'
  <2> SUFFICES ASSUME TypeOK, Callbacks, Mapped, Grounded, [Next]_vars PROVE Grounded'
    BY DEF IInv
  <2>1. Entries'
    BY StepEntries DEF Grounded
  <2>2. NamelessOnlyIfRemoved'
    BY StepNameless
  <2>3. parser' \notin {NoFrame, Printing} =>
          (\/ RemovedMeanwhile(parser.eid)
           \/ mapping[parser.eid] # None
           \/ start = "mapping" /\ WillMap(parser.eid))'
    BY StepFrame
  <2> QED BY <2>1, <2>2, <2>3 DEF Grounded, RemovedMeanwhile, WillMap, KeepsEid, NoFrame, Printing
<1> QED BY <1>1, <1>2, <1>3, Invariance, PTL DEF Spec
=============================================================================
