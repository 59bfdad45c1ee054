------------------------------ MODULE Readings ------------------------------
(***************************************************************************)
(* The run-time values of the devices, and who uses them: the parser       *)
(* stores the values of frames, the SDK's callbacks store default values   *)
(* and delete devices, the health check looks for silent devices, and      *)
(* HandleReadCommands answers the read requests, with values of the types  *)
(* that the profile declares.  Mu is held for one access at a time: each   *)
(* is one step.                                                            *)
(***************************************************************************)
EXTENDS Coerce, Sequences, FiniteSets, Functions

CONSTANTS
  Devices,       \* those of devices.yaml that have an eid
  Profiles,      \* sequences of resources: name, type, default
  Updates,       \* those that metadata may bring later
  Reports,       \* what a frame brings: sequences of name and value
  Requests,      \* sequences of names, asked for together
  None,
  MaxTime, MaxCallbacks   \* bounds (TLC only)

\* The lists of the profiles; a state is of type Uint8 and 0 by default, in each that
\* has one.
ASSUME ProfileAssumption ==
  \A p \in Profiles \cup Updates :
    /\ p # <<>> /\ p \in Seq(Range(p))
    /\ \A r \in Range(p) :
         /\ r.default \in Texts
         /\ r.name = "state" => parseDefaultValue(r.default, r.type) = V("uint8", 0)

\* The names of the parameter types: none is that of a state, a period or a
\* time stamp; and what their eight readers return.  None stands for no device.
ASSUME ReportAssumption ==
  /\ \A report \in Reports :
       /\ report \in Seq(Range(report))
       /\ \A q \in Range(report) :
            /\ q.name \notin {"state", "period", "lastDataTimestamp"}
            /\ q.value.go \in {"float32", "uint8", "uint16", "uint32", "int16", "[]float32", "[]uint16", "[]node"}
            /\ q.value \in ValuesOf(q.value.go)
  /\ \A names \in Requests : names \in Seq(Range(names))
  /\ None \notin Devices
\* The clock is an int64.
ASSUME TimeAssumption == MaxTime \in 0..Half[64] - 1

VARIABLES
  now,        \* the clock
  profile,    \* of each device
  ValuesMap,  \* device -> resource -> value
  TopoList,   \* the latest topology, of whatever device
  mapped,     \* the devices that frames are taken for
  cb, calls,  \* the SDK's callback in progress, and how many have begun
  parser,     \* the frame in hand
  check,      \* the health check
  request,    \* the read request in progress
  written     \* history: ValuesMap with the frames' times for their values

tables == <<profile, ValuesMap, TopoList, mapped, written>>
vars == <<now, tables, cb, calls, parser, check, request>>

NoCallback == [op |-> "none", dev |-> None, todo |-> <<>>]
NoFrame == [dev |-> None, at |-> 0, todo |-> <<>>]
NoCheck == [now |-> 0, todo |-> {}, dev |-> None, stamp |-> Error, period |-> Error]
NoRequest == [dev |-> None, state |-> "none", reqs |-> <<>>, values |-> <<>>, written |-> <<>>,
              answer |-> <<>>]

Defaults(p) == [r \in {p[i].name : i \in DOMAIN p} |->
                  LET d == CHOOSE d \in Range(p) : d.name = r
                  IN  parseDefaultValue(d.default, d.type)]

\* Start is done: InitDeviceResources has filled the table.
Init ==
  /\ now = 0
  /\ \E p \in Profiles :
       /\ profile = [d \in Devices |-> p]
       /\ ValuesMap = [d \in Devices |-> Defaults(p)]
  /\ TopoList = 0
  /\ mapped = Devices
  /\ cb = NoCallback /\ calls = 0
  /\ parser = NoFrame /\ check = NoCheck /\ request = NoRequest
  /\ written = [d \in Devices |-> [r \in DOMAIN ValuesMap[d] |-> 0]]

\* f with x for r.
With(f, r, x) == [s \in DOMAIN f \cup {r} |-> IF s = r THEN x ELSE f[s]]

\* Mutant: the device's map is always made anew.
Store_anew(d, r, v, time) ==
  /\ ValuesMap' = With(ValuesMap, d, With(<<>>, r, v))
  /\ written' = With(written, d, With(<<>>, r, time))

\* SetDeviceValue and DeviceInit: the device's map is made anew if it has none.
Store(d, r, v, time) ==
  LET Of(m) == IF d \in DOMAIN m THEN m[d] ELSE <<>>
  IN  /\ ValuesMap' = With(ValuesMap, d, With(Of(ValuesMap), r, v))
      /\ written' = With(written, d, With(Of(written), r, time))

-----------------------------------------------------------------------------
(* The SDK's callbacks.                                                    *)

\* AddDevice or UpdateDevice, maybe with another profile.
AddDevice(d) ==
  /\ cb = NoCallback /\ calls < MaxCallbacks
  /\ \E p \in Updates :
       /\ profile' = [profile EXCEPT ![d] = p]
       /\ cb' = [op |-> "init", dev |-> d, todo |-> p]
  /\ calls' = calls + 1
  /\ UNCHANGED <<now, ValuesMap, TopoList, mapped, written, parser, check, request>>

DeviceInit ==
  /\ cb.op = "init"
  /\ LET r == Head(cb.todo)
     IN  Store(cb.dev, r.name, parseDefaultValue(r.default, r.type), 0)
  /\ cb' = IF Len(cb.todo) = 1 THEN NoCallback ELSE [cb EXCEPT !.todo = Tail(@)]
  /\ UNCHANGED <<now, profile, TopoList, mapped, calls, parser, check, request>>

\* The SDK forgets the device; the values go, then the mapping; without values, an
\* error and no more.
RemoveDevice(d) ==
  /\ cb = NoCallback /\ calls < MaxCallbacks /\ profile[d] # <<>>
  /\ profile' = [profile EXCEPT ![d] = <<>>]
  /\ calls' = calls + 1
  /\ cb' = IF d \in DOMAIN ValuesMap THEN [NoCallback EXCEPT !.op = "remove", !.dev = d] ELSE cb
  /\ ValuesMap' = [e \in DOMAIN ValuesMap \ {d} |-> ValuesMap[e]]
  /\ written' = [e \in DOMAIN written \ {d} |-> written[e]]
  /\ UNCHANGED <<now, TopoList, mapped, parser, check, request>>

DeleteMapping ==
  /\ cb.op = "remove"
  /\ mapped' = mapped \ {cb.dev}
  /\ cb' = NoCallback
  /\ UNCHANGED <<now, profile, ValuesMap, TopoList, written, calls, parser, check, request>>

-----------------------------------------------------------------------------
(* The parser.                                                             *)

\* A frame is looked up; each is later than the one before.
LookupDeviceName(d) ==
  /\ parser = NoFrame /\ d \in mapped /\ now < MaxTime
  /\ now' = now + 1
  /\ \E report \in Reports : parser' = [dev |-> d, at |-> 0, todo |-> report]
  /\ UNCHANGED <<tables, cb, calls, check, request>>

\* The time stamp comes before any check of the frame: of a frame that fails, or
\* brings nothing, it is all that is stored.
onDataReceived ==
  /\ parser.dev # None /\ parser.at = 0
  /\ Store(parser.dev, "lastDataTimestamp", V("int64", now), now)
  /\ parser' = IF parser.todo = <<>> THEN NoFrame ELSE [parser EXCEPT !.at = now]
  /\ UNCHANGED <<now, profile, TopoList, mapped, cb, calls, check, request>>

Pending == parser.at # 0 /\ parser.todo # <<>>

\* The list of all the nodes, before the value of the device.
parseTopo ==
  /\ Pending /\ Head(parser.todo).value.go = "[]node" /\ TopoList # parser.at
  /\ TopoList' = parser.at
  /\ UNCHANGED <<now, profile, ValuesMap, mapped, written, cb, calls, parser, check, request>>

SetDeviceValue ==
  /\ Pending /\ (Head(parser.todo).value.go = "[]node" => TopoList = parser.at)
  /\ Store(parser.dev, Head(parser.todo).name, Head(parser.todo).value, parser.at)
  /\ parser' = IF Len(parser.todo) = 1 THEN NoFrame ELSE [parser EXCEPT !.todo = Tail(@)]
  /\ UNCHANGED <<now, profile, TopoList, mapped, cb, calls, check, request>>

-----------------------------------------------------------------------------
(* The health check, once a second.                                        *)

\* A second has passed: the names are copied.
Tick ==
  /\ check.todo = {} /\ check.dev = None /\ now < MaxTime
  /\ now' = now + 1
  /\ check' = [NoCheck EXCEPT !.now = now', !.todo = DOMAIN ValuesMap]
  /\ UNCHANGED <<tables, cb, calls, parser, request>>

\* On to the next device, or the end of the round.
NextDevice(todo) == IF todo = {} THEN NoCheck ELSE [NoCheck EXCEPT !.now = check.now, !.todo = todo]

\* The two values it needs of a device, in one step: who writes one of them does not
\* write the other, and a removal between the two is the same as one before them.
ReadValues(d) ==
  LET Has(r) == d \in DOMAIN ValuesMap /\ r \in DOMAIN ValuesMap[d]
  IN  /\ check.dev = None /\ d \in check.todo
      /\ check' = IF Has("lastDataTimestamp") /\ Has("period")
                  THEN [check EXCEPT !.todo = @ \ {d}, !.dev = d, !.stamp = ValuesMap[d]["lastDataTimestamp"],
                                     !.period = ValuesMap[d]["period"]]
                  ELSE NextDevice(check.todo \ {d})
  /\ UNCHANGED <<now, tables, cb, calls, parser, request>>

\* Only of an int64 and an uint32: state 1 after more than two periods of silence.  The
\* device may be gone by now.
WriteState ==
  /\ check.dev # None
  /\ IF check.stamp.go = "int64" /\ check.period.go = "uint32"
     THEN Store(check.dev, "state",
                V("uint8", IF check.now - check.stamp.n > 2 * check.period.n THEN 1 ELSE 0), check.now)
     ELSE UNCHANGED <<ValuesMap, written>>
  /\ check' = NextDevice(check.todo)
  /\ UNCHANGED <<now, profile, TopoList, mapped, cb, calls, parser, request>>

-----------------------------------------------------------------------------
(* HandleReadCommands, one at a time.                                      *)

\* The SDK calls with resources of the profile and their types.
Call(d) ==
  /\ request = NoRequest
  /\ \E names \in Requests :
       /\ Range(names) \subseteq {r.name : r \in Range(profile[d])}
       /\ LET Resource(n) == CHOOSE r \in Range(profile[d]) : r.name = n
          IN  request' = [NoRequest EXCEPT !.dev = d, !.state = "called",
                            !.reqs = [i \in DOMAIN names |-> Resource(names[i])]]
  /\ UNCHANGED <<now, tables, cb, calls, parser, check>>

\* A copy of all the values of the device.
GetDeviceValues ==
  /\ request.state = "called"
  /\ request' = IF request.dev \in DOMAIN ValuesMap
                THEN [request EXCEPT !.state = "reading", !.values = ValuesMap[request.dev],
                                     !.written = written[request.dev]]
                ELSE [request EXCEPT !.state = "failed"]
  /\ UNCHANGED <<now, tables, cb, calls, parser, check>>

\* Mutant: the map itself is read, not a copy of it.
Copied_live(name) ==
  IF request.dev \in DOMAIN ValuesMap /\ name \in DOMAIN ValuesMap[request.dev]
  THEN {[value |-> ValuesMap[request.dev][name], at |-> written[request.dev][name]]} ELSE {}

\* The value of a resource and the time it was written, or none.
Copied(name) ==
  IF name \in DOMAIN request.values
  THEN {[value |-> request.values[name], at |-> request.written[name]]} ELSE {}

\* The next resource that is asked for: what it is answered from, and what with.  The
\* topology is the list of all nodes, whatever the device.
Asked == request.reqs[Len(request.answer) + 1]
Answers ==
  IF Asked.name = "topologyDiagram"
  THEN {[from |-> V("[]node", 0), at |-> TopoList, reading |-> V("map", TopoList)]}
  ELSE UNION {{[from |-> c.value, at |-> c.at, reading |-> r] : r \in coerceTo(c.value, Asked.type)} :
                c \in Copied(Asked.name)}

\* One resource after the other; one that cannot be answered fails the request.
HandleReadCommands ==
  /\ request.state = "reading" /\ Len(request.answer) < Len(request.reqs)
  /\ \/ /\ Answers = {} \/ \E a \in Answers : a.reading = Error
        /\ request' = [request EXCEPT !.state = "failed"]
     \/ \E a \in Answers :
          /\ a.reading # Error
          /\ request' = [request EXCEPT !.answer = Append(@, a)]
  /\ UNCHANGED <<now, tables, cb, calls, parser, check>>

Return ==
  /\ request.state = "failed" \/ (request.state = "reading" /\ Len(request.answer) = Len(request.reqs))
  /\ request' = NoRequest
  /\ UNCHANGED <<now, tables, cb, calls, parser, check>>

Next ==
  \/ \E d \in Devices : AddDevice(d) \/ RemoveDevice(d) \/ LookupDeviceName(d)
  \/ DeviceInit \/ DeleteMapping
  \/ onDataReceived \/ parseTopo \/ SetDeviceValue
  \/ Tick \/ WriteState
  \/ \E d \in Devices : ReadValues(d) \/ Call(d)
  \/ GetDeviceValues \/ HandleReadCommands \/ Return

Spec == Init /\ [][Next]_vars
=============================================================================
