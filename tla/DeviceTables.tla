---------------------------- MODULE DeviceTables ----------------------------
(***************************************************************************)
(* The two tables the goroutines share: ValuesMap (device -> resources),   *)
(* guarded by Mu, and SensorIDToDeviceName (EID -> device), guarded by mu1. *)
(*                                                                         *)
(* Who uses them:                                                          *)
(*   - Start: InitDeviceResources, StartParser, UpdateSensorMapping;       *)
(*   - the SDK's callback goroutine: AddDevice, UpdateDevice, RemoveDevice, *)
(*     one at a time, also while Start runs;                               *)
(*   - the parser goroutine: LookupDeviceName, then SetDeviceValue; the    *)
(*     handler of a response looks the name up again.                      *)
(* A section under Mu or mu1 is one step.  Three functions use a table     *)
(* without its lock: UpdateSensorMapping reads ValuesMap,                  *)
(* DeleteSensorIDMappingsByDevice reads and writes the mapping, and the    *)
(* parser prints the mapping when it does not find an EID in it.  The Go   *)
(* runtime may kill the process when it notices such an access.            *)
(***************************************************************************)
EXTENDS Integers, Sequences, Functions

CONSTANTS
  Devices, Eids,
  Profile,        \* per device, the resources of its profile, in order
  EidOf,          \* per device, the default value of its eid resource
  Listed,         \* the devices of devices.yaml
  Preset,         \* the mapping the program text starts with
  MaxCallbacks,   \* bound on the number of SDK callbacks (TLC only)
  None

\* The resource the parser sets for every frame, and one it sets from the frame.
Stamp == "lastDataTimestamp"
Param == "parameter"

Resources == {Stamp, Param} \cup UNION {Range(Profile[d]) : d \in Devices}

ASSUME ProfileAssumption ==
  /\ Profile \in [Devices -> Seq(STRING)]
  /\ EidOf \in [Devices -> Eids]
  /\ Listed \subseteq Devices
  /\ Preset \in [Eids -> Devices \cup {None}]
  /\ None \notin Devices \cup Eids /\ \A S \in SUBSET Resources : S # None
  /\ MaxCallbacks \in Nat

VARIABLES
  up,        \* FALSE once the runtime has seen a concurrent map access
  ValuesMap, \* per device, the set of its resources, or None
  mapping,   \* SensorIDToDeviceName
  start,     \* how far Start has come
  owed,      \* the entries UpdateSensorMapping is bound to visit
  seen,      \* the entries it has visited
  found,     \* the device whose eid UpdateSensorMapping has read, or None
  cb,        \* the callback in progress: operation, device, steps done
  calls,     \* callbacks begun so far
  status,    \* per device: "in" or "out" of metadata; after RemoveDevice, whether
             \* it "failed", or began "early" (before Start had ended) or "clean"
  parser,    \* the device of the frame in hand and what is still to be set
  nameless,  \* the EID of the last frame, if its response went to the device of no name
  deleted    \* the devices RemoveDevice has taken off the mapping since the last lookup

vars == <<up, ValuesMap, mapping, start, owed, seen, found, cb, calls, status, parser, nameless, deleted>>

Idle == [op |-> "none", dev |-> None, step |-> 0, early |-> FALSE]
NoFrame == [dev |-> None, eid |-> None, todo |-> <<>>]

\* A frame whose EID is not in the mapping: the mapping is printed.
Printing == [NoFrame EXCEPT !.todo = <<"print">>]

Init ==
  /\ up = TRUE
  /\ ValuesMap = [d \in Devices |-> None]
  /\ mapping = Preset
  /\ start = "init" /\ owed = {} /\ seen = {} /\ found = None
  /\ cb = Idle /\ calls = 0
  /\ status = [d \in Devices |-> IF d \in Listed THEN "in" ELSE "out"]
  /\ parser = NoFrame /\ nameless = None /\ deleted = {}

\* DeviceInit and SetDeviceValue: create the device's entry if there is none.
SetDeviceValue(d, r) ==
  ValuesMap' = [ValuesMap EXCEPT ![d] = (IF @ = None THEN {} ELSE @) \cup {r}]

-----------------------------------------------------------------------------
(* Start.                                                                  *)

InitDeviceResources ==
  /\ up /\ start = "init"
  /\ ValuesMap' = [d \in Devices |-> IF d \in Listed THEN Range(Profile[d])
                                     ELSE ValuesMap[d]]
  /\ start' = "parsing"
  /\ UNCHANGED <<up, mapping, owed, seen, found, cb, calls, status, parser, nameless, deleted>>

\* UpdateSensorMapping takes mu1 and empties the mapping, ...
ClearMapping ==
  /\ up /\ start = "parsing"
  /\ mapping' = [e \in Eids |-> None]
  /\ start' = "mapping"
  /\ owed' = {d \in Devices : ValuesMap[d] # None}
  /\ UNCHANGED <<up, ValuesMap, seen, found, cb, calls, status, parser, nameless, deleted>>

\* ... ranges over ValuesMap, without Mu, reading each device's "eid" (an entry
\* that appears meanwhile may be visited or not), ...
ReadEid(d) ==
  /\ up /\ start = "mapping" /\ found = None
  /\ d \notin seen
  /\ ValuesMap[d] # None
  /\ seen' = seen \cup {d}
  /\ found' = IF "eid" \in ValuesMap[d] THEN d ELSE None
  /\ UNCHANGED <<up, ValuesMap, mapping, start, owed, cb, calls, status, parser, nameless, deleted>>

\* ... and writes the mapping; ...
WriteMapping ==
  /\ up /\ start = "mapping" /\ found # None
  /\ mapping' = [mapping EXCEPT ![EidOf[found]] = found]
  /\ found' = None
  /\ UNCHANGED <<up, ValuesMap, start, owed, seen, cb, calls, status, parser, nameless, deleted>>

\* Mutant: the loop ends at the first device without an eid.
UnlockMapping_break ==
  /\ up /\ start = "mapping" /\ found = None
  /\ owed \subseteq seen \/ \E d \in seen : "eid" \notin Range(Profile[d])
  /\ start' = "done"
  /\ UNCHANGED <<up, ValuesMap, mapping, owed, seen, found, cb, calls, status, parser, nameless, deleted>>

\* ... it releases mu1 when every entry has been visited.
UnlockMapping ==
  /\ up /\ start = "mapping" /\ found = None
  /\ owed \subseteq seen
  /\ start' = "done"
  /\ UNCHANGED <<up, ValuesMap, mapping, owed, seen, found, cb, calls, status, parser, nameless, deleted>>

-----------------------------------------------------------------------------
(* The SDK's callback goroutine.                                           *)

\* Metadata announces a device that is new or changed ("init"), or removes one.
Begin(op, d) ==
  /\ up /\ cb = Idle
  /\ calls < MaxCallbacks
  /\ op = "remove" => status[d] = "in"
  /\ cb' = [op |-> op, dev |-> d, step |-> 0, early |-> start # "done"]
  /\ calls' = calls + 1
  /\ status' = [status EXCEPT ![d] = IF op = "init" THEN "in" ELSE "out"]
  /\ UNCHANGED <<up, ValuesMap, mapping, start, owed, seen, found, parser, nameless, deleted>>

\* AddDevice and UpdateDevice: DeviceInit for one resource after the other.
DeviceInit ==
  /\ up /\ cb.op = "init"
  /\ IF cb.step < Len(Profile[cb.dev])
     THEN /\ SetDeviceValue(cb.dev, Profile[cb.dev][cb.step + 1])
          /\ cb' = [cb EXCEPT !.step = @ + 1]
     ELSE cb' = Idle /\ UNCHANGED ValuesMap
  /\ UNCHANGED <<up, mapping, start, owed, seen, found, calls, status, parser, nameless, deleted>>

\* Mutant: the values stay.
DeleteDeviceValues_keeps ==
  /\ up /\ cb.op = "remove" /\ cb.step = 0
  /\ cb' = [cb EXCEPT !.step = 1]
  /\ UNCHANGED <<up, ValuesMap, mapping, start, owed, seen, found, calls, status, parser, nameless, deleted>>

\* RemoveDevice deletes the values; without any it returns an error at once, ...
DeleteDeviceValues ==
  /\ up /\ cb.op = "remove" /\ cb.step = 0
  /\ IF ValuesMap[cb.dev] = None
     THEN /\ cb' = Idle
          /\ status' = [status EXCEPT ![cb.dev] = "failed"]
     ELSE /\ cb' = [cb EXCEPT !.step = 1]
          /\ UNCHANGED status
  /\ ValuesMap' = [ValuesMap EXCEPT ![cb.dev] = None]
  /\ owed' = owed \ {cb.dev}
  /\ UNCHANGED <<up, mapping, start, seen, found, calls, parser, nameless, deleted>>

\* Mutant: the mapping entry stays when a frame of the device is in hand.
DeleteSensorIDMappings_busy ==
  /\ up /\ cb.op = "remove" /\ cb.step = 1
  /\ mapping' = [e \in Eids |-> IF mapping[e] = cb.dev /\ parser.dev # cb.dev
                                THEN None ELSE mapping[e]]
  /\ status' = [status EXCEPT ![cb.dev] = IF cb.early THEN "early" ELSE "clean"]
  /\ cb' = Idle
  /\ deleted' = deleted \cup {cb.dev}
  /\ UNCHANGED <<up, ValuesMap, start, owed, seen, found, calls, parser, nameless>>

\* ... then, without mu1, deletes the mapping entries of the device.
DeleteSensorIDMappingsByDevice ==
  /\ up /\ cb.op = "remove" /\ cb.step = 1
  /\ mapping' = [e \in Eids |-> IF mapping[e] = cb.dev THEN None ELSE mapping[e]]
  /\ status' = [status EXCEPT ![cb.dev] = IF cb.early THEN "early" ELSE "clean"]
  /\ cb' = Idle
  /\ deleted' = deleted \cup {cb.dev}
  /\ UNCHANGED <<up, ValuesMap, start, owed, seen, found, calls, parser, nameless>>

-----------------------------------------------------------------------------
(* The parser goroutine.                                                   *)

\* What a frame makes the parser do: set the parameter of a report, or look the name
\* up once more for the values of a response.
Frames == {<<Stamp, Param>>, <<Stamp, "response">>}

\* Mutant: a frame is taken without a look at whether its EID was found.
LookupDeviceName_unchecked(e) ==
  /\ up /\ start \in {"parsing", "done"}
  /\ parser = NoFrame
  /\ \E todo \in Frames : parser' = [dev |-> mapping[e], eid |-> e, todo |-> todo]
  /\ nameless' = None /\ deleted' = {}
  /\ UNCHANGED <<up, ValuesMap, mapping, start, owed, seen, found, cb, calls, status>>

\* LookupDeviceName waits while UpdateSensorMapping holds mu1.
LookupDeviceName(e) ==
  /\ up /\ start \in {"parsing", "done"}
  /\ parser = NoFrame
  /\ IF mapping[e] = None THEN parser' = Printing
     ELSE \E todo \in Frames : parser' = [dev |-> mapping[e], eid |-> e, todo |-> todo]
  /\ nameless' = None /\ deleted' = {}
  /\ UNCHANGED <<up, ValuesMap, mapping, start, owed, seen, found, cb, calls, status>>

PrintMapping ==
  /\ up /\ parser = Printing
  /\ parser' = NoFrame
  /\ UNCHANGED <<up, ValuesMap, mapping, start, owed, seen, found, cb, calls, status, nameless, deleted>>

Todo(r) == parser # NoFrame /\ Head(parser.todo) = r
Rest == IF Len(parser.todo) = 1 THEN NoFrame ELSE [parser EXCEPT !.todo = Tail(@)]

\* onDataReceived, then the frame's parameter; the device may be gone by now.
StoreValue ==
  /\ up /\ (Todo(Stamp) \/ Todo(Param))
  /\ SetDeviceValue(parser.dev, Head(parser.todo))
  /\ parser' = Rest
  /\ UNCHANGED <<up, mapping, start, owed, seen, found, cb, calls, status, nameless, deleted>>

\* Mutant: the second lookup does not wait for the new mapping.
StoreResponse_early ==
  /\ up /\ Todo("response")
  /\ LET d == mapping[parser.eid]
     IN  IF d = None
         THEN nameless' = parser.eid /\ UNCHANGED ValuesMap
         ELSE SetDeviceValue(d, Param) /\ UNCHANGED nameless
  /\ parser' = Rest
  /\ UNCHANGED <<up, mapping, start, owed, seen, found, cb, calls, status, deleted>>

\* timestamp_response and reset_response: the second lookup may find another device, or
\* none; then the value goes to the device of no name.
StoreResponse ==
  /\ up /\ Todo("response") /\ start # "mapping"
  /\ LET d == mapping[parser.eid]
     IN  IF d = None
         THEN nameless' = parser.eid /\ UNCHANGED ValuesMap
         ELSE SetDeviceValue(d, Param) /\ UNCHANGED nameless
  /\ parser' = Rest
  /\ UNCHANGED <<up, mapping, start, owed, seen, found, cb, calls, status, deleted>>

-----------------------------------------------------------------------------
(* What each goroutine is about to do to the tables, under which lock.     *)

Access(map, write, lock) == [map |-> map, write |-> write, lock |-> lock]

StartAccesses ==
  CASE start = "init"    -> {Access("values", TRUE, "Mu")}
    [] start = "parsing" -> {Access("mapping", TRUE, "mu1")}
    [] start = "mapping" -> {Access("values", FALSE, "mu1"), Access("mapping", TRUE, "mu1")}
    [] start = "done"    -> {}

CallbackAccesses ==
  CASE cb.op = "none"   -> {}
    [] cb.op = "init"   -> {Access("values", TRUE, "Mu")}
    [] cb.op = "remove" -> {IF cb.step = 0 THEN Access("values", TRUE, "Mu")
                            ELSE Access("mapping", TRUE, "none")}

\* Mutant: the parser's values are set without Mu.
ParserAccesses_unlocked ==
  IF start = "init" THEN {}
  ELSE IF parser = NoFrame THEN {Access("mapping", FALSE, "mu1")}
  ELSE IF parser = Printing THEN {Access("mapping", FALSE, "none")}
  ELSE {Access("values", TRUE, "none")}

\* The parser waits for mu1 where it needs it.
ParserAccesses ==
  IF start = "init" THEN {}
  ELSE IF parser = NoFrame \/ Todo("response") THEN {Access("mapping", FALSE, "mu1")}
  ELSE IF parser = Printing THEN {Access("mapping", FALSE, "none")}
  ELSE {Access("values", TRUE, "Mu")}

Race(A, B) ==
  \E a \in A, b \in B :
    /\ a.map = b.map /\ (a.write \/ b.write)
    /\ a.lock # b.lock \/ a.lock = "none"

\* The runtime stops the process if it notices.
ConcurrentMapAccess ==
  /\ up
  /\ \/ Race(StartAccesses, CallbackAccesses) \/ Race(StartAccesses, ParserAccesses)
     \/ Race(CallbackAccesses, ParserAccesses)
  /\ up' = FALSE
  /\ UNCHANGED <<ValuesMap, mapping, start, owed, seen, found, cb, calls, status, parser, nameless, deleted>>

Next ==
  \/ InitDeviceResources \/ ClearMapping \/ WriteMapping \/ UnlockMapping
  \/ \E d \in Devices : ReadEid(d)
  \/ \E op \in {"init", "remove"}, d \in Devices : Begin(op, d)
  \/ DeviceInit \/ DeleteDeviceValues \/ DeleteSensorIDMappingsByDevice
  \/ \E e \in Eids : LookupDeviceName(e)
  \/ StoreValue \/ StoreResponse \/ PrintMapping
  \/ ConcurrentMapAccess

Spec == Init /\ [][Next]_vars
=============================================================================
