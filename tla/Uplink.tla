------------------------------- MODULE Uplink -------------------------------
(***************************************************************************)
(* The way of a sensor frame from MQTT to EdgeX:                           *)
(*   mqttclient.sinkMsgHandler  -- SinkRawDataCh -->                       *)
(*   frameparser.StartParser    -- asyncCh -->      the SDK,               *)
(* with its side effects: the data status replies sent back at once, and   *)
(* the calibration command that goes to WriteChan.                         *)
(*                                                                         *)
(* A message is what the code tells apart about it; its number is its      *)
(* place in arrived.                                                       *)
(***************************************************************************)
EXTENDS Integers, Sequences

CONSTANTS
  Messages,      \* the messages the sink may publish, a subset of Message
  MaxMessages,   \* bound on their number (TLC only)
  RawCap,        \* capacity of SinkRawDataCh  (128 in the code)
  AsyncCap,      \* capacity of asyncCh        (16 by configuration)
  WriteCap       \* capacity of WriteChan      (100 in the code)

\* What the parse loop makes of a parameter: a value of a type that is reported,
\* a value of another type, nothing (unknown type, parse error, nil), or a length
\* beyond the end of the frame.
Outcome == {"value", "internal", "nothing", "overrun"}

Message ==
  [decodable : BOOLEAN,                                \* JSON and hex are fine
   known     : BOOLEAN,         \* 9 bytes or more, of a sensor mapped when it is looked up
   sound     : BOOLEAN,                                          \* the CRC is right
   kind      : {"data", "control", "other", "fragment"},
   handler   : {"params", "plain", "cut", "calibrate", "none"},   \* of a control;
                                   \* "cut" also of a fragment: too short to index
   params    : Seq(Outcome)]

ASSUME MessagesAssumption == Messages \subseteq Message
ASSUME CapacityAssumption ==
  /\ MaxMessages \in Nat
  /\ RawCap \in Nat \ {0} /\ AsyncCap \in Nat \ {0} /\ WriteCap \in Nat \ {0}

VARIABLES
  up,            \* FALSE once the process has died of a panic
  arrived,       \* every message the sink has published
  rawCh,         \* SinkRawDataCh: numbers of messages
  pc, cur,       \* what the parser goroutine does, and to which message
  taken,         \* history: the frames taken from SinkRawDataCh
  gone,          \* the device of the frame in hand has been removed meanwhile
  values,        \* resourceValues of the frame in hand: pairs <<message, index>>
  Resources1,    \* what common_para_response found last
  ResourcesFlag,
  statuses,      \* the data status replies handed to the MQTT client
  asyncCh,       \* reports waiting for the SDK
  forwarded,     \* reports the SDK has taken
  writeCh,       \* WriteChan
  writeOpen      \* FALSE once Stop has closed WriteChan

vars == <<up, arrived, rawCh, pc, cur, taken, gone, values, Resources1, ResourcesFlag,
          statuses, asyncCh, forwarded, writeCh, writeOpen>>

Msg == arrived[cur]

\* Where reading the parameters stops: at the first length that is too large.
End(ps) ==
  LET Over == {i \in DOMAIN ps : ps[i] = "overrun"}
  IN  IF Over = {} THEN Len(ps) ELSE CHOOSE i \in Over : \A j \in Over : i <= j

\* The parameters of the frame in hand that leave a value.
Found(ps) == {<<cur, i>> : i \in {j \in DOMAIN ps : ps[j] # "nothing"}}

\* AsyncReporting skips the types it does not know.
Reportable(vs) == {v \in vs : arrived[v[1]].params[v[2]] # "internal"}

Report(vs) == [frame |-> cur, values |-> Reportable(vs)]

-----------------------------------------------------------------------------
Init ==
  /\ up = TRUE
  /\ arrived = <<>> /\ rawCh = <<>> /\ asyncCh = <<>> /\ writeCh = <<>>
  /\ pc = "idle" /\ cur = 0 /\ taken = {} /\ gone = FALSE
  /\ values = {} /\ Resources1 = {} /\ ResourcesFlag = FALSE
  /\ statuses = <<>> /\ forwarded = <<>>
  /\ writeOpen = TRUE

\* Mutant: the newest frame overtakes the ones that wait.
Put_overtakes(m) ==
  IF m.decodable /\ Len(rawCh) < RawCap
  THEN rawCh' = <<Len(arrived) + 1>> \o rawCh
  ELSE UNCHANGED rawCh

\* sinkMsgHandler: a message that does not decode is dropped; the type is only
\* logged; the put does not wait, a full channel drops the frame.
Put(m) ==
  IF m.decodable /\ Len(rawCh) < RawCap
  THEN rawCh' = Append(rawCh, Len(arrived) + 1)
  ELSE UNCHANGED rawCh

sinkMsgHandler(m) ==
  /\ up
  /\ Len(arrived) < MaxMessages
  /\ arrived' = Append(arrived, m)
  /\ Put(m)
  /\ UNCHANGED <<up, pc, cur, taken, gone, values, Resources1, ResourcesFlag,
                 statuses, asyncCh, forwarded, writeCh, writeOpen>>

-----------------------------------------------------------------------------
(* The parser goroutine, one frame at a time.                              *)

Take ==
  /\ up /\ pc = "idle" /\ rawCh # <<>>
  /\ cur' = Head(rawCh)
  /\ taken' = taken \cup {Head(rawCh)}
  /\ gone' = FALSE
  /\ rawCh' = Tail(rawCh)
  /\ pc' = "check"
  /\ values' = {}
  /\ UNCHANGED <<up, arrived, Resources1, ResourcesFlag,
                 statuses, asyncCh, forwarded, writeCh, writeOpen>>

\* Mutant: a frame with a wrong CRC is answered but not dropped.
Dispatch_badCRC(m) ==
  CASE ~m.known                         -> "idle"
    [] m.known /\ m.kind = "data"     -> "params"
    [] m.known /\ m.kind = "fragment" -> "fragment"
    [] m.known /\ m.kind = "control"  -> "control"
    [] m.known /\ m.kind = "other"    -> "idle"

\* Where the checks at the head of the loop send a frame.
Dispatch(m) ==
  CASE ~m.known \/ ~m.sound                         -> "idle"
    [] m.known /\ m.sound /\ m.kind = "data"     -> "params"
    [] m.known /\ m.sound /\ m.kind = "fragment" -> "fragment"
    [] m.known /\ m.sound /\ m.kind = "control"  -> "control"
    [] m.known /\ m.sound /\ m.kind = "other"    -> "idle"

\* Mutant: a data frame with a wrong CRC is dropped without an answer.
Check_silent ==
  /\ up /\ pc = "check"
  /\ pc' = IF Msg.known /\ Msg.sound /\ Msg.kind = "data" THEN "status" ELSE Dispatch(Msg)
  /\ UNCHANGED <<up, arrived, rawCh, cur, taken, gone, values, Resources1, ResourcesFlag,
                 statuses, asyncCh, forwarded, writeCh, writeOpen>>

\* Length, mapping and CRC.  A data frame is answered before its parameters are
\* looked at, whatever its CRC.
Check ==
  /\ up /\ pc = "check"
  /\ pc' = IF Msg.known /\ Msg.kind = "data" THEN "status" ELSE Dispatch(Msg)
  /\ UNCHANGED <<up, arrived, rawCh, cur, taken, gone, values, Resources1, ResourcesFlag,
                 statuses, asyncCh, forwarded, writeCh, writeOpen>>

\* The parser waits for the token of the publication, without a timeout: it goes on,
\* or it is stuck for good.
SendDataStatus ==
  /\ up /\ pc = "status"
  /\ statuses' = Append(statuses, [frame |-> cur, ok |-> Msg.sound])
  /\ pc' \in {Dispatch(Msg), "stuck"}
  /\ UNCHANGED <<up, arrived, rawCh, cur, taken, gone, values, Resources1, ResourcesFlag,
                 asyncCh, forwarded, writeCh, writeOpen>>

\* A fragment goes to ProcessFrame (module Reassembly), whose acknowledgement waits
\* for its token too, and then to the parameter loop like a data frame.
ProcessFrame ==
  /\ up /\ pc = "fragment" /\ Msg.handler # "cut"
  /\ pc' \in {"params", "stuck"}
  /\ UNCHANGED <<up, arrived, rawCh, cur, taken, gone, values, Resources1, ResourcesFlag,
                 statuses, asyncCh, forwarded, writeCh, writeOpen>>

\* The parameter loop.  Slicing past the end of the frame panics or, within the
\* capacity of the slice, makes a value (or not) of what lies behind the frame.
ParseParams ==
  /\ up /\ pc = "params"
  /\ LET n == End(Msg.params)
         over == n > 0 /\ Msg.params[n] = "overrun"
     IN  \E last \in (IF over THEN {n - 1, n} ELSE {n}) :
           values' = Found(SubSeq(Msg.params, 1, last))
  /\ pc' = "report"
  /\ UNCHANGED <<up, arrived, rawCh, cur, taken, gone, Resources1, ResourcesFlag,
                 statuses, asyncCh, forwarded, writeCh, writeOpen>>

\* handleFrameCtl for a parameter response: common_para_response makes
\* Resources1 anew and raises the flag.  It checks the length it reads, and its
\* bounds leave room for a CRC that has been cut off already, so the last
\* parameter is never read.  It looks the device up again for every value; what it
\* reads when the device has gone is dropped.
common_para_response ==
  /\ up /\ pc = "control" /\ Msg.handler = "params"
  /\ LET read == Found(SubSeq(Msg.params, 1, End(Msg.params) - 1))
     IN  Resources1' \in (IF gone THEN SUBSET read ELSE {read})
  /\ ResourcesFlag' = TRUE
  /\ pc' = "flag"
  /\ UNCHANGED <<up, arrived, rawCh, cur, taken, gone, values, statuses, asyncCh,
                 forwarded, writeCh, writeOpen>>

\* handleFrameCtl for a time or reset response, or one without a handler; a
\* calibration request finds no eid when the device has gone.
PlainControl ==
  /\ up /\ pc = "control"
  /\ Msg.handler \in {"plain", "none"} \/ (gone /\ Msg.handler = "calibrate")
  /\ pc' = "flag"
  /\ UNCHANGED <<up, arrived, rawCh, cur, taken, gone, values, Resources1, ResourcesFlag,
                 statuses, asyncCh, forwarded, writeCh, writeOpen>>

\* handleFrameCtl for a calibration request: resetCommands sends a frame to
\* WriteChan, and waits for room there.
resetCommands ==
  /\ up /\ pc = "control" /\ Msg.handler = "calibrate"
  /\ writeOpen
  /\ Len(writeCh) < WriteCap
  /\ writeCh' = Append(writeCh, cur)
  /\ pc' = "flag"
  /\ UNCHANGED <<up, arrived, rawCh, cur, taken, gone, values, Resources1, ResourcesFlag,
                 statuses, asyncCh, forwarded, writeOpen>>

\* A response or fragment cut short is indexed without a check; a parameter or
\* its length field runs past the slice; a send meets a closed channel.
Panic ==
  /\ up
  /\ \/ pc \in {"control", "fragment"} /\ Msg.handler = "cut"
     \/ /\ pc = "params" \/ (pc = "control" /\ Msg.handler = "params")
        /\ \E i \in DOMAIN Msg.params : Msg.params[i] = "overrun"
     \/ pc = "control" /\ Msg.handler = "calibrate" /\ ~writeOpen
  /\ up' = FALSE
  /\ UNCHANGED <<arrived, rawCh, pc, cur, taken, gone, values, Resources1, ResourcesFlag,
                 statuses, asyncCh, forwarded, writeCh, writeOpen>>

\* Mutant: a full asyncCh drops the report.
AsyncReporting_drops(vs) ==
  IF Reportable(vs) = {} \/ Len(asyncCh) = AsyncCap
  THEN UNCHANGED asyncCh
  ELSE asyncCh' = Append(asyncCh, Report(vs))

\* AsyncReporting: nothing reportable is skipped, the rest waits for room.
AsyncReporting(vs) ==
  IF Reportable(vs) = {}
  THEN UNCHANGED asyncCh
  ELSE /\ Len(asyncCh) < AsyncCap
       /\ asyncCh' = Append(asyncCh, Report(vs))

\* Mutant: the flag is not lowered after the report.
ReportControl_flagStays ==
  /\ up /\ pc = "flag"
  /\ IF ResourcesFlag THEN AsyncReporting(Resources1) ELSE UNCHANGED asyncCh
  /\ pc' = "idle"
  /\ UNCHANGED <<up, arrived, rawCh, cur, taken, gone, values, Resources1, ResourcesFlag,
                 statuses, forwarded, writeCh, writeOpen>>

\* After a control frame: report Resources1 if the flag is up, and lower it.
ReportControl ==
  /\ up /\ pc = "flag"
  /\ IF ResourcesFlag THEN AsyncReporting(Resources1) ELSE UNCHANGED asyncCh
  /\ ResourcesFlag' = FALSE
  /\ pc' = "idle"
  /\ UNCHANGED <<up, arrived, rawCh, cur, taken, gone, values, Resources1, statuses,
                 forwarded, writeCh, writeOpen>>

\* After the parameter loop.
ReportParams ==
  /\ up /\ pc = "report"
  /\ AsyncReporting(values)
  /\ pc' = "idle"
  /\ UNCHANGED <<up, arrived, rawCh, cur, taken, gone, values, Resources1, ResourcesFlag,
                 statuses, forwarded, writeCh, writeOpen>>

-----------------------------------------------------------------------------
\* The SDK's reader of asyncCh.
Consume ==
  /\ up /\ asyncCh # <<>>
  /\ forwarded' = Append(forwarded, Head(asyncCh))
  /\ asyncCh' = Tail(asyncCh)
  /\ UNCHANGED <<up, arrived, rawCh, pc, cur, taken, gone, values, Resources1, ResourcesFlag,
                 statuses, writeCh, writeOpen>>

\* Stop closes WriteChan; the goroutines go on.
Stop ==
  /\ up /\ writeOpen
  /\ writeOpen' = FALSE
  /\ UNCHANGED <<up, arrived, rawCh, pc, cur, taken, gone, values, Resources1, ResourcesFlag,
                 statuses, asyncCh, forwarded, writeCh>>

\* EdgeX removes the device of the control frame in hand, after its lookup at the
\* head of the loop.
RemoveDevice ==
  /\ up /\ pc = "control" /\ ~gone
  /\ gone' = TRUE
  /\ UNCHANGED <<up, arrived, rawCh, pc, cur, taken, values, Resources1, ResourcesFlag,
                 statuses, asyncCh, forwarded, writeCh, writeOpen>>

-----------------------------------------------------------------------------
Parser ==
  Take \/ Check \/ SendDataStatus \/ ProcessFrame \/ ParseParams
       \/ common_para_response \/ PlainControl \/ resetCommands
       \/ ReportControl \/ ReportParams \/ Panic

Next ==
  (\E m \in Messages : sinkMsgHandler(m)) \/ Parser \/ Consume \/ RemoveDevice \/ Stop

Spec == Init /\ [][Next]_vars

\* The goroutines run whenever they can.  A step that publishes may leave the parser
\* stuck: that a publication returns is not assumed.
FairSpec == Spec /\ WF_vars(Parser) /\ WF_vars(Consume)
=============================================================================
