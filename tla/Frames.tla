------------------------------- MODULE Frames --------------------------------
(***************************************************************************)
(* A frame on its way: the service asks, the sink answers, or a sensor     *)
(* reports of itself; the link may damage a byte; StartParser checks the   *)
(* frame and reads its parameters, one per iteration of the loop (its own  *)
(* one, or that of common_para_response).                                  *)
(***************************************************************************)
EXTENDS Codec

CONSTANTS
  Ids,        \* the six-byte ids that are mapped to a device
  Reports,    \* what the sensors say: entries, how many, and the bytes missing at the end
  TimeStamp,  \* four bytes
  Damages     \* how much a damaged byte differs

ASSUME IdsAreIds == \A id \in Ids : id \in Seq(Byte) /\ Len(id) = 6
ASSUME TimeIsFourBytes == TimeStamp \in Seq(Byte) /\ Len(TimeStamp) = 4
ASSUME DamageChanges == Damages \subseteq 1..255

VARIABLES
  pc,       \* where the frame is, or how it ended
  wire,     \* its bytes
  origin,   \* what the sender meant: request, entries, their count, missing bytes
  damaged,  \* the link has changed a byte
  reply,    \* the data status or command that answers it; empty: none
  reader,   \* whose loop reads it
  data, count, idx, parsed,   \* the loop: bytes, DataLen, position, parameters so far
  found     \* the values stored, in order

loop == <<reader, data, count, idx, parsed, found>>
vars == <<pc, wire, origin, damaged, reply, loop>>

Nothing == [request |-> "none", params |-> <<>>, count |-> 0, cut |-> 0]

Init ==
  /\ pc = "idle" /\ wire = <<>> /\ origin = Nothing
  /\ damaged = FALSE /\ reply = <<>>
  /\ reader = "none" /\ data = <<>> /\ count = 0 /\ idx = 0 /\ parsed = 0
  /\ found = <<>>

-----------------------------------------------------------------------------
(* What goes down.                                                         *)

\* The frames of the commands of command.go.
Request ==
  [General_Parameter_Query |-> BuildParameterQueryFrame(eidStr),
   Monitoring_Data_Query   |-> BuildMonitoringDataQueryFrame(eidStr),
   Alarm_Parameter_Query   |-> BuildAlarmParameterQueryFrame(eidStr),
   Time_Parameter_Query    |-> BuildTimeParamFrame(eidStr, 0, <<0, 0, 0, 0>>),
   Time_Parameter_Set      |-> BuildTimeParamFrame(eidStr, 1, TimeStamp),
   ID_Query                |-> BuildSensorIDFrame(eidStr, 0, <<0, 0, 0, 0, 0, 0>>),
   Reset_Set               |-> BuildResetRequest(eidStr),
   topologyDiagramQuery    |-> BuildGeneralParamQueryFrame(eidStr)]

SendRequest ==
  /\ pc = "idle"
  /\ \E name \in DOMAIN Request :
       /\ wire' = Request[name]
       /\ origin' = [Nothing EXCEPT !.request = name]
  /\ pc' = "request"
  /\ UNCHANGED <<damaged, reply, loop>>

SendAck ==
  /\ pc = "idle"
  /\ \E id \in Ids, ok \in BOOLEAN, sseq \in {0, 63}, pseq \in {0, 127} :
       wire' = sendAck(id, ok, sseq, pseq)
  /\ pc' = "ack"
  /\ UNCHANGED <<origin, damaged, reply, loop>>

-----------------------------------------------------------------------------
(* What comes up.                                                          *)

\* The nodes of a topology with their commas, and '$' between them.
NodeBytes(value, k) ==
  LET v(i) == value[14 * (k - 1) + i]
  IN  <<v(1), v(2), v(3), v(4), v(5), v(6), 44, v(7), 44, v(8), 44,
        v(9), v(10), v(11), v(12), v(13), v(14)>>

TopologyBytes(value) ==
  LET nodes[k \in 0..Len(value) \div 14] ==
        IF k = 0 THEN <<>>
        ELSE IF k = 1 THEN NodeBytes(value, 1)
        ELSE nodes[k - 1] \o <<36>> \o NodeBytes(value, k)
  IN  nodes[Len(value) \div 14]

\* Numbers, low byte first.
WordBytes(value) ==
  [i \in 1..2 * Len(value) |->
     IF i % 2 = 1 THEN value[(i + 1) \div 2] % 256
     ELSE ((value[i \div 2] + 65536) \div 256) % 256]

\* A value as a sensor writes it.
Encoded(kind, value) ==
  CASE kind = "uint8"    -> value
    [] kind = "topology" -> TopologyBytes(value)
    [] OTHER             -> WordBytes(value)

\* An entry's data may lack its last bytes (lost).
EntryBytes(e) ==
  LET bytes == Encoded(LookupParamInfo(e.type), e.value)
  IN  EncodeParamEntry(e.type, e.flag, SubSeq(bytes, 1, Len(bytes) - e.lost))

List(params) ==
  LET upTo[n \in 0..Len(params)] == IF n = 0 THEN <<>> ELSE upTo[n - 1] \o EntryBytes(params[n])
  IN  upTo[Len(params)]

\* A list that is too long for the sensor lacks its last bytes.
Body(r) == SubSeq(List(r.params), 1, Len(List(r.params)) - r.cut)

Short == -32768..32767

\* The numbers that a value of each kind consists of; a topology has a node.
Means(kind, value) ==
  CASE kind = "uint8"    -> value \in Seq(Byte) /\ Len(value) = 1
    [] kind = "uint16"   -> value \in Seq(Word) /\ Len(value) = 1
    [] kind = "int16"    -> value \in Seq(Short) /\ Len(value) = 1
    [] kind \in {"uint32", "float32"} -> value \in Seq(Word) /\ Len(value) = 2
    [] kind = "float32Array" -> value \in Seq(Word) /\ Len(value) % 2 = 0
    [] kind = "topology" -> value \in Seq(Byte) /\ Len(value) > 0 /\ Len(value) % 14 = 0
    [] kind \in {"uint16Array", "none"} -> value \in Seq(Word)

\* The length of an entry's data is one that its flag can tell.
Fits(flag, n) ==
  CASE flag = 0 -> n = 4
    [] flag = 1 -> n < 256
    [] flag = 2 -> n < 65536
    [] flag = 3 -> n < 16777216

TypeCode == 0..16383
Number == -32768..65535
Entry == [type : TypeCode, flag : 0..3, value : Seq(Number), lost : Nat]

IsEntry(e) ==
  LET n == Len(Encoded(LookupParamInfo(e.type), e.value))
  IN  /\ e \in Entry /\ Means(LookupParamInfo(e.type), e.value)
      /\ e.lost <= n /\ Fits(e.flag, n - e.lost)

IsReport(r) ==
  /\ r.params \in Seq(Entry) /\ \A i \in 1..Len(r.params) : IsEntry(r.params[i])
  /\ r.count \in 0..15 /\ r.cut \in 0..Len(List(r.params))

ASSUME ReportsAreReports == \A r \in Reports : IsReport(r)

Arrives(frame, r) ==
  /\ wire' = frame
  /\ origin' = [request |-> origin.request, params |-> r.params, count |-> r.count, cut |-> r.cut]
  /\ pc' = "arrived"
  /\ UNCHANGED <<damaged, reply, loop>>

\* Monitoring data, or an alarm.
Report ==
  /\ pc = "idle"
  /\ \E id \in Ids, packetType \in {0, 2}, r \in Reports :
       Arrives(Seal(id \o <<HeadByte(r.count, 0, packetType)>> \o Body(r)), r)

\* The answer to a request has its control byte, and the id of the sensor.
Answer ==
  /\ pc = "request"
  /\ \E id \in Ids, r \in Reports :
       Arrives(Seal(id \o <<HeadByte(r.count, 0, 5), wire[8]>> \o Body(r)), r)

\* A sensor asks for the time.
Calibration ==
  /\ pc = "idle"
  /\ \E id \in Ids : Arrives(ControlFrame(id, 0, 7, 0, <<>>), [params |-> <<>>, count |-> 0, cut |-> 0])

Damage ==
  /\ pc = "arrived" /\ ~damaged
  /\ \E i \in DOMAIN wire, d \in Damages : wire' = [wire EXCEPT ![i] = (@ + d) % 256]
  /\ damaged' = TRUE
  /\ UNCHANGED <<pc, origin, reply, loop>>

-----------------------------------------------------------------------------
(* StartParser: the checks.                                                *)

Known(frame) == SubSeq(frame, 1, 6) \in Ids
IsData(frame) == FragInd(frame) = 0 /\ PacketType(frame) \in {0, 2}
IsControl(frame) == FragInd(frame) = 0 /\ PacketType(frame) \in {4, 5}

Status(ok) ==
  SendDataStatus(IF PacketType(wire) = 0 THEN 1 ELSE 3,
                 IF ok THEN 255 ELSE 0, DataCount(wire))

StartLoop(who, bytes) ==
  /\ reader' = who /\ data' = bytes /\ count' = DataCount(wire)
  /\ UNCHANGED <<idx, parsed, found>>

\* Length, mapping, CRC; only a damaged data frame is answered.
Refuse ==
  /\ pc = "arrived"
  /\ Len(wire) < 9 \/ ~Known(wire) \/ ~Sound(wire)
  /\ reply' = IF Len(wire) >= 9 /\ Known(wire) /\ IsData(wire) THEN Status(FALSE) ELSE reply
  /\ pc' = "refused"
  /\ UNCHANGED <<wire, origin, damaged, loop>>

Accepted == pc = "arrived" /\ Len(wire) >= 9 /\ Known(wire) /\ Sound(wire)

\* The loop of a data frame works on the frame, its check included.
AcceptData ==
  /\ Accepted /\ IsData(wire)
  /\ reply' = Status(TRUE)
  /\ StartLoop("StartParser", SubSeq(wire, 8, Len(wire)))
  /\ pc' = "params"
  /\ UNCHANGED <<wire, origin, damaged>>

\* Mutant: the flag does not count.
LookupResponseHandle_noFlag(byte) ==
  CASE CtrlType(byte) = 2                        -> "common_para_response"
    [] CtrlType(byte) \in {3, 4}                 -> "timestamp_response"
    [] CtrlType(byte) = 6                        -> "reset_response"
    [] CtrlType(byte) = 7                        -> "resetCommands"
    [] OTHER                                     -> "none"

LookupResponseHandle(byte) ==
  CASE CtrlType(byte) = 2                        -> "common_para_response"
    [] CtrlType(byte) = 3 /\ RequestSet(byte)    -> "timestamp_response"
    [] CtrlType(byte) = 4                        -> "timestamp_response"
    [] CtrlType(byte) = 6                        -> "reset_response"
    [] CtrlType(byte) = 7 /\ ~RequestSet(byte)   -> "resetCommands"
    [] OTHER                                     -> "none"

\* The loop of a response works on the body, without control byte and check.
AcceptResponse ==
  /\ Accepted /\ IsControl(wire) /\ Len(wire) > 9
  /\ LookupResponseHandle(wire[8]) = "common_para_response"
  /\ StartLoop("common_para_response", SubSeq(wire, 9, Len(wire) - 2))
  /\ pc' = "params"
  /\ UNCHANGED <<wire, origin, damaged, reply>>

\* Other handlers look at their first bytes, which must be there; resetCommands makes
\* a command of the time, if it has the eid of the device.  "handled" is also the end of
\* what has no handler, or no body.
AcceptOther ==
  /\ Accepted /\ IsControl(wire)
  /\ LET handler == IF Len(wire) > 9 THEN LookupResponseHandle(wire[8]) ELSE "none"
         bytes == Len(wire) - 10
     IN  /\ handler # "common_para_response"
         /\ pc' = IF \/ handler = "timestamp_response" /\ bytes < 4
                     \/ handler = "reset_response" /\ bytes < 1
                  THEN "dead" ELSE "handled"
         /\ reader' = handler
         /\ \/ UNCHANGED reply
            \/ /\ handler = "resetCommands"
               /\ reply' = RestCommandBuildFrame(eidStr, 1, TimeStamp)
  /\ UNCHANGED <<wire, origin, damaged, data, count, idx, parsed, found>>

-----------------------------------------------------------------------------
(* One iteration of the loop.                                              *)

Header == Words(SubSeq(data, idx + 1, idx + 2))[1]
ParamType == Header \div 4
LenFlag == Header % 4

LengthBytes == LenFlag   \* the length takes as many bytes as its flag says

\* Mutant: every length of two bytes is taken for big endian.
DataLen_big(at) ==
  CASE LenFlag = 0 -> 4
    [] LenFlag = 1 -> data[at + 1]
    [] LenFlag = 2 -> 256 * data[at + 1] + data[at + 2]
    [] LenFlag = 3 -> 65536 * data[at + 1] + 256 * data[at + 2] + data[at + 3]

\* Two bytes are little endian to StartParser and big endian to the other one.
DataLen(at) ==
  CASE LenFlag = 0 -> 4
    [] LenFlag = 1 -> data[at + 1]
    [] LenFlag = 2 -> IF reader = "StartParser" THEN data[at + 1] + 256 * data[at + 2]
                      ELSE 256 * data[at + 1] + data[at + 2]
    [] LenFlag = 3 -> 65536 * data[at + 1] + 256 * data[at + 2] + data[at + 3]

\* There is a header, with at least two bytes after it.
InHeader == pc = "params" /\ parsed < count /\ idx + 2 <= Len(data) - 2
InLength == InHeader /\ idx + 2 + LengthBytes <= Len(data)

\* Mutant: a length of one byte is read, and then read again as data.
First_again == idx + 2 + (IF LenFlag = 1 THEN 0 ELSE LengthBytes)

First == idx + 2 + LengthBytes
Last == First + DataLen(idx + 2)

End(how) ==
  /\ pc' = how
  /\ UNCHANGED <<wire, origin, damaged, reply, loop>>

\* All are read, or no header is left.
LoopEnds ==
  /\ pc = "params" /\ ~InHeader
  /\ End("read")

\* A length of three bytes that the data do not have.
LengthMissing ==
  /\ InHeader /\ ~InLength
  /\ End("dead")

\* common_para_response checks the length, with room for a CRC that is cut off
\* already; StartParser does not.
Limit == IF reader = "StartParser" THEN Len(data) ELSE Len(data) - 2

DataMissing ==
  /\ InLength /\ reader = "common_para_response" /\ Last > Limit
  /\ End("read")

Store(bytes) ==
  LET values == Parse(LookupParamInfo(ParamType), bytes)
      writes == {<<[name |-> Name(ParamType), value |-> v]>> : v \in values}
  IN  /\ found' \in {found \o w : w \in IF writes = {} THEN {<<>>} ELSE writes}
      /\ parsed' = parsed + 1

\* StartParser panics, or goes on with what lies behind the frame.
Overrun ==
  /\ InLength /\ reader = "StartParser" /\ Last > Limit
  /\ \/ End("dead")
     \/ /\ \E more \in {0, 255} :
             LET bytes == [i \in 1..Last - First |->
                             IF First + i <= Len(data) THEN data[First + i] ELSE more]
             IN  Store(bytes)
        /\ idx' = Last
        /\ UNCHANGED <<pc, wire, origin, damaged, reply, reader, data, count>>

ReadParam ==
  /\ InLength /\ Last <= Limit
  /\ Store(SubSeq(data, First + 1, Last))
  /\ idx' = Last
  /\ UNCHANGED <<pc, wire, origin, damaged, reply, reader, data, count>>

Next ==
  \/ SendRequest \/ SendAck \/ Report \/ Answer \/ Calibration \/ Damage
  \/ Refuse \/ AcceptData \/ AcceptResponse \/ AcceptOther
  \/ LoopEnds \/ LengthMissing \/ DataMissing \/ Overrun \/ ReadParam

Spec == Init /\ [][Next]_vars
=============================================================================
