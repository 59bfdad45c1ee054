-------------------------------- MODULE Codec --------------------------------
(***************************************************************************)
(* The frames of the sensor protocol as sequences of bytes: the builders   *)
(* of requests, statuses and acknowledgements, the encoding of parameter   *)
(* entries, and the readers of what a parameter's bytes mean.              *)
(*                                                                         *)
(*   frame   == SensorID(6) head(1) body CRC16(2)                          *)
(*   head    == parameter count(4) | FragInd(1) | PacketType(3)            *)
(*   body    == parameter entries, after a control byte                    *)
(*              CtrlType(7) | RequestSetFlag(1) in a control frame         *)
(*   entry   == type(14) | length flag(2), length(0..3), data              *)
(***************************************************************************)
EXTENDS Crc

LE16(n) == <<n % 256, (n \div 256) % 256>>
BE16(n) == <<(n \div 256) % 256, n % 256>>
BE24(n) == <<(n \div 65536) % 256, (n \div 256) % 256, n % 256>>

\* The little endian 16-bit words of a sequence of bytes.
Words(b) == [i \in 1..Len(b) \div 2 |-> b[2*i - 1] + 256 * b[2*i]]

\* The text of a byte string in upper case hex, as ASCII codes.
HexText(b) ==
  LET Digit(d) == IF d < 10 THEN 48 + d ELSE 55 + d
  IN  [i \in 1..2 * Len(b) |->
         LET n == b[(i + 1) \div 2] IN Digit(IF i % 2 = 1 THEN n \div 16 ELSE n % 16)]

-----------------------------------------------------------------------------
(* Frames.                                                                 *)

\* Mutant: the check goes out with its low byte first.
Seal_littleEndian(buf) == buf \o LE16(CRC16(buf))

Seal(buf) == buf \o BE16(CRC16(buf))

\* Mutant: only the low byte is compared.
Sound_lowByte(frame) ==
  LET n == Len(frame)
  IN  CRC16(SubSeq(frame, 1, n - 2)) % 256 = frame[n]

\* The parser's check of the last two bytes.
Sound(frame) ==
  LET n == Len(frame)
  IN  CRC16(SubSeq(frame, 1, n - 2)) = 256 * frame[n-1] + frame[n]

HeadByte(count, fragInd, packetType) == (count % 16) * 16 + fragInd * 8 + packetType
DataCount(frame) == frame[7] \div 16
FragInd(frame) == (frame[7] \div 8) % 2
PacketType(frame) == frame[7] % 8

ControlByte(ctrlType, flag) == (ctrlType % 128) * 2 + flag
CtrlType(byte) == byte \div 2
RequestSet(byte) == byte % 2 = 1

ControlFrame(id, count, ctrlType, flag, body) ==
  Seal(id \o <<HeadByte(count, 0, 4), ControlByte(ctrlType, flag)>> \o body)

\* The eid in every frame that the service builds, whichever sensor it is for: the
\* sensor's own goes with the frame, outside of it.
eidStr == <<35, 138, 8, 65, 216, 40>>   \* 238A0841D828

\* "All parameters" is a count of 15 and an empty list.
BuildParameterQueryFrame(id) == ControlFrame(id, 15, 1, 0, <<>>)
BuildMonitoringDataQueryFrame(id) == ControlFrame(id, 15, 2, 0, <<>>)
BuildAlarmParameterQueryFrame(id) == ControlFrame(id, 15, 3, 0, <<>>)
BuildTimeParamFrame(id, flag, ts) == ControlFrame(id, 0, 4, flag, ts)  \* ts: 4 bytes
RestCommandBuildFrame(id, flag, ts) == BuildTimeParamFrame(id, flag, ts)
BuildSensorIDFrame(id, flag, newID) == ControlFrame(id, 0, 5, flag, newID)
BuildResetRequest(id) == ControlFrame(id, 0, 6, 0, <<>>)

\* The entry 0x20 0x00 of the topology, without data, whatever type is asked for.
BuildGeneralParamQueryFrame(id) == ControlFrame(id, 1, 2, 0, <<32, 0>>)

\* The answer to a data frame, PacketType 1 to monitoring data and 3 to an alarm.
SendDataStatus(packetType, status, count) ==
  Seal(eidStr \o <<HeadByte(count, 0, packetType), status>>)

\* The acknowledgement of a fragment: the eid stands in it as text, the count also
\* as a byte of its own, and the check is of the payload alone, low byte first.
sendAck(id, ok, sseq, pseq) ==
  LET ackData == BE16((IF ok THEN 3 * 16384 ELSE 0) + sseq * 256 + pseq)
  IN  HexText(id) \o <<1, HeadByte(1, 0, 6)>> \o ackData \o LE16(CRC16(ackData))

-----------------------------------------------------------------------------
(* Entries.                                                                *)

\* Without a length the data are four bytes: any others are replaced by zeros.
EncodeParamEntry(type, lenFlag, data) ==
  LE16((type % 16384) * 4 + lenFlag) \o
  (CASE lenFlag = 0 -> IF Len(data) = 4 THEN data ELSE <<0, 0, 0, 0>>
     [] lenFlag = 1 -> <<Len(data) % 256>> \o data
     [] lenFlag = 2 -> LE16(Len(data)) \o data
     [] lenFlag = 3 -> BE24(Len(data)) \o data)

-----------------------------------------------------------------------------
(* paramMap: the types of appendix D, by 3 bits of feature and 11 of code, *)
(* and the reader that each has: the codes of each reader, by feature.     *)

Type(feature, code) == 2048 * feature + code

General ==
  [float32 |-> {1, 2, 30, 35, 61, 63, 103, 133} \cup 4..7 \cup 56..59 \cup 90..93
                 \cup 95..101 \cup 128..131,
   uint32 |-> {3}, topology |-> {8}, float32Array |-> {60, 94, 102},
   uint8 |-> {28} \cup 31..33, uint16 |-> {29, 34, 62, 132}]
Transmission ==
  [float32 |-> {1, 3, 6, 12, 21, 36} \cup 8..10, int16 |-> {2, 13, 14}, uint16 |-> {7, 11}]
Substation ==
  [float32 |-> {5, 6, 27, 76} \cup 1..3 \cup 29..34 \cup 55..69 \cup 136..150
                 \cup 171..186 \cup 207..212,
   uint8 |-> {70, 71}, uint16 |-> {4, 77}, uint16Array |-> {28},
   float32Array |-> 72..75 \cup 98..115]
Auxiliary ==
  [float32 |-> {1, 2, 4, 5, 13, 14, 35, 36, 39, 40, 43},
   uint8 |-> {37} \cup 6..12, uint16 |-> {3, 38, 41, 42}]
paramMap == <<General, Transmission, Substation, Auxiliary>>

\* "none": a type that the table does not have.
LookupParamInfo(type) ==
  LET section == IF type < 2048 * Len(paramMap) THEN paramMap[type \div 2048 + 1] ELSE <<>>
      kinds == {k \in DOMAIN section : type % 2048 \in section[k]}
  IN  IF kinds = {} THEN "none" ELSE CHOOSE k \in kinds : TRUE

\* A value goes by its name, and two types are both called Nitrogen.
Name(type) == IF type = Type(2, 207) THEN Type(2, 144) ELSE type

-----------------------------------------------------------------------------
(* Values, as sequences of numbers: a 32-bit quantity is two words, low    *)
(* word first; a node of the topology is eid(6), state, type, parent(6).   *)

\* What is taken for a node: commas at three places, and 16 bytes, though a node
\* has 17.
looksLikeNode(data, i) ==
  i + 16 <= Len(data) /\ \A k \in {7, 9, 11} : data[i + k] = 44

\* Mutant: type before state.
Node_swapped(data, i) == SubSeq(data, i + 1, i + 6) \o <<data[i + 10], data[i + 8]>>
                           \o SubSeq(data, i + 12, i + 17)

Node(data, i) == SubSeq(data, i + 1, i + 6) \o <<data[i + 8], data[i + 10]>>
                   \o SubSeq(data, i + 12, i + 17)

\* From the first node on, '$' between nodes or not; a last node that lacks its 17th
\* byte spoils the whole list.  The set of the value, or of none.
parseTopo(data) ==
  LET starts == {i \in 0..Len(data) : looksLikeNode(data, i)}
      nodes[i \in 0..Len(data)] ==
        IF ~looksLikeNode(data, i) THEN {<<>>}
        ELSE IF i + 17 > Len(data) THEN {}
        ELSE LET j == i + 17
                 next == IF j < Len(data) /\ data[j + 1] = 36 THEN j + 1 ELSE j
             IN  {Node(data, i) \o rest : rest \in nodes[next]}
  IN  UNION {nodes[i] : i \in {k \in starts : \A m \in starts : k <= m}}

\* The set of the value, or of none when the length is not the type's.
Parse(kind, b) ==
  CASE kind = "uint8"                 -> {v \in {b} : Len(b) = 1}
    [] kind = "uint16"                -> {v \in {Words(b)} : Len(b) = 2}
    [] kind = "int16"                 ->
         IF Len(b) # 2 THEN {} ELSE LET w == Words(b)[1] IN {<<IF w < 32768 THEN w ELSE w - 65536>>}
    [] kind \in {"uint32", "float32"} -> {v \in {Words(b)} : Len(b) = 4}
    [] kind = "float32Array"          -> {v \in {Words(b)} : Len(b) % 4 = 0}
    [] kind = "uint16Array"           -> {v \in {Words(b)} : Len(b) % 2 = 0}
    [] kind = "topology"              -> parseTopo(b)
    [] kind = "none"                  -> {}
=============================================================================
