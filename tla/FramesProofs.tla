---------------------------- MODULE FramesProofs -----------------------------
(***************************************************************************)
(* What holds of a frame on its way, whatever the ids, the reports and the *)
(* damage.                                                                 *)
(***************************************************************************)
EXTENDS FramesProps, CodecProofs

-----------------------------------------------------------------------------
(* The frames of the service.                                              *)

\* The head byte gives back the count, the fragment bit and the packet type.
LEMMA HeadIs ==
  ASSUME NEW c \in 0..15, NEW f \in 0..1, NEW p \in 0..7
  PROVE  /\ HeadByte(c, f, p) \in Byte
         /\ HeadByte(c, f, p) \div 16 = c
         /\ (HeadByte(c, f, p) \div 8) % 2 = f
         /\ HeadByte(c, f, p) % 8 = p
<1> DEFINE b == c * 16 + f * 8 + p
<1>1. HeadByte(c, f, p) = b
  BY DEF HeadByte
<1>2. b \in 0..255
  OBVIOUS
<1>3. b \div 16 = c
  OBVIOUS
<1>4. b \div 8 = 2 * c + f
  OBVIOUS
<1>5. (2 * c + f) % 2 = f
  OBVIOUS
<1>6. b % 8 = p
  OBVIOUS
<1> HIDE DEF b
<1> QED
  BY <1>1, <1>2, <1>3, <1>4, <1>5, <1>6 DEF Byte

\* The control byte gives back the control type and the request flag.
LEMMA ControlIs ==
  ASSUME NEW t \in 0..127, NEW f \in 0..1
  PROVE  /\ ControlByte(t, f) \in Byte
         /\ CtrlType(ControlByte(t, f)) = t
         /\ RequestSet(ControlByte(t, f)) <=> f = 1
<1>1. ControlByte(t, f) = 2 * t + f
  BY DEF ControlByte
<1>2. 2 * t + f \in 0..255 /\ (2 * t + f) \div 2 = t /\ (2 * t + f) % 2 = f
  OBVIOUS
<1> QED
  BY <1>1, <1>2 DEF CtrlType, RequestSet, Byte

\* A frame of id, head byte, control byte and body, sealed.  (The provers handle a
\* length between bounds better than one that is a literal.)
FrameOf(id, head, c, body) == Seal(id \o <<head, c>> \o body)

\* What every frame is like.
IsFrame(frame, id, head, c, body) ==
         /\ frame \in Seq(Byte) /\ Len(frame) = 10 + Len(body) /\ Sound(frame)
         /\ frame[7] = head /\ frame[8] = c
         /\ \A i \in 1..6 : frame[i] = id[i]
         /\ \A i \in 1..Len(body) : frame[8 + i] = body[i]

\* A sealed frame, byte by byte: it is sound, and has what it was built from.
LEMMA FrameIs ==
  ASSUME NEW id \in Seq(Byte), Len(id) <= 6, Len(id) >= 6, NEW head \in Byte, NEW c \in Byte,
         NEW body \in Seq(Byte)
  PROVE  IsFrame(FrameOf(id, head, c, body), id, head, c, body)
<1> DEFINE frame == FrameOf(id, head, c, body)
<1> DEFINE buf == id \o <<head, c>> \o body
<1>1. buf \in Seq(Byte) /\ Len(buf) = 8 + Len(body) /\ buf[7] = head /\ buf[8] = c
  OBVIOUS
<1>2. \A i \in 1..Len(body) : buf[8 + i] = body[i]
  OBVIOUS
<1>3. \A i \in 1..6 : buf[i] = id[i]
  OBVIOUS
<1>4. frame = Seal(buf)
  BY DEF FrameOf
<1> HIDE DEF buf, frame
<1>5. frame \in Seq(Byte) /\ Len(frame) = Len(buf) + 2 /\ Sound(frame)
  BY <1>1, <1>4, SealIsSound
<1>6. \A i \in 1..Len(buf) : frame[i] = buf[i]
  BY <1>1, <1>4, SealIsSound
<1>7. /\ \A i \in 1..8 : i \in 1..Len(buf)
      /\ \A i \in 1..Len(body) : 8 + i \in 1..Len(buf)
  BY <1>1
<1>8. \A i \in 1..8 : frame[i] = buf[i]
  BY <1>6, <1>7
<1>9. \A i \in 1..Len(body) : frame[8 + i] = body[i]
  BY <1>2, <1>6, <1>7
<1>10. Len(frame) = 10 + Len(body)
  BY <1>1, <1>5
<1>11. frame[7] = head /\ frame[8] = c
  <2>1. 7 \in 1..8 /\ 8 \in 1..8
    OBVIOUS
  <2>2. frame[7] = buf[7] /\ frame[8] = buf[8]
    BY <1>8, <2>1, Zenon
  <2> QED
    BY <1>1, <2>2, Zenon
<1>12. \A i \in 1..6 : frame[i] = id[i]
  <2>1. \A i \in 1..6 : i \in 1..8
    OBVIOUS
  <2> QED
    BY <1>3, <1>8, <2>1, Zenon
<1>13. IsFrame(frame, id, head, c, body)
  BY <1>5, <1>9, <1>10, <1>11, <1>12, Zenon DEF IsFrame
<1> QED
  BY <1>13 DEF frame

IsControlFrame(frame, id, n, t, f, body) ==
  /\ frame \in Seq(Byte) /\ Len(frame) = 10 + Len(body) /\ Sound(frame)
  /\ DataCount(frame) = n /\ FragInd(frame) = 0 /\ PacketType(frame) = 4
  /\ frame[8] \in Byte /\ CtrlType(frame[8]) = t /\ (RequestSet(frame[8]) <=> f = 1)
  /\ \A i \in 1..6 : frame[i] = id[i]

\* The same of a control frame (BuildParameterQueryFrame and the builders like it).
LEMMA ControlFrameIs ==
  ASSUME NEW id \in Seq(Byte), Len(id) <= 6, Len(id) >= 6,
         NEW n \in 0..15, NEW t \in 0..127, NEW f \in 0..1, NEW body \in Seq(Byte)
  PROVE  IsControlFrame(ControlFrame(id, n, t, f, body), id, n, t, f, body)
<1> DEFINE head == HeadByte(n, 0, 4)
           c == ControlByte(t, f)
           frame == FrameOf(id, head, c, body)
<1>1. head \in Byte /\ head \div 16 = n /\ (head \div 8) % 2 = 0 /\ head % 8 = 4
  BY HeadIs
<1>2. c \in Byte /\ CtrlType(c) = t /\ (RequestSet(c) <=> f = 1)
  BY ControlIs, Zenon
<1>3. ControlFrame(id, n, t, f, body) = frame
  BY DEF ControlFrame, FrameOf
<1> HIDE DEF head, c
<1>4. IsFrame(frame, id, head, c, body)
  BY <1>1, <1>2, FrameIs
<1> HIDE DEF frame
<1>5. IsControlFrame(frame, id, n, t, f, body)
  BY <1>1, <1>2, <1>4, Zenon DEF IsFrame, IsControlFrame, DataCount, FragInd, PacketType
<1> QED
  BY <1>3, <1>5

\* The fixed id of command.go is an id.
LEMMA Eid ==
  eidStr \in Seq(Byte) /\ Len(eidStr) <= 6 /\ Len(eidStr) >= 6
BY DEF eidStr, Byte

\* The handlers that the answer to a request may go to.
HandlersOf(name) ==
  {"none"} \cup
  (CASE name \in {"Time_Parameter_Query", "Time_Parameter_Set"} -> {"timestamp_response"}
     [] name = "Reset_Set" -> {"reset_response"}
     [] name \in {"ID_Query"} -> {}
     [] OTHER -> {"common_para_response"})

Names == {"General_Parameter_Query", "Monitoring_Data_Query", "Alarm_Parameter_Query",
          "Time_Parameter_Query", "Time_Parameter_Set", "ID_Query", "Reset_Set",
          "topologyDiagramQuery"}

\* What every request is like.
IsRequest(name, frame) ==
  /\ frame \in Seq(Byte) /\ Len(frame) >= 10 /\ Sound(frame)
  /\ FragInd(frame) = 0 /\ PacketType(frame) = 4
  /\ frame[8] \in Byte
  /\ LookupResponseHandle(frame[8]) \in HandlersOf(name)

\* A control frame is a request, if no answer to it has the handler of another.
LEMMA RequestOf ==
  ASSUME NEW name, NEW n \in 0..15, NEW t \in 0..127, NEW f \in 0..1, NEW body \in Seq(Byte),
         \A c : CtrlType(c) = t /\ (RequestSet(c) <=> f = 1)
                  => LookupResponseHandle(c) \in HandlersOf(name)
  PROVE  IsRequest(name, ControlFrame(eidStr, n, t, f, body))
<1> DEFINE frame == ControlFrame(eidStr, n, t, f, body)
<1>1. /\ frame \in Seq(Byte) /\ Len(frame) = 10 + Len(body) /\ Sound(frame)
      /\ FragInd(frame) = 0 /\ PacketType(frame) = 4
      /\ frame[8] \in Byte /\ CtrlType(frame[8]) = t /\ (RequestSet(frame[8]) <=> f = 1)
  <2>1. IsControlFrame(frame, eidStr, n, t, f, body)
    BY Eid, ControlFrameIs, Zenon
  <2> HIDE DEF frame
  <2> QED
    BY <2>1 DEF IsControlFrame
<1>2. Len(body) \in Nat
  OBVIOUS
<1> HIDE DEF frame
<1>3. Len(frame) >= 10
  BY <1>1, <1>2
<1>4. LookupResponseHandle(frame[8]) \in HandlersOf(name)
  BY <1>1, Zenon
<1>5. IsRequest(name, frame)
  BY <1>1, <1>3, <1>4, Zenon DEF IsRequest
<1> QED
  BY <1>5 DEF frame

\* Each of the eight requests is one.
LEMMA RequestIs ==
  /\ DOMAIN Request = Names
  /\ \A name \in Names : IsRequest(name, Request[name])
<1> DEFINE Goes(name, t, f) ==
             \A c : CtrlType(c) = t /\ (RequestSet(c) <=> f = 1)
                      => LookupResponseHandle(c) \in HandlersOf(name)
<1>1. /\ Goes("General_Parameter_Query", 1, 0) /\ Goes("Monitoring_Data_Query", 2, 0)
      /\ Goes("Alarm_Parameter_Query", 3, 0)
  BY DEF LookupResponseHandle, HandlersOf
<1>2. /\ Goes("Time_Parameter_Query", 4, 0) /\ Goes("Time_Parameter_Set", 4, 1)
      /\ Goes("ID_Query", 5, 0) /\ Goes("Reset_Set", 6, 0) /\ Goes("topologyDiagramQuery", 2, 0)
  BY DEF LookupResponseHandle, HandlersOf
<1>3. /\ <<>> \in Seq(Byte) /\ <<0, 0, 0, 0>> \in Seq(Byte) /\ <<0, 0, 0, 0, 0, 0>> \in Seq(Byte)
      /\ <<32, 0>> \in Seq(Byte) /\ TimeStamp \in Seq(Byte)
  BY TimeIsFourBytes DEF Byte
<1> HIDE DEF Goes
<1>4. ASSUME NEW name, NEW n \in 0..15, NEW t \in 0..127, NEW f \in 0..1, NEW body \in Seq(Byte),
             Goes(name, t, f)
      PROVE  IsRequest(name, ControlFrame(eidStr, n, t, f, body))
  BY <1>4, RequestOf, Zenon DEF Goes
<1>5. /\ 0 \in 0..1 /\ 1 \in 0..1 /\ 0 \in 0..15 /\ 1 \in 0..15 /\ 15 \in 0..15
      /\ \A t \in 1..6 : t \in 0..127
      /\ 1 \in 1..6 /\ 2 \in 1..6 /\ 3 \in 1..6 /\ 4 \in 1..6 /\ 5 \in 1..6 /\ 6 \in 1..6
  OBVIOUS
<1>6. /\ IsRequest("General_Parameter_Query", ControlFrame(eidStr, 15, 1, 0, <<>>))
      /\ IsRequest("Monitoring_Data_Query", ControlFrame(eidStr, 15, 2, 0, <<>>))
      /\ IsRequest("Alarm_Parameter_Query", ControlFrame(eidStr, 15, 3, 0, <<>>))
      /\ IsRequest("Time_Parameter_Query", ControlFrame(eidStr, 0, 4, 0, <<0, 0, 0, 0>>))
      /\ IsRequest("Time_Parameter_Set", ControlFrame(eidStr, 0, 4, 1, TimeStamp))
      /\ IsRequest("ID_Query", ControlFrame(eidStr, 0, 5, 0, <<0, 0, 0, 0, 0, 0>>))
      /\ IsRequest("Reset_Set", ControlFrame(eidStr, 0, 6, 0, <<>>))
      /\ IsRequest("topologyDiagramQuery", ControlFrame(eidStr, 1, 2, 0, <<32, 0>>))
  <2>1. IsRequest("General_Parameter_Query", ControlFrame(eidStr, 15, 1, 0, <<>>))
    BY <1>1, <1>2, <1>3, <1>4, <1>5, Zenon
  <2>2. IsRequest("Monitoring_Data_Query", ControlFrame(eidStr, 15, 2, 0, <<>>))
    BY <1>1, <1>2, <1>3, <1>4, <1>5, Zenon
  <2>3. IsRequest("Alarm_Parameter_Query", ControlFrame(eidStr, 15, 3, 0, <<>>))
    BY <1>1, <1>2, <1>3, <1>4, <1>5, Zenon
  <2>4. IsRequest("Time_Parameter_Query", ControlFrame(eidStr, 0, 4, 0, <<0, 0, 0, 0>>))
    BY <1>1, <1>2, <1>3, <1>4, <1>5, Zenon
  <2>5. IsRequest("Time_Parameter_Set", ControlFrame(eidStr, 0, 4, 1, TimeStamp))
    BY <1>1, <1>2, <1>3, <1>4, <1>5, Zenon
  <2>6. IsRequest("ID_Query", ControlFrame(eidStr, 0, 5, 0, <<0, 0, 0, 0, 0, 0>>))
    BY <1>1, <1>2, <1>3, <1>4, <1>5, Zenon
  <2>7. IsRequest("Reset_Set", ControlFrame(eidStr, 0, 6, 0, <<>>))
    BY <1>1, <1>2, <1>3, <1>4, <1>5, Zenon
  <2>8. IsRequest("topologyDiagramQuery", ControlFrame(eidStr, 1, 2, 0, <<32, 0>>))
    BY <1>1, <1>2, <1>3, <1>4, <1>5, Zenon
  <2> QED
    BY <2>1, <2>2, <2>3, <2>4, <2>5, <2>6, <2>7, <2>8, Zenon
<1>7. DOMAIN Request = Names
  BY DEF Request, Names
<1>8. ASSUME NEW name \in Names PROVE IsRequest(name, Request[name])
  BY <1>6 DEF Names, Request, BuildParameterQueryFrame, BuildMonitoringDataQueryFrame,
       BuildAlarmParameterQueryFrame, BuildTimeParamFrame, BuildSensorIDFrame,
       BuildResetRequest, BuildGeneralParamQueryFrame
<1> QED
  BY <1>7, <1>8

\* A status passes the check and repeats the count.
LEMMA StatusIs ==
  ASSUME NEW p \in 0..7, NEW st \in Byte, NEW n \in 0..15
  PROVE  /\ Len(SendDataStatus(p, st, n)) = 10 /\ Sound(SendDataStatus(p, st, n))
         /\ DataCount(SendDataStatus(p, st, n)) = n
         /\ SendDataStatus(p, st, n)[8] = st
<1> DEFINE head == HeadByte(n, 0, p)
           frame == FrameOf(eidStr, head, st, <<>>)
<1>1. head \in Byte /\ head \div 16 = n
  BY HeadIs
<1>2. <<>> \in Seq(Byte) /\ Len(<<>>) = 0
  OBVIOUS
<1> HIDE DEF head
<1>3. SendDataStatus(p, st, n) = frame
  <2>1. eidStr \o <<head, st>> \in Seq(Byte)
    BY <1>1, Eid
  <2>2. eidStr \o <<head, st>> \o <<>> = eidStr \o <<head, st>>
    BY <2>1
  <2> QED
    BY <2>2, Zenon DEF FrameOf, SendDataStatus, head
<1>4. IsFrame(frame, eidStr, head, st, <<>>)
  BY <1>1, <1>2, Eid, FrameIs, Zenon
<1> HIDE DEF frame
<1>5. Len(frame) = 10 /\ Sound(frame) /\ frame[7] = head /\ frame[8] = st
  BY <1>2, <1>4 DEF IsFrame
<1> QED
  BY <1>1, <1>3, <1>5 DEF DataCount

-----------------------------------------------------------------------------
(* The entries of a report.                                                *)

\* A number that takes two bytes.
LEMMA LowFirst ==
  ASSUME NEW w \in Word
  PROVE  /\ LE16(w) \in Seq(Byte) /\ LE16(w) = <<LE16(w)[1], LE16(w)[2]>>
         /\ LE16(w)[1] \in Byte /\ LE16(w)[2] \in Byte
         /\ LE16(w)[1] + 256 * LE16(w)[2] = w
<1>1. w \div 256 \in Byte /\ w % 256 \in Byte /\ w = 256 * (w \div 256) + (w % 256)
  BY WordHalves
<1> DEFINE q == w \div 256
           r == w % 256
<1>2. q \in Byte /\ r \in Byte /\ w = 256 * q + r /\ LE16(w) = <<r, q % 256>>
  BY <1>1 DEF LE16
<1> HIDE DEF q, r
<1>3. q % 256 = q
  BY <1>2 DEF Byte
<1>4. r + 256 * q = w
  BY <1>2 DEF Byte
<1>5. LE16(w) = <<r, q>>
  BY <1>2, <1>3
<1>6. <<r, q>> \in Seq(Byte) /\ <<r, q>>[1] = r /\ <<r, q>>[2] = q
  BY <1>2
<1>7. LE16(w) \in Seq(Byte) /\ LE16(w)[1] = r /\ LE16(w)[2] = q
  BY <1>5, <1>6, Zenon
<1> QED
  BY <1>2, <1>4, <1>5, <1>7

\* A length in three bytes gives back the length.
LEMMA ThreeBytes ==
  ASSUME NEW n \in Nat, n < 16777216
  PROVE  /\ BE24(n) = <<BE24(n)[1], BE24(n)[2], BE24(n)[3]>>
         /\ BE24(n)[1] \in Byte /\ BE24(n)[2] \in Byte /\ BE24(n)[3] \in Byte
         /\ 65536 * BE24(n)[1] + 256 * BE24(n)[2] + BE24(n)[3] = n
<1> DEFINE p == n \div 65536
           q == n \div 256
           r == n % 256
           t == n % 65536
           d == q - 256 * p
<1>1. n = 256 * q + r /\ q \in Int /\ r \in Int /\ 0 <= r /\ r < 256
  BY SMT
<1>2. n = 65536 * p + t /\ p \in Int /\ t \in Int /\ 0 <= t /\ t < 65536
  BY SMT
<1>3. BE24(n) = <<p % 256, q % 256, r>>
  BY SMT DEF BE24
<1> HIDE DEF p, q, r, t
<1>4. d \in Int /\ q = 256 * p + d
  BY <1>1, <1>2, SMT
<1> HIDE DEF d
<1>5. 0 <= p /\ p < 256
  BY <1>2, SMT
<1>6. 0 <= d /\ d < 256
  BY <1>1, <1>2, <1>4, SMT
<1>7. p % 256 = p /\ q % 256 = d
  BY <1>2, <1>4, <1>5, <1>6, SMT
<1>8. BE24(n) = <<p, d, r>>
  BY <1>3, <1>7, SMT
<1>9. BE24(n)[1] = p /\ BE24(n)[2] = d /\ BE24(n)[3] = r
  BY <1>8, SMT
<1>10. p \in Byte /\ d \in Byte /\ r \in Byte
  BY <1>1, <1>2, <1>4, <1>5, <1>6, ByteIs, SMT
<1>11. 65536 * p + 256 * d + r = n
  BY <1>1, <1>2, <1>4, SMT
<1> QED
  BY <1>8, <1>9, <1>10, <1>11, SMT

\* An entry: type and flag, length, bytes.
IsCoded(s, w, flag, bytes) ==
  /\ s \in Seq(Byte) /\ Len(s) = 2 + flag + Len(bytes)
  /\ s[1] + 256 * s[2] = w
  /\ flag = 1 => s[3] = Len(bytes)
  /\ flag = 2 => s[3] + 256 * s[4] = Len(bytes)
  /\ flag = 3 => 65536 * s[3] + 256 * s[4] + s[5] = Len(bytes)
  /\ \A i \in 1..Len(bytes) : s[2 + flag + i] = bytes[i]

\* A byte is its own low byte.
LEMMA LowOf ==
  ASSUME NEW n \in Byte
  PROVE  n % 256 = n
BY DEF Byte

\* What fits a length field, by its flag.
LEMMA FitsIs ==
  ASSUME NEW flag \in 0..3, NEW n \in Nat, Fits(flag, n)
  PROVE  /\ flag = 0 => n = 4
         /\ flag = 1 => n \in Byte
         /\ flag = 2 => n \in Word
         /\ flag = 3 => n < 16777216
<1>1. flag = 0 => n = 4
  BY SMT DEF Fits
<1>2. flag = 1 => n < 256
  BY SMT DEF Fits
<1>3. flag = 2 => n < 65536
  BY SMT DEF Fits
<1>4. flag = 3 => n < 16777216
  BY SMT DEF Fits
<1> QED
  BY <1>1, <1>2, <1>3, <1>4, ByteIs, WordIs, SMT

\* How an entry is put together, by flag.
IsJoined(s, w, flag, bytes) ==
  /\ flag = 0 => s = LE16(w) \o bytes
  /\ flag = 1 => s = LE16(w) \o (<<Len(bytes) % 256>> \o bytes)
  /\ flag = 2 => s = LE16(w) \o (LE16(Len(bytes)) \o bytes)
  /\ flag = 3 => s = LE16(w) \o (BE24(Len(bytes)) \o bytes)

\* The bytes of an entry, by the flag of its length field.
LEMMA CodedByFlag ==
  ASSUME NEW w \in Word, NEW bytes \in Seq(Byte), NEW flag \in 0..3, Fits(flag, Len(bytes)),
         NEW s, IsJoined(s, w, flag, bytes)
  PROVE  IsCoded(s, w, flag, bytes)
<1>0. /\ flag = 0 => s = LE16(w) \o bytes
      /\ flag = 1 => s = LE16(w) \o (<<Len(bytes) % 256>> \o bytes)
      /\ flag = 2 => s = LE16(w) \o (LE16(Len(bytes)) \o bytes)
      /\ flag = 3 => s = LE16(w) \o (BE24(Len(bytes)) \o bytes)
  BY Zenon DEF IsJoined
<1> DEFINE x == LE16(w)[1]
           y == LE16(w)[2]
           n == Len(bytes)
<1>1. x \in Byte /\ y \in Byte /\ x + 256 * y = w /\ LE16(w) = <<x, y>>
  BY LowFirst
<1>2. n \in Nat /\ Fits(flag, n)
  OBVIOUS
<1> HIDE DEF x, y
<1>3. CASE flag = 0
  <2>1. s = <<x, y>> \o bytes
    BY <1>0, <1>1, <1>3
  <2>2. s \in Seq(Byte) /\ Len(s) = 2 + Len(bytes) /\ s[1] = x /\ s[2] = y
    BY <1>1, <2>1
  <2>3. \A i \in 1..Len(bytes) : s[2 + i] = bytes[i]
    BY <1>1, <2>1
  <2> QED
    BY <1>1, <1>3, <2>2, <2>3 DEF IsCoded
<1>4. CASE flag = 1
  <2>0. s = LE16(w) \o (<<n % 256>> \o bytes)
    BY <1>0, <1>4
  <2> HIDE DEF n
  <2>1. n \in Byte
    BY <1>2, <1>4, FitsIs
  <2>2. n % 256 = n
    BY <2>1, LowOf
  <2>3. s = <<x, y>> \o (<<n>> \o bytes)
    BY <1>1, <2>0, <2>2, Zenon
  <2>4. s \in Seq(Byte) /\ Len(s) = 3 + Len(bytes) /\ s[1] = x /\ s[2] = y /\ s[3] = n
    BY <1>1, <2>1, <2>3
  <2>5. \A i \in 1..Len(bytes) : s[3 + i] = bytes[i]
    BY <1>1, <2>1, <2>3
  <2> QED
    BY <1>1, <1>4, <2>4, <2>5 DEF IsCoded, n
<1>5. CASE flag = 2
  <2> DEFINE u == LE16(n)[1]
             v == LE16(n)[2]
  <2>0. s = LE16(w) \o (LE16(n) \o bytes)
    BY <1>0, <1>5
  <2> HIDE DEF n
  <2>1. n \in Word
    BY <1>2, <1>5, FitsIs
  <2>2. u \in Byte /\ v \in Byte /\ u + 256 * v = n /\ LE16(n) = <<u, v>>
    BY <2>1, LowFirst
  <2> HIDE DEF u, v
  <2>3. s = <<x, y>> \o (<<u, v>> \o bytes)
    BY <1>1, <2>0, <2>2, Zenon
  <2>4. s \in Seq(Byte) /\ Len(s) = 4 + Len(bytes) /\ s[1] = x /\ s[2] = y /\ s[3] = u /\ s[4] = v
    BY <1>1, <2>2, <2>3
  <2>5. \A i \in 1..Len(bytes) : s[4 + i] = bytes[i]
    <3>1. x \in Byte /\ y \in Byte /\ u \in Byte /\ v \in Byte
      BY <1>1, <2>2
    <3> QED
      BY <3>1, <2>3
  <2> QED
    BY <1>1, <1>5, <2>2, <2>4, <2>5 DEF IsCoded, n
<1>6. CASE flag = 3
  <2> DEFINE u == BE24(n)[1]
             v == BE24(n)[2]
             t == BE24(n)[3]
  <2>0. s = LE16(w) \o (BE24(n) \o bytes)
    BY <1>0, <1>6
  <2> HIDE DEF n
  <2>1. n < 16777216
    BY <1>2, <1>6, FitsIs, SMT
  <2>2. u \in Byte /\ v \in Byte /\ t \in Byte /\ 65536 * u + 256 * v + t = n /\ BE24(n) = <<u, v, t>>
    BY <1>2, <2>1, ThreeBytes, SMT
  <2> HIDE DEF u, v, t
  <2>3. s = <<x, y>> \o (<<u, v, t>> \o bytes)
    <3>1. BE24(n) = <<u, v, t>>
      BY <2>2, SMT
    <3> QED
      BY <1>1, <2>0, <3>1, Zenon
  <2>4. /\ s \in Seq(Byte) /\ Len(s) = 5 + Len(bytes)
        /\ s[1] = x /\ s[2] = y /\ s[3] = u /\ s[4] = v /\ s[5] = t
    BY <1>1, <2>2, <2>3, SMT
  <2>5. \A i \in 1..Len(bytes) : s[5 + i] = bytes[i]
    BY <1>1, <2>2, <2>3, SMT
  <2> QED
    BY <1>1, <1>6, <2>2, <2>4, <2>5, SMT DEF IsCoded, n
<1> QED
  BY <1>3, <1>4, <1>5, <1>6

\* The header word keeps type and flag apart.
LEMMA HeaderWord ==
  ASSUME NEW type \in Nat, type < 16384, NEW flag \in 0..3
  PROVE  (type % 16384) * 4 + flag \in Word /\ (type % 16384) * 4 + flag = 4 * type + flag
<1>1. type % 16384 = type
  BY SMT
<1>2. (type % 16384) * 4 + flag = 4 * type + flag
  BY <1>1, SMT
<1>3. 4 * type + flag \in Nat /\ 4 * type + flag < 65536
  BY SMT
<1> QED
  BY <1>2, <1>3, WordIs, SMT

\* EncodeParamEntry (topo_data_ctl.go) joins header, length and data.
LEMMA EntryParts ==
  ASSUME NEW type, NEW bytes, NEW flag \in 0..3, flag = 0 => Len(bytes) = 4
  PROVE  IsJoined(EncodeParamEntry(type, flag, bytes), (type % 16384) * 4 + flag, flag, bytes)
<1> DEFINE s == EncodeParamEntry(type, flag, bytes)
           w == (type % 16384) * 4 + flag
           n == Len(bytes)
<1>1. flag = 0 /\ n = 4 => s = LE16(w) \o bytes
  BY SMT DEF EncodeParamEntry
<1>2. flag = 1 => s = LE16(w) \o (<<n % 256>> \o bytes)
  BY SMT DEF EncodeParamEntry
<1>3. flag = 2 => s = LE16(w) \o (LE16(n) \o bytes)
  BY SMT DEF EncodeParamEntry
<1>4. flag = 3 => s = LE16(w) \o (BE24(n) \o bytes)
  BY SMT DEF EncodeParamEntry
<1>5. flag = 0 => n = 4
  BY Zenon
<1> HIDE DEF s, w, n
<1>6. IsJoined(s, w, flag, bytes)
  BY <1>1, <1>2, <1>3, <1>4, <1>5, SMT DEF IsJoined, n
<1> QED
  BY <1>6, SMT DEF s, w

\* So its bytes are coded as the readers expect, for every type, flag and length that fits.
LEMMA EntryIs ==
  ASSUME NEW type \in Nat, type < 16384, NEW flag \in 0..3, NEW bytes \in Seq(Byte),
         Fits(flag, Len(bytes))
  PROVE  IsCoded(EncodeParamEntry(type, flag, bytes), 4 * type + flag, flag, bytes)
<1> DEFINE s == EncodeParamEntry(type, flag, bytes)
           w == (type % 16384) * 4 + flag
           n == Len(bytes)
<1>1. w \in Word /\ w = 4 * type + flag
  BY HeaderWord, SMT
<1>2. n \in Nat /\ Fits(flag, n)
  OBVIOUS
<1> HIDE DEF n
<1>3. flag = 0 => n = 4
  BY <1>2, FitsIs, SMT
<1> HIDE DEF s, w
<1>4. IsJoined(s, w, flag, bytes)
  BY <1>3, EntryParts, SMTT(60) DEF n, s, w
<1>5. IsCoded(s, w, flag, bytes)
  BY <1>1, <1>4, CodedByFlag, SMT
<1> QED
  BY <1>1, <1>5, SMT DEF s

-----------------------------------------------------------------------------
(* What the bytes of a value are.                                          *)

\* The nodes of a topology, and what stands between them.
NodeLinks(value) ==
  [k \in 1..Len(value) \div 14 |->
     IF k = 1 THEN NodeBytes(value, k) ELSE <<36>> \o NodeBytes(value, k)]

NodesRun(value) ==
  CHOOSE nodes : nodes = [k \in 0..Len(value) \div 14 |->
                            IF k = 0 THEN <<>>
                            ELSE IF k = 1 THEN NodeBytes(value, 1)
                            ELSE nodes[k - 1] \o <<36>> \o NodeBytes(value, k)]

\* The bytes of a topology are what the recursion over its nodes has at the end.
LEMMA TopologyOfRun ==
  ASSUME NEW value
  PROVE  TopologyBytes(value) = NodesRun(value)[Len(value) \div 14]
BY DEF TopologyBytes, NodesRun

\* A node of the topology is fourteen numbers.
LEMMA NodeInValue ==
  ASSUME NEW value, NEW k \in 1..Len(value) \div 14, NEW j \in 1..14, Len(value) \in Nat
  PROVE  14 * (k - 1) + j \in 1..Len(value)
<1> DEFINE n == Len(value)
           q == n \div 14
<1>1. n \in Nat /\ k \in 1..q
  OBVIOUS
<1> HIDE DEF n
<1>2. q \in Nat /\ 14 * q <= n
  BY <1>1
<1> HIDE DEF q
<1>3. k <= q /\ k >= 1 /\ k \in Int
  BY <1>1, <1>2
<1>4. 14 * (k - 1) + j >= 1 /\ 14 * (k - 1) + j <= n
  BY <1>1, <1>2, <1>3
<1> QED
  BY <1>1, <1>3, <1>4 DEF n

LEMMA NodeIsBytes ==
  ASSUME NEW value \in Seq(Byte), NEW k \in 1..Len(value) \div 14
  PROVE  NodeBytes(value, k) \in Seq(Byte)
<1> DEFINE v(j) == value[14 * (k - 1) + j]
<1>1. ASSUME NEW j \in 1..14 PROVE v(j) \in Byte
  <2>1. 14 * (k - 1) + j \in 1..Len(value)
    BY NodeInValue
  <2> QED
    BY <2>1
<1>2. NodeBytes(value, k) = <<v(1), v(2), v(3), v(4), v(5), v(6), 44, v(7), 44, v(8), 44,
                              v(9), v(10), v(11), v(12), v(13), v(14)>>
  BY DEF NodeBytes
<1>3. 44 \in Byte
  BY DEF Byte
<1> HIDE DEF v
<1>4. v(1) \in Byte /\ v(2) \in Byte /\ v(3) \in Byte /\ v(4) \in Byte /\ v(5) \in Byte
  BY <1>1
<1>5. v(6) \in Byte /\ v(7) \in Byte /\ v(8) \in Byte /\ v(9) \in Byte /\ v(10) \in Byte
  BY <1>1
<1>6. v(11) \in Byte /\ v(12) \in Byte /\ v(13) \in Byte /\ v(14) \in Byte
  BY <1>1
<1> QED
  BY <1>2, <1>3, <1>4, <1>5, <1>6

\* A node with the '$' before it is bytes.
LEMMA LinksAreBytes ==
  ASSUME NEW value \in Seq(Byte), NEW k \in 1..Len(value) \div 14
  PROVE  NodeLinks(value)[k] \in Seq(Byte)
<1>1. NodeBytes(value, k) \in Seq(Byte)
  BY NodeIsBytes
<1>2. <<36>> \in Seq(Byte)
  BY DEF Byte
<1>3. NodeLinks(value)[k] = IF k = 1 THEN NodeBytes(value, k) ELSE <<36>> \o NodeBytes(value, k)
  BY DEF NodeLinks
<1>4. <<36>> \o NodeBytes(value, k) \in Seq(Byte)
  BY <1>1, <1>2
<1> QED
  BY <1>1, <1>3, <1>4

\* The topology is the chain of its nodes.
LEMMA NodesChain ==
  ASSUME NEW value \in Seq(Byte)
  PROVE  Chain(NodesRun(value), Byte, NodeLinks(value), Len(value) \div 14)
<1> DEFINE n == Len(value) \div 14
           e == NodeLinks(value)
           A(h) == [k \in 0..n |-> IF k = 0 THEN <<>>
                                   ELSE IF k = 1 THEN NodeBytes(value, 1)
                                   ELSE h[k - 1] \o <<36>> \o NodeBytes(value, k)]
           f == TheChain(Byte, e, n)
           x == NodesRun(value)
<1>1. n \in Nat
  OBVIOUS
<1>2. \A k \in 1..n : e[k] \in Seq(Byte)
  BY LinksAreBytes
<1>3. \A k \in 1..n : NodeBytes(value, k) \in Seq(Byte)
  BY NodeIsBytes
<1>4. \A k \in 1..n : e[k] = IF k = 1 THEN NodeBytes(value, k) ELSE <<36>> \o NodeBytes(value, k)
  BY DEF NodeLinks
<1>5. x = CHOOSE h : h = A(h)
  BY DEF NodesRun
<1> HIDE DEF n, e, x
<1>6. \A k \in 1..n : \A s \in Seq(Byte) :
        k # 1 => s \o e[k] = s \o <<36>> \o NodeBytes(value, k)
  <2> SUFFICES ASSUME NEW k \in 1..n, NEW s \in Seq(Byte), k # 1
               PROVE  s \o e[k] = s \o <<36>> \o NodeBytes(value, k)
    OBVIOUS
  <2>1. NodeBytes(value, k) \in Seq(Byte) /\ <<36>> \in Seq(Byte)
    BY <1>3 DEF Byte
  <2>2. e[k] = <<36>> \o NodeBytes(value, k)
    BY <1>4
  <2> QED
    BY <2>1, <2>2, ConcatAssociative, SMTT(60)
<1>7. Chain(f, Byte, e, n)
  BY <1>1, <1>2, ChainExists
<1> HIDE DEF f
<1>8. f = A(f)
  <2>1. f \in [0..n -> Seq(Byte)] /\ f[0] = <<>> /\ \A i \in 1..n : f[i] = f[i - 1] \o e[i]
    BY <1>7 DEF Chain
  <2>2. ASSUME NEW k \in 0..n PROVE f[k] = A(f)[k]
    <3>1. CASE k = 0
      BY <2>1, <3>1
    <3>2. CASE k = 1
      <4>0. 1 \in 1..n /\ 1 - 1 = 0
        BY <3>2
      <4>1. f[1] = f[0] \o e[1] /\ f[0] = <<>> /\ e[1] = NodeBytes(value, 1) /\ e[1] \in Seq(Byte)
        BY <4>0, <2>1, <1>2, <1>4
      <4> QED
        BY <3>2, <4>1
    <3>3. CASE k # 0 /\ k # 1
      <4>0. k \in 1..n /\ k - 1 \in 0..n
        BY <1>1, <3>3, SMT
      <4>1. k \in 1..n /\ f[k] = f[k - 1] \o e[k] /\ f[k - 1] \in Seq(Byte)
        BY <4>0, <2>1
      <4>2. f[k] = f[k - 1] \o <<36>> \o NodeBytes(value, k)
        BY <4>1, <3>3, <1>6
      <4> QED
        BY <3>3, <4>2
    <3> QED
      BY <3>1, <3>2, <3>3
  <2>3. f = [k \in 0..n |-> f[k]]
    BY <2>1
  <2>4. A(f) = [k \in 0..n |-> A(f)[k]]
    OBVIOUS
  <2> HIDE DEF A
  <2> QED
    BY <2>2, <2>3, <2>4
<1>9. x = A(x)
  <2> HIDE DEF A
  <2> QED
    BY <1>5, <1>8
<1>10. /\ x = [k \in 0..n |-> x[k]] /\ x[0] = <<>>
       /\ \A k \in 1..n : x[k] = IF k = 1 THEN NodeBytes(value, 1)
                                 ELSE x[k - 1] \o <<36>> \o NodeBytes(value, k)
  <2> DEFINE y == A(x)
  <2>1. /\ y = [k \in 0..n |-> y[k]] /\ y[0] = <<>>
        /\ \A k \in 1..n : y[k] = IF k = 1 THEN NodeBytes(value, 1)
                                  ELSE x[k - 1] \o <<36>> \o NodeBytes(value, k)
    BY <1>1
  <2>2. x = y
    BY <1>9
  <2> HIDE DEF y
  <2> QED
    BY <2>1, <2>2
<1>11. ASSUME NEW k \in 1..n, x[k - 1] \in Seq(Byte) PROVE x[k] = x[k - 1] \o e[k]
  <2>1. CASE k = 1
    <3>1. x[1] = NodeBytes(value, 1) /\ e[1] = NodeBytes(value, 1) /\ x[0] = <<>>
      BY <1>4, <1>10, <2>1
    <3>2. e[1] \in Seq(Byte)
      BY <1>2, <2>1
    <3>3. x[0] \o e[1] = e[1]
      BY <3>1, <3>2
    <3>4. k - 1 = 0
      BY <2>1
    <3> QED
      BY <2>1, <3>1, <3>3, <3>4, Zenon
  <2>2. CASE k # 1
    BY <1>6, <1>10, <1>11, <2>2
  <2> QED
    BY <2>1, <2>2
<1> HIDE DEF A
<1>12. Chain(x, Byte, e, n)
  BY <1>1, <1>2, <1>10, <1>11, ChainIs
<1> QED
  BY <1>12 DEF x, e, n

\* Numbers, low byte first.
LEMMA WordBytesAre ==
  ASSUME NEW value, Len(value) \in Nat, \A i \in 1..Len(value) : value[i] \in Int
  PROVE  /\ WordBytes(value) \in Seq(Byte) /\ Len(WordBytes(value)) = 2 * Len(value)
         /\ \A k \in 1..Len(value) :
              /\ WordBytes(value)[2 * k - 1] = value[k] % 256
              /\ WordBytes(value)[2 * k] = ((value[k] + 65536) \div 256) % 256
<1> DEFINE n == Len(value)
           b(i) == IF i % 2 = 1 THEN value[(i + 1) \div 2] % 256
                   ELSE ((value[i \div 2] + 65536) \div 256) % 256
           s == [i \in 1..2 * n |-> b(i)]
<1>1. n \in Nat /\ \A i \in 1..n : value[i] \in Int
  OBVIOUS
<1>2. WordBytes(value) = s
  BY SMT DEF WordBytes
<1> HIDE DEF n
<1>3. ASSUME NEW i \in 1..2 * n PROVE b(i) \in Byte
  <2>1. i \in Nat /\ 1 <= i /\ i <= 2 * n
    BY <1>1, SMT
  <2>2. CASE i % 2 = 1
    <3>1. (i + 1) \div 2 \in 1..n
      BY <1>1, <2>1, <2>2, SMT
    <3>2. value[(i + 1) \div 2] \in Int
      BY <1>1, <3>1, Zenon
    <3>3. \A v \in Int : v % 256 \in Nat /\ v % 256 < 256
      BY SMT
    <3>4. value[(i + 1) \div 2] % 256 \in Byte
      BY <3>2, <3>3, ByteIs, SMT
    <3> QED
      BY <2>2, <3>4, SMT
  <2>3. CASE i % 2 # 1
    <3>1. i \div 2 \in 1..n
      BY <1>1, <2>1, <2>3, SMT
    <3>2. value[i \div 2] \in Int
      BY <1>1, <3>1, Zenon
    <3>3. \A v \in Int : ((v + 65536) \div 256) % 256 \in Nat /\ ((v + 65536) \div 256) % 256 < 256
      BY SMT
    <3>4. ((value[i \div 2] + 65536) \div 256) % 256 \in Byte
      BY <3>2, <3>3, ByteIs, SMTT(60)
    <3> QED
      BY <2>3, <3>4, SMT
  <2> QED
    BY <2>2, <2>3
<1>4. ASSUME NEW k \in 1..n
      PROVE  b(2 * k - 1) = value[k] % 256 /\ b(2 * k) = ((value[k] + 65536) \div 256) % 256
  <2>1. k \in Int
    BY <1>1
  <2>2. (2 * k - 1) % 2 = 1 /\ (2 * k) % 2 = 0 /\ ((2 * k - 1) + 1) \div 2 = k /\ (2 * k) \div 2 = k
    BY <2>1, SMT
  <2> QED
    BY <2>2, SMT
<1> HIDE DEF b
<1>5. 2 * n \in Nat
  BY <1>1
<1>6. s \in Seq(Byte) /\ Len(s) = 2 * n
  BY <1>3, <1>5
<1>7. ASSUME NEW k \in 1..n PROVE s[2 * k - 1] = b(2 * k - 1) /\ s[2 * k] = b(2 * k)
  <2>1. 2 * k - 1 \in 1..2 * n /\ 2 * k \in 1..2 * n
    BY <1>1, SMT
  <2> QED
    BY <2>1, Zenon
<1> HIDE DEF s
<1> QED
  BY <1>2, <1>4, <1>6, <1>7, SMT DEF n

\* What is said of a value that an entry has.
LEMMA ValueOfEntry ==
  ASSUME NEW e, IsEntry(e)
  PROVE  /\ e.type \in Nat /\ e.type < 16384 /\ e.flag \in 0..3 /\ e.lost \in Nat
         /\ Len(e.value) \in Nat /\ \A i \in 1..Len(e.value) : e.value[i] \in Int
         /\ Means(LookupParamInfo(e.type), e.value)
<1>1. e \in Entry /\ Means(LookupParamInfo(e.type), e.value)
  BY Zenon DEF IsEntry
<1>2. e.type \in TypeCode /\ e.flag \in 0..3 /\ e.value \in Seq(Number) /\ e.lost \in Nat
  BY <1>1, SMT DEF Entry
<1>3. \A n \in TypeCode : n \in Nat /\ n < 16384
  BY SMT DEF TypeCode
<1>4. \A n \in Number : n \in Int
  <2> DEFINE k == 32768
             m == 65535
  <2>1. Number = -k..m
    BY DEF Number
  <2>2. k \in Int /\ m \in Int
    OBVIOUS
  <2> HIDE DEF k, m
  <2> QED
    BY <2>1, <2>2, SMT
<1>5. Len(e.value) \in Nat /\ \A i \in 1..Len(e.value) : e.value[i] \in Number
  BY <1>2, LenProperties, ElementOfSeq, Zenon
<1> QED
  BY <1>1, <1>2, <1>3, <1>4, <1>5, SMT

-----------------------------------------------------------------------------
(* The entries of a report, one after the other.                           *)

EncodedBytes(e) == Encoded(LookupParamInfo(e.type), e.value)
DataOf(e) == SubSeq(EncodedBytes(e), 1, Len(EncodedBytes(e)) - e.lost)

\* A value is written as bytes.
LEMMA EncodedIsBytes ==
  ASSUME NEW e, IsEntry(e)
  PROVE  EncodedBytes(e) \in Seq(Byte)
<1> DEFINE kind == LookupParamInfo(e.type)
           value == e.value
<1>1. /\ Means(kind, value) /\ Len(value) \in Nat
      /\ \A i \in 1..Len(value) : value[i] \in Int
  BY ValueOfEntry, SMT
<1>2. EncodedBytes(e) = Encoded(kind, value)
  BY Zenon DEF EncodedBytes
<1> HIDE DEF kind, value
<1>3. CASE kind = "uint8"
  <2>1. Encoded(kind, value) = value
    BY <1>3, SMT DEF Encoded
  <2>2. value \in Seq(Byte)
    BY <1>1, <1>3, SMT DEF Means
  <2> QED
    BY <1>2, <2>1, <2>2, Zenon
<1>4. CASE kind = "topology"
  <2>1. Encoded(kind, value) = TopologyBytes(value)
    BY <1>4, SMT DEF Encoded
  <2>2. value \in Seq(Byte)
    BY <1>1, <1>4, SMT DEF Means
  <2>3. Chain(NodesRun(value), Byte, NodeLinks(value), Len(value) \div 14)
    BY <2>2, NodesChain, Zenon
  <2>4. Len(value) \div 14 \in 0..Len(value) \div 14
    BY <1>1, SMT
  <2>5. NodesRun(value)[Len(value) \div 14] \in Seq(Byte)
    BY <2>3, <2>4, Zenon DEF Chain
  <2> QED
    BY <1>2, <2>1, <2>5, TopologyOfRun, Zenon
<1>5. CASE kind \notin {"uint8", "topology"}
  <2>1. Encoded(kind, value) = WordBytes(value)
    BY <1>5, SMT DEF Encoded
  <2> QED
    BY <1>1, <1>2, <2>1, WordBytesAre, SMT
<1> QED
  BY <1>3, <1>4, <1>5, Zenon

\* An entry is its type, its flag, and what is left of its data.
LEMMA EntryIsCoded ==
  ASSUME NEW e, IsEntry(e)
  PROVE  /\ DataOf(e) \in Seq(Byte) /\ Len(DataOf(e)) = Len(EncodedBytes(e)) - e.lost
         /\ \A i \in 1..Len(DataOf(e)) : DataOf(e)[i] = EncodedBytes(e)[i]
         /\ IsCoded(EntryBytes(e), 4 * e.type + e.flag, e.flag, DataOf(e))
<1> DEFINE b == EncodedBytes(e)
           n == Len(b)
           d == DataOf(e)
<1>1. e.type \in Nat /\ e.type < 16384 /\ e.flag \in 0..3 /\ e.lost \in Nat
  BY ValueOfEntry, SMT
<1>2. e.lost <= n /\ Fits(e.flag, n - e.lost)
  BY SMT DEF IsEntry, EncodedBytes
<1>3. b \in Seq(Byte) /\ d = SubSeq(b, 1, Len(b) - e.lost)
  BY EncodedIsBytes, Zenon DEF DataOf
<1>4. EntryBytes(e) = EncodeParamEntry(e.type, e.flag, d)
  BY Zenon DEF EntryBytes, DataOf, EncodedBytes
<1> HIDE DEF b, d
<1>5. /\ d \in Seq(Byte) /\ Len(d) = Len(b) - e.lost
      /\ \A i \in 1..Len(d) : d[i] = b[i]
  <2>1. e.lost \in Nat /\ e.lost <= Len(b) /\ Len(b) \in Nat
    BY <1>1, <1>2, <1>3, SMT
  <2> QED
    BY <2>1, <1>3
<1>6. Fits(e.flag, Len(d))
  BY <1>2, <1>5, Zenon
<1>7. IsCoded(EncodeParamEntry(e.type, e.flag, d), 4 * e.type + e.flag, e.flag, d)
  BY <1>1, <1>5, <1>6, EntryIs, SMT
<1> QED
  BY <1>4, <1>5, <1>7, Zenon DEF b, d

EntriesOf(params) == [i \in 1..Len(params) |-> EntryBytes(params[i])]

ListRun(params) ==
  CHOOSE upTo : upTo = [n \in 0..Len(params) |->
                          IF n = 0 THEN <<>> ELSE upTo[n - 1] \o EntryBytes(params[n])]

\* A parameter list is what the recursion over its entries has at the end.
LEMMA ListOfRun ==
  ASSUME NEW params
  PROVE  List(params) = ListRun(params)[Len(params)]
BY DEF List, ListRun

\* A parameter list is the chain of its entries.
LEMMA ListChain ==
  ASSUME NEW params, Len(params) \in Nat, \A i \in 1..Len(params) : IsEntry(params[i])
  PROVE  /\ \A i \in 1..Len(params) : EntriesOf(params)[i] \in Seq(Byte)
         /\ Chain(ListRun(params), Byte, EntriesOf(params), Len(params))
<1> DEFINE n == Len(params)
           e == EntriesOf(params)
           A(h) == [k \in 0..n |-> IF k = 0 THEN <<>> ELSE h[k - 1] \o EntryBytes(params[k])]
           f == TheChain(Byte, e, n)
           x == ListRun(params)
<1>1. n \in Nat
  OBVIOUS
<1>2. \A k \in 1..n : e[k] = EntryBytes(params[k])
  BY DEF EntriesOf
<1>3. \A k \in 1..n : e[k] \in Seq(Byte)
  <2>1. ASSUME NEW k \in 1..n PROVE e[k] \in Seq(Byte)
    <3>1. IsCoded(EntryBytes(params[k]), 4 * params[k].type + params[k].flag, params[k].flag, DataOf(params[k]))
      BY EntryIsCoded, Zenon
    <3> QED
      BY <1>2, <3>1, SMT DEF IsCoded
  <2> QED
    BY <2>1, Zenon
<1>4. x = CHOOSE h : h = A(h)
  BY DEF ListRun
<1> HIDE DEF n, e, x
<1>5. Chain(f, Byte, e, n)
  BY <1>1, <1>3, ChainExists
<1> HIDE DEF f
<1>6. f = A(f)
  <2>1. f \in [0..n -> Seq(Byte)] /\ f[0] = <<>> /\ \A i \in 1..n : f[i] = f[i - 1] \o e[i]
    BY <1>5 DEF Chain
  <2>2. f = [k \in 0..n |-> f[k]]
    BY <2>1, Zenon
  <2>3. \A k \in 0..n : k = 0 \/ k \in 1..n
    BY <1>1
  <2>4. \A k \in 0..n : f[k] = IF k = 0 THEN <<>> ELSE f[k - 1] \o EntryBytes(params[k])
    BY <1>2, <2>1, <2>3, Zenon
  <2> QED
    BY <2>2, <2>4
<1>7. x = A(x)
  <2> HIDE DEF A
  <2> QED
    BY <1>4, <1>6
<1>8. /\ x = [k \in 0..n |-> x[k]] /\ x[0] = <<>>
      /\ \A k \in 1..n : x[k] = x[k - 1] \o EntryBytes(params[k])
  <2> DEFINE y == A(x)
  <2>1. /\ y = [k \in 0..n |-> y[k]] /\ y[0] = <<>>
        /\ \A k \in 1..n : y[k] = x[k - 1] \o EntryBytes(params[k])
    <3>1. 0 \in 0..n /\ \A k \in 1..n : k \in 0..n /\ k # 0
      BY <1>1
    <3> QED
      BY <3>1, Zenon
  <2>2. x = y
    BY <1>7
  <2> HIDE DEF y
  <2> QED
    BY <2>1, <2>2
<1>9. \A k \in 1..n : x[k - 1] \in Seq(Byte) => x[k] = x[k - 1] \o e[k]
  BY <1>2, <1>8
<1> HIDE DEF A
<1>10. Chain(x, Byte, e, n)
  BY <1>1, <1>3, <1>8, <1>9, ChainIs
<1> QED
  BY <1>3, <1>10, Zenon DEF x, e, n

\* What a report is: entries, their list, and a body that is the list up to the cut.
LEMMA ReportIs ==
  ASSUME NEW r, IsReport(r)
  PROVE  /\ Len(r.params) \in Nat /\ \A i \in 1..Len(r.params) : IsEntry(r.params[i])
         /\ List(r.params) \in Seq(Byte) /\ Body(r) \in Seq(Byte)
         /\ r.cut \in Nat /\ r.cut <= Len(List(r.params))
         /\ Len(Body(r)) = Len(List(r.params)) - r.cut
         /\ \A i \in 1..Len(Body(r)) : Body(r)[i] = List(r.params)[i]
         /\ r.count \in 0..15
<1> DEFINE b == List(r.params)
<1>1. /\ Len(r.params) \in Nat /\ \A i \in 1..Len(r.params) : IsEntry(r.params[i])
      /\ r.count \in 0..15 /\ r.cut \in 0..Len(b)
  BY LenProperties, Zenon DEF IsReport
<1>2. Chain(ListRun(r.params), Byte, EntriesOf(r.params), Len(r.params))
  BY <1>1, ListChain, Zenon
<1>3. Len(r.params) \in 0..Len(r.params)
  BY <1>1
<1>4. b \in Seq(Byte)
  BY <1>2, <1>3, ListOfRun, Zenon DEF Chain
<1>5. Body(r) = SubSeq(b, 1, Len(b) - r.cut)
  BY Zenon DEF Body
<1> HIDE DEF b
<1>6. r.cut \in Nat /\ r.cut <= Len(b)
  BY <1>1, <1>4
<1>7. /\ Body(r) \in Seq(Byte) /\ Len(Body(r)) = Len(b) - r.cut
      /\ \A i \in 1..Len(Body(r)) : Body(r)[i] = b[i]
  BY <1>4, <1>5, <1>6
<1> QED
  BY <1>1, <1>4, <1>6, <1>7, Zenon DEF b

\* Ids are six bytes.
LEMMA IdIs ==
  ASSUME NEW id \in Ids
  PROVE  id \in Seq(Byte) /\ Len(id) <= 6 /\ Len(id) >= 6
<1>1. id \in Seq(Byte) /\ Len(id) = 6
  BY IdsAreIds, Zenon
<1> DEFINE n == Len(id)
<1>2. n = 6
  BY <1>1, Zenon
<1> HIDE DEF n
<1>3. n <= 6 /\ n >= 6
  BY <1>2
<1> QED
  BY <1>1, <1>3, Zenon DEF n

\* The frame of a report: id, head byte, body.
DataFrameOf(id, head, body) == Seal(id \o <<head>> \o body)

IsDataFrame(frame, id, head, body) ==
  /\ frame \in Seq(Byte) /\ Len(frame) = 9 + Len(body) /\ Sound(frame)
  /\ frame[7] = head
  /\ \A i \in 1..6 : frame[i] = id[i]
  /\ \A i \in 1..Len(body) : frame[7 + i] = body[i]

\* A data frame that arrives, byte by byte.
LEMMA DataFrameIs ==
  ASSUME NEW id \in Seq(Byte), Len(id) <= 6, Len(id) >= 6, NEW head \in Byte,
         NEW body \in Seq(Byte)
  PROVE  IsDataFrame(DataFrameOf(id, head, body), id, head, body)
<1> DEFINE frame == DataFrameOf(id, head, body)
<1> DEFINE buf == id \o <<head>> \o body
<1>1. buf \in Seq(Byte) /\ Len(buf) = 7 + Len(body) /\ buf[7] = head
  OBVIOUS
<1>2. \A i \in 1..Len(body) : buf[7 + i] = body[i]
  OBVIOUS
<1>3. \A i \in 1..6 : buf[i] = id[i]
  OBVIOUS
<1>4. frame = Seal(buf)
  BY DEF DataFrameOf
<1> HIDE DEF buf, frame
<1>5. frame \in Seq(Byte) /\ Len(frame) = Len(buf) + 2 /\ Sound(frame)
  BY <1>1, <1>4, SealIsSound
<1>6. \A i \in 1..Len(buf) : frame[i] = buf[i]
  BY <1>1, <1>4, SealIsSound
<1>7. /\ \A i \in 1..7 : i \in 1..Len(buf)
      /\ \A i \in 1..Len(body) : 7 + i \in 1..Len(buf)
  BY <1>1
<1>8. \A i \in 1..7 : frame[i] = buf[i]
  BY <1>6, <1>7
<1>9. \A i \in 1..Len(body) : frame[7 + i] = body[i]
  BY <1>2, <1>6, <1>7
<1>10. Len(frame) = 9 + Len(body)
  BY <1>1, <1>5
<1>11. frame[7] = head
  <2>1. 7 \in 1..7
    OBVIOUS
  <2> QED
    BY <1>1, <1>8, <2>1, Zenon
<1>12. \A i \in 1..6 : frame[i] = id[i]
  <2>1. \A i \in 1..6 : i \in 1..7
    OBVIOUS
  <2> QED
    BY <1>3, <1>8, <2>1, Zenon
<1>13. IsDataFrame(frame, id, head, body)
  BY <1>5, <1>9, <1>10, <1>11, <1>12, Zenon DEF IsDataFrame
<1> QED
  BY <1>13 DEF frame

-----------------------------------------------------------------------------
(* The frame on its way.                                                   *)

Stages == {"idle", "request", "ack", "arrived", "refused", "params", "read", "handled", "dead"}
Accepting == {"params", "read", "handled", "dead"}   \* the checks are passed
Arrived == {"arrived", "refused"} \cup Accepting

\* What the link has not changed: monitoring data or an alarm, the question for the time,
\* or the answer to the request, with its control byte.
IsClean(request, frame) ==
  /\ Sound(frame)
  /\ \/ request = "none" /\ IsData(frame)
     \/ request = "none" /\ DataCount(frame) = 0
     \/ /\ request # "none" /\ PacketType(frame) = 5 /\ frame[8] = Request[request][8]

\* A frame that is damaged does not pass the checks, what is sent passes them, and a
\* reader is the one of the request's answer.
Inv ==
  /\ pc \in Stages /\ damaged \in BOOLEAN
  /\ pc = "idle" => origin.request = "none"
  /\ pc \in Arrived => origin.request \in Names \cup {"none"}
  /\ pc \in {"idle", "request", "ack"} => ~damaged
  /\ pc \in {"idle", "request", "ack", "arrived"} => reply = <<>> /\ found = <<>>
  /\ pc = "request" => origin.request \in Names /\ wire = Request[origin.request]
  /\ pc \in Arrived => wire \in Seq(Byte) /\ Len(wire) >= 9
  /\ pc = "arrived" => IF damaged THEN ~Sound(wire) ELSE IsClean(origin.request, wire)
  /\ damaged => pc \in {"arrived", "refused"} /\ found = <<>> /\ (reply # <<>> => reply[8] = 0)
  /\ reply # <<>> => Len(reply) >= 9 /\ Sound(reply) /\ DataCount(reply) = DataCount(wire)
  /\ pc \in Accepting /\ origin.request # "none" => reader \in HandlersOf(origin.request)

\* The count of a frame is four bits.
LEMMA CountIs ==
  ASSUME NEW frame \in Seq(Byte), Len(frame) >= 9
  PROVE  DataCount(frame) \in 0..15
<1>1. frame[7] \in Byte
  OBVIOUS
<1>2. frame[7] \in Nat /\ frame[7] < 256
  BY <1>1, ByteIs
<1>3. \A b \in Nat : b < 256 => b \div 16 \in 0..15
  OBVIOUS
<1> QED
  BY <1>2, <1>3, Zenon DEF DataCount

\* A status is sent with the count of the frame.
LEMMA StatusOfWire ==
  ASSUME NEW ok \in BOOLEAN, wire \in Seq(Byte), Len(wire) >= 9
  PROVE  /\ Status(ok) # <<>> /\ Len(Status(ok)) >= 9 /\ Sound(Status(ok))
         /\ DataCount(Status(ok)) = DataCount(wire)
         /\ Status(ok)[8] = IF ok THEN 255 ELSE 0
<1> DEFINE p == IF PacketType(wire) = 0 THEN 1 ELSE 3
           st == IF ok THEN 255 ELSE 0
           n == DataCount(wire)
           s == SendDataStatus(p, st, n)
<1>1. p \in 0..7 /\ n \in 0..15
  BY CountIs
<1>2. st \in Byte
  BY DEF Byte
<1>3. Status(ok) = s
  BY DEF Status
<1> HIDE DEF p, st, n
<1>4. Len(s) = 10 /\ Sound(s) /\ DataCount(s) = n /\ s[8] = st
  BY <1>1, <1>2, StatusIs, Zenon
<1> HIDE DEF s
<1>5. s # <<>> /\ Len(s) >= 9
  <2>1. Len(<<>>) = 0
    OBVIOUS
  <2> DEFINE k == Len(s)
  <2>2. k = 10
    BY <1>4, Zenon
  <2>3. Len(s) = k
    OBVIOUS
  <2> HIDE DEF k
  <2>4. k >= 9 /\ k # 0
    BY <2>2
  <2>5. s # <<>>
    BY <2>1, <2>3, <2>4, Zenon
  <2> QED
    BY <2>3, <2>4, <2>5, Zenon
<1> QED
  BY <1>3, <1>4, <1>5, Zenon DEF st, n

LEMMA InitInv == Init => Inv
<1> SUFFICES ASSUME Init PROVE Inv
  OBVIOUS
<1>1. /\ pc = "idle" /\ damaged = FALSE /\ reply = <<>> /\ found = <<>>
      /\ origin.request = "none"
  BY DEF Init, Nothing
<1>2. pc \in Stages /\ damaged \in BOOLEAN /\ pc \notin Arrived /\ pc \notin Accepting
  BY <1>1 DEF Stages, Arrived, Accepting
<1>3. pc # "request" /\ pc # "arrived"
  BY <1>1
<1> QED
  BY <1>1, <1>2, <1>3, Zenon DEF Inv

\* Which stage is what.
LEMMA StagesAre ==
  /\ Accepting \subseteq Arrived /\ Arrived \subseteq Stages
  /\ {"idle", "request", "ack"} \cap Arrived = {}
  /\ {"idle", "request", "ack", "arrived", "refused"} \cap Accepting = {}
  /\ {"idle", "request", "ack"} \subseteq Stages
  /\ "arrived" \in Arrived /\ "refused" \in Arrived
BY DEF Stages, Arrived, Accepting

LEMMA RequestInv == ASSUME Inv, SendRequest PROVE Inv'
<1>1. /\ pc' = "request" /\ damaged = FALSE /\ damaged' = damaged /\ reply = <<>> /\ found = <<>>
      /\ reply' = reply /\ found' = found
  BY DEF Inv, SendRequest, loop
<1>2. PICK name \in DOMAIN Request :
        wire' = Request[name] /\ origin' = [Nothing EXCEPT !.request = name]
  BY DEF SendRequest
<1>3. name \in Names /\ origin'.request = name
  BY <1>2, RequestIs DEF Nothing
<1>4. pc' \in Stages /\ pc' \notin Arrived /\ pc' \notin Accepting /\ pc' # "arrived" /\ pc' # "idle"
  BY <1>1, StagesAre
<1> QED
  BY <1>1, <1>2, <1>3, <1>4, Zenon DEF Inv

LEMMA AckInv == ASSUME Inv, SendAck PROVE Inv'
<1>1. /\ pc' = "ack" /\ damaged = FALSE /\ damaged' = damaged /\ reply = <<>> /\ found = <<>>
      /\ reply' = reply /\ found' = found
  BY DEF Inv, SendAck, loop
<1>2. pc' \in Stages /\ pc' \notin Arrived /\ pc' \notin Accepting
      /\ pc' # "arrived" /\ pc' # "idle" /\ pc' # "request"
  BY <1>1, StagesAre
<1> QED
  BY <1>1, <1>2, Zenon DEF Inv

\* A frame arrives.
LEMMA ArrivesInv ==
  ASSUME Inv, pc \in {"idle", "request"}, NEW frame, NEW r, Arrives(frame, r),
         frame \in Seq(Byte), Len(frame) >= 9, IsClean(origin.request, frame),
         origin.request \in Names \cup {"none"}
  PROVE  Inv'
<1>1. /\ pc' = "arrived" /\ wire' = frame /\ origin'.request = origin.request
      /\ damaged' = damaged /\ reply' = reply /\ found' = found
  BY DEF Arrives, loop
<1>2. damaged = FALSE /\ reply = <<>> /\ found = <<>>
  BY DEF Inv
<1>3. IsClean(origin'.request, wire')
  BY <1>1, Zenon
<1>4. pc' \in Stages /\ pc' \in Arrived /\ pc' \notin Accepting /\ pc' # "request" /\ pc' # "idle"
  BY <1>1, StagesAre
<1> QED
  BY <1>1, <1>2, <1>3, <1>4, Zenon DEF Inv

LEMMA ReportInv == ASSUME Inv, Report PROVE Inv'
<1>1. PICK id \in Ids, p \in {0, 2}, r \in Reports :
        Arrives(Seal(id \o <<HeadByte(r.count, 0, p)>> \o Body(r)), r)
  BY DEF Report
<1>2. pc = "idle" /\ origin.request = "none"
  BY DEF Report, Inv
<1> DEFINE head == HeadByte(r.count, 0, p)
           body == Body(r)
           frame == DataFrameOf(id, head, body)
<1>3. IsReport(r)
  BY ReportsAreReports
<1>4. body \in Seq(Byte) /\ r.count \in 0..15
  BY <1>3, ReportIs, Zenon
<1>5. p \in 0..7 /\ 0 \in 0..1
  OBVIOUS
<1>6. head \in Byte /\ (head \div 8) % 2 = 0 /\ head % 8 = p
  <2> DEFINE n == r.count
             f == 0
  <2>1. n \in 0..15 /\ f \in 0..1 /\ p \in 0..7 /\ head = HeadByte(n, f, p) /\ f = 0
    BY <1>4, <1>5
  <2> HIDE DEF n, f, head
  <2> QED
    BY <2>1, HeadIs
<1>7. Arrives(frame, r)
  BY <1>1, Zenon DEF DataFrameOf
<1> HIDE DEF head, body, frame
<1>8. IsDataFrame(frame, id, head, body)
  BY <1>4, <1>6, IdIs, DataFrameIs, Zenon DEF frame
<1>9. frame \in Seq(Byte) /\ Sound(frame) /\ frame[7] = head
  BY <1>8, Zenon DEF IsDataFrame
<1>10. Len(frame) >= 9
  <2>1. Len(frame) = 9 + Len(body)
    BY <1>8, Zenon DEF IsDataFrame
  <2>2. Len(body) \in Nat
    BY <1>4
  <2> QED
    BY <2>1, <2>2
<1>11. IsData(frame)
  BY <1>6, <1>9 DEF IsData, FragInd, PacketType
<1>12. IsClean(origin.request, frame)
  BY <1>2, <1>9, <1>11, Zenon DEF IsClean
<1> QED
  BY <1>2, <1>7, <1>9, <1>10, <1>12, ArrivesInv

LEMMA AnswerInv == ASSUME Inv, Answer PROVE Inv'
<1>1. PICK id \in Ids, r \in Reports :
        Arrives(Seal(id \o <<HeadByte(r.count, 0, 5), wire[8]>> \o Body(r)), r)
  BY DEF Answer
<1>2. pc = "request" /\ origin.request \in Names /\ wire = Request[origin.request]
  BY DEF Answer, Inv
<1> DEFINE head == HeadByte(r.count, 0, 5)
           body == Body(r)
           c == wire[8]
           frame == FrameOf(id, head, c, body)
<1>3. IsReport(r)
  BY ReportsAreReports
<1>4. body \in Seq(Byte) /\ r.count \in 0..15
  BY <1>3, ReportIs, Zenon
<1>5. 5 \in 0..7 /\ 0 \in 0..1
  OBVIOUS
<1>6. head \in Byte /\ head % 8 = 5
  BY <1>4, <1>5, HeadIs, ZenonT(60)
<1>7. Arrives(frame, r)
  BY <1>1, Zenon DEF FrameOf
<1>8. c \in Byte
  BY <1>2, RequestIs, Zenon DEF IsRequest
<1>9. c = Request[origin.request][8] /\ origin.request # "none"
  BY <1>2 DEF Names
<1> HIDE DEF head, body, frame, c
<1>10. IsFrame(frame, id, head, c, body)
  BY <1>4, <1>6, <1>8, IdIs, FrameIs, Zenon DEF frame
<1>11. frame \in Seq(Byte) /\ Sound(frame) /\ frame[7] = head /\ frame[8] = c
  BY <1>10, Zenon DEF IsFrame
<1>12. Len(frame) >= 9
  <2>1. Len(frame) = 10 + Len(body)
    BY <1>10, Zenon DEF IsFrame
  <2>2. Len(body) \in Nat
    BY <1>4
  <2> QED
    BY <2>1, <2>2
<1>13. PacketType(frame) = 5
  BY <1>6, <1>11, Zenon DEF PacketType
<1>14. IsClean(origin.request, frame)
  BY <1>9, <1>11, <1>13, Zenon DEF IsClean
<1> QED
  BY <1>2, <1>7, <1>11, <1>12, <1>14, ArrivesInv

LEMMA CalibrationInv == ASSUME Inv, Calibration PROVE Inv'
<1>1. PICK id \in Ids :
        Arrives(ControlFrame(id, 0, 7, 0, <<>>), [params |-> <<>>, count |-> 0, cut |-> 0])
  BY DEF Calibration
<1>2. pc = "idle" /\ origin.request = "none"
  BY DEF Calibration, Inv
<1> DEFINE frame == ControlFrame(id, 0, 7, 0, <<>>)
<1>3. <<>> \in Seq(Byte) /\ Len(<<>>) = 0 /\ 7 \in 0..127 /\ 0 \in 0..1 /\ 0 \in 0..15
  OBVIOUS
<1>4. IsControlFrame(frame, id, 0, 7, 0, <<>>)
  BY <1>3, IdIs, ControlFrameIs, Zenon
<1> HIDE DEF frame
<1>5. frame \in Seq(Byte) /\ Sound(frame) /\ DataCount(frame) = 0 /\ Len(frame) = 10 + Len(<<>>)
  BY <1>4, Zenon DEF IsControlFrame
<1>6. Len(frame) >= 9
  BY <1>3, <1>5
<1>7. IsClean(origin.request, frame)
  BY <1>2, <1>5, Zenon DEF IsClean
<1>8. Arrives(frame, [params |-> <<>>, count |-> 0, cut |-> 0])
  BY <1>1, Zenon DEF frame
<1> QED
  BY <1>2, <1>5, <1>6, <1>7, <1>8, ArrivesInv

LEMMA DamageInv == ASSUME Inv, Damage PROVE Inv'
<1>1. /\ pc = "arrived" /\ damaged = FALSE /\ damaged' = TRUE
      /\ pc' = pc /\ origin' = origin /\ reply' = reply /\ found' = found
  BY DEF Damage, loop, Inv
<1>2. PICK i \in DOMAIN wire, d \in Damages : wire' = [wire EXCEPT ![i] = (wire[i] + d) % 256]
  BY DEF Damage
<1> DEFINE v == (wire[i] + d) % 256
<1>3. wire \in Seq(Byte) /\ Len(wire) >= 9 /\ IsClean(origin.request, wire)
      /\ reply = <<>> /\ found = <<>> /\ origin.request \in Names \cup {"none"}
  BY <1>1, StagesAre, Zenon DEF Inv
<1>4. i \in 1..Len(wire) /\ wire[i] \in Byte
  BY <1>3
<1>5. v \in Byte /\ v # wire[i]
  <2>1. d \in 1..255
    BY DamageChanges
  <2>2. d \in Int /\ 1 <= d /\ d <= 255
    BY <2>1, SMT
  <2>3. wire[i] \in Nat /\ wire[i] < 256
    BY <1>4, ByteIs
  <2>4. \A b, e \in Int : 0 <= b /\ b < 256 /\ 1 <= e /\ e <= 255
           => (b + e) % 256 \in Nat /\ (b + e) % 256 < 256 /\ (b + e) % 256 # b
    BY SMT
  <2>5. (wire[i] + d) % 256 \in Nat /\ (wire[i] + d) % 256 < 256 /\ (wire[i] + d) % 256 # wire[i]
    BY <2>2, <2>3, <2>4, SMT
  <2> QED
    BY <2>5, ByteIs, SMT
<1>6. Sound(wire)
  BY <1>3, Zenon DEF IsClean
<1>7. Len(wire) >= 2
  BY <1>3
<1> HIDE DEF v
<1>8. wire' = [wire EXCEPT ![i] = v]
  BY <1>2, Zenon DEF v
<1>9. ~Sound(wire') /\ wire' \in Seq(Byte) /\ Len(wire') = Len(wire)
  BY <1>3, <1>4, <1>5, <1>6, <1>7, <1>8, OneByteSpoils
<1>10. pc' \in Stages /\ pc' \in Arrived /\ pc' \notin Accepting /\ pc' # "request" /\ pc' # "idle"
  BY <1>1, StagesAre
<1> QED
  BY <1>1, <1>3, <1>9, <1>10, Zenon DEF Inv

LEMMA RefuseInv == ASSUME Inv, Refuse PROVE Inv'
<1>1. /\ pc = "arrived" /\ pc' = "refused" /\ wire' = wire /\ origin' = origin
      /\ damaged' = damaged /\ found' = found
  BY DEF Refuse, loop
<1>2. /\ wire \in Seq(Byte) /\ Len(wire) >= 9 /\ reply = <<>> /\ found = <<>>
      /\ origin.request \in Names \cup {"none"} /\ damaged \in BOOLEAN
  BY <1>1, StagesAre, Zenon DEF Inv
<1>3. reply' \in {reply, Status(FALSE)}
  BY DEF Refuse
<1>4. /\ Len(Status(FALSE)) >= 9 /\ Sound(Status(FALSE))
      /\ DataCount(Status(FALSE)) = DataCount(wire) /\ Status(FALSE)[8] = 0
  BY <1>2, StatusOfWire
<1>5. reply' # <<>> => /\ Len(reply') >= 9 /\ Sound(reply')
                       /\ DataCount(reply') = DataCount(wire') /\ reply'[8] = 0
  BY <1>1, <1>2, <1>3, <1>4
<1>6. pc' \in Stages /\ pc' \in Arrived /\ pc' \notin Accepting
      /\ pc' # "request" /\ pc' # "idle" /\ pc' # "ack" /\ pc' # "arrived"
  BY <1>1, StagesAre
<1> QED
  BY <1>1, <1>2, <1>5, <1>6, Zenon DEF Inv

\* What is accepted is as it was sent.
LEMMA AcceptedIsClean ==
  ASSUME Inv, Accepted
  PROVE  /\ pc = "arrived" /\ damaged = FALSE /\ IsClean(origin.request, wire)
         /\ wire \in Seq(Byte) /\ Len(wire) >= 9 /\ reply = <<>> /\ found = <<>>
         /\ origin.request \in Names \cup {"none"}
<1>1. pc = "arrived" /\ Sound(wire)
  BY DEF Accepted
<1> QED
  BY <1>1, StagesAre, Zenon DEF Inv

LEMMA AcceptDataInv == ASSUME Inv, AcceptData PROVE Inv'
<1>1. /\ Accepted /\ IsData(wire) /\ reply' = Status(TRUE) /\ pc' = "params"
      /\ wire' = wire /\ origin' = origin /\ damaged' = damaged /\ found' = found
      /\ reader' = "StartParser"
  BY DEF AcceptData, StartLoop
<1>2. /\ damaged = FALSE /\ IsClean(origin.request, wire)
      /\ wire \in Seq(Byte) /\ Len(wire) >= 9 /\ origin.request \in Names \cup {"none"}
  BY <1>1, AcceptedIsClean
<1>3. PacketType(wire) # 5
  BY <1>1 DEF IsData
<1>4. origin.request = "none"
  BY <1>2, <1>3, Zenon DEF IsClean
<1>5. /\ Len(Status(TRUE)) >= 9 /\ Sound(Status(TRUE))
      /\ DataCount(Status(TRUE)) = DataCount(wire)
  BY <1>2, StatusOfWire
<1>6. pc' \in Stages /\ pc' \in Arrived
      /\ pc' # "request" /\ pc' # "idle" /\ pc' # "ack" /\ pc' # "arrived"
  BY <1>1 DEF Stages, Arrived, Accepting
<1> QED
  BY <1>1, <1>2, <1>4, <1>5, <1>6, Zenon DEF Inv

\* The control byte of an answer is the request's, and leads to its handler.
LEMMA HandlerOfAnswer ==
  ASSUME Inv, Accepted, origin.request # "none"
  PROVE  LookupResponseHandle(wire[8]) \in HandlersOf(origin.request)
<1>1. IsClean(origin.request, wire) /\ origin.request \in Names
  BY AcceptedIsClean
<1>2. wire[8] = Request[origin.request][8]
  BY <1>1, Zenon DEF IsClean
<1> QED
  BY <1>1, <1>2, RequestIs, Zenon DEF IsRequest

LEMMA AcceptResponseInv == ASSUME Inv, AcceptResponse PROVE Inv'
<1>1. /\ Accepted /\ pc' = "params" /\ wire' = wire /\ origin' = origin
      /\ damaged' = damaged /\ found' = found /\ reply' = reply
      /\ reader' = "common_para_response"
      /\ LookupResponseHandle(wire[8]) = "common_para_response"
  BY DEF AcceptResponse, StartLoop
<1>2. /\ damaged = FALSE /\ reply = <<>>
      /\ wire \in Seq(Byte) /\ Len(wire) >= 9 /\ origin.request \in Names \cup {"none"}
  BY <1>1, AcceptedIsClean
<1>3. origin.request # "none" => reader' \in HandlersOf(origin.request)
  BY <1>1, HandlerOfAnswer
<1>4. pc' \in Stages /\ pc' \in Arrived
      /\ pc' # "request" /\ pc' # "idle" /\ pc' # "ack" /\ pc' # "arrived"
  BY <1>1 DEF Stages, Arrived, Accepting
<1> QED
  BY <1>1, <1>2, <1>3, <1>4, Zenon DEF Inv

LEMMA AcceptOtherInv == ASSUME Inv, AcceptOther PROVE Inv'
<1> DEFINE handler == IF Len(wire) > 9 THEN LookupResponseHandle(wire[8]) ELSE "none"
           time == RestCommandBuildFrame(eidStr, 1, TimeStamp)
<1>1. /\ Accepted /\ IsControl(wire) /\ pc' \in {"dead", "handled"}
      /\ wire' = wire /\ origin' = origin /\ damaged' = damaged /\ found' = found
      /\ reader' = handler
      /\ reply' = reply \/ (handler = "resetCommands" /\ reply' = time)
  <2>1. Accepted /\ IsControl(wire) /\ pc' \in {"dead", "handled"}
    BY DEF AcceptOther
  <2>2. wire' = wire /\ origin' = origin /\ damaged' = damaged /\ found' = found
    BY Zenon DEF AcceptOther
  <2>3. reader' = handler
    BY Zenon DEF AcceptOther
  <2>4. reply' = reply \/ (handler = "resetCommands" /\ reply' = time)
    BY Zenon DEF AcceptOther
  <2> QED
    BY <2>1, <2>2, <2>3, <2>4, Zenon
<1>2. /\ damaged = FALSE /\ reply = <<>> /\ IsClean(origin.request, wire)
      /\ wire \in Seq(Byte) /\ Len(wire) >= 9 /\ origin.request \in Names \cup {"none"}
  BY <1>1, AcceptedIsClean
<1>3. origin.request # "none" => handler \in HandlersOf(origin.request)
  <2>1. "none" \in HandlersOf(origin.request)
    BY DEF HandlersOf
  <2> QED
    BY <1>1, <2>1, HandlerOfAnswer
<1>4. \A name : "resetCommands" \notin HandlersOf(name)
  BY DEF HandlersOf
<1>5. /\ Len(time) >= 9 /\ Sound(time) /\ DataCount(time) = 0
  <2>1. time = ControlFrame(eidStr, 0, 4, 1, TimeStamp)
    BY Zenon DEF RestCommandBuildFrame, BuildTimeParamFrame
  <2>2. TimeStamp \in Seq(Byte) /\ 4 \in 0..127 /\ 1 \in 0..1 /\ 0 \in 0..15
    BY TimeIsFourBytes
  <2> HIDE DEF time
  <2>3. IsControlFrame(time, eidStr, 0, 4, 1, TimeStamp)
    BY <2>1, <2>2, Eid, ControlFrameIs, Zenon
  <2>4. Len(time) = 10 + Len(TimeStamp) /\ Sound(time) /\ DataCount(time) = 0
    BY <2>3, Zenon DEF IsControlFrame
  <2>5. Len(TimeStamp) \in Nat
    BY <2>2
  <2> QED
    BY <2>4, <2>5
<1> HIDE DEF handler, time
<1>6. handler = "resetCommands" => DataCount(wire) = 0
  <2> SUFFICES ASSUME handler = "resetCommands" PROVE DataCount(wire) = 0
    OBVIOUS
  <2>1. origin.request = "none"
    BY <1>3, <1>4
  <2>2. ~IsData(wire)
    BY <1>1 DEF IsData, IsControl
  <2> QED
    BY <1>2, <2>1, <2>2, Zenon DEF IsClean
<1>7. reply' # <<>> => Len(reply') >= 9 /\ Sound(reply') /\ DataCount(reply') = DataCount(wire')
  BY <1>1, <1>2, <1>5, <1>6
<1>8. pc' \in Stages /\ pc' \in Arrived
      /\ pc' # "request" /\ pc' # "idle" /\ pc' # "ack" /\ pc' # "arrived"
  BY <1>1 DEF Stages, Arrived, Accepting
<1> QED
  BY <1>1, <1>2, <1>3, <1>7, <1>8, Zenon DEF Inv

\* The loop changes only where it is and what it has found.
LEMMA LoopInv ==
  ASSUME Inv, pc = "params", pc' \in {"params", "read", "dead"},
         wire' = wire, origin' = origin, damaged' = damaged, reply' = reply, reader' = reader
  PROVE  Inv'
<1>1. pc \in Stages /\ pc \in Arrived /\ pc \in Accepting
      /\ pc # "request" /\ pc # "idle" /\ pc # "ack" /\ pc # "arrived" /\ pc # "refused"
  BY DEF Stages, Arrived, Accepting
<1>2. pc' \in Stages /\ pc' \in Arrived /\ pc' \in Accepting
      /\ pc' # "request" /\ pc' # "idle" /\ pc' # "ack" /\ pc' # "arrived"
  BY DEF Stages, Arrived, Accepting
<1>3. damaged = FALSE
  BY <1>1, Zenon DEF Inv
<1> QED
  BY <1>1, <1>2, <1>3, Zenon DEF Inv

\* Every step keeps the invariant.
LEMMA StepInv == ASSUME Inv, [Next]_vars PROVE Inv'
<1>1. CASE SendRequest \/ SendAck \/ Report \/ Answer \/ Calibration \/ Damage
  BY <1>1, RequestInv, AckInv, ReportInv, AnswerInv, CalibrationInv, DamageInv
<1>2. CASE Refuse \/ AcceptData \/ AcceptResponse \/ AcceptOther
  BY <1>2, RefuseInv, AcceptDataInv, AcceptResponseInv, AcceptOtherInv
<1>3. CASE LoopEnds
  BY <1>3, LoopInv DEF LoopEnds, End, loop
<1>4. CASE LengthMissing
  BY <1>4, LoopInv DEF LengthMissing, InHeader, End, loop
<1>5. CASE DataMissing
  BY <1>5, LoopInv DEF DataMissing, InLength, InHeader, End, loop
<1>6. CASE Overrun
  BY <1>6, LoopInv DEF Overrun, InLength, InHeader, End, loop
<1>7. CASE ReadParam
  BY <1>7, LoopInv DEF ReadParam, InLength, InHeader
<1>8. CASE UNCHANGED vars
  BY <1>8, Zenon DEF vars, loop, Inv
<1> QED
  BY <1>1, <1>2, <1>3, <1>4, <1>5, <1>6, <1>7, <1>8 DEF Next

\* The first inductive invariant, for any ids, reports and damage: what is on its way is sound, or
\* damaged and then stopped by the checks of StartParser, and a reader is that of the answered request.
THEOREM Inductive == Spec => []Inv
<1>1. Init => Inv
  BY InitInv
<1>2. Inv /\ [Next]_vars => Inv'
  BY StepInv
<1> QED
  BY <1>1, <1>2, PTL DEF Spec

\* Requests, statuses and the command of the time pass the checks that the service makes
\* itself (frameparser/crc.go, command.go): length, CRC over all bytes before it, high byte
\* first; a status repeats the count of the frame it answers.
THEOREM SentSound == Spec => []SentIsSound
<1>1. ASSUME Inv PROVE SentIsSound
  <2>1. pc = "request" => Len(wire) >= 10 /\ Sound(wire) /\ FragInd(wire) = 0 /\ PacketType(wire) = 4
    BY <1>1, RequestIs, Zenon DEF Inv, IsRequest
  <2>2. pc = "request" => Len(wire) \in Int
    <3>1. pc = "request" => wire \in Seq(Byte)
      BY <1>1, RequestIs, Zenon DEF Inv, IsRequest
    <3> QED
      BY <3>1
  <2>3. pc = "request" => Len(wire) >= 9
    BY <2>1, <2>2
  <2>4. reply # <<>> => Len(reply) >= 9 /\ Sound(reply) /\ DataCount(reply) = DataCount(wire)
    BY <1>1, Zenon DEF Inv
  <2> QED
    BY <2>1, <2>3, <2>4, Zenon DEF SentIsSound
<1> QED
  BY <1>1, Inductive, PTL

\* One damaged byte of a frame of any length, whatever its entries, never gets past the
\* check of StartParser, and no success is sent for it.
THEOREM DamageNeverPasses == Spec => []DamageRefused
<1>1. ASSUME Inv PROVE DamageRefused
  BY <1>1, Zenon DEF Inv, DamageRefused
<1> QED
  BY <1>1, Inductive, PTL

\* The two tables compute the polynomial they are made from: over the bytes of every
\* request and every frame the sensor sends, checkCRC16 of crc.go has the CRC of the
\* bitwise definition. The lemma holds of every list of bytes, of whatever length.
THEOREM TablesAreThePolynomial == Spec => []TablesMatchPolynomial
<1>1. ASSUME Inv PROVE TablesMatchPolynomial
  <2> SUFFICES ASSUME pc \in {"request", "arrived"}
               PROVE  CRC16(SubSeq(wire, 1, Len(wire) - 2)) = BitwiseCRC(SubSeq(wire, 1, Len(wire) - 2))
    BY DEF TablesMatchPolynomial
  <2>1. wire \in Seq(Byte) /\ Len(wire) >= 2
    <3>1. pc = "request" => wire \in Seq(Byte) /\ Len(wire) >= 10
      BY <1>1, RequestIs, Zenon DEF Inv, IsRequest
    <3>2. pc = "arrived" => wire \in Seq(Byte) /\ Len(wire) >= 9
      BY <1>1, Zenon DEF Inv, Arrived
    <3> QED
      BY <3>1, <3>2
  <2>2. SubSeq(wire, 1, Len(wire) - 2) \in Seq(Byte)
    BY <2>1
  <2> QED
    BY <2>2, SameCrc
<1> QED
  BY <1>1, Inductive, PTL

\* The control bytes that the builders of command.go send are those that ResponseMap
\* leads back to the handler of what was asked.
THEOREM AnswersFindTheirHandler == Spec => []AnswerToItsHandler
<1>1. ASSUME Inv PROVE AnswerToItsHandler
  BY <1>1 DEF Inv, AnswerToItsHandler, HandlersOf, Accepting
<1> QED
  BY <1>1, Inductive, PTL

-----------------------------------------------------------------------------
(* What is read of a value is the value.                                   *)

Kinds == {"uint8", "uint16", "int16", "uint32", "float32", "float32Array", "uint16Array", "topology"}

\* Each parameter type has one of the readers, or none.
LEMMA KindsAre ==
  ASSUME NEW type \in Nat
  PROVE  LookupParamInfo(type) \in Kinds \cup {"none"}
<1> DEFINE section == IF type < 2048 * Len(paramMap) THEN paramMap[type \div 2048 + 1] ELSE <<>>
           kinds == {k \in DOMAIN section : type % 2048 \in section[k]}
<1>1. LookupParamInfo(type) = IF kinds = {} THEN "none" ELSE CHOOSE k \in kinds : TRUE
  BY DEF LookupParamInfo
<1>2. DOMAIN section \subseteq Kinds
  <2>1. /\ DOMAIN General \subseteq Kinds /\ DOMAIN Transmission \subseteq Kinds
        /\ DOMAIN Substation \subseteq Kinds /\ DOMAIN Auxiliary \subseteq Kinds
    BY DEF General, Transmission, Substation, Auxiliary, Kinds
  <2>2. Len(paramMap) = 4 /\ paramMap[1] = General /\ paramMap[2] = Transmission
        /\ paramMap[3] = Substation /\ paramMap[4] = Auxiliary
    BY DEF paramMap
  <2>3. CASE type < 2048 * Len(paramMap)
    <3>1. type < 8192
      BY <2>2, <2>3
    <3>2. type \div 2048 + 1 \in 1..4
      BY <3>1
    <3>3. type \div 2048 + 1 = 1 \/ type \div 2048 + 1 = 2 \/ type \div 2048 + 1 = 3 \/ type \div 2048 + 1 = 4
      BY <3>2
    <3> QED
      BY <2>1, <2>2, <2>3, <3>3, SMT
  <2>4. CASE ~(type < 2048 * Len(paramMap))
    <3>1. section = <<>>
      BY <2>4
    <3>2. DOMAIN <<>> = {}
      OBVIOUS
    <3> QED
      BY <3>1, <3>2, SMT
  <2> QED
    BY <2>3, <2>4, SMT
<1> HIDE DEF section
<1>3. kinds \subseteq Kinds
  BY <1>2
<1> HIDE DEF kinds
<1>4. kinds # {} => (CHOOSE k \in kinds : TRUE) \in kinds
  OBVIOUS
<1> QED
  BY <1>1, <1>3, <1>4, Zenon

\* The topology has code 8 of the general types.
LEMMA TopologyKind == LookupParamInfo(Type(0, 8)) = "topology"
<1>1. Type(0, 8) = 8
  BY DEF Type
<1>2. paramMap[1] = General /\ Len(paramMap) = 4
  BY DEF paramMap
<1>3. 8 < 2048 * Len(paramMap) /\ 8 \div 2048 + 1 = 1 /\ 8 % 2048 = 8
  BY <1>2
<1>4. {k \in DOMAIN General : 8 \in General[k]} = {"topology"}
  BY DEF General
<1>5. (CHOOSE k \in {"topology"} : TRUE) = "topology" /\ {"topology"} # {}
  OBVIOUS
<1> DEFINE section == IF 8 < 2048 * Len(paramMap) THEN paramMap[8 \div 2048 + 1] ELSE <<>>
           kinds == {k \in DOMAIN section : 8 % 2048 \in section[k]}
<1>6. section = General
  BY <1>2, <1>3, SMT
<1>7. LookupParamInfo(8) = IF kinds = {} THEN "none" ELSE CHOOSE k \in kinds : TRUE
  BY SMT DEF LookupParamInfo
<1> HIDE DEF section
<1>8. kinds = {"topology"}
  BY <1>3, <1>4, <1>6, SMT
<1> HIDE DEF kinds
<1> QED
  BY <1>1, <1>5, <1>7, <1>8, SMT

\* Words are read as they were written.
LEMMA WordsOfBytes ==
  ASSUME NEW value \in Seq(Word)
  PROVE  Words(WordBytes(value)) = value
<1> DEFINE n == Len(value)
           b == WordBytes(value)
           w == Words(b)
<1>1. n \in Nat /\ \A i \in 1..n : value[i] \in Word
  OBVIOUS
<1>2. \A i \in 1..n : value[i] \in Nat /\ value[i] < 65536
  BY <1>1, WordIs, SMT
<1>3. Len(b) = 2 * n /\ \A k \in 1..n : b[2 * k - 1] = value[k] % 256
                                     /\ b[2 * k] = ((value[k] + 65536) \div 256) % 256
  BY <1>1, <1>2, WordBytesAre, SMT
<1>4. w = [i \in 1..Len(b) \div 2 |-> b[2*i - 1] + 256 * b[2*i]]
  BY Zenon DEF Words
<1> HIDE DEF b, n, w
<1>5. Len(b) \div 2 = n
  BY <1>1, <1>3, SMT
<1>6. ASSUME NEW k \in 1..n PROVE b[2 * k - 1] + 256 * b[2 * k] = value[k]
  <2> DEFINE v == value[k]
  <2>1. v \in Nat /\ v < 65536 /\ b[2 * k - 1] = v % 256 /\ b[2 * k] = ((v + 65536) \div 256) % 256
    BY <1>2, <1>3, SMT
  <2> HIDE DEF v
  <2>2. (v + 65536) \div 256 = (v \div 256) + 256
    BY <2>1, SMT
  <2>3. ((v \div 256) + 256) % 256 = v \div 256
    BY <2>1, SMT
  <2>4. (v % 256) + 256 * (v \div 256) = v
    BY <2>1, SMT
  <2> QED
    BY <2>1, <2>2, <2>3, <2>4, SMT DEF v
<1>7. w = [i \in 1..n |-> value[i]]
  BY <1>4, <1>5, <1>6, SMT
<1>8. value = [i \in 1..n |-> value[i]]
  BY DEF n
<1> QED
  BY <1>7, <1>8, Zenon DEF w, b

\* A signed word by its bounds; its range is never written out.
LEMMA ShortIs == \A y \in Short : y \in Int /\ -32768 <= y /\ y <= 32767
<1> DEFINE k == -32768
           m == 32767
<1>1. Short = k..m
  BY DEF Short
<1>2. k \in Int /\ m \in Int
  OBVIOUS
<1>3. k = -32768 /\ m = 32767
  OBVIOUS
<1> HIDE DEF k, m
<1>4. \A y \in k..m : y \in Int /\ k <= y /\ y <= m
  BY <1>2, SMT
<1>5. \A y \in Short : y \in Int /\ k <= y /\ y <= m
  BY <1>1, <1>4, SMT
<1> QED
  BY <1>3, <1>5, SMT

\* The values of one or two numbers, and the lists of them.
LEMMA PlainIsRead ==
  ASSUME NEW kind \in Kinds \ {"topology"}, NEW value, Means(kind, value)
  PROVE  Parse(kind, Encoded(kind, value)) = {value}
<1>1. CASE kind = "uint8"
  <2>1. value \in Seq(Byte) /\ Len(value) = 1
    BY <1>1 DEF Means
  <2>2. Encoded("uint8", value) = value
    BY DEF Encoded
  <2>3. Parse("uint8", value) = {v \in {value} : Len(value) = 1}
    BY DEF Parse
  <2>4. {v \in {value} : Len(value) = 1} = {value}
    BY <2>1, Zenon
  <2> QED
    BY <1>1, <2>2, <2>3, <2>4, Zenon
<1>2. ASSUME kind # "uint8" PROVE Encoded(kind, value) = WordBytes(value)
  BY <1>2, SMT DEF Encoded, Kinds
<1>3. ASSUME NEW n \in Nat, value \in Seq(Word), Len(value) = n
      PROVE  Words(WordBytes(value)) = value /\ Len(WordBytes(value)) = 2 * n
  <2>1. Len(value) \in Nat /\ \A i \in 1..Len(value) : value[i] \in Word
    BY <1>3
  <2>2. \A w \in Word : w \in Int
    BY WordIs, SMT
  <2>3. \A i \in 1..Len(value) : value[i] \in Int
    BY <2>1, <2>2, Zenon
  <2> QED
    BY <1>3, <2>1, <2>3, WordsOfBytes, WordBytesAre, SMT
<1>4. CASE kind = "uint16"
  <2>1. value \in Seq(Word) /\ Len(value) = 1
    BY <1>4, SMT DEF Means
  <2> DEFINE b == WordBytes(value)
  <2>2. Words(b) = value /\ Len(b) = 2 * 1
    BY <1>3, <2>1, Zenon
  <2>3. Parse("uint16", b) = {v \in {Words(b)} : Len(b) = 2}
    BY SMT DEF Parse
  <2> HIDE DEF b
  <2>4. 2 * 1 = 2
    OBVIOUS
  <2>5. {v \in {Words(b)} : Len(b) = 2} = {value}
    BY <2>2, <2>4, Zenon
  <2> QED
    BY <1>2, <1>4, <2>3, <2>5, Zenon DEF b
<1>5. CASE kind \in {"uint32", "float32"}
  <2>1. value \in Seq(Word) /\ Len(value) = 2
    <3>1. CASE kind = "uint32"
      BY <3>1, SMT DEF Means
    <3>2. CASE kind = "float32"
      BY <3>2, SMT DEF Means
    <3> QED
      BY <1>5, <3>1, <3>2, Zenon
  <2> DEFINE b == WordBytes(value)
  <2>2. Words(b) = value /\ Len(b) = 2 * 2
    BY <1>3, <2>1, Zenon
  <2>3. Parse(kind, b) = {v \in {Words(b)} : Len(b) = 4}
    BY <1>5, SMT DEF Parse
  <2> HIDE DEF b
  <2>4. 2 * 2 = 4
    OBVIOUS
  <2>5. {v \in {Words(b)} : Len(b) = 4} = {value}
    BY <2>2, <2>4, Zenon
  <2>6. kind # "uint8"
    BY <1>5
  <2> QED
    BY <1>2, <2>3, <2>5, <2>6, Zenon DEF b
<1>6. CASE kind \in {"float32Array", "uint16Array"}
  <2> DEFINE b == WordBytes(value)
             n == Len(value)
  <2>1. value \in Seq(Word) /\ n \in Nat /\ (kind = "float32Array" => n % 2 = 0)
    <3>1. CASE kind = "float32Array"
      BY <3>1, SMT DEF Means
    <3>2. CASE kind = "uint16Array"
      BY <3>2, SMT DEF Means
    <3> QED
      BY <1>6, <3>1, <3>2, Zenon
  <2>2. Words(b) = value /\ Len(b) = 2 * n
    BY <1>3, <2>1, SMT
  <2>3. /\ kind = "float32Array" => Parse(kind, b) = {v \in {Words(b)} : Len(b) % 4 = 0}
        /\ kind = "uint16Array" => Parse(kind, b) = {v \in {Words(b)} : Len(b) % 2 = 0}
    BY <1>6, SMT DEF Parse
  <2> HIDE DEF b, n
  <2>4. (2 * n) % 2 = 0 /\ (n % 2 = 0 => (2 * n) % 4 = 0)
    BY <2>1, SMT
  <2>5. Parse(kind, b) = {value}
    BY <1>6, <2>1, <2>2, <2>3, <2>4
  <2>6. kind # "uint8"
    BY <1>6
  <2> QED
    BY <1>2, <2>5, <2>6, Zenon DEF b
<1>7. CASE kind = "int16"
  <2>1. value \in Seq(Short) /\ Len(value) = 1
    BY <1>7, SMT DEF Means
  <2> DEFINE b == WordBytes(value)
             x == value[1]
             w == Words(b)[1]
  <2>2. value = <<x>> /\ x \in Int /\ -32768 <= x /\ x <= 32767 /\ Len(value) \in Nat
        /\ \A i \in 1..Len(value) : value[i] \in Int
    <3>1. value = <<x>> /\ x \in Short /\ Len(value) \in Nat /\ \A i \in 1..Len(value) : value[i] \in Short
      BY <2>1, SMT
    <3>2. \A y \in Short : y \in Int /\ -32768 <= y /\ y <= 32767
      BY ShortIs
    <3> QED
      BY <3>1, <3>2, SMT
  <2>3. Len(b) = 2 * Len(value) /\ \A k \in 1..Len(value) : b[2 * k - 1] = value[k] % 256
                                 /\ b[2 * k] = ((value[k] + 65536) \div 256) % 256
    <3>1. Len(value) \in Nat /\ \A i \in 1..Len(value) : value[i] \in Int
      BY <2>2, SMT
    <3> HIDE DEF b, x, w
    <3> QED
      BY <3>1, WordBytesAre, SMT DEF b
  <2>4. Len(value) = 1 /\ 1 \in 1..Len(value) /\ 2 * 1 = 2 /\ 2 * 1 - 1 = 1
    BY <2>1
  <2>5. b[1] = x % 256 /\ b[2] = ((x + 65536) \div 256) % 256
    BY <2>3, <2>4, SMT
  <2>6. Parse("int16", b) = IF Len(b) # 2 THEN {} ELSE {<<IF w < 32768 THEN w ELSE w - 65536>>}
    BY SMT DEF Parse
  <2>7. Words(b) = [i \in 1..Len(b) \div 2 |-> b[2*i - 1] + 256 * b[2*i]]
    BY Zenon DEF Words
  <2>8. Len(b) = 2
    <3>1. Len(b) = 2 * Len(value)
      BY <2>3, SMT
    <3> QED
      BY <2>4, <3>1, Zenon
  <2> HIDE DEF x, w, b
  <2>9. 1 \in 1..Len(b) \div 2
    <3> DEFINE n == Len(b)
    <3>1. n = 2
      BY <2>8, Zenon
    <3> HIDE DEF n
    <3>2. 1 \in 1..n \div 2
      BY <3>1
    <3> QED
      BY <3>2, Zenon DEF n
  <2>10. w = b[1] + 256 * b[2]
    <3>1. Words(b)[1] = b[2*1 - 1] + 256 * b[2*1]
      BY <2>7, <2>9, Zenon
    <3> QED
      BY <2>4, <3>1, Zenon DEF w
  <2>11. (IF w < 32768 THEN w ELSE w - 65536) = x
    <3> DEFINE r == x % 256
               q == x \div 256
    <3>1. x = 256 * q + r /\ q \in Int /\ r \in Int /\ 0 <= r /\ r < 256
      BY <2>2, SMT
    <3>2. (x + 65536) \div 256 = q + 256
      BY <2>2, SMT
    <3>3. b[1] = r /\ b[2] = (q + 256) % 256
      BY <2>5, <3>2, SMT
    <3> HIDE DEF r, q
    <3>4. CASE x >= 0
      <4>1. 0 <= q /\ q < 128
        BY <2>2, <3>1, <3>4, SMT
      <4>2. (q + 256) % 256 = q
        BY <3>1, <4>1, SMT
      <4>3. w = x
        BY <2>10, <3>1, <3>3, <4>2, SMT
      <4> QED
        BY <2>2, <4>3, SMT
    <3>5. CASE x < 0
      <4>1. -128 <= q /\ q < 0
        BY <2>2, <3>1, <3>5, SMT
      <4>2. (q + 256) % 256 = q + 256
        BY <3>1, <4>1, SMT
      <4>3. w = x + 65536
        BY <2>10, <3>1, <3>3, <4>2, SMT
      <4> QED
        BY <2>2, <3>5, <4>3, SMT
    <3> QED
      BY <2>2, <3>4, <3>5, SMT
  <2>12. Parse("int16", b) = {<<x>>}
    BY <2>6, <2>8, <2>11, SMT
  <2> QED
    BY <1>2, <1>7, <2>2, <2>12, SMT DEF b
<1> QED
  BY <1>1, <1>4, <1>5, <1>6, <1>7 DEF Kinds

-----------------------------------------------------------------------------
(* What is read of a topology is what was written of it.                   *)

\* A node: eid, state, type, parent, and commas between them.
IsNode(b, value, k) ==
  /\ Len(b) <= 17 /\ Len(b) >= 17
  /\ \A j \in 1..6 : b[j] = value[14 * (k - 1) + j]
  /\ b[7] = 44 /\ b[9] = 44 /\ b[11] = 44
  /\ b[8] = value[14 * (k - 1) + 7]
  /\ b[10] = value[14 * (k - 1) + 8]
  /\ \A j \in 1..6 : b[11 + j] = value[14 * (k - 1) + (8 + j)]

\* A node and its commas, byte by byte.
LEMMA NodeBytesAre ==
  ASSUME NEW value, NEW k
  PROVE  IsNode(NodeBytes(value, k), value, k)
<1> DEFINE v(j) == value[14 * (k - 1) + j]
           b == <<v(1), v(2), v(3), v(4), v(5), v(6), 44, v(7), 44, v(8), 44,
                  v(9), v(10), v(11), v(12), v(13), v(14)>>
<1>1. NodeBytes(value, k) = b
  BY DEF NodeBytes
<1>2. \A j : v(j) = value[14 * (k - 1) + j]
  OBVIOUS
<1> HIDE DEF v
<1>3. Len(b) <= 17 /\ Len(b) >= 17
  OBVIOUS
<1>4. /\ b[1] = v(1) /\ b[2] = v(2) /\ b[3] = v(3) /\ b[4] = v(4) /\ b[5] = v(5) /\ b[6] = v(6)
      /\ b[7] = 44 /\ b[8] = v(7) /\ b[9] = 44 /\ b[10] = v(8) /\ b[11] = 44
      /\ b[12] = v(9) /\ b[13] = v(10) /\ b[14] = v(11) /\ b[15] = v(12) /\ b[16] = v(13) /\ b[17] = v(14)
  OBVIOUS
<1> HIDE DEF b
<1>5. \A j \in 1..6 : b[j] = v(j)
  <2>1. \A j \in 1..6 : j = 1 \/ j = 2 \/ j = 3 \/ j = 4 \/ j = 5 \/ j = 6
    OBVIOUS
  <2> QED
    BY <1>4, <2>1, Zenon
<1>6. \A j \in 1..6 : b[11 + j] = v(8 + j)
  <2>1. \A j \in 1..6 : j = 1 \/ j = 2 \/ j = 3 \/ j = 4 \/ j = 5 \/ j = 6
    OBVIOUS
  <2>2. /\ 11 + 1 = 12 /\ 11 + 2 = 13 /\ 11 + 3 = 14 /\ 11 + 4 = 15 /\ 11 + 5 = 16 /\ 11 + 6 = 17
        /\ 8 + 1 = 9 /\ 8 + 2 = 10 /\ 8 + 3 = 11 /\ 8 + 4 = 12 /\ 8 + 5 = 13 /\ 8 + 6 = 14
    OBVIOUS
  <2> QED
    BY <1>4, <2>1, <2>2, ZenonT(60)
<1>7. IsNode(b, value, k)
  BY <1>2, <1>3, <1>4, <1>5, <1>6, Zenon DEF IsNode
<1> QED
  BY <1>1, <1>7, Zenon

\* Where the nodes are.
LEMMA NodesLength ==
  ASSUME NEW value \in Seq(Byte), NEW k \in 1..Len(value) \div 14
  PROVE  Len(NodesRun(value)[k]) = 18 * k - 1
<1> DEFINE m == Len(value) \div 14
           x == NodesRun(value)
           e == NodeLinks(value)
           P == {i \in Nat : i + 1 <= m => Len(x[i + 1]) = 18 * (i + 1) - 1}
<1>1. m \in Nat
  OBVIOUS
<1>2. x \in [0..m -> Seq(Byte)] /\ x[0] = <<>> /\ \A i \in 1..m : x[i] = x[i - 1] \o e[i]
  BY NodesChain DEF Chain
<1>3. ASSUME NEW i \in 1..m
      PROVE  /\ e[i] \in Seq(Byte)
             /\ Len(e[i]) = IF i = 1 THEN 17 ELSE 18
  <2>1. e[i] \in Seq(Byte)
    BY LinksAreBytes
  <2>2. NodeBytes(value, i) \in Seq(Byte)
    BY NodeIsBytes
  <2> DEFINE b == NodeBytes(value, i)
  <2>3. b \in Seq(Byte) /\ Len(b) <= 17 /\ Len(b) >= 17
    BY <2>2, NodeBytesAre, Zenon DEF IsNode
  <2>4. e[i] = IF i = 1 THEN b ELSE <<36>> \o b
    BY DEF NodeLinks
  <2> HIDE DEF b, e
  <2>5. Len(b) \in Nat /\ Len(<<36>> \o b) = 1 + Len(b)
    <3>1. 36 \in Byte
      BY DEF Byte
    <3> QED
      BY <2>3, <3>1
  <2> QED
    BY <2>1, <2>3, <2>4, <2>5
<1> HIDE DEF m, x, e
<1>4. 0 \in P
  <2> SUFFICES ASSUME 0 + 1 <= m PROVE Len(x[0 + 1]) = 18 * (0 + 1) - 1
    OBVIOUS
  <2>1. 1 \in 1..m /\ 1 - 1 = 0
    BY <1>1
  <2>2. x[1] = <<>> \o e[1] /\ e[1] \in Seq(Byte) /\ Len(e[1]) = 17
    BY <1>2, <1>3, <2>1, Zenon
  <2>3. x[1] = e[1]
    BY <2>2, ConcatEmptySeq, Zenon
  <2>4. 0 + 1 = 1 /\ 18 * (0 + 1) - 1 = 17
    OBVIOUS
  <2> QED
    BY <2>2, <2>3, <2>4, Zenon
<1>5. ASSUME NEW i \in Nat, i \in P PROVE i + 1 \in P
  <2> SUFFICES ASSUME (i + 1) + 1 <= m PROVE Len(x[(i + 1) + 1]) = 18 * ((i + 1) + 1) - 1
    OBVIOUS
  <2> DEFINE j == (i + 1) + 1
  <2>1. i + 1 \in 1..m /\ j \in 1..m /\ j - 1 = i + 1 /\ j # 1 /\ i + 1 \in 0..m
    BY <1>1
  <2>2. Len(x[i + 1]) = 18 * (i + 1) - 1
    BY <1>5, <2>1
  <2>3. x[j] = x[i + 1] \o e[j] /\ e[j] \in Seq(Byte) /\ Len(e[j]) = 18 /\ x[i + 1] \in Seq(Byte)
    <3> HIDE DEF j, P
    <3> QED
      BY <1>2, <1>3, <2>1
  <2> HIDE DEF j, P
  <2>4. Len(x[j]) = Len(x[i + 1]) + Len(e[j])
    <3>0. e[j] \in Seq(Byte) /\ x[i + 1] \in Seq(Byte)
      BY <2>3, Zenon
    <3>1. Len(x[i + 1] \o e[j]) = Len(x[i + 1]) + Len(e[j])
      BY <3>0
    <3> QED
      BY <2>3, <3>1, Zenon
  <2>5. Len(x[j]) = (18 * (i + 1) - 1) + 18
    BY <2>2, <2>3, <2>4, Zenon
  <2> QED
    BY <2>5 DEF j
<1> HIDE DEF P
<1>6. Nat \subseteq P
  BY <1>4, <1>5, Induction
<1>7. k \in 1..m /\ k - 1 \in Nat /\ (k - 1) + 1 = k
  BY DEF m
<1>8. k - 1 \in P
  BY <1>6, <1>7
<1> QED
  BY <1>1, <1>7, <1>8 DEF P, x

\* Where the nodes of a topology are: every eighteen bytes, with '$' before all but the first.
LEMMA TopologyAt ==
  ASSUME NEW value \in Seq(Byte), NEW k \in 1..Len(value) \div 14
  PROVE  /\ TopologyBytes(value) \in Seq(Byte)
         /\ Len(TopologyBytes(value)) = 18 * (Len(value) \div 14) - 1
         /\ \A i \in 1..17 : TopologyBytes(value)[18 * (k - 1) + i] = NodeBytes(value, k)[i]
         /\ k # 1 => TopologyBytes(value)[18 * (k - 1)] = 36
<1> DEFINE m == Len(value) \div 14
           x == NodesRun(value)
           e == NodeLinks(value)
           t == x[m]
           b == NodeBytes(value, k)
           p == 18 * (k - 1)
<1>1. m \in Nat /\ k \in 1..m /\ k \in Int /\ k >= 1 /\ k <= m
  OBVIOUS
<1>2. Chain(x, Byte, e, m) /\ \A i \in 1..m : e[i] \in Seq(Byte)
  BY NodesChain, LinksAreBytes
<1>3. TopologyBytes(value) = t
  BY TopologyOfRun
<1>4. \A i \in 1..m : Len(x[i]) = 18 * i - 1
  BY NodesLength
<1>5. b \in Seq(Byte) /\ Len(b) <= 17 /\ Len(b) >= 17
  BY NodeIsBytes, NodeBytesAre, Zenon DEF IsNode
<1>6. e[k] = IF k = 1 THEN b ELSE <<36>> \o b
  BY DEF NodeLinks
<1> HIDE DEF m, x, e, b
<1>7. k \in Nat /\ k - 1 \in 0..m /\ m \in 0..m /\ k \in 0..m /\ m <= m
  BY <1>1
<1>8. x \in [0..m -> Seq(Byte)] /\ x[0] = <<>> /\ x[k] = x[k - 1] \o e[k]
  BY <1>1, <1>2, Zenon DEF Chain
<1>9. t \in Seq(Byte) /\ Len(t) = 18 * m - 1 /\ Len(x[k]) = 18 * k - 1
  <2>1. m \in 1..m
    BY <1>1
  <2> QED
    BY <1>1, <1>4, <1>7, <1>8, <2>1, Zenon
<1>10. \A i \in 1..Len(x[k]) : t[i] = x[k][i]
  BY <1>1, <1>2, <1>7, ChainGrows, SMT
<1>11. \A i \in 1..17 : p + i \in 1..Len(x[k])
  <2> SUFFICES ASSUME NEW i \in 1..17 PROVE p + i \in 1..Len(x[k])
    OBVIOUS
  <2>1. 18 * k - 1 = p + 17
    BY <1>1
  <2>2. p \in Int /\ p >= 0
    BY <1>1
  <2> HIDE DEF p
  <2>3. p + i \in 1..p + 17
    BY <2>2
  <2> QED
    BY <1>9, <2>1, <2>3, Zenon
<1>12. \A i \in 1..17 : x[k][p + i] = b[i]
  <2>1. CASE k = 1
    <3>1. x[k] = b
      <4>1. k - 1 = 0
        BY <2>1
      <4>2. x[k] = <<>> \o b
        BY <1>6, <1>8, <2>1, <4>1, Zenon
      <4> QED
        BY <1>5, <4>2, ConcatEmptySeq, Zenon
    <3>2. \A i \in 1..17 : p + i = i
      BY <2>1
    <3> QED
      BY <3>1, <3>2, Zenon
  <2>2. CASE k # 1
    <3> DEFINE y == x[k - 1]
    <3>1. y \in Seq(Byte) /\ Len(y) + 1 = p
      <4>1. k - 1 \in 1..m
        BY <1>1, <2>2
      <4>2. Len(y) = 18 * (k - 1) - 1 /\ y \in Seq(Byte)
        BY <1>4, <1>7, <1>8, <4>1, Zenon
      <4> QED
        BY <1>1, <4>2
    <3>2. x[k] = y \o (<<36>> \o b)
      BY <1>6, <1>8, <2>2, Zenon
    <3>3. 36 \in Byte
      BY DEF Byte
    <3> HIDE DEF y, p
    <3>4. \A i \in 1..17 : (y \o (<<36>> \o b))[(Len(y) + 1) + i] = b[i]
      BY <1>5, <3>1, <3>3
    <3> QED
      BY <3>1, <3>2, <3>4, Zenon
  <2> QED
    BY <2>1, <2>2
<1>13. ASSUME k # 1 PROVE p \in 1..Len(x[k]) /\ x[k][p] = 36
  <2> DEFINE y == x[k - 1]
  <2>1. y \in Seq(Byte) /\ Len(y) + 1 = p
    <3>1. k - 1 \in 1..m
      BY <1>1, <1>13
    <3>2. Len(y) = 18 * (k - 1) - 1 /\ y \in Seq(Byte)
      BY <1>4, <1>7, <1>8, <3>1, Zenon
    <3> QED
      BY <1>1, <3>2
  <2>2. x[k] = y \o (<<36>> \o b)
    BY <1>6, <1>8, <1>13, Zenon
  <2>3. 36 \in Byte
    BY DEF Byte
  <2> HIDE DEF y, p
  <2>4. /\ (y \o (<<36>> \o b))[Len(y) + 1] = 36
        /\ Len(y) + 1 \in 1..Len(y \o (<<36>> \o b))
    BY <1>5, <2>1, <2>3
  <2> QED
    BY <2>1, <2>2, <2>4, Zenon
<1>14. \A i \in 1..17 : t[p + i] = b[i]
  BY <1>10, <1>11, <1>12, Zenon
<1>15. k # 1 => t[p] = 36
  BY <1>10, <1>13, Zenon
<1> HIDE DEF t
<1> QED
  BY <1>3, <1>9, <1>14, <1>15, Zenon DEF m, b, p

\* d is what is left of a topology whose end is missing.
IsLeft(d, value) ==
  /\ d \in Seq(Byte) /\ Len(d) <= Len(TopologyBytes(value))
  /\ \A i \in 1..Len(d) : d[i] = TopologyBytes(value)[i]

NodesOf(value, j, k) == SubSeq(value, 14 * (j - 1) + 1, 14 * k)

\* Fourteen numbers in three pieces.
InPieces(a, u, v, c, w) ==
  /\ a \in Seq(Byte) /\ Len(a) <= 6 /\ Len(a) >= 6
  /\ c \in Seq(Byte) /\ Len(c) <= 6 /\ Len(c) >= 6
  /\ w \in Seq(Byte) /\ Len(w) <= 14 /\ Len(w) >= 14
  /\ u \in Byte /\ u = w[7] /\ v \in Byte /\ v = w[8]
  /\ \A j \in 1..6 : a[j] = w[j] /\ c[j] = w[8 + j]

\* A node put together from its two ids and two numbers.
LEMMA Pieces ==
  ASSUME NEW a, NEW u, NEW v, NEW c, NEW w, InPieces(a, u, v, c, w)
  PROVE  a \o <<u, v>> \o c = w
<1>0. /\ a \in Seq(Byte) /\ Len(a) <= 6 /\ Len(a) >= 6
      /\ c \in Seq(Byte) /\ Len(c) <= 6 /\ Len(c) >= 6
      /\ w \in Seq(Byte) /\ Len(w) <= 14 /\ Len(w) >= 14
      /\ u \in Byte /\ u = w[7] /\ v \in Byte /\ v = w[8]
      /\ \A j \in 1..6 : a[j] = w[j] /\ c[j] = w[8 + j]
  BY Zenon DEF InPieces
<1> DEFINE s == a \o <<u, v>> \o c
<1>1. s \in Seq(Byte) /\ Len(s) = Len(w)
  BY <1>0
<1>2. \A i \in 1..6 : s[i] = a[i]
  BY <1>0
<1>3. s[7] = u /\ s[8] = v
  BY <1>0
<1>4. \A i \in 1..6 : s[8 + i] = c[i]
  BY <1>0, SMTT(60)
<1> HIDE DEF s
<1>5. ASSUME NEW i \in 1..Len(s) PROVE s[i] = w[i]
  <2>1. i \in 1..14
    BY <1>0, <1>1
  <2>2. CASE i \in 1..6
    BY <1>0, <1>2, <2>2
  <2>3. CASE i = 7 \/ i = 8
    BY <1>0, <1>3, <2>3
  <2>4. CASE i \notin 1..6 /\ i # 7 /\ i # 8
    <3>1. i - 8 \in 1..6 /\ 8 + (i - 8) = i
      BY <2>1, <2>4
    <3> QED
      BY <1>0, <1>4, <3>1
  <2> QED
    BY <2>2, <2>3, <2>4
<1>6. s = w
  BY <1>0, <1>1, <1>5, SeqEqual
<1> QED
  BY <1>6 DEF s

\* At the start of a node that is there, looksLikeNode says so, and the node read is the one
\* sent, and the next one begins eighteen bytes on.
LEMMA NodeRead ==
  ASSUME NEW value \in Seq(Byte), NEW k \in 1..Len(value) \div 14, NEW d, IsLeft(d, value)
  PROVE  /\ looksLikeNode(d, 18 * (k - 1)) <=> 18 * (k - 1) + 16 <= Len(d)
         /\ 18 * (k - 1) + 17 <= Len(d) => Node(d, 18 * (k - 1)) = NodesOf(value, k, k)
         /\ 18 * (k - 1) + 17 < Len(d) =>
              NextNode(d, 18 * (k - 1)) = 18 * k /\ k + 1 \in 1..Len(value) \div 14
         /\ 18 * (k - 1) + 17 = Len(d) => NextNode(d, 18 * (k - 1)) = Len(d)
<1> DEFINE m == Len(value) \div 14
           n == Len(d)
           t == TopologyBytes(value)
           b == NodeBytes(value, k)
           p == 18 * (k - 1)
           q == 14 * (k - 1)
<1>1. m \in Nat /\ k \in 1..m /\ k \in Int /\ k >= 1 /\ k <= m /\ Len(value) \in Nat
  OBVIOUS
<1>2. d \in Seq(Byte) /\ n <= Len(t) /\ \A i \in 1..n : d[i] = t[i]
  BY DEF IsLeft
<1>3. Len(t) = 18 * m - 1 /\ \A i \in 1..17 : t[p + i] = b[i]
  BY TopologyAt
<1>4. n \in Nat /\ n <= 18 * m - 1
  BY <1>2, <1>3
<1>5. /\ \A j \in 1..6 : b[j] = value[q + j]
      /\ b[7] = 44 /\ b[9] = 44 /\ b[11] = 44
      /\ b[8] = value[q + 7] /\ b[10] = value[q + 8]
      /\ \A j \in 1..6 : b[11 + j] = value[q + (8 + j)]
  <2>1. IsNode(b, value, k)
    BY NodeBytesAre, Zenon
  <2> HIDE DEF b
  <2> QED
    BY <2>1, Zenon DEF IsNode
<1>6. \A j \in 1..14 : q + j \in 1..Len(value)
  BY <1>1, NodeInValue
<1>7. p \in Nat /\ q \in Nat /\ 18 * k = p + 18 /\ 14 * k = q + 14
  BY <1>1
<1>8. k # m => k + 1 \in 1..m
  BY <1>1
<1>9. k = m => 18 * m - 1 = p + 17
  BY <1>1
<1>10. k + 1 \in 1..m => t[p + 18] = 36
  <2> SUFFICES ASSUME k + 1 \in 1..m PROVE t[p + 18] = 36
    OBVIOUS
  <2>1. k + 1 # 1 => t[18 * ((k + 1) - 1)] = 36
    BY TopologyAt
  <2>2. k + 1 # 1 /\ 18 * ((k + 1) - 1) = p + 18
    BY <1>1
  <2> QED
    BY <2>1, <2>2, Zenon
<1> HIDE DEF m, n, t, b, p, q
<1>11. \A i \in 1..17 : p + i <= n => d[p + i] = b[i]
  <2>1. \A i \in 1..17 : p + i <= n => p + i \in 1..n
    BY <1>4, <1>7
  <2> QED
    BY <1>2, <1>3, <2>1, Zenon
<1>12. looksLikeNode(d, p) <=> p + 16 <= n
  <2>1. p + 16 <= n => d[p + 7] = 44 /\ d[p + 9] = 44 /\ d[p + 11] = 44
    <3>1. p + 16 <= n => p + 7 <= n /\ p + 9 <= n /\ p + 11 <= n
      BY <1>4, <1>7
    <3>2. 7 \in 1..17 /\ 9 \in 1..17 /\ 11 \in 1..17
      OBVIOUS
    <3> QED
      BY <1>5, <1>11, <3>1, <3>2, Zenon
  <2>2. \A j \in {7, 9, 11} : j = 7 \/ j = 9 \/ j = 11
    OBVIOUS
  <2>3. looksLikeNode(d, p) <=> (p + 16 <= n /\ \A j \in {7, 9, 11} : d[p + j] = 44)
    BY DEF looksLikeNode, n
  <2> QED
    BY <2>1, <2>2, <2>3, Zenon
<1>13. ASSUME p + 17 <= n PROVE Node(d, p) = NodesOf(value, k, k)
  <2> DEFINE a == SubSeq(d, p + 1, p + 6)
             c == SubSeq(d, p + 12, p + 17)
             u == d[p + 8]
             v == d[p + 10]
             w == SubSeq(value, q + 1, q + 14)
  <2>1. a \in Seq(Byte) /\ Len(a) <= 6 /\ Len(a) >= 6 /\ \A j \in 1..6 : a[j] = d[p + j]
    BY <1>2, <1>4, <1>7, <1>13 DEF n
  <2>2. c \in Seq(Byte) /\ Len(c) <= 6 /\ Len(c) >= 6 /\ \A j \in 1..6 : c[j] = d[p + (11 + j)]
    BY <1>2, <1>4, <1>7, <1>13 DEF n
  <2>3. w \in Seq(Byte) /\ Len(w) <= 14 /\ Len(w) >= 14 /\ \A j \in 1..14 : w[j] = value[q + j]
    <3>1. q + 14 <= Len(value) /\ Len(value) \in Nat
      <4>1. q + 14 \in 1..Len(value)
        BY <1>6
      <4> QED
        BY <4>1
    <3> DEFINE r == q + 14
    <3>2. q \in Nat /\ r \in Nat /\ r <= Len(value) /\ r = q + 14
      BY <1>7, <3>1
    <3> HIDE DEF r
    <3>3. SubSeq(value, q + 1, r) \in Seq(Byte) /\ Len(SubSeq(value, q + 1, r)) = r - q
      BY <3>2
    <3>4. ASSUME NEW j \in 1..r - q PROVE SubSeq(value, q + 1, r)[j] = value[q + j]
      <4>1. q + 1 + j - 1 = q + j /\ j \in 1..r + 1 - (q + 1)
        BY <3>2, SMT
      <4> QED
        BY <3>2, <4>1, SMTT(30)
    <3>5. w = SubSeq(value, q + 1, r)
      BY <3>2, Zenon
    <3> HIDE DEF w
    <3>6. w \in Seq(Byte) /\ Len(w) = r - q /\ r - q = 14 /\ \A j \in 1..r - q : w[j] = value[q + j]
      <4>1. r - q = 14
        BY <3>2
      <4> QED
        BY <3>3, <3>4, <3>5, <4>1, Zenon
    <3>7. Len(w) <= 14 /\ Len(w) >= 14
      <4> DEFINE l == Len(w)
      <4>1. l = 14
        BY <3>6, Zenon
      <4> HIDE DEF l
      <4>2. l <= 14 /\ l >= 14
        BY <4>1
      <4> QED
        BY <4>2 DEF l
    <3>8. \A j \in 1..14 : w[j] = value[q + j]
      BY <3>6, Zenon
    <3> QED
      BY <3>6, <3>7, <3>8, Zenon
  <2>4. u \in Byte /\ v \in Byte
    BY <1>2, <1>4, <1>7, <1>13 DEF n
  <2>5. /\ \A j \in 1..6 : j \in 1..17 /\ 11 + j \in 1..17 /\ j \in 1..14 /\ 8 + j \in 1..14
        /\ 8 \in 1..17 /\ 10 \in 1..17 /\ 7 \in 1..14 /\ 8 \in 1..14
    OBVIOUS
  <2>6. \A i \in 1..17 : d[p + i] = b[i]
    <3>1. \A i \in 1..17 : p + i <= n
      BY <1>4, <1>7, <1>13
    <3> QED
      BY <1>11, <3>1, Zenon
  <2>7. u = w[7] /\ v = w[8]
    BY <1>5, <2>3, <2>5, <2>6, Zenon
  <2> HIDE DEF a, c, u, v, w
  <2>8. \A j \in 1..6 : a[j] = w[j] /\ c[j] = w[8 + j]
    <3> SUFFICES ASSUME NEW j \in 1..6 PROVE a[j] = w[j] /\ c[j] = w[8 + j]
      OBVIOUS
    <3>1. j \in 1..17 /\ 11 + j \in 1..17 /\ j \in 1..14 /\ 8 + j \in 1..14
      BY <2>5, Zenon
    <3>2. a[j] = d[p + j] /\ d[p + j] = b[j] /\ b[j] = value[q + j] /\ w[j] = value[q + j]
      BY <1>5, <2>1, <2>3, <2>6, <3>1, Zenon
    <3>3. /\ c[j] = d[p + (11 + j)] /\ d[p + (11 + j)] = b[11 + j]
          /\ b[11 + j] = value[q + (8 + j)] /\ w[8 + j] = value[q + (8 + j)]
      BY <1>5, <2>2, <2>3, <2>6, <3>1, Zenon
    <3> QED
      BY <3>2, <3>3, Zenon
  <2>9. a \o <<u, v>> \o c = w
    <3>1. InPieces(a, u, v, c, w)
      BY <2>1, <2>2, <2>3, <2>4, <2>7, <2>8, Zenon DEF InPieces
    <3> QED
      BY <3>1, Pieces
  <2>10. Node(d, p) = a \o <<u, v>> \o c
    BY Zenon DEF Node, a, c, u, v
  <2>11. NodesOf(value, k, k) = w
    BY <1>7, Zenon DEF NodesOf, w, q
  <2> QED
    BY <2>9, <2>10, <2>11, Zenon
<1>14. ASSUME p + 17 < n PROVE NextNode(d, p) = 18 * k /\ k + 1 \in 1..m
  <2>1. k + 1 \in 1..m
    BY <1>4, <1>8, <1>9, <1>14
  <2>2. d[p + 18] = 36
    <3>1. p + 18 \in 1..n
      BY <1>4, <1>7, <1>14
    <3> QED
      BY <1>2, <1>10, <2>1, <3>1, Zenon
  <2> QED
    BY <1>7, <1>14, <2>1, <2>2 DEF NextNode, n
<1>15. ASSUME p + 17 = n PROVE NextNode(d, p) = n
  BY <1>4, <1>15 DEF NextNode, n
<1> QED
  BY <1>12, <1>13, <1>14, <1>15, Zenon DEF m, n, p

\* What is read of the end of a topology, from its k-th node on.
IsTail(value, k, d, s) ==
  /\ s \subseteq {NodesOf(value, k, j) : j \in k..Len(value) \div 14} \cup {<<>>}
  /\ Len(d) = Len(TopologyBytes(value)) => s = {NodesOf(value, k, Len(value) \div 14)}

\* A node, and the tail that follows it.
LEMMA NodeAndTail ==
  ASSUME NEW value \in Seq(Byte), NEW k \in 1..Len(value) \div 14,
         NEW j \in k + 1..Len(value) \div 14
  PROVE  NodesOf(value, k, k) \o NodesOf(value, k + 1, j) = NodesOf(value, k, j)
<1> DEFINE n == Len(value)
           a == 14 * (k - 1) + 1
           b == 14 * k
           c == 14 * j
<1>1. n \in Nat /\ k \in Int /\ j \in Int /\ 1 <= k /\ k < j /\ j <= n \div 14
  OBVIOUS
<1>2. 14 * (n \div 14) <= n
  BY <1>1
<1>3. a \in 1..n + 1 /\ b \in a - 1..n /\ c \in b..n
  BY <1>1, <1>2
<1>4. 14 * ((k + 1) - 1) + 1 = b + 1
  BY <1>1
<1> HIDE DEF a, b, c
<1>5. SubSeq(value, a, b) \o SubSeq(value, b + 1, c) = SubSeq(value, a, c)
  BY <1>3, ConcatAdjacentSubSeq DEF n
<1> QED
  BY <1>4, <1>5, Zenon DEF NodesOf, a, b, c

\* parseTopo from the k-th node on, if it is right from the next one on.
LEMMA TailIs ==
  ASSUME NEW value \in Seq(Byte), NEW d, IsLeft(d, value), NEW k \in 1..Len(value) \div 14,
         18 * (k - 1) <= Len(d),
         18 * k <= Len(d) /\ k + 1 \in 1..Len(value) \div 14
           => IsTail(value, k + 1, d, TopoRun(d)[18 * k])
  PROVE  IsTail(value, k, d, TopoRun(d)[18 * (k - 1)])
<1> DEFINE m == Len(value) \div 14
           n == Len(d)
           t == TopologyBytes(value)
           p == 18 * (k - 1)
           x == TopoRun(d)
           a == NodesOf(value, k, k)
<1>1. m \in Nat /\ k \in 1..m /\ k \in Int /\ k >= 1 /\ k <= m
  OBVIOUS
<1>2. d \in Seq(Byte) /\ n <= Len(t) /\ Len(t) = 18 * m - 1 /\ n \in Nat /\ p <= n /\ p \in Nat
  <2>1. d \in Seq(Byte) /\ n <= Len(t)
    BY DEF IsLeft
  <2>2. Len(t) = 18 * m - 1
    BY TopologyAt
  <2> QED
    BY <1>1, <2>1, <2>2
<1>3. \A i \in 0..n : x[i] = TopoStep(d, x, i)
  BY <1>2, TopoRunIs
<1>4. p \in 0..n /\ n \in 0..n
  BY <1>2
<1>5. /\ looksLikeNode(d, p) <=> p + 16 <= n
      /\ p + 17 <= n => Node(d, p) = a
      /\ p + 17 < n => NextNode(d, p) = 18 * k /\ k + 1 \in 1..m
      /\ p + 17 = n => NextNode(d, p) = n
  BY NodeRead, Zenon
<1>6. a \in Seq(Byte) /\ a = NodesOf(value, k, k) /\ k \in k..m
  <2>1. a = SubSeq(value, 14 * (k - 1) + 1, 14 * k)
    BY Zenon DEF NodesOf
  <2>2. 14 * (k - 1) + 1 >= 1 /\ 14 * k <= Len(value) /\ 14 * k \in Nat /\ 14 * (k - 1) + 1 \in Nat
    <3> DEFINE l == Len(value)
    <3>1. l \in Nat /\ k <= l \div 14
      BY <1>1
    <3> HIDE DEF l
    <3>2. 14 * k <= l
      BY <1>1, <3>1
    <3> QED
      BY <1>1, <3>2 DEF l
  <2>3. SubSeq(value, 14 * (k - 1) + 1, 14 * k) \in Seq(Byte)
    BY <2>2
  <2> QED
    BY <1>1, <2>1, <2>3
<1>7. x[p] = TopoStep(d, x, p)
  BY <1>3, <1>4
<1>8. k + 1 \in 1..m /\ 18 * k <= n => IsTail(value, k + 1, d, x[18 * k])
  OBVIOUS
<1> HIDE DEF m, n, t, p, x, a
<1>9. CASE p + 16 > n
  <2>1. ~looksLikeNode(d, p)
    BY <1>2, <1>5, <1>9
  <2>2. x[p] = {<<>>}
    BY <1>7, <2>1, Zenon DEF TopoStep
  <2>3. n # Len(t)
    <3>1. 18 * m >= p + 18
      BY <1>1 DEF p
    <3> DEFINE l == Len(t)
    <3>2. l = 18 * m - 1
      BY <1>2
    <3> HIDE DEF l
    <3>3. n # l
      BY <1>1, <1>2, <1>9, <3>1, <3>2
    <3> QED
      BY <3>3 DEF l
  <2> QED
    BY <2>2, <2>3, Zenon DEF IsTail, m, n, t, x, p
<1>10. CASE p + 16 = n
  <2>1. x[p] = {}
    <3>1. p + 17 > Len(d) /\ looksLikeNode(d, p)
      BY <1>2, <1>5, <1>10 DEF n
    <3> QED
      BY <1>7, <3>1, Zenon DEF TopoStep
  <2>2. n # Len(t)
    <3>1. 18 * m >= p + 18
      BY <1>1 DEF p
    <3> DEFINE l == Len(t)
    <3>2. l = 18 * m - 1
      BY <1>2
    <3> HIDE DEF l
    <3>3. n # l
      BY <1>1, <1>2, <1>10, <3>1, <3>2
    <3> QED
      BY <3>3 DEF l
  <2> QED
    BY <2>1, <2>2, Zenon DEF IsTail, m, n, t, x, p
<1>11. ASSUME p + 17 <= n
       PROVE  x[p] = {a \o rest : rest \in x[NextNode(d, p)]}
  <2>1. looksLikeNode(d, p) /\ ~(p + 17 > Len(d)) /\ Node(d, p) = a
    BY <1>2, <1>5, <1>11 DEF n
  <2> QED
    BY <1>7, <2>1, Zenon DEF TopoStep
<1>12. CASE p + 17 = n
  <2>1. x[n] = {<<>>}
    <3>1. ~looksLikeNode(d, n)
      BY <1>2 DEF looksLikeNode, n
    <3>2. x[n] = TopoStep(d, x, n)
      BY <1>3, <1>4
    <3> QED
      BY <3>1, <3>2, Zenon DEF TopoStep
  <2>2. p + 17 <= n
    BY <1>2, <1>12
  <2>3. x[p] = {a \o rest : rest \in {<<>>}}
    BY <1>5, <1>11, <1>12, <2>1, <2>2, Zenon
  <2>4. a \o <<>> = a
    BY <1>6, ConcatEmptySeq, Zenon
  <2>5. x[p] = {a}
    BY <2>3, <2>4
  <2>6. n = Len(t) => k = m
    <3>1. 18 * k = p + 18
      BY <1>1 DEF p
    <3> QED
      BY <1>1, <1>2, <1>12, <3>1
  <2>7. x[p] \subseteq {NodesOf(value, k, j) : j \in k..m}
    BY <1>6, <2>5
  <2> QED
    BY <1>6, <2>5, <2>6, <2>7, Zenon DEF IsTail, m, n, t, x, p
<1>13. CASE p + 17 < n
  <2>1. NextNode(d, p) = 18 * k /\ k + 1 \in 1..m /\ 18 * k <= n
    <3>1. 18 * k = p + 18
      BY <1>1 DEF p
    <3> QED
      BY <1>2, <1>5, <1>13, <3>1
  <2> DEFINE y == x[18 * k]
  <2>2. IsTail(value, k + 1, d, y)
    BY <1>8, <2>1
  <2>3. p + 17 <= n
    BY <1>2, <1>13
  <2>4. x[p] = {a \o rest : rest \in y}
    BY <1>11, <2>1, <2>3, Zenon
  <2>5. \A j \in k + 1..m : a \o NodesOf(value, k + 1, j) = NodesOf(value, k, j) /\ j \in k..m
    <3>1. \A j \in k + 1..m : a \o NodesOf(value, k + 1, j) = NodesOf(value, k, j)
      BY NodeAndTail, Zenon DEF a, m
    <3>2. \A j \in k + 1..m : j \in k..m
      BY <1>1
    <3> QED
      BY <3>1, <3>2, Zenon
  <2>6. a \o <<>> = NodesOf(value, k, k)
    BY <1>6, ConcatEmptySeq, Zenon
  <2>7. m \in k + 1..m
    BY <1>1, <2>1
  <2>8. /\ y \subseteq {NodesOf(value, k + 1, j) : j \in k + 1..m} \cup {<<>>}
        /\ n = Len(t) => y = {NodesOf(value, k + 1, m)}
    BY <2>2, Zenon DEF IsTail, m, n, t
  <2> HIDE DEF y
  <2>9. x[p] \subseteq {NodesOf(value, k, j) : j \in k..m}
    <3> SUFFICES ASSUME NEW r \in y PROVE a \o r \in {NodesOf(value, k, j) : j \in k..m}
      BY <2>4, Zenon
    <3>1. CASE r = <<>>
      BY <1>6, <2>6, <3>1, Zenon
    <3>2. CASE r \in {NodesOf(value, k + 1, j) : j \in k + 1..m}
      <4>1. PICK j \in k + 1..m : r = NodesOf(value, k + 1, j)
        BY <3>2
      <4> QED
        BY <2>5, <4>1, Zenon
    <3> QED
      BY <2>8, <3>1, <3>2, Zenon
  <2>10. n = Len(t) => x[p] = {NodesOf(value, k, m)}
    BY <2>4, <2>5, <2>7, <2>8
  <2> QED
    BY <2>9, <2>10, Zenon DEF IsTail, m, n, t, x, p
<1> QED
  BY <1>2, <1>9, <1>10, <1>12, <1>13

\* So, from the last node back to the first, parseTopo reads whole nodes as sent.
LEMMA TailsAre ==
  ASSUME NEW value \in Seq(Byte), NEW d, IsLeft(d, value), NEW k \in 1..Len(value) \div 14,
         18 * (k - 1) <= Len(d)
  PROVE  IsTail(value, k, d, TopoRun(d)[18 * (k - 1)])
<1> DEFINE m == Len(value) \div 14
           T(j) == j \in 1..m /\ 18 * (j - 1) <= Len(d) => IsTail(value, j, d, TopoRun(d)[18 * (j - 1)])
           P == {i \in Nat : T(m - i)}
<1>1. m \in Nat
  OBVIOUS
<1>2. ASSUME NEW j \in Int, T(j + 1) PROVE T(j)
  <2> SUFFICES ASSUME j \in 1..m, 18 * (j - 1) <= Len(d)
               PROVE  IsTail(value, j, d, TopoRun(d)[18 * (j - 1)])
    OBVIOUS
  <2>1. (j + 1) - 1 = j
    OBVIOUS
  <2>2. 18 * j <= Len(d) /\ j + 1 \in 1..m => IsTail(value, j + 1, d, TopoRun(d)[18 * j])
    BY <1>2, <2>1, Zenon
  <2> QED
    BY <2>2, TailIs
<1>3. 0 \in P
  <2>1. m \in Int /\ m + 1 \notin 1..m /\ m - 0 = m
    BY <1>1
  <2>2. T(m + 1)
    BY <2>1
  <2> HIDE DEF T
  <2>3. T(m)
    BY <1>2, <2>1, <2>2
  <2> QED
    BY <2>1, <2>3
<1>4. ASSUME NEW i \in Nat, i \in P PROVE i + 1 \in P
  <2>1. m - (i + 1) \in Int /\ (m - (i + 1)) + 1 = m - i
    BY <1>1
  <2> HIDE DEF T
  <2>2. T(m - i)
    BY <1>4
  <2>3. T(m - (i + 1))
    BY <1>2, <2>1, <2>2, Zenon
  <2> QED
    BY <2>3
<1> HIDE DEF P
<1>5. Nat \subseteq P
  BY <1>3, <1>4, Induction
<1>6. m - k \in Nat /\ m - (m - k) = k
  BY <1>1
<1>7. m - k \in P
  BY <1>5, <1>6, Zenon
<1>8. T(k)
  BY <1>6, <1>7, Zenon DEF P
<1> QED
  BY <1>8

\* The first nodes of a topology.
LEMMA FirstNodes ==
  ASSUME NEW value \in Seq(Byte), NEW j \in 1..Len(value) \div 14
  PROVE  /\ IsPrefix(NodesOf(value, 1, j), value)
         /\ Len(NodesOf(value, 1, j)) % 14 = 0
         /\ 14 * j = Len(value) => NodesOf(value, 1, j) = value
<1> DEFINE l == Len(value)
           c == 14 * j
           s == SubSeq(value, 1, c)
<1>1. l \in Nat /\ j \in Nat /\ j >= 1 /\ j <= l \div 14
  OBVIOUS
<1>2. c \in Nat /\ c <= l /\ c % 14 = 0
  <2>1. 14 * (l \div 14) <= l
    BY <1>1
  <2>2. (14 * j) % 14 = 0
    BY <1>1
  <2> QED
    BY <1>1, <2>1, <2>2
<1>3. NodesOf(value, 1, j) = s
  <2>1. 14 * (1 - 1) + 1 = 1
    OBVIOUS
  <2> QED
    BY <2>1, Zenon DEF NodesOf
<1> HIDE DEF c
<1>4. s \in Seq(Byte) /\ Len(s) = c /\ \A i \in 1..c : s[i] = value[i]
  BY <1>2 DEF l
<1>5. IsPrefix(s, value)
  <2>1. Len(s) <= l /\ SubSeq(value, 1, Len(s)) = s
    BY <1>2, <1>4, Zenon
  <2> QED
    BY <2>1, Zenon DEF IsPrefix, l
<1>6. c = l => s = value
  <2> SUFFICES ASSUME c = l PROVE s = value
    OBVIOUS
  <2> HIDE DEF s
  <2>1. Len(s) = Len(value) /\ \A i \in 1..Len(s) : s[i] = value[i]
    BY <1>4 DEF l
  <2> QED
    BY <1>4, <2>1, SeqEqual
<1> QED
  BY <1>2, <1>3, <1>4, <1>5, <1>6, Zenon DEF c, l

\* Whatever is missing at the end of a topology, what is read is the nodes that are
\* whole; of all of it, all nodes.
LEMMA TopologyRead ==
  ASSUME NEW value \in Seq(Byte), Len(value) > 0, Len(value) % 14 = 0,
         NEW d, IsLeft(d, value)
  PROVE  /\ \A v \in parseTopo(d) : Len(v) % 14 = 0 /\ IsPrefix(v, value)
         /\ Len(d) = Len(TopologyBytes(value)) => parseTopo(d) = {value}
<1> DEFINE m == Len(value) \div 14
           n == Len(d)
           t == TopologyBytes(value)
           S == {i \in 0..n : looksLikeNode(d, i)}
           x == TopoRun(d)
<1>1. m \in Nat /\ 1 \in 1..m /\ m \in 1..m /\ 14 * m = Len(value)
  OBVIOUS
<1>2. n \in Nat
  BY DEF IsLeft
<1>3. Len(t) = 18 * m - 1
  BY <1>1, TopologyAt
<1>4. parseTopo(d) = UNION {x[i] : i \in {k \in S : \A j \in S : k <= j}}
  BY TopoOfRun, Zenon
<1>5. 18 * (1 - 1) = 0
  OBVIOUS
<1>6. IsTail(value, 1, d, x[0])
  <2>1. 18 * (1 - 1) <= Len(d)
    BY <1>2
  <2>2. IsTail(value, 1, d, x[18 * (1 - 1)])
    BY <1>1, <2>1, TailsAre
  <2> QED
    BY <1>5, <2>2
<1>7. looksLikeNode(d, 0) <=> 16 <= n
  <2>1. looksLikeNode(d, 18 * (1 - 1)) <=> 18 * (1 - 1) + 16 <= Len(d)
    BY <1>1, NodeRead
  <2>2. 18 * (1 - 1) + 16 = 16
    OBVIOUS
  <2> QED
    BY <1>5, <2>1, <2>2, Zenon
<1> HIDE DEF x
<1>8. CASE 16 <= n
  <2>1. 0 \in S /\ \A j \in S : j \in Nat
    BY <1>2, <1>7, <1>8
  <2>2. {k \in S : \A j \in S : k <= j} = {0}
    <3> HIDE DEF S
    <3> QED
      BY <2>1
  <2>3. parseTopo(d) = x[0]
    BY <1>4, <2>2
  <2>4. /\ x[0] \subseteq {NodesOf(value, 1, j) : j \in 1..m} \cup {<<>>}
        /\ n = Len(t) => x[0] = {NodesOf(value, 1, m)}
    BY <1>6, Zenon DEF IsTail
  <2>5. Len(<<>>) % 14 = 0 /\ IsPrefix(<<>>, value)
    BY DEF IsPrefix
  <2>6. ASSUME NEW v \in parseTopo(d) PROVE Len(v) % 14 = 0 /\ IsPrefix(v, value)
    <3>1. CASE v = <<>>
      BY <2>5, <3>1, Zenon
    <3>2. CASE v \in {NodesOf(value, 1, j) : j \in 1..m}
      <4>1. PICK j \in 1..m : v = NodesOf(value, 1, j)
        BY <3>2
      <4> QED
        BY <4>1, FirstNodes, Zenon
    <3> QED
      BY <2>3, <2>4, <3>1, <3>2, Zenon
  <2>7. NodesOf(value, 1, m) = value
    BY <1>1, FirstNodes
  <2> QED
    BY <2>3, <2>4, <2>6, <2>7, Zenon
<1>9. CASE ~(16 <= n)
  <2>1. \A i \in 0..n : ~looksLikeNode(d, i)
    BY <1>2, <1>9 DEF looksLikeNode
  <2>2. S = {}
    BY <2>1
  <2>3. parseTopo(d) = {}
    BY <1>4, <2>2, Zenon
  <2>4. n # Len(t)
    <3> DEFINE l == Len(t)
    <3>1. l = 18 * m - 1
      BY <1>3
    <3> HIDE DEF l
    <3>2. n # l
      BY <1>1, <1>2, <1>9, <3>1
    <3> QED
      BY <3>2 DEF l
  <2> QED
    BY <2>3, <2>4, Zenon
<1> QED
  BY <1>8, <1>9

-----------------------------------------------------------------------------
(* The loop, and what it has read.                                         *)

\* The first k entries: their bytes, and what they say.
Listed(r, k) == List(SubSeq(r.params, 1, k))
Meant(r, k) == Values(SubSeq(r.params, 1, k))

\* The body of the report stands in d, behind p bytes.
HasBody(r, d, p) == \A i \in 1..Len(Body(r)) : d[p + i] = Body(r)[i]

\* The frame is as the sensor sent the report.
Carried(frame, r) ==
  LET p == IF IsData(frame) THEN 7 ELSE 8
  IN  /\ IsReport(r) /\ r.count = DataCount(frame)
      /\ Len(frame) = p + Len(Body(r)) + 2
      /\ HasBody(r, frame, p)

\* What the loop works on.
Reading ==
  /\ IsReport(origin) /\ count = origin.count /\ data \in Seq(Byte)
  /\ HasBody(origin, data, 0)
  /\ \/ reader = "StartParser" /\ Len(data) = Len(Body(origin)) + 2
     \/ /\ reader = "common_para_response" /\ Len(data) = Len(Body(origin))
        /\ Len(wire) = Len(Body(origin)) + 10

WholeTopologies(r, f) ==
  \A i \in DOMAIN f : f[i].name = Type(0, 8) =>
    /\ Len(f[i].value) % 14 = 0
    /\ \E j \in DOMAIN r.params :
         r.params[j].type = Type(0, 8) /\ IsPrefix(f[i].value, r.params[j].value)

IsList(f) == f \in Seq({f[i] : i \in 1..Len(f)})

\* The loop stands before an entry, or behind the last one, and has read the others.
BeforeEntry(k) ==
  /\ k \in 0..Len(origin.params) /\ k <= count /\ parsed = k
  /\ idx = Len(Listed(origin, k)) /\ idx <= Len(Body(origin))
  /\ NothingLost => found = Meant(origin, k)
  /\ IsList(found) /\ WholeTopologies(origin, found)

\* f is what the first k entries say, or that and one value more.
AlmostMeant(r, k, f) ==
  f = Meant(r, k) \/ f = Append(Meant(r, k), f[Len(Meant(r, k)) + 1])

\* StartParser has read, or left, the entry in which the list is cut.
BehindCut(k) ==
  /\ reader = "StartParser" /\ idx \in Nat /\ idx + 2 > Len(Body(origin))
  /\ k \in 0..Len(origin.params) - 1 /\ k < count
  /\ Len(Listed(origin, k)) <= Len(Body(origin)) /\ Len(Listed(origin, k + 1)) > Len(Body(origin))
  /\ NothingLost => AlmostMeant(origin, k, found)

\* A two byte length can be misread.
Misleading == reader = "common_para_response" /\ Len(wire) + origin.cut > 256

\* What is to be when the loop has ended.
StartDone ==
  (reader = "StartParser" /\ NothingLost) =>
    /\ IsPrefix(Meant(origin, Whole), found)
    /\ Len(found) <= Len(Meant(origin, Whole)) + (IF origin.cut > 0 THEN 1 ELSE 0)
TopologyDone ==
  (origin.cut = 0 /\ (reader = "StartParser" \/ Len(wire) <= 256)) => WholeTopologies(origin, found)
ShortDone ==
  (reader = "common_para_response" /\ NothingLost /\ Len(wire) + origin.cut <= 256) =>
    IsPrefix(found, Values(origin.params))
Done == StartDone /\ TopologyDone /\ ShortDone

\* What arrives is what was sent, and the loop is where it has read all entries before
\* and nothing else, unless it is behind the end of the body, or misled.
ReadInv ==
  /\ pc \in {"idle", "request", "arrived"} => idx = 0 /\ parsed = 0 /\ found = <<>>
  /\ pc = "arrived" /\ ~damaged => Carried(wire, origin)
  /\ pc = "params" => /\ Reading
                      /\ \/ Misleading
                         \/ \E k \in 0..Len(origin.params) : BeforeEntry(k) \/ BehindCut(k)
  /\ pc = "read" => Done

\* The first k entries are entries.
LEMMA FirstEntries ==
  ASSUME NEW r, IsReport(r), NEW k \in 0..Len(r.params)
  PROVE  /\ Len(SubSeq(r.params, 1, k)) = k
         /\ \A i \in 1..k : SubSeq(r.params, 1, k)[i] = r.params[i] /\ IsEntry(r.params[i])
<1>1. r.params \in Seq(Entry) /\ \A i \in 1..Len(r.params) : IsEntry(r.params[i])
  BY Zenon DEF IsReport
<1> DEFINE p == r.params
           s == SubSeq(p, 1, k)
<1>2. p \in Seq(Entry) /\ k \in 0..Len(p)
  BY <1>1
<1> HIDE DEF p
<1>3. Len(s) = k /\ \A i \in 1..k : s[i] = p[i] /\ i \in 1..Len(p)
  BY <1>2
<1> QED
  BY <1>1, <1>3, Zenon DEF p

\* The bytes of the first k entries are the k-th member of the recursion.
LEMMA ListedIs ==
  ASSUME NEW r, IsReport(r), NEW k \in 0..Len(r.params)
  PROVE  Listed(r, k) = ListRun(r.params)[k]
<1> DEFINE p == r.params
           s == SubSeq(p, 1, k)
           n == Len(p)
<1>1. n \in Nat /\ \A i \in 1..n : IsEntry(p[i])
  BY ReportIs
<1>2. Len(s) = k /\ \A i \in 1..k : s[i] = p[i] /\ IsEntry(p[i])
  BY FirstEntries, Zenon
<1>3. k \in Nat /\ k <= n /\ k <= k
  BY <1>1
<1> HIDE DEF s, n
<1>4. Chain(ListRun(p), Byte, EntriesOf(p), n)
  BY <1>1, ListChain, Zenon DEF n
<1>5. Chain(ListRun(s), Byte, EntriesOf(s), k)
  <2>1. Len(s) \in Nat /\ \A i \in 1..Len(s) : IsEntry(s[i])
    BY <1>2, <1>3, Zenon
  <2> QED
    BY <1>2, <2>1, ListChain, Zenon
<1>6. \A i \in 1..k : EntriesOf(p)[i] = EntriesOf(s)[i]
  <2>1. ASSUME NEW i \in 1..k PROVE EntriesOf(p)[i] = EntriesOf(s)[i]
    <3>1. i \in 1..n
      BY <1>1, <1>3
    <3>4. i \in 1..Len(s)
      BY <1>2, Zenon
    <3>2. EntriesOf(p)[i] = EntryBytes(p[i])
      BY <3>1, Zenon DEF EntriesOf, n
    <3>3. EntriesOf(s)[i] = EntryBytes(s[i])
      BY <3>4, Zenon DEF EntriesOf
    <3> QED
      BY <1>2, <3>2, <3>3, Zenon
  <2> QED
    BY <2>1
<1>7. ListRun(p)[k] = ListRun(s)[k]
  <2> DEFINE f == ListRun(p)
             h == ListRun(s)
             d == EntriesOf(p)
             e == EntriesOf(s)
  <2>1. Chain(f, Byte, d, n) /\ Chain(h, Byte, e, k) /\ \A i \in 1..k : d[i] = e[i]
    BY <1>4, <1>5, <1>6, Zenon
  <2> HIDE DEF f, h, d, e
  <2>2. f[k] = h[k]
    BY <1>1, <1>3, <2>1, ChainsAgree
  <2> QED
    BY <2>2, Zenon DEF f, h
<1>8. List(s) = ListRun(s)[k]
  BY <1>2, ListOfRun, Zenon
<1> QED
  BY <1>7, <1>8, Zenon DEF Listed, s

\* They begin with nothing and end with the list.
LEMMA ListedBytes ==
  ASSUME NEW r, IsReport(r)
  PROVE  /\ \A k \in 0..Len(r.params) : Listed(r, k) \in Seq(Byte)
         /\ Listed(r, 0) = <<>> /\ Listed(r, Len(r.params)) = List(r.params)
<1> DEFINE n == Len(r.params)
<1>1. n \in Nat /\ \A i \in 1..n : IsEntry(r.params[i])
  BY ReportIs
<1>2. 0 \in 0..n /\ n \in 0..n
  BY <1>1
<1>3. Chain(ListRun(r.params), Byte, EntriesOf(r.params), n)
  BY <1>1, ListChain, Zenon
<1> HIDE DEF n
<1>4. ListRun(r.params) \in [0..n -> Seq(Byte)] /\ ListRun(r.params)[0] = <<>>
  BY <1>3, Zenon DEF Chain
<1>5. \A k \in 0..n : Listed(r, k) = ListRun(r.params)[k]
  BY ListedIs, Zenon DEF n
<1>6. List(r.params) = ListRun(r.params)[n]
  BY ListOfRun, Zenon DEF n
<1>7. \A k \in 0..n : Listed(r, k) \in Seq(Byte)
  BY <1>4, <1>5, Zenon
<1> QED
  BY <1>2, <1>4, <1>5, <1>6, <1>7, Zenon DEF n

\* The bytes of more entries begin with those of fewer.
LEMMA ListedGrows ==
  ASSUME NEW r, IsReport(r), NEW j \in 0..Len(r.params), NEW k \in 0..Len(r.params), j <= k
  PROVE  /\ Len(Listed(r, j)) \in Nat /\ Len(Listed(r, k)) \in Nat
         /\ Len(Listed(r, j)) <= Len(Listed(r, k))
         /\ \A i \in 1..Len(Listed(r, j)) : Listed(r, k)[i] = Listed(r, j)[i]
<1> DEFINE n == Len(r.params)
           x == ListRun(r.params)
           e == EntriesOf(r.params)
<1>1. n \in Nat /\ \A i \in 1..n : IsEntry(r.params[i])
  BY ReportIs
<1>2. Chain(x, Byte, e, n) /\ \A i \in 1..n : e[i] \in Seq(Byte)
  BY <1>1, ListChain, Zenon
<1>3. j \in Nat /\ k \in Nat /\ k <= n
  BY <1>1
<1>4. Listed(r, j) = x[j] /\ Listed(r, k) = x[k]
  BY ListedIs, Zenon
<1>5. Listed(r, j) \in Seq(Byte) /\ Listed(r, k) \in Seq(Byte)
  BY ListedBytes, Zenon
<1> HIDE DEF n, x, e
<1>6. Len(x[j]) <= Len(x[k]) /\ \A i \in 1..Len(x[j]) : x[k][i] = x[j][i]
  BY <1>1, <1>2, <1>3, ChainGrows
<1> QED
  BY <1>4, <1>5, <1>6

\* Where an entry stands in the list, and in the body as far as that goes.
LEMMA EntryInBody ==
  ASSUME NEW r, IsReport(r), NEW k \in 0..Len(r.params) - 1
  PROVE  /\ IsEntry(r.params[k + 1])
         /\ Len(Listed(r, k)) \in Nat
         /\ Len(Listed(r, k + 1)) = Len(Listed(r, k)) + Len(EntryBytes(r.params[k + 1]))
         /\ \A i \in 1..Len(EntryBytes(r.params[k + 1])) :
              Len(Listed(r, k)) + i <= Len(Body(r)) =>
                Body(r)[Len(Listed(r, k)) + i] = EntryBytes(r.params[k + 1])[i]
<1> DEFINE n == Len(r.params)
           x == ListRun(r.params)
           e == EntriesOf(r.params)
           p == Len(Listed(r, k))
           b == Body(r)
<1>1. /\ n \in Nat /\ \A i \in 1..n : IsEntry(r.params[i])
      /\ b \in Seq(Byte) /\ Len(b) <= Len(List(r.params))
      /\ \A i \in 1..Len(b) : b[i] = List(r.params)[i]
  <2>1. /\ Len(b) = Len(List(r.params)) - r.cut /\ r.cut \in Nat /\ List(r.params) \in Seq(Byte)
        /\ n \in Nat /\ \A i \in 1..n : IsEntry(r.params[i])
        /\ b \in Seq(Byte) /\ \A i \in 1..Len(b) : b[i] = List(r.params)[i]
    BY ReportIs, Zenon
  <2> HIDE DEF b, n
  <2>2. Len(b) <= Len(List(r.params))
    BY <2>1
  <2> QED
    BY <2>1, <2>2, Zenon
<1>2. k \in Nat /\ k + 1 \in 1..n /\ k \in 0..n /\ k + 1 \in 0..n /\ n \in 0..n /\ k + 1 <= n
      /\ (k + 1) - 1 = k
  BY <1>1
<1>3. Chain(x, Byte, e, n) /\ \A i \in 1..n : e[i] \in Seq(Byte)
  BY <1>1, ListChain, Zenon
<1> HIDE DEF n
<1>4. Listed(r, k) = x[k] /\ Listed(r, k + 1) = x[k + 1]
  BY <1>2, ListedIs, Zenon DEF n
<1>5. Listed(r, k) \in Seq(Byte) /\ Listed(r, k + 1) \in Seq(Byte) /\ Listed(r, n) = List(r.params)
  BY <1>2, ListedBytes, Zenon DEF n
<1>6. e[k + 1] = EntryBytes(r.params[k + 1]) /\ e[k + 1] \in Seq(Byte)
  BY <1>2, <1>3, Zenon DEF EntriesOf, n
<1>7. x[k + 1] = x[k] \o e[k + 1]
  BY <1>2, <1>3, Zenon DEF Chain
<1> HIDE DEF x, e
<1> DEFINE s == e[k + 1]
           u == Listed(r, k)
           v == Listed(r, k + 1)
<1>8. v = u \o s /\ u \in Seq(Byte) /\ s \in Seq(Byte)
  BY <1>4, <1>5, <1>6, <1>7, Zenon
<1> HIDE DEF s, u, v, b
<1>9. Len(v) = Len(u) + Len(s) /\ Len(u) \in Nat /\ \A i \in 1..Len(s) : v[Len(u) + i] = s[i]
  BY <1>8
<1>10. \A i \in 1..Len(v) : List(r.params)[i] = v[i]
  <2>1. \A i \in 1..Len(Listed(r, k + 1)) : Listed(r, n)[i] = Listed(r, k + 1)[i]
    BY <1>2, ListedGrows, Zenon DEF n
  <2> QED
    BY <1>5, <2>1, Zenon DEF v
<1>11. ASSUME NEW i \in 1..Len(s), Len(u) + i <= Len(b) PROVE b[Len(u) + i] = s[i]
  <2>1. Len(u) + i \in 1..Len(b) /\ Len(u) + i \in 1..Len(v)
    BY <1>1, <1>8, <1>9, <1>11
  <2> QED
    BY <1>1, <1>9, <1>10, <2>1, Zenon
<1> QED
  BY <1>1, <1>2, <1>6, <1>9, <1>11, Zenon DEF s, u, v, b, n

\* What an entry says: its value, unless the table lacks its type.
Stored == [name : Nat, value : Seq(Number)]
Says(e) ==
  IF LookupParamInfo(e.type) = "none" THEN <<>>
  ELSE <<[name |-> Name(e.type), value |-> e.value]>>
SaysOf(params) == [i \in 1..Len(params) |-> Says(params[i])]

ValuesRun(params) ==
  CHOOSE upTo : upTo =
    [n \in 0..Len(params) |->
        IF n = 0 THEN <<>>
        ELSE LET e == params[n]
             IN  IF LookupParamInfo(e.type) = "none" THEN upTo[n - 1]
                 ELSE Append(upTo[n - 1], [name |-> Name(e.type), value |-> e.value])]

\* The values of entries are what the recursion over them has at the end.
LEMMA ValuesOfRun ==
  ASSUME NEW params
  PROVE  Values(params) = ValuesRun(params)[Len(params)]
BY DEF Values, ValuesRun

\* An entry says one value, or, of an unknown type, nothing.
LEMMA SaysIs ==
  ASSUME NEW e, IsEntry(e)
  PROVE  /\ Says(e) \in Seq(Stored)
         /\ \A s \in Seq(Stored) :
              s \o Says(e) = IF LookupParamInfo(e.type) = "none" THEN s
                             ELSE Append(s, [name |-> Name(e.type), value |-> e.value])
<1> DEFINE w == [name |-> Name(e.type), value |-> e.value]
<1>1. e \in Entry
  BY Zenon DEF IsEntry
<1>2. e.type \in TypeCode /\ e.value \in Seq(Number)
  BY <1>1 DEF Entry
<1>3. e.type \in Nat
  BY ValueOfEntry
<1>4. Name(e.type) \in Nat
  BY <1>3 DEF Name, Type
<1>5. w \in Stored
  BY <1>2, <1>4 DEF Stored
<1>6. Says(e) = IF LookupParamInfo(e.type) = "none" THEN <<>> ELSE <<w>>
  BY Zenon DEF Says
<1> HIDE DEF w
<1>7. <<w>> \in Seq(Stored) /\ <<>> \in Seq(Stored)
  BY <1>5
<1>8. \A s \in Seq(Stored) : s \o <<w>> = Append(s, w) /\ s \o <<>> = s
  BY <1>5
<1> QED
  BY <1>6, <1>7, <1>8, Zenon DEF w

\* The values are the chain of what the entries say.
LEMMA ValuesChain ==
  ASSUME NEW params, Len(params) \in Nat, \A i \in 1..Len(params) : IsEntry(params[i])
  PROVE  /\ \A i \in 1..Len(params) : SaysOf(params)[i] \in Seq(Stored)
         /\ Chain(ValuesRun(params), Stored, SaysOf(params), Len(params))
<1> DEFINE n == Len(params)
           e == SaysOf(params)
           Next1(s, d) == IF LookupParamInfo(d.type) = "none" THEN s
                          ELSE Append(s, [name |-> Name(d.type), value |-> d.value])
           A(h) == [k \in 0..n |-> IF k = 0 THEN <<>> ELSE Next1(h[k - 1], params[k])]
           f == TheChain(Stored, e, n)
           x == ValuesRun(params)
<1>1. n \in Nat
  OBVIOUS
<1>2. \A k \in 1..n : e[k] = Says(params[k])
  BY DEF SaysOf
<1>3. /\ \A k \in 1..n : e[k] \in Seq(Stored)
      /\ \A k \in 1..n : \A s \in Seq(Stored) : s \o e[k] = Next1(s, params[k])
  BY <1>2, SaysIs, Zenon
<1>4. x = CHOOSE h : h = A(h)
  BY DEF ValuesRun
<1> HIDE DEF n, e, x, Next1
<1>5. Chain(f, Stored, e, n)
  BY <1>1, <1>3, ChainExists
<1> HIDE DEF f
<1>6. f = A(f)
  <2>1. f \in [0..n -> Seq(Stored)] /\ f[0] = <<>> /\ \A i \in 1..n : f[i] = f[i - 1] \o e[i]
    BY <1>5 DEF Chain
  <2>2. f = [k \in 0..n |-> f[k]]
    BY <2>1, Zenon
  <2>3. \A k \in 0..n : k = 0 \/ (k \in 1..n /\ k - 1 \in 0..n)
    BY <1>1
  <2>4. \A k \in 0..n : f[k - 1] \in Seq(Stored) \/ k = 0
    BY <2>1, <2>3, Zenon
  <2>5. \A k \in 0..n : f[k] = IF k = 0 THEN <<>> ELSE Next1(f[k - 1], params[k])
    BY <1>3, <2>1, <2>3, <2>4, Zenon
  <2> QED
    BY <2>2, <2>5
<1>7. x = A(x)
  <2> HIDE DEF A
  <2> QED
    BY <1>4, <1>6
<1>8. /\ x = [k \in 0..n |-> x[k]] /\ x[0] = <<>>
      /\ \A k \in 1..n : x[k] = Next1(x[k - 1], params[k])
  <2> DEFINE y == A(x)
  <2>1. /\ y = [k \in 0..n |-> y[k]] /\ y[0] = <<>>
        /\ \A k \in 1..n : y[k] = Next1(x[k - 1], params[k])
    <3>1. 0 \in 0..n /\ \A k \in 1..n : k \in 0..n /\ k # 0
      BY <1>1
    <3> QED
      BY <3>1, Zenon
  <2>2. x = y
    BY <1>7
  <2> HIDE DEF y
  <2> QED
    BY <2>1, <2>2
<1>9. \A k \in 1..n : x[k - 1] \in Seq(Stored) => x[k] = x[k - 1] \o e[k]
  BY <1>3, <1>8, Zenon
<1> HIDE DEF A
<1>10. Chain(x, Stored, e, n)
  BY <1>1, <1>3, <1>8, <1>9, ChainIs
<1> QED
  BY <1>3, <1>10, Zenon DEF x, e, n

\* The values of the first k entries are the k-th member of the recursion.
LEMMA MeantIs ==
  ASSUME NEW r, IsReport(r), NEW k \in 0..Len(r.params)
  PROVE  Meant(r, k) = ValuesRun(r.params)[k]
<1> DEFINE p == r.params
           s == SubSeq(p, 1, k)
           n == Len(p)
<1>1. n \in Nat /\ \A i \in 1..n : IsEntry(p[i])
  BY ReportIs
<1>2. Len(s) = k /\ \A i \in 1..k : s[i] = p[i] /\ IsEntry(p[i])
  BY FirstEntries, Zenon
<1>3. k \in Nat /\ k <= n /\ k <= k
  BY <1>1
<1> HIDE DEF s, n
<1>4. Chain(ValuesRun(p), Stored, SaysOf(p), n)
  BY <1>1, ValuesChain, Zenon DEF n
<1>5. Chain(ValuesRun(s), Stored, SaysOf(s), k)
  <2>1. Len(s) \in Nat /\ \A i \in 1..Len(s) : IsEntry(s[i])
    BY <1>2, <1>3, Zenon
  <2> QED
    BY <1>2, <2>1, ValuesChain, Zenon
<1>6. \A i \in 1..k : SaysOf(p)[i] = SaysOf(s)[i]
  <2>1. ASSUME NEW i \in 1..k PROVE SaysOf(p)[i] = SaysOf(s)[i]
    <3>1. i \in 1..n
      BY <1>1, <1>3
    <3>4. i \in 1..Len(s)
      BY <1>2, Zenon
    <3>2. SaysOf(p)[i] = Says(p[i])
      BY <3>1, Zenon DEF SaysOf, n
    <3>3. SaysOf(s)[i] = Says(s[i])
      BY <3>4, Zenon DEF SaysOf
    <3> QED
      BY <1>2, <3>2, <3>3, Zenon
  <2> QED
    BY <2>1
<1>7. ValuesRun(p)[k] = ValuesRun(s)[k]
  <2> DEFINE f == ValuesRun(p)
             h == ValuesRun(s)
             d == SaysOf(p)
             e == SaysOf(s)
  <2>1. Chain(f, Stored, d, n) /\ Chain(h, Stored, e, k) /\ \A i \in 1..k : d[i] = e[i]
    BY <1>4, <1>5, <1>6, Zenon
  <2> HIDE DEF f, h, d, e
  <2>2. f[k] = h[k]
    BY <1>1, <1>3, <2>1, ChainsAgree
  <2> QED
    BY <2>2, Zenon DEF f, h
<1>8. Values(s) = ValuesRun(s)[k]
  BY <1>2, ValuesOfRun, Zenon
<1> QED
  BY <1>7, <1>8, Zenon DEF Meant, s

\* One entry after the other.
LEMMA MeantSteps ==
  ASSUME NEW r, IsReport(r)
  PROVE  /\ \A k \in 0..Len(r.params) : Meant(r, k) \in Seq(Stored)
         /\ Meant(r, 0) = <<>> /\ Meant(r, Len(r.params)) = Values(r.params)
         /\ \A k \in 0..Len(r.params) - 1 : Meant(r, k + 1) = Meant(r, k) \o Says(r.params[k + 1])
<1> DEFINE n == Len(r.params)
<1>1. n \in Nat /\ \A i \in 1..n : IsEntry(r.params[i])
  BY ReportIs
<1>2. 0 \in 0..n /\ n \in 0..n
      /\ \A k \in 0..n - 1 : k + 1 \in 1..n /\ k \in 0..n /\ k + 1 \in 0..n /\ (k + 1) - 1 = k
  BY <1>1
<1>3. Chain(ValuesRun(r.params), Stored, SaysOf(r.params), n)
  BY <1>1, ValuesChain, Zenon
<1> HIDE DEF n
<1>4. /\ ValuesRun(r.params) \in [0..n -> Seq(Stored)] /\ ValuesRun(r.params)[0] = <<>>
      /\ \A i \in 1..n : ValuesRun(r.params)[i] = ValuesRun(r.params)[i - 1] \o SaysOf(r.params)[i]
  BY <1>3, Zenon DEF Chain
<1>5. \A k \in 0..n : Meant(r, k) = ValuesRun(r.params)[k]
  BY MeantIs, Zenon DEF n
<1>6. Values(r.params) = ValuesRun(r.params)[n]
  BY ValuesOfRun, Zenon DEF n
<1>7. \A k \in 0..n : Meant(r, k) \in Seq(Stored)
  BY <1>4, <1>5, Zenon
<1>8. \A k \in 1..n : SaysOf(r.params)[k] = Says(r.params[k])
  BY Zenon DEF SaysOf, n
<1>9. ASSUME NEW k \in 0..n - 1 PROVE Meant(r, k + 1) = Meant(r, k) \o Says(r.params[k + 1])
  <2>1. k + 1 \in 1..n /\ k \in 0..n /\ k + 1 \in 0..n /\ (k + 1) - 1 = k
    BY <1>2, Zenon
  <2>2. ValuesRun(r.params)[k + 1] = ValuesRun(r.params)[(k + 1) - 1] \o SaysOf(r.params)[k + 1]
    BY <1>4, <2>1, Zenon
  <2> QED
    BY <1>5, <1>8, <2>1, <2>2, Zenon
<1> QED
  BY <1>2, <1>4, <1>5, <1>6, <1>7, <1>9, Zenon DEF n

\* The values of more entries begin with those of fewer.
LEMMA MeantGrows ==
  ASSUME NEW r, IsReport(r), NEW j \in 0..Len(r.params), NEW k \in 0..Len(r.params), j <= k
  PROVE  IsPrefix(Meant(r, j), Meant(r, k))
<1> DEFINE n == Len(r.params)
           x == ValuesRun(r.params)
           e == SaysOf(r.params)
           u == Meant(r, j)
           v == Meant(r, k)
<1>1. n \in Nat /\ \A i \in 1..n : IsEntry(r.params[i])
  BY ReportIs
<1>2. Chain(x, Stored, e, n) /\ \A i \in 1..n : e[i] \in Seq(Stored)
  BY <1>1, ValuesChain, Zenon
<1>3. j \in Nat /\ k \in Nat /\ k <= n
  BY <1>1
<1>4. u = x[j] /\ v = x[k]
  BY MeantIs, Zenon
<1>5. u \in Seq(Stored) /\ v \in Seq(Stored)
  BY MeantSteps, Zenon
<1> HIDE DEF n, x, e
<1>6. Len(x[j]) <= Len(x[k]) /\ \A i \in 1..Len(x[j]) : x[k][i] = x[j][i]
  BY <1>1, <1>2, <1>3, ChainGrows
<1> HIDE DEF u, v
<1>7. Len(u) <= Len(v) /\ \A i \in 1..Len(u) : v[i] = u[i]
  BY <1>4, <1>6, Zenon
<1>8. SubSeq(v, 1, Len(u)) = u
  <2> DEFINE s == SubSeq(v, 1, Len(u))
  <2>1. s \in Seq(Stored) /\ Len(s) = Len(u) /\ \A i \in 1..Len(u) : s[i] = v[i]
    BY <1>5, <1>7
  <2> HIDE DEF s
  <2>2. s = u
    BY <1>5, <1>7, <2>1, SeqEqual
  <2> QED
    BY <2>2 DEF s
<1>9. IsPrefix(u, v)
  BY <1>7, <1>8, Zenon DEF IsPrefix
<1> QED
  BY <1>9 DEF u, v

\* InFrame is the number of entries that are whole in the body.
LEMMA InFrameIs ==
  ASSUME IsReport(origin)
  PROVE  /\ InFrame \in 0..Len(origin.params)
         /\ Len(Listed(origin, InFrame)) <= Len(Body(origin))
         /\ InFrame < Len(origin.params) => Len(Listed(origin, InFrame + 1)) > Len(Body(origin))
<1> DEFINE m == Len(origin.params)
           b == Len(Body(origin))
           l(n) == Len(Listed(origin, n))
           Q == {n \in Nat : n <= m /\ (n < m => l(n + 1) > b)}
<1>1. m \in Nat /\ b \in Nat
  BY ReportIs
<1>2. \A n \in 0..m : l(n) \in Nat
  BY ListedBytes
<1>3. l(0) = 0
  BY ListedBytes
<1>4. InFrame = CHOOSE n \in 0..m : l(n) <= b /\ (n < m => l(n + 1) > b)
  BY Zenon DEF InFrame, Listed
<1> HIDE DEF m, b, l
<1>5. Q \subseteq Nat /\ m \in Q
  BY <1>1
<1>6. PICK n \in Q : \A j \in Q : n <= j
  BY <1>5, LeastElement
<1>7. n \in 0..m /\ (n < m => l(n + 1) > b)
  BY <1>1, <1>6
<1>8. l(n) <= b
  <2>1. CASE n = 0
    BY <1>1, <1>3, <2>1
  <2>2. CASE n # 0
    <3>1. n - 1 \in Nat /\ n - 1 < m /\ (n - 1) + 1 = n /\ ~(n <= n - 1) /\ n - 1 <= m
      BY <1>1, <1>7, <2>2
    <3>2. n - 1 \notin Q
      BY <1>6, <3>1, Zenon
    <3>3. ~(l(n) > b)
      BY <3>1, <3>2
    <3> QED
      BY <1>1, <1>2, <1>7, <3>3
  <2> QED
    BY <2>1, <2>2
<1> DEFINE R(k) == l(k) <= b /\ (k < m => l(k + 1) > b)
<1>9. InFrame = CHOOSE k \in 0..m : R(k)
  BY <1>4
<1>10. \E k \in 0..m : R(k)
  BY <1>7, <1>8
<1> HIDE DEF R
<1>11. InFrame \in 0..m /\ R(InFrame)
  BY <1>9, <1>10, Zenon
<1> QED
  BY <1>11, Zenon DEF R, m, b, l

\* Where the loop is when it ends is where the frame, or the count, ends.
LEMMA WholeIs ==
  ASSUME IsReport(origin), NEW k \in 0..Len(origin.params), k <= origin.count,
         Len(Listed(origin, k)) <= Len(Body(origin)),
         \/ k = origin.count \/ k = Len(origin.params)
         \/ k < Len(origin.params) /\ Len(Listed(origin, k + 1)) > Len(Body(origin))
  PROVE  Whole = k
<1> DEFINE m == Len(origin.params)
           b == Len(Body(origin))
           K == InFrame
           l(n) == Len(Listed(origin, n))
<1>1. m \in Nat /\ b \in Nat /\ origin.count \in Nat
  <2>1. m \in Nat /\ Body(origin) \in Seq(Byte) /\ origin.count \in 0..15
    BY ReportIs, Zenon
  <2> HIDE DEF m
  <2> QED
    BY <2>1
<1>2. K \in 0..m /\ l(K) <= b /\ (K < m => l(K + 1) > b)
  BY InFrameIs, Zenon
<1>3. \A i, j \in 0..m : i <= j => l(i) \in Nat /\ l(j) \in Nat /\ l(i) <= l(j)
  BY ListedGrows
<1>4. k \in 0..m /\ l(k) <= b /\ (k = origin.count \/ k = m \/ (k < m /\ l(k + 1) > b))
  OBVIOUS
<1>5. Whole = IF K < origin.count THEN K ELSE origin.count
  BY DEF Whole
<1> HIDE DEF m, b, K, l
<1>6. K >= k
  <2> SUFFICES ASSUME K < k PROVE FALSE
    BY <1>1, <1>2, <1>4
  <2>1. K + 1 \in 0..m /\ K + 1 <= k /\ K < m
    BY <1>1, <1>2, <1>4
  <2>2. l(K + 1) <= l(k) /\ l(K + 1) \in Nat /\ l(k) \in Nat /\ l(K + 1) > b
    BY <1>2, <1>3, <1>4, <2>1, Zenon
  <2> QED
    BY <1>1, <1>4, <2>2
<1>7. CASE k < m /\ l(k + 1) > b
  <2>1. K = k
    <3> SUFFICES ASSUME K # k PROVE FALSE
      OBVIOUS
    <3>1. k + 1 \in 0..m /\ k + 1 <= K
      BY <1>1, <1>2, <1>4, <1>6, <1>7
    <3>2. l(k + 1) <= l(K) /\ l(k + 1) \in Nat /\ l(K) \in Nat
      BY <1>2, <1>3, <3>1, Zenon
    <3> QED
      BY <1>1, <1>2, <1>7, <3>2
  <2> QED
    BY <1>1, <1>4, <1>5, <2>1
<1>8. CASE k = origin.count
  BY <1>1, <1>2, <1>4, <1>5, <1>6, <1>8
<1>9. CASE k = m
  BY <1>1, <1>2, <1>4, <1>5, <1>6, <1>9
<1> QED
  BY <1>4, <1>7, <1>8, <1>9

-----------------------------------------------------------------------------
(* One iteration of the loop.                                              *)

\* The header word the loop reads, low byte first.
LEMMA HeaderIs ==
  ASSUME data \in Seq(Byte), idx \in Nat, idx + 2 <= Len(data)
  PROVE  Header = data[idx + 1] + 256 * data[idx + 2]
<1> DEFINE b == SubSeq(data, idx + 1, idx + 2)
<1>1. b \in Seq(Byte) /\ Len(b) <= 2 /\ Len(b) >= 2
  OBVIOUS
<1>2. b[1] = data[idx + 1] /\ b[2] = data[idx + 2]
  <2>1. b[1] = data[(idx + 1) + 1 - 1] /\ b[2] = data[(idx + 1) + 2 - 1]
    OBVIOUS
  <2>2. (idx + 1) + 1 - 1 = idx + 1 /\ (idx + 1) + 2 - 1 = idx + 2
    OBVIOUS
  <2> QED
    BY <2>1, <2>2, Zenon
<1>3. Header = Words(b)[1]
  BY Zenon DEF Header
<1> HIDE DEF b
<1>4. Len(b) \div 2 = 1
  BY <1>1
<1>5. Words(b) = [i \in 1..Len(b) \div 2 |-> b[2 * i - 1] + 256 * b[2 * i]]
  BY Zenon DEF Words
<1>6. 1 \in 1..Len(b) \div 2 /\ 2 * 1 - 1 = 1 /\ 2 * 1 = 2
  BY <1>4
<1>7. Words(b)[1] = b[1] + 256 * b[2]
  BY <1>5, <1>6, ZenonT(60)
<1> QED
  BY <1>2, <1>3, <1>7, Zenon

\* The loop has entry e before it, the first of those that it has not read.
AtEntry(k, e) ==
  /\ k \in 0..Len(origin.params) - 1 /\ k < count /\ parsed = k
  /\ e = origin.params[k + 1] /\ IsEntry(e)
  /\ idx \in Nat /\ idx = Len(Listed(origin, k)) /\ idx + 2 <= Len(Body(origin))
  /\ Len(Listed(origin, k + 1)) = idx + 2 + e.flag + Len(DataOf(e))
  /\ \A i \in 1..2 + e.flag + Len(DataOf(e)) :
       idx + i <= Len(Body(origin)) => data[idx + i] = EntryBytes(e)[i]
  /\ ParamType = e.type /\ LenFlag = e.flag

\* When all entries before it are read, the loop stands at the next one.
LEMMA EntryAhead ==
  ASSUME Reading, NEW k, BeforeEntry(k), InHeader
  PROVE  AtEntry(k, origin.params[k + 1])
<1> DEFINE m == Len(origin.params)
           b == Len(Body(origin))
           e == origin.params[k + 1]
           s == EntryBytes(e)
           d == DataOf(e)
<1>1. /\ m \in Nat /\ b \in Nat /\ b <= Len(List(origin.params)) /\ data \in Seq(Byte)
      /\ IsReport(origin) /\ origin.count \in Nat /\ count = origin.count
  <2>1. IsReport(origin) /\ data \in Seq(Byte) /\ count = origin.count
    BY Zenon DEF Reading
  <2>2. /\ m \in Nat /\ Body(origin) \in Seq(Byte) /\ origin.count \in 0..15
        /\ List(origin.params) \in Seq(Byte)
        /\ origin.cut \in Nat /\ b = Len(List(origin.params)) - origin.cut
    BY <2>1, ReportIs, Zenon
  <2> HIDE DEF m
  <2>3. b \in Nat /\ origin.count \in Nat
    BY <2>2
  <2> HIDE DEF b
  <2>4. b <= Len(List(origin.params))
    BY <2>2, <2>3
  <2> QED
    BY <2>1, <2>2, <2>3, <2>4, Zenon
<1>2. /\ k \in 0..m /\ parsed = k /\ idx = Len(Listed(origin, k)) /\ k < count
      /\ idx + 2 <= Len(data) - 2
  BY DEF BeforeEntry, InHeader
<1>3. Len(data) <= b + 2 /\ Len(data) >= b
  BY <1>1 DEF Reading
<1>4. idx \in Nat
  BY <1>1, <1>2, ListedBytes
<1>5. idx + 2 <= b /\ idx + 2 <= Len(data)
  BY <1>1, <1>2, <1>3, <1>4
<1>6. k \in 0..m - 1
  <2> SUFFICES ASSUME k = m PROVE FALSE
    BY <1>1, <1>2
  <2>1. Listed(origin, m) = List(origin.params)
    BY <1>1, ListedBytes, Zenon
  <2> HIDE DEF b, m
  <2>2. idx = Len(List(origin.params))
    BY <1>2, <2>1
  <2> QED
    BY <1>1, <1>4, <1>5, <2>2
<1>7. /\ IsEntry(e) /\ Len(Listed(origin, k + 1)) = idx + Len(s)
      /\ \A i \in 1..Len(s) : idx + i <= b => Body(origin)[idx + i] = s[i]
  BY <1>1, <1>2, <1>6, EntryInBody, Zenon
<1>8. d \in Seq(Byte) /\ IsCoded(s, 4 * e.type + e.flag, e.flag, d)
  BY <1>7, EntryIsCoded, Zenon
<1>9. e.type \in Nat /\ e.type < 16384 /\ e.flag \in 0..3
  BY <1>7, ValueOfEntry, SMT
<1>10. /\ s \in Seq(Byte) /\ Len(s) = 2 + e.flag + Len(d)
       /\ s[1] + 256 * s[2] = 4 * e.type + e.flag
  BY <1>8, SMT DEF IsCoded
<1>11. \A i \in 1..b : data[i] = Body(origin)[i]
  <2>1. \A i \in 1..b : data[0 + i] = Body(origin)[i]
    BY Zenon DEF Reading, HasBody
  <2>2. \A i \in 1..b : 0 + i = i
    BY <1>1
  <2> QED
    BY <2>1, <2>2, Zenon
<1> HIDE DEF m, b, e, s, d
<1> DEFINE f == e.flag
           t == e.type
           n == Len(d)
<1>12. f \in Nat /\ f <= 3 /\ t \in Nat /\ n \in Nat
  BY <1>8, <1>9
<1> HIDE DEF f, t, n
<1>13. ASSUME NEW i \in 1..2 + f + n, idx + i <= b PROVE data[idx + i] = s[i]
  <2>1. i \in 1..Len(s) /\ idx + i \in 1..b
    BY <1>1, <1>4, <1>10, <1>12, <1>13 DEF f, n
  <2> QED
    BY <1>7, <1>11, <1>13, <2>1, Zenon
<1>14. data[idx + 1] = s[1] /\ data[idx + 2] = s[2]
  <2>1. 1 \in 1..2 + f + n /\ 2 \in 1..2 + f + n /\ idx + 1 <= b
    BY <1>1, <1>4, <1>5, <1>12
  <2> QED
    BY <1>5, <1>13, <2>1, Zenon
<1>15. Header = 4 * t + f
  BY <1>1, <1>4, <1>5, <1>10, <1>14, HeaderIs, Zenon DEF t, f
<1>16. (4 * t + f) \div 4 = t /\ (4 * t + f) % 4 = f
  BY <1>12
<1>17. ParamType = t /\ LenFlag = f
  BY <1>15, <1>16, Zenon DEF ParamType, LenFlag
<1>18. idx + Len(s) = idx + 2 + f + n
  <2> DEFINE l == Len(s)
  <2>1. l = 2 + f + n
    BY <1>10, Zenon DEF f, n
  <2> HIDE DEF l
  <2>2. idx + l = idx + 2 + f + n
    BY <1>4, <1>12, <2>1
  <2> QED
    BY <2>2 DEF l
<1> QED
  BY <1>2, <1>4, <1>5, <1>6, <1>7, <1>13, <1>17, <1>18, Zenon DEF AtEntry, m, b, e, s, d, f, t, n

\* What the length bytes say, when all of them are there.
LEMMA LengthIs ==
  ASSUME NEW k, NEW e, AtEntry(k, e), data \in Seq(Byte), Len(Body(origin)) \in Nat,
         idx + 2 + e.flag <= Len(Body(origin))
  PROVE  /\ reader = "StartParser" \/ e.flag # 2 => DataLen(idx + 2) = Len(DataOf(e))
         /\ (reader = "common_para_response" /\ e.flag = 2 /\ Len(DataOf(e)) < 256)
              => DataLen(idx + 2) = 256 * Len(DataOf(e))
<1> DEFINE b == Len(Body(origin))
           s == EntryBytes(e)
           d == DataOf(e)
           n == Len(d)
           f == e.flag
<1>1. /\ IsEntry(e) /\ idx \in Nat /\ LenFlag = f /\ idx + 2 + f <= b
      /\ \A i \in 1..2 + f + n : idx + i <= b => data[idx + i] = s[i]
  BY Zenon DEF AtEntry
<1>2. d \in Seq(Byte) /\ IsCoded(s, 4 * e.type + f, f, d)
  BY <1>1, EntryIsCoded, Zenon
<1>3. f \in 0..3
  BY <1>1, ValueOfEntry, SMT
<1>4. n \in Nat /\ b \in Nat
  BY <1>2
<1>5. f = 0 => n = 4
  <2>1. Fits(f, Len(EncodedBytes(e)) - e.lost)
    BY <1>1, Zenon DEF IsEntry, EncodedBytes
  <2>2. n = Len(EncodedBytes(e)) - e.lost
    BY <1>1, EntryIsCoded, Zenon
  <2>3. Fits(f, n)
    BY <2>1, <2>2, Zenon
  <2> HIDE DEF n, f
  <2> QED
    BY <1>3, <1>4, <2>3, FitsIs
<1>6. /\ f = 1 => s[3] = n
      /\ f = 2 => s[3] + 256 * s[4] = n
      /\ f = 3 => 65536 * s[3] + 256 * s[4] + s[5] = n
      /\ s \in Seq(Byte) /\ Len(s) = 2 + f + n
  BY <1>2, SMT DEF IsCoded
<1> HIDE DEF b, s, d, f, n
<1> DEFINE at == idx + 2
<1>7. idx + 3 = at + 1 /\ idx + 4 = at + 2 /\ idx + 5 = at + 3
  BY <1>1
<1>8. ASSUME NEW i \in {3, 4, 5}, i <= 2 + f PROVE data[idx + i] = s[i] /\ s[i] \in Byte
  <2>1. i \in 1..2 + f + n /\ idx + i <= b /\ i \in 1..Len(s)
    BY <1>1, <1>3, <1>4, <1>6, <1>8
  <2>2. s[i] \in Byte
    BY <1>6, <2>1
  <2> QED
    BY <1>1, <2>1, <2>2, Zenon
<1>9. /\ f >= 1 => data[at + 1] = s[3] /\ s[3] \in Byte
      /\ f >= 2 => data[at + 2] = s[4] /\ s[4] \in Byte
      /\ f >= 3 => data[at + 3] = s[5]
  <2>1. (f >= 1 => 3 <= 2 + f) /\ (f >= 2 => 4 <= 2 + f) /\ (f >= 3 => 5 <= 2 + f)
    BY <1>3
  <2>2. 3 \in {3, 4, 5} /\ 4 \in {3, 4, 5} /\ 5 \in {3, 4, 5}
    OBVIOUS
  <2> HIDE DEF at
  <2> QED
    BY <1>7, <1>8, <2>1, <2>2, Zenon
<1> HIDE DEF at
<1>10. CASE f = 0
  <2>1. DataLen(at) = 4
    BY <1>1, <1>10 DEF DataLen
  <2> QED
    BY <1>5, <1>10, <2>1 DEF at, n, f, d
<1>11. CASE f = 1
  <2>1. DataLen(at) = data[at + 1]
    BY <1>1, <1>11 DEF DataLen
  <2>2. data[at + 1] = n
    BY <1>6, <1>9, <1>11
  <2> QED
    BY <1>11, <2>1, <2>2 DEF at, n, f, d
<1>12. CASE f = 2
  <2>1. DataLen(at) = IF reader = "StartParser" THEN data[at + 1] + 256 * data[at + 2]
                      ELSE 256 * data[at + 1] + data[at + 2]
    BY <1>1, <1>12 DEF DataLen
  <2>2. data[at + 1] = s[3] /\ data[at + 2] = s[4] /\ s[3] \in Byte /\ s[4] \in Byte
        /\ s[3] + 256 * s[4] = n
    BY <1>6, <1>9, <1>12
  <2>3. n < 256 => 256 * s[3] + s[4] = 256 * n
    <3>1. s[3] \in Nat /\ s[4] \in Nat
      BY <2>2, ByteIs
    <3>2. n < 256 => s[4] = 0
      BY <2>2, <3>1
    <3> QED
      BY <2>2, <3>1, <3>2
  <2>4. reader = "StartParser" => DataLen(at) = n
    BY <2>1, <2>2, Zenon
  <2>5. (reader = "common_para_response" /\ n < 256) => DataLen(at) = 256 * n
    <3>1. "StartParser" # "common_para_response"
      OBVIOUS
    <3> QED
      BY <2>1, <2>2, <2>3, <3>1, Zenon
  <2> QED
    BY <1>12, <2>4, <2>5, Zenon DEF at, n, f, d
<1>13. CASE f = 3
  <2>1. DataLen(at) = 65536 * data[at + 1] + 256 * data[at + 2] + data[at + 3]
    BY <1>1, <1>13, SMT DEF DataLen
  <2>2. 65536 * data[at + 1] + 256 * data[at + 2] + data[at + 3] = n
    <3>1. data[at + 1] = s[3] /\ data[at + 2] = s[4] /\ data[at + 3] = s[5]
      BY <1>9, <1>13
    <3>2. 65536 * s[3] + 256 * s[4] + s[5] = n
      BY <1>6, <1>13, SMT
    <3> QED
      BY <3>1, <3>2, SMT
  <2>3. DataLen(at) = n
    BY <2>1, <2>2, SMT
  <2> QED
    BY <1>13, <2>3 DEF at, n, f, d
<1> QED
  BY <1>3, <1>10, <1>11, <1>12, <1>13

\* Whatever it stands at, the length it reads is a number.
LEMMA SomeLength ==
  ASSUME data \in Seq(Byte), idx \in Nat, InLength
  PROVE  DataLen(idx + 2) \in Nat /\ LenFlag \in 0..3 /\ idx + 2 + LenFlag <= Len(data)
<1> DEFINE at == idx + 2
           h == Header
           n == Len(data)
<1>1. idx + 2 <= n - 2 /\ at + LenFlag <= n
  BY DEF InLength, InHeader, LengthBytes
<1>2. n \in Nat
  OBVIOUS
<1>3. h = data[idx + 1] + 256 * data[idx + 2]
  <2>1. idx + 2 <= Len(data)
    BY <1>1, <1>2
  <2> QED
    BY <2>1, HeaderIs
<1>4. h \in Nat
  <2>1. data[idx + 1] \in Byte /\ data[idx + 2] \in Byte
    BY <1>1
  <2>2. data[idx + 1] \in Nat /\ data[idx + 2] \in Nat
    BY <2>1, ByteIs
  <2> QED
    BY <1>3, <2>2
<1>5. LenFlag = h % 4
  BY Zenon DEF LenFlag
<1> HIDE DEF h
<1>6. LenFlag \in 0..3
  BY <1>4, <1>5
<1>7. \A i \in 1..LenFlag : data[at + i] \in Nat
  <2> SUFFICES ASSUME NEW i \in 1..LenFlag PROVE data[at + i] \in Nat
    OBVIOUS
  <2>1. at + i \in 1..n
    BY <1>1, <1>2, <1>6
  <2> HIDE DEF at
  <2>2. data[at + i] \in Byte
    BY <2>1
  <2> QED
    BY <2>2, ByteIs
<1>8. /\ at \in Nat
      /\ LenFlag >= 1 => data[at + 1] \in Nat
      /\ LenFlag >= 2 => data[at + 2] \in Nat
      /\ LenFlag >= 3 => data[at + 3] \in Nat
  <2>1. /\ LenFlag >= 1 => 1 \in 1..LenFlag
        /\ LenFlag >= 2 => 2 \in 1..LenFlag
        /\ LenFlag >= 3 => 3 \in 1..LenFlag
    BY <1>6
  <2>2. at \in Nat
    OBVIOUS
  <2> HIDE DEF at
  <2> QED
    BY <1>7, <2>1, <2>2, Zenon
<1> HIDE DEF at
<1>9. DataLen(at) \in Nat
  <2>1. CASE LenFlag = 0
    BY <2>1, SMT DEF DataLen
  <2>2. CASE LenFlag = 1
    BY <1>8, <2>2, SMT DEF DataLen
  <2>3. CASE LenFlag = 2
    <3>1. DataLen(at) \in {data[at + 1] + 256 * data[at + 2], 256 * data[at + 1] + data[at + 2]}
      BY <2>3, SMT DEF DataLen
    <3>2. \A x, y \in Nat : x + 256 * y \in Nat /\ 256 * x + y \in Nat
      BY SMT
    <3>3. data[at + 1] \in Nat /\ data[at + 2] \in Nat
      BY <1>8, <2>3, SMT
    <3> QED
      BY <3>1, <3>2, <3>3, SMT
  <2>4. CASE LenFlag = 3
    <3>1. DataLen(at) = 65536 * data[at + 1] + 256 * data[at + 2] + data[at + 3]
      BY <2>4, SMT DEF DataLen
    <3>2. \A x, y, z \in Nat : 65536 * x + 256 * y + z \in Nat
      BY SMT
    <3>3. data[at + 1] \in Nat /\ data[at + 2] \in Nat /\ data[at + 3] \in Nat
      BY <1>8, <2>4, SMT
    <3> QED
      BY <3>1, <3>2, <3>3, SMTT(60)
  <2> QED
    BY <1>6, <2>1, <2>2, <2>3, <2>4
<1> QED
  BY <1>1, <1>6, <1>9 DEF at, n

\* An entry that is whole in the body is read as it was sent.
LEMMA DataIsRead ==
  ASSUME NEW k, NEW e, AtEntry(k, e), data \in Seq(Byte), Len(Body(origin)) \in Nat,
         Len(Body(origin)) <= Len(data), Len(Listed(origin, k + 1)) <= Len(Body(origin))
  PROVE  SubSeq(data, idx + 2 + e.flag + 1, idx + 2 + e.flag + Len(DataOf(e))) = DataOf(e)
<1> DEFINE b == Len(Body(origin))
           s == EntryBytes(e)
           d == DataOf(e)
           n == Len(d)
           f == e.flag
           p == idx + 2 + f
           q == p + n
           c == SubSeq(data, p + 1, q)
<1>1. /\ IsEntry(e) /\ idx \in Nat /\ q <= b
      /\ \A i \in 1..2 + f + n : idx + i <= b => data[idx + i] = s[i]
  BY Zenon DEF AtEntry
<1>2. d \in Seq(Byte) /\ IsCoded(s, 4 * e.type + f, f, d)
  BY <1>1, EntryIsCoded, Zenon
<1>3. f \in 0..3
  BY <1>1, ValueOfEntry, SMT
<1>4. \A i \in 1..n : s[2 + f + i] = d[i]
  BY <1>2, SMT DEF IsCoded
<1> HIDE DEF b, s, d, f
<1>5. n \in Nat /\ p \in Nat /\ b \in Nat /\ b <= Len(data)
  BY <1>1, <1>2, <1>3 DEF b
<1>6. ASSUME NEW i \in 1..n PROVE data[p + i] = d[i]
  <2>1. 2 + f + i \in 1..2 + f + n /\ idx + (2 + f + i) <= b /\ idx + (2 + f + i) = p + i
    BY <1>1, <1>3, <1>5
  <2> HIDE DEF p, n, q
  <2> QED
    BY <1>1, <1>4, <2>1, Zenon
<1> HIDE DEF p, n
<1>7. q \in Nat /\ q <= Len(data) /\ p <= q /\ q - p = n
  BY <1>1, <1>5
<1> HIDE DEF q
<1>8. c \in Seq(Byte) /\ Len(c) = q - p /\ \A i \in 1..q - p : c[i] = data[p + i]
  BY <1>5, <1>7
<1> HIDE DEF c
<1>9. Len(c) = Len(d) /\ \A i \in 1..Len(c) : c[i] = d[i]
  BY <1>6, <1>7, <1>8 DEF n
<1>10. c = d
  BY <1>2, <1>8, <1>9, SeqEqual
<1> QED
  BY <1>10 DEF c, p, q, n, f, d

\* What is read of the data of an entry: the value, if they are all there; of a
\* topology whole nodes in any case.
LEMMA EntryIsParsed ==
  ASSUME NEW e, IsEntry(e)
  PROVE  /\ e.lost = 0 =>
              Parse(LookupParamInfo(e.type), DataOf(e)) =
                IF LookupParamInfo(e.type) = "none" THEN {} ELSE {e.value}
         /\ LookupParamInfo(e.type) = "topology" =>
              \A v \in Parse(LookupParamInfo(e.type), DataOf(e)) :
                Len(v) % 14 = 0 /\ IsPrefix(v, e.value)
<1> DEFINE kind == LookupParamInfo(e.type)
           b == EncodedBytes(e)
           d == DataOf(e)
           v == e.value
<1>1. kind \in Kinds \cup {"none"} /\ Means(kind, v) /\ e.lost \in Nat
  <2>1. e.type \in Nat /\ Means(kind, v) /\ e.lost \in Nat
    BY ValueOfEntry, SMT
  <2> QED
    BY <2>1, KindsAre, Zenon
<1>2. /\ b = Encoded(kind, v) /\ b \in Seq(Byte) /\ d \in Seq(Byte)
      /\ Len(d) = Len(b) - e.lost /\ \A i \in 1..Len(d) : d[i] = b[i]
  BY EncodedIsBytes, EntryIsCoded, Zenon DEF EncodedBytes
<1> HIDE DEF kind, b, d, v
<1>3. e.lost = 0 => d = b
  <2> SUFFICES ASSUME e.lost = 0 PROVE d = b
    OBVIOUS
  <2>1. Len(d) = Len(b)
    BY <1>2
  <2> QED
    BY <1>2, <2>1, SeqEqual
<1>4. CASE kind = "none"
  <2>1. Parse("none", d) = {}
    BY DEF Parse
  <2> QED
    BY <1>4, <2>1, Zenon DEF kind, d, v
<1>5. CASE kind = "topology"
  <2>1. b = TopologyBytes(v)
    BY <1>2, <1>5 DEF Encoded
  <2>2. v \in Seq(Byte) /\ Len(v) > 0 /\ Len(v) % 14 = 0
    BY <1>1, <1>5 DEF Means
  <2>3. Len(d) <= Len(b)
    BY <1>1, <1>2
  <2>4. IsLeft(d, v)
    BY <1>2, <2>1, <2>3, Zenon DEF IsLeft
  <2>5. /\ \A x \in parseTopo(d) : Len(x) % 14 = 0 /\ IsPrefix(x, v)
        /\ Len(d) = Len(TopologyBytes(v)) => parseTopo(d) = {v}
    BY <2>2, <2>4, TopologyRead
  <2>6. Parse(kind, d) = parseTopo(d)
    BY <1>5 DEF Parse
  <2>7. e.lost = 0 => Parse(kind, d) = {v}
    BY <1>3, <2>1, <2>5, <2>6, Zenon
  <2>8. kind # "none"
    BY <1>5
  <2> QED
    BY <2>5, <2>6, <2>7, <2>8, Zenon DEF kind, d, v
<1>6. CASE kind \in Kinds \ {"topology"}
  <2>1. Parse(kind, b) = {v}
    BY <1>1, <1>2, <1>6, PlainIsRead, Zenon
  <2>2. kind # "none" /\ kind # "topology"
    BY <1>6 DEF Kinds
  <2> QED
    BY <1>3, <2>1, <2>2, Zenon DEF kind, d, v
<1> QED
  BY <1>1, <1>4, <1>5, <1>6, Zenon

\* To store is to append one value, or none.
LEMMA StoreIs ==
  ASSUME NEW bytes, NEW type, ParamType = type, Store(bytes)
  PROVE  /\ parsed' = parsed + 1
         /\ \/ Parse(LookupParamInfo(type), bytes) = {} /\ found' = found \o <<>>
            \/ \E v \in Parse(LookupParamInfo(type), bytes) :
                 found' = found \o <<[name |-> Name(type), value |-> v]>>
<1> DEFINE values == Parse(LookupParamInfo(type), bytes)
           writes == {<<[name |-> Name(type), value |-> v]>> : v \in values}
<1>1. /\ found' \in {found \o w : w \in IF writes = {} THEN {<<>>} ELSE writes}
      /\ parsed' = parsed + 1
  BY Zenon DEF Store
<1> HIDE DEF values
<1>2. CASE values = {}
  <2>1. writes = {}
    BY <1>2
  <2> HIDE DEF writes
  <2>2. found' \in {found \o w : w \in {<<>>}}
    BY <1>1, <2>1, Zenon
  <2>3. found' = found \o <<>>
    BY <2>2
  <2> QED
    BY <1>1, <1>2, <2>3, Zenon DEF values
<1>3. CASE values # {}
  <2>1. writes # {}
    BY <1>3
  <2>2. PICK w \in writes : found' = found \o w
    BY <1>1, <2>1, Zenon
  <2>3. PICK v \in values : w = <<[name |-> Name(type), value |-> v]>>
    BY <2>2
  <2> QED
    BY <1>1, <2>2, <2>3, Zenon DEF values
<1> QED
  BY <1>2, <1>3

\* What appending does to what was found.
LEMMA ListGrows ==
  ASSUME NEW f, IsList(f), NEW w
  PROVE  /\ IsList(f \o <<w>>) /\ f \o <<>> = f /\ f \o <<w>> = Append(f, w)
         /\ Len(f) \in Nat /\ DOMAIN f = 1..Len(f)
         /\ Len(f \o <<w>>) = Len(f) + 1 /\ DOMAIN (f \o <<w>>) = 1..Len(f) + 1
         /\ \A i \in 1..Len(f) : (f \o <<w>>)[i] = f[i]
         /\ (f \o <<w>>)[Len(f) + 1] = w
<1> DEFINE S == {f[i] : i \in 1..Len(f)}
           T == S \cup {w}
           g == f \o <<w>>
           U == {g[i] : i \in 1..Len(g)}
<1>1. f \in Seq(S)
  BY Zenon DEF IsList
<1> HIDE DEF S
<1>2. f \in Seq(T) /\ <<w>> \in Seq(T)
  BY <1>1
<1> HIDE DEF T
<1>3. /\ g \in Seq(T) /\ Len(g) = Len(f) + 1 /\ Len(f) \in Nat
      /\ \A i \in 1..Len(f) : g[i] = f[i]
      /\ g[Len(f) + 1] = w
  BY <1>2
<1>4. f \o <<>> = f /\ g = Append(f, w) /\ DOMAIN f = 1..Len(f) /\ DOMAIN g = 1..Len(g)
  BY <1>2
<1> HIDE DEF g
<1>5. IsList(g)
  <2>1. \A i \in 1..Len(g) : g[i] \in U
    OBVIOUS
  <2>2. g = [i \in 1..Len(g) |-> g[i]] /\ Len(g) \in Nat
    BY <1>3
  <2> HIDE DEF U
  <2>3. g \in [1..Len(g) -> U]
    BY <2>1, <2>2
  <2>4. g \in Seq(U)
    BY <2>2, <2>3
  <2> QED
    BY <2>4, Zenon DEF IsList, U
<1>6. DOMAIN g = 1..Len(f) + 1
  BY <1>3, <1>4, Zenon
<1> QED
  BY <1>3, <1>4, <1>5, <1>6, Zenon DEF g

\* Only a topology goes by the name of one.
LEMMA TopologyName ==
  ASSUME NEW type \in Nat, Name(type) = Type(0, 8)
  PROVE  type = Type(0, 8) /\ LookupParamInfo(type) = "topology"
<1>1. type = Type(0, 8)
  BY DEF Name, Type
<1> QED
  BY <1>1, TopologyKind, Zenon

\* One more topology, of whole nodes.
LEMMA WholeGrows ==
  ASSUME NEW r, NEW f, IsList(f), WholeTopologies(r, f), NEW j \in DOMAIN r.params,
         NEW w,
         w.name = Type(0, 8) =>
           r.params[j].type = Type(0, 8) /\ Len(w.value) % 14 = 0 /\ IsPrefix(w.value, r.params[j].value)
  PROVE  WholeTopologies(r, f \o <<w>>)
<1> DEFINE g == f \o <<w>>
           T(x) == x.name = Type(0, 8) =>
                     /\ Len(x.value) % 14 = 0
                     /\ \E i \in DOMAIN r.params :
                          r.params[i].type = Type(0, 8) /\ IsPrefix(x.value, r.params[i].value)
<1>1. /\ Len(f) \in Nat /\ DOMAIN f = 1..Len(f) /\ DOMAIN g = 1..Len(f) + 1
      /\ \A i \in 1..Len(f) : g[i] = f[i]
      /\ g[Len(f) + 1] = w
  BY ListGrows, Zenon
<1>2. \A i \in DOMAIN f : T(f[i])
  BY Zenon DEF WholeTopologies
<1>3. T(w)
  OBVIOUS
<1> HIDE DEF T, g
<1>4. \A i \in 1..Len(f) + 1 : i \in 1..Len(f) \/ i = Len(f) + 1
  BY <1>1
<1>5. \A i \in DOMAIN g : T(g[i])
  BY <1>1, <1>2, <1>3, <1>4, Zenon
<1> QED
  BY <1>5, Zenon DEF WholeTopologies, T, g

\* A whole entry that the loop stands at adds to what was found what it says.
LEMMA EntryIsStored ==
  ASSUME IsReport(origin), NEW k, NEW e, AtEntry(k, e), BeforeEntry(k), Store(DataOf(e))
  PROVE  /\ parsed' = k + 1
         /\ NothingLost => found' = Meant(origin, k + 1)
         /\ IsList(found') /\ WholeTopologies(origin, found')
<1> DEFINE kind == LookupParamInfo(e.type)
           values == Parse(kind, DataOf(e))
           n == Len(origin.params)
<1>1. /\ k \in 0..n - 1 /\ parsed = k /\ e = origin.params[k + 1] /\ IsEntry(e)
      /\ ParamType = e.type
  BY Zenon DEF AtEntry
<1>2. /\ IsList(found) /\ WholeTopologies(origin, found)
      /\ NothingLost => found = Meant(origin, k)
  BY Zenon DEF BeforeEntry
<1>3. /\ parsed' = parsed + 1
      /\ \/ values = {} /\ found' = found \o <<>>
         \/ \E v \in values : found' = found \o <<[name |-> Name(e.type), value |-> v]>>
  BY <1>1, StoreIs, Zenon
<1>4. /\ e.lost = 0 => values = IF kind = "none" THEN {} ELSE {e.value}
      /\ kind = "topology" => \A v \in values : Len(v) % 14 = 0 /\ IsPrefix(v, e.value)
  BY <1>1, EntryIsParsed, Zenon
<1>5. e.type \in Nat
  BY <1>1, ValueOfEntry
<1>6. n \in Nat /\ k + 1 \in 1..n /\ k \in 0..n /\ k + 1 \in DOMAIN origin.params
  <2>1. n \in Nat
    BY ReportIs
  <2>2. origin.params \in Seq(Entry)
    BY Zenon DEF IsReport
  <2>3. DOMAIN origin.params = 1..n
    BY <2>2
  <2> HIDE DEF n
  <2>4. k + 1 \in 1..n /\ k \in 0..n
    BY <1>1, <2>1
  <2> QED
    BY <2>1, <2>3, <2>4, Zenon
<1>7. NothingLost => e.lost = 0
  BY <1>1, <1>6, Zenon DEF NothingLost
<1>8. /\ Meant(origin, k + 1) = Meant(origin, k) \o Says(e)
      /\ Says(e) = IF kind = "none" THEN <<>> ELSE <<[name |-> Name(e.type), value |-> e.value]>>
  BY <1>1, MeantSteps, Zenon DEF Says
<1> HIDE DEF kind, values, n
<1>9. CASE values = {} /\ found' = found \o <<>>
  <2>1. found' = found
    BY <1>2, <1>9, ListGrows, Zenon
  <2>2. NothingLost => found' = Meant(origin, k + 1)
    <3> SUFFICES ASSUME NothingLost PROVE found' = Meant(origin, k + 1)
      OBVIOUS
    <3>1. kind = "none"
      <4>1. e.value \in {e.value}
        OBVIOUS
      <4> QED
        BY <1>4, <1>7, <1>9, <4>1, Zenon
    <3> QED
      BY <1>2, <1>8, <1>9, <3>1, Zenon
  <2> QED
    BY <1>1, <1>2, <1>3, <2>1, <2>2, Zenon
<1>10. ASSUME NEW v \in values, found' = found \o <<[name |-> Name(e.type), value |-> v]>>
       PROVE  /\ NothingLost => found' = Meant(origin, k + 1)
              /\ IsList(found') /\ WholeTopologies(origin, found')
  <2> DEFINE w == [name |-> Name(e.type), value |-> v]
  <2>1. w.name = Name(e.type) /\ w.value = v
    OBVIOUS
  <2>2. found' = found \o <<w>>
    BY <1>10
  <2>3. NothingLost => v = e.value /\ kind # "none"
    BY <1>4, <1>7, <1>10, SMT
  <2>4. NothingLost => found' = Meant(origin, k + 1)
    BY <1>2, <1>8, <1>10, <2>3, Zenon
  <2> HIDE DEF w
  <2>5. w.name = Type(0, 8) =>
          e.type = Type(0, 8) /\ Len(w.value) % 14 = 0 /\ IsPrefix(w.value, e.value)
    BY <1>4, <1>5, <1>10, <2>1, TopologyName, Zenon DEF kind
  <2>6. WholeTopologies(origin, found \o <<w>>)
    BY <1>1, <1>2, <1>6, <2>5, WholeGrows, Zenon
  <2>7. IsList(found \o <<w>>)
    BY <1>2, ListGrows, Zenon
  <2> QED
    BY <2>2, <2>4, <2>6, <2>7, Zenon
<1> QED
  BY <1>1, <1>3, <1>9, <1>10, Zenon

-----------------------------------------------------------------------------
(* When the loop has ended.                                                *)

\* Lengths, counts and cuts of a report are numbers.
LEMMA ReportNumbers ==
  ASSUME NEW r, IsReport(r)
  PROVE  /\ Len(r.params) \in Nat /\ r.count \in Nat /\ r.cut \in Nat /\ Len(Body(r)) \in Nat
         /\ Len(Listed(r, Len(r.params))) = Len(Body(r)) + r.cut
<1> DEFINE b == Len(Body(r))
           l == Len(List(r.params))
<1>1. /\ Len(r.params) \in Nat /\ Body(r) \in Seq(Byte) /\ r.count \in 0..15
      /\ List(r.params) \in Seq(Byte)
      /\ r.cut \in Nat /\ b = l - r.cut
  BY ReportIs, Zenon
<1>2. Listed(r, Len(r.params)) = List(r.params)
  BY ListedBytes, Zenon
<1>3. b \in Nat /\ l \in Nat /\ r.count \in Nat
  BY <1>1, SMTT(60)
<1> HIDE DEF b, l
<1>4. l = b + r.cut
  BY <1>1, <1>3
<1> QED
  BY <1>1, <1>2, <1>3, <1>4, Zenon DEF b, l

\* A list is a prefix of itself.
LEMMA PrefixOfItself ==
  ASSUME NEW f, IsList(f)
  PROVE  IsPrefix(f, f)
<1> DEFINE S == {f[i] : i \in 1..Len(f)}
<1>1. f \in Seq(S)
  BY Zenon DEF IsList
<1> HIDE DEF S
<1>2. SubSeq(f, 1, Len(f)) = f /\ Len(f) <= Len(f)
  BY <1>1
<1> QED
  BY <1>2, Zenon DEF IsPrefix

\* Where common_para_response can misread a length, in a long frame, nothing is claimed.
LEMMA MisledIsDone ==
  ASSUME Misleading, Len(wire) \in Nat, IsReport(origin)
  PROVE  Done
<1>1. reader # "StartParser" /\ ~(Len(wire) + origin.cut <= 256)
  <2> DEFINE n == Len(wire)
             c == origin.cut
  <2>1. reader = "common_para_response" /\ n + c > 256
    BY Zenon DEF Misleading
  <2>2. n \in Nat /\ c \in Nat
    BY ReportNumbers, Zenon
  <2> HIDE DEF n, c
  <2>3. ~(n + c <= 256)
    BY <2>1, <2>2
  <2>4. reader # "StartParser"
    BY <2>1
  <2> QED
    BY <2>3, <2>4, Zenon DEF n, c
<1>2. origin.cut = 0 => ~(Len(wire) <= 256)
  <2> DEFINE n == Len(wire)
             c == origin.cut
  <2>1. n \in Nat /\ ~(n + c <= 256)
    BY <1>1
  <2> HIDE DEF n, c
  <2>2. c = 0 => ~(n <= 256)
    BY <2>1
  <2> QED
    BY <2>2 DEF n, c
<1> QED
  BY <1>1, <1>2, Zenon DEF Done, StartDone, TopologyDone, ShortDone

\* A loop that stops before an entry has read enough of those before it.
LEMMA BeforeIsDone ==
  ASSUME Reading, NEW k, BeforeEntry(k), reader = "StartParser" => ~InHeader, pc = "params"
  PROVE  Done
<1> DEFINE m == Len(origin.params)
           b == Len(Body(origin))
<1>1. /\ IsReport(origin) /\ count = origin.count
      /\ reader = "StartParser" => Len(data) = b + 2
  BY DEF Reading
<1>2. /\ k \in 0..m /\ k <= count /\ parsed = k /\ idx = Len(Listed(origin, k)) /\ idx <= b
      /\ NothingLost => found = Meant(origin, k)
      /\ IsList(found) /\ WholeTopologies(origin, found)
  BY Zenon DEF BeforeEntry
<1>3. m \in Nat /\ count \in Nat /\ b \in Nat
  BY <1>1, ReportNumbers, Zenon
<1>4. idx \in Nat
  BY <1>1, <1>2, ListedBytes
<1>5. ASSUME k \in 0..m - 1 PROVE Len(Listed(origin, k + 1)) >= idx + 2
  <2> DEFINE e == origin.params[k + 1]
             n == Len(DataOf(e))
             f == e.flag
  <2>1. IsEntry(e) /\ Len(Listed(origin, k + 1)) = idx + Len(EntryBytes(e))
    BY <1>1, <1>2, <1>5, EntryInBody, Zenon
  <2>2. DataOf(e) \in Seq(Byte) /\ IsCoded(EntryBytes(e), 4 * e.type + f, f, DataOf(e))
    BY <2>1, EntryIsCoded, Zenon
  <2>3. f \in 0..3
    BY <2>1, ValueOfEntry, SMT
  <2>4. Len(EntryBytes(e)) = 2 + f + n
    BY <2>2, SMT DEF IsCoded
  <2>5. n \in Nat
    BY <2>2
  <2> DEFINE l == Len(Listed(origin, k + 1))
  <2>6. l = idx + (2 + f + n)
    BY <2>1, <2>4, Zenon
  <2> HIDE DEF l, n, f, e
  <2>7. l >= idx + 2
    BY <1>4, <2>3, <2>5, <2>6
  <2> QED
    BY <2>7 DEF l
<1>6. reader = "StartParser" => Whole = k
  <2> SUFFICES ASSUME reader = "StartParser" PROVE Whole = k
    OBVIOUS
  <2>1. ~(parsed < count /\ idx + 2 <= Len(data) - 2) /\ Len(data) = b + 2
    BY <1>1 DEF InHeader
  <2> HIDE DEF m, b
  <2>2. k = count \/ idx + 2 > b
    BY <1>2, <1>3, <1>4, <2>1
  <2>3. k = m \/ k \in 0..m - 1
    BY <1>2, <1>3
  <2>4. k \in 0..m - 1 => k < m
    BY <1>3
  <2>5. ASSUME k \in 0..m - 1, idx + 2 > b PROVE Len(Listed(origin, k + 1)) > b
    <3> DEFINE l == Len(Listed(origin, k + 1))
    <3>1. l >= idx + 2
      BY <1>5, <2>5
    <3>2. l \in Nat
      <4>1. k + 1 \in 0..m
        BY <1>3, <2>5
      <4>2. Listed(origin, k + 1) \in Seq(Byte)
        BY <1>1, <4>1, ListedBytes DEF m
      <4> QED
        BY <4>2
    <3> HIDE DEF l
    <3>3. l > b
      BY <1>3, <1>4, <2>5, <3>1, <3>2
    <3> QED
      BY <3>3 DEF l
  <2>6. Len(Listed(origin, k)) <= b
    BY <1>2
  <2>7. \/ k = origin.count \/ k = m
        \/ k < m /\ Len(Listed(origin, k + 1)) > b
    BY <1>1, <2>2, <2>3, <2>4, <2>5, Zenon
  <2> QED
    BY <1>1, <1>2, <2>6, <2>7, WholeIs, Zenon DEF m, b
<1>7. StartDone
  <2> SUFFICES ASSUME reader = "StartParser", NothingLost
               PROVE  /\ IsPrefix(Meant(origin, Whole), found)
                      /\ Len(found) <= Len(Meant(origin, Whole)) + (IF origin.cut > 0 THEN 1 ELSE 0)
    BY Zenon DEF StartDone
  <2>1. Meant(origin, Whole) = found
    BY <1>2, <1>6, Zenon
  <2>2. Len(found) \in Nat
    BY <1>2, ListGrows
  <2>3. Len(found) <= Len(found) + (IF origin.cut > 0 THEN 1 ELSE 0)
    BY <2>2
  <2> QED
    BY <1>2, <2>1, <2>3, PrefixOfItself, Zenon
<1>8. TopologyDone
  BY <1>2, Zenon DEF TopologyDone
<1>9. ShortDone
  <2> SUFFICES ASSUME NothingLost PROVE IsPrefix(found, Values(origin.params))
    BY Zenon DEF ShortDone
  <2>1. m \in 0..m /\ k <= m
    BY <1>2, <1>3
  <2>2. IsPrefix(Meant(origin, k), Meant(origin, m))
    BY <1>1, <1>2, <2>1, MeantGrows, Zenon
  <2>3. Meant(origin, m) = Values(origin.params)
    BY <1>1, MeantSteps, Zenon
  <2> QED
    BY <1>2, <2>2, <2>3, Zenon
<1> QED
  BY <1>7, <1>8, <1>9, Zenon DEF Done

\* A loop behind the cut has read one value too many at most.
LEMMA BehindIsDone ==
  ASSUME Reading, NEW k, BehindCut(k)
  PROVE  Done
<1> DEFINE m == Len(origin.params)
           b == Len(Body(origin))
           l(n) == Len(Listed(origin, n))
           g == Meant(origin, k)
<1>1. IsReport(origin) /\ count = origin.count
  BY DEF Reading
<1>2. /\ reader = "StartParser" /\ k \in 0..m - 1 /\ k < count /\ l(k) <= b /\ l(k + 1) > b
      /\ NothingLost => AlmostMeant(origin, k, found)
  BY Zenon DEF BehindCut
<1>3. /\ m \in Nat /\ origin.count \in Nat /\ b \in Nat /\ origin.cut \in Nat
      /\ l(m) = b + origin.cut
  BY <1>1, ReportNumbers, Zenon
<1> HIDE DEF m
<1>4. k \in 0..m /\ k + 1 \in 0..m /\ m \in 0..m /\ k + 1 <= m /\ k < m /\ k <= origin.count
  BY <1>1, <1>2, <1>3
<1>5. l(k + 1) <= l(m) /\ l(k + 1) \in Nat
  BY <1>1, <1>4, ListedGrows DEF m
<1>6. Whole = k
  BY <1>1, <1>2, <1>4, WholeIs, Zenon DEF m
<1>7. g \in Seq(Stored)
  BY <1>1, <1>4, MeantSteps, Zenon DEF m
<1> HIDE DEF b, l, g
<1>8. origin.cut > 0
  BY <1>2, <1>3, <1>5
<1>9. StartDone
  <2> SUFFICES ASSUME NothingLost
               PROVE  /\ IsPrefix(g, found)
                      /\ Len(found) <= Len(g) + (IF origin.cut > 0 THEN 1 ELSE 0)
    BY <1>6, Zenon DEF StartDone, g
  <2> DEFINE w == found[Len(g) + 1]
             S == Stored \cup {w}
  <2>1. found = g \/ found = Append(g, w)
    BY <1>2, Zenon DEF AlmostMeant, g
  <2> HIDE DEF w
  <2>2. g \in Seq(S) /\ w \in S
    BY <1>7
  <2> HIDE DEF S
  <2>3. /\ IsPrefix(g, g) /\ IsPrefix(g, Append(g, w))
        /\ Len(g) \in Nat /\ Len(Append(g, w)) = Len(g) + 1
    BY <2>2 DEF IsPrefix
  <2> DEFINE n == Len(g)
  <2> HIDE DEF n, w, S
  <2>4. n \in Nat /\ n <= n + 1 /\ n + 1 <= n + 1
    BY <2>3 DEF n
  <2>5. (IF origin.cut > 0 THEN 1 ELSE 0) = 1
    BY <1>8, Zenon
  <2>6. IsPrefix(g, found) /\ Len(found) <= n + 1
    BY <2>1, <2>3, <2>4, Zenon DEF n
  <2> QED
    BY <2>5, <2>6, Zenon DEF n
<1>10. origin.cut # 0
  BY <1>3, <1>8
<1>11. reader # "common_para_response"
  BY <1>2
<1> QED
  BY <1>9, <1>10, <1>11, Zenon DEF Done, TopologyDone, ShortDone

-----------------------------------------------------------------------------
(* The steps.                                                              *)

\* What the loop does not change.
SameFrame ==
  /\ wire' = wire /\ origin' = origin /\ reader' = reader /\ data' = data /\ count' = count

\* What is known of the frame in hand stays, while the frame does.
LEMMA StillReading ==
  ASSUME Reading, SameFrame
  PROVE  Reading'
BY Zenon DEF Reading, SameFrame

\* The entry is whole: the loop stands before the next one.
LEMMA EntryRead ==
  ASSUME Reading, SameFrame, NEW k, BeforeEntry(k), AtEntry(k, origin.params[k + 1]),
         Len(Listed(origin, k + 1)) <= Len(Body(origin)),
         idx' = Len(Listed(origin, k + 1)), Store(DataOf(origin.params[k + 1]))
  PROVE  k + 1 \in 0..Len(origin.params) /\ BeforeEntry(k + 1)'
<1> DEFINE m == Len(origin.params)
<1>1. /\ IsReport(origin) /\ count = origin.count
      /\ origin' = origin /\ count' = count
  BY Zenon DEF Reading, SameFrame
<1>2. k \in 0..m - 1 /\ k < count
  BY Zenon DEF AtEntry
<1>3. m \in Nat /\ count \in Nat
  BY <1>1, ReportNumbers, Zenon
<1> HIDE DEF m
<1>4. k + 1 \in 0..m /\ k + 1 <= count
  BY <1>2, <1>3
<1>5. /\ parsed' = k + 1
      /\ NothingLost => found' = Meant(origin, k + 1)
      /\ IsList(found') /\ WholeTopologies(origin, found')
  BY <1>1, EntryIsStored, Zenon
<1>6. NothingLost' <=> NothingLost
  BY <1>1, Zenon DEF NothingLost
<1>7. /\ Len(origin'.params) = m /\ Listed(origin', k + 1) = Listed(origin, k + 1)
      /\ Len(Body(origin')) = Len(Body(origin)) /\ Meant(origin', k + 1) = Meant(origin, k + 1)
      /\ WholeTopologies(origin', found')
  BY <1>1, <1>5, Zenon DEF m
<1>8. BeforeEntry(k + 1)'
  BY <1>1, <1>4, <1>5, <1>6, <1>7, Zenon DEF BeforeEntry
<1> QED
  BY <1>4, <1>8, Zenon DEF m

\* The entry is cut: whatever is stored of it, it is the last one.
LEMMA CutRead ==
  ASSUME Reading, SameFrame, NEW k, BeforeEntry(k), AtEntry(k, origin.params[k + 1]),
         reader = "StartParser",
         Len(Listed(origin, k + 1)) > Len(Body(origin)),
         idx' \in Nat, idx' + 2 > Len(Body(origin)), NEW bytes, Store(bytes)
  PROVE  BehindCut(k)'
<1> DEFINE m == Len(origin.params)
           e == origin.params[k + 1]
           g == Meant(origin, k)
<1>1. /\ IsReport(origin) /\ count = origin.count
      /\ origin' = origin /\ count' = count /\ reader' = "StartParser"
  BY Zenon DEF Reading, SameFrame
<1>2. /\ k \in 0..m - 1 /\ k < count /\ ParamType = e.type
  BY Zenon DEF AtEntry
<1>3. /\ Len(Listed(origin, k)) <= Len(Body(origin))
      /\ NothingLost => found = g
  <2>1. idx = Len(Listed(origin, k)) /\ idx <= Len(Body(origin))
    BY Zenon DEF BeforeEntry
  <2> QED
    BY <2>1, Zenon DEF BeforeEntry
<1>4. \/ found' = found \o <<>>
      \/ \E w : found' = found \o <<w>>
  BY <1>2, StoreIs, Zenon
<1>5. m \in Nat
  BY <1>1, ReportNumbers, Zenon
<1>6. g \in Seq(Stored)
  <2>1. k \in 0..m
    BY <1>2, <1>5
  <2> QED
    BY <1>1, <2>1, MeantSteps, Zenon
<1> HIDE DEF g
<1>7. NothingLost => AlmostMeant(origin, k, found')
  <2> SUFFICES ASSUME NothingLost PROVE AlmostMeant(origin, k, found')
    OBVIOUS
  <2>1. CASE found' = found \o <<>>
    <3>1. found' = g
      BY <1>3, <1>6, <2>1
    <3> QED
      BY <3>1, Zenon DEF AlmostMeant, g
  <2>2. ASSUME NEW w, found' = found \o <<w>> PROVE AlmostMeant(origin, k, found')
    <3>1. found' = g \o <<w>>
      BY <1>3, <2>2
    <3> DEFINE S == Stored \cup {w}
    <3>2. g \in Seq(S) /\ w \in S
      BY <1>6
    <3> HIDE DEF S
    <3>3. g \o <<w>> = Append(g, w) /\ (g \o <<w>>)[Len(g) + 1] = w
      BY <3>2
    <3> QED
      BY <3>1, <3>3, Zenon DEF AlmostMeant, g
  <2> QED
    BY <1>4, <2>1, <2>2, Zenon
<1>8. NothingLost' <=> NothingLost
  BY <1>1, Zenon DEF NothingLost
<1> QED
  BY <1>1, <1>2, <1>3, <1>7, <1>8, Zenon DEF BehindCut

\* One iteration of StartParser's own loop.
LEMMA StartReads ==
  ASSUME Reading, SameFrame, NEW k, BeforeEntry(k), InLength, reader = "StartParser",
         idx' = Last, NEW bytes, Store(bytes),
         Last <= Len(data) => bytes = SubSeq(data, First + 1, Last)
  PROVE  \E j \in 0..Len(origin.params) : BeforeEntry(j)' \/ BehindCut(j)'
<1> DEFINE m == Len(origin.params)
           b == Len(Body(origin))
           e == origin.params[k + 1]
           f == e.flag
           n == Len(DataOf(e))
           l == Len(Listed(origin, k + 1))
           y == DataLen(idx + 2)
<1>1. /\ IsReport(origin) /\ data \in Seq(Byte) /\ Len(data) = b + 2
  BY DEF Reading
<1>2. m \in Nat /\ b \in Nat
  BY <1>1, ReportNumbers, Zenon
<1>3. AtEntry(k, e)
  BY EntryAhead DEF InLength
<1>4. /\ k \in 0..m - 1 /\ IsEntry(e) /\ idx \in Nat /\ l = idx + 2 + f + n /\ LenFlag = f
  BY <1>3, Zenon DEF AtEntry
<1>5. f \in 0..3 /\ n \in Nat
  <2>1. DataOf(e) \in Seq(Byte) /\ f \in 0..3
    BY <1>4, EntryIsCoded, ValueOfEntry, SMT
  <2> QED
    BY <2>1
<1>6. First = idx + 2 + f /\ Last = idx + 2 + f + y
  BY <1>4, Zenon DEF First, Last, LengthBytes
<1>7. y \in Nat
  BY <1>1, <1>4, SomeLength
<1>8. idx + 2 + f <= b => y = n
  BY <1>1, <1>2, <1>3, LengthIs
<1> HIDE DEF b, e, f, n, l, y, m
<1>9. l \in Nat
  BY <1>4, <1>5
<1>10. CASE l <= b
  <2>1. y = n /\ Last = l /\ Last <= Len(data)
    BY <1>1, <1>2, <1>4, <1>5, <1>6, <1>8, <1>10
  <2>2. bytes = SubSeq(data, idx + 2 + f + 1, idx + 2 + f + n)
    BY <1>6, <2>1, Zenon
  <2>3. b <= Len(data)
    BY <1>1, <1>2
  <2>4. bytes = DataOf(e)
    BY <1>1, <1>2, <1>3, <1>10, <2>2, <2>3, DataIsRead, Zenon DEF b, e, f, n, l
  <2>5. k + 1 \in 0..m /\ BeforeEntry(k + 1)'
    BY <1>3, <1>10, <2>1, <2>4, EntryRead, Zenon DEF b, e, l, m
  <2> QED
    BY <2>5, Zenon DEF m
<1>11. CASE ~(l <= b)
  <2>1. l > b
    BY <1>2, <1>9, <1>11
  <2>2. Last \in Nat /\ Last + 2 > b
    BY <1>2, <1>4, <1>5, <1>6, <1>7, <1>8, <2>1
  <2>3. BehindCut(k)'
    BY <1>3, <2>1, <2>2, CutRead, Zenon DEF b, e, l
  <2>4. k \in 0..m
    BY <1>2, <1>4
  <2> QED
    BY <2>3, <2>4, Zenon DEF m
<1> QED
  BY <1>10, <1>11

\* One iteration of common_para_response's that takes the length for what it is.
LEMMA ResponseReadsEntry ==
  ASSUME Reading, SameFrame, NEW k, BeforeEntry(k), InLength, reader = "common_para_response",
         DataLen(idx + 2) = Len(DataOf(origin.params[k + 1])),
         idx' = Last, Last <= Len(data) - 2,
         Store(SubSeq(data, First + 1, Last))
  PROVE  k + 1 \in 0..Len(origin.params) /\ BeforeEntry(k + 1)'
<1> DEFINE m == Len(origin.params)
           b == Len(Body(origin))
           e == origin.params[k + 1]
           f == e.flag
           n == Len(DataOf(e))
           l == Len(Listed(origin, k + 1))
           y == DataLen(idx + 2)
<1>1. /\ IsReport(origin) /\ data \in Seq(Byte) /\ Len(data) = b
  BY DEF Reading
<1>2. b \in Nat
  BY <1>1, ReportNumbers, Zenon
<1>3. AtEntry(k, e)
  BY EntryAhead DEF InLength
<1>4. /\ k \in 0..m - 1 /\ IsEntry(e) /\ idx \in Nat /\ l = idx + 2 + f + n /\ LenFlag = f
  BY <1>3, Zenon DEF AtEntry
<1>5. f \in 0..3 /\ n \in Nat
  <2>1. DataOf(e) \in Seq(Byte) /\ f \in 0..3
    BY <1>4, EntryIsCoded, ValueOfEntry, SMT
  <2> QED
    BY <2>1
<1>6. First = idx + 2 + f /\ Last = idx + 2 + f + y
  BY <1>4, Zenon DEF First, Last, LengthBytes
<1>7. y = n
  OBVIOUS
<1> HIDE DEF b, e, f, n, l, y, m
<1>8. Last = l /\ l <= b /\ b <= Len(data)
  BY <1>1, <1>2, <1>4, <1>5, <1>6, <1>7
<1>9. SubSeq(data, First + 1, Last) = SubSeq(data, idx + 2 + f + 1, idx + 2 + f + n)
  BY <1>4, <1>6, <1>7, Zenon
<1>10. SubSeq(data, First + 1, Last) = DataOf(e)
  BY <1>1, <1>2, <1>3, <1>8, <1>9, DataIsRead, Zenon DEF b, e, f, n, l
<1> QED
  BY <1>3, <1>8, <1>10, EntryRead, Zenon DEF b, e, l, m

\* One iteration of common_para_response's.
LEMMA ResponseReads ==
  ASSUME Reading, SameFrame, NEW k, BeforeEntry(k), InLength, reader = "common_para_response",
         ~Misleading, idx' = Last, Last <= Len(data) - 2,
         Store(SubSeq(data, First + 1, Last))
  PROVE  \E j \in 0..Len(origin.params) : BeforeEntry(j)' \/ BehindCut(j)'
<1> DEFINE m == Len(origin.params)
           b == Len(Body(origin))
           e == origin.params[k + 1]
           f == e.flag
           n == Len(DataOf(e))
           l == Len(Listed(origin, k + 1))
           y == DataLen(idx + 2)
           c == origin.cut
<1>1. /\ IsReport(origin) /\ data \in Seq(Byte) /\ Len(data) = b /\ Len(wire) = b + 10
  BY DEF Reading
<1>2. m \in Nat /\ b \in Nat /\ c \in Nat /\ Len(Listed(origin, m)) = b + c
  BY <1>1, ReportNumbers, Zenon
<1>3. AtEntry(k, e)
  BY EntryAhead DEF InLength
<1>4. /\ k \in 0..m - 1 /\ IsEntry(e) /\ idx \in Nat /\ l = idx + 2 + f + n /\ LenFlag = f
  BY <1>3, Zenon DEF AtEntry
<1>5. f \in 0..3 /\ n \in Nat
  <2>1. DataOf(e) \in Seq(Byte) /\ f \in 0..3
    BY <1>4, EntryIsCoded, ValueOfEntry, SMT
  <2> QED
    BY <2>1
<1>6. First = idx + 2 + f /\ Last = idx + 2 + f + y
  BY <1>4, Zenon DEF First, Last, LengthBytes
<1>7. idx + 2 + f <= b
  BY <1>1, <1>4 DEF InLength, LengthBytes
<1>8. /\ f # 2 => y = n
      /\ f = 2 /\ n < 256 => y = 256 * n
  BY <1>1, <1>2, <1>3, <1>7, LengthIs
<1>9. l <= b + c
  <2>1. k + 1 \in 0..m /\ m \in 0..m /\ k + 1 <= m
    BY <1>2, <1>4
  <2> HIDE DEF m
  <2>2. Len(Listed(origin, k + 1)) <= Len(Listed(origin, m))
    BY <1>1, <2>1, ListedGrows DEF m
  <2> QED
    BY <1>2, <2>2
<1>10. b + 10 + c <= 256
  <2>1. ~(Len(wire) + c > 256)
    BY DEF Misleading
  <2> HIDE DEF b, c
  <2> QED
    BY <1>1, <1>2, <2>1
<1> HIDE DEF b, e, f, n, l, y, m, c
<1>11. n < 256
  BY <1>2, <1>4, <1>5, <1>9, <1>10
<1>12. y = n
  <2>1. Last <= b
    BY <1>1, <1>2, <1>4, <1>5, <1>6, <1>8, <1>11
  <2>2. f = 2 => n = 0
    BY <1>2, <1>4, <1>5, <1>6, <1>8, <1>10, <1>11, <2>1
  <2> QED
    BY <1>8, <1>11, <2>2
<1>13. k + 1 \in 0..m /\ BeforeEntry(k + 1)'
  BY <1>12, ResponseReadsEntry, Zenon DEF y, n, e, m
<1> QED
  BY <1>13, Zenon DEF m

LEMMA InitRead == Init => ReadInv
<1> SUFFICES ASSUME Init PROVE ReadInv
  OBVIOUS
<1>1. pc = "idle" /\ idx = 0 /\ parsed = 0 /\ found = <<>>
  BY DEF Init
<1>2. pc # "arrived" /\ pc # "params" /\ pc # "read"
  BY <1>1
<1> QED
  BY <1>1, <1>2, Zenon DEF ReadInv

\* The frame says the same of a report with the same entries.
LEMMA SameReport ==
  ASSUME NEW frame, NEW r, NEW o, Carried(frame, r),
         o.params = r.params, o.count = r.count, o.cut = r.cut
  PROVE  Carried(frame, o)
<1>1. Body(o) = Body(r)
  BY Zenon DEF Body
<1>2. IsReport(r) => IsReport(o)
  BY Zenon DEF IsReport
<1> QED
  BY <1>1, <1>2, Zenon DEF Carried, HasBody

\* A new frame is not read yet.
LEMMA ArrivesRead ==
  ASSUME ReadInv, pc \in {"idle", "request"}, NEW frame, NEW r, Arrives(frame, r), Carried(frame, r)
  PROVE  ReadInv'
<1>1. /\ pc' = "arrived" /\ wire' = frame /\ idx' = idx /\ parsed' = parsed /\ found' = found
      /\ origin'.params = r.params /\ origin'.count = r.count /\ origin'.cut = r.cut
  BY DEF Arrives, loop
<1>2. idx = 0 /\ parsed = 0 /\ found = <<>>
  <2>1. pc \in {"idle", "request", "arrived"}
    OBVIOUS
  <2> QED
    BY <2>1, Zenon DEF ReadInv
<1>3. Carried(wire', origin')
  BY <1>1, SameReport, Zenon
<1>4. pc' # "params" /\ pc' # "read"
  BY <1>1
<1> QED
  BY <1>1, <1>2, <1>3, <1>4, Zenon DEF ReadInv

\* A report carries what it was made of.
LEMMA ReportCarries ==
  ASSUME NEW id \in Ids, NEW p \in {0, 2}, NEW r \in Reports
  PROVE  Carried(Seal(id \o <<HeadByte(r.count, 0, p)>> \o Body(r)), r)
<1> DEFINE head == HeadByte(r.count, 0, p)
           body == Body(r)
           frame == DataFrameOf(id, head, body)
<1>1. IsReport(r)
  BY ReportsAreReports
<1>2. body \in Seq(Byte) /\ r.count \in 0..15
  BY <1>1, ReportIs, Zenon
<1>3. p \in 0..7 /\ 0 \in 0..1
  OBVIOUS
<1>4. head \in Byte /\ (head \div 8) % 2 = 0 /\ head % 8 = p /\ head \div 16 = r.count
  <2> DEFINE n == r.count
             f == 0
  <2>1. n \in 0..15 /\ f \in 0..1 /\ p \in 0..7 /\ head = HeadByte(n, f, p) /\ f = 0
    BY <1>2, <1>3
  <2> HIDE DEF n, f, head
  <2>2. head \in Byte /\ (head \div 8) % 2 = 0 /\ head % 8 = p /\ head \div 16 = n
    BY <2>1, HeadIs
  <2> QED
    BY <2>2 DEF n
<1>5. Seal(id \o <<HeadByte(r.count, 0, p)>> \o Body(r)) = frame
  BY Zenon DEF DataFrameOf
<1> HIDE DEF head, body, frame
<1>6. IsDataFrame(frame, id, head, body)
  BY <1>2, <1>4, IdIs, DataFrameIs, Zenon DEF frame
<1>7. /\ frame[7] = head /\ Len(frame) = 9 + Len(body)
      /\ \A i \in 1..Len(body) : frame[7 + i] = body[i]
  BY <1>6, Zenon DEF IsDataFrame
<1>8. IsData(frame)
  BY <1>4, <1>7 DEF IsData, FragInd, PacketType
<1>9. DataCount(frame) = r.count
  BY <1>4, <1>7, Zenon DEF DataCount
<1>10. Len(frame) = 7 + Len(body) + 2
  <2> DEFINE l == Len(body)
             n == Len(frame)
  <2>1. n = 9 + l /\ l \in Nat
    BY <1>2, <1>7
  <2> HIDE DEF l, n
  <2>2. n = 7 + l + 2
    BY <2>1
  <2> QED
    BY <2>2 DEF l, n
<1> QED
  BY <1>1, <1>5, <1>7, <1>8, <1>9, <1>10, Zenon DEF Carried, HasBody, body

\* An answer carries its report.
LEMMA AnswerCarries ==
  ASSUME NEW id \in Ids, NEW r \in Reports, NEW c \in Byte
  PROVE  Carried(Seal(id \o <<HeadByte(r.count, 0, 5), c>> \o Body(r)), r)
<1> DEFINE head == HeadByte(r.count, 0, 5)
           body == Body(r)
           frame == FrameOf(id, head, c, body)
<1>1. IsReport(r)
  BY ReportsAreReports
<1>2. body \in Seq(Byte) /\ r.count \in 0..15
  BY <1>1, ReportIs, Zenon
<1>3. 5 \in 0..7 /\ 0 \in 0..1
  OBVIOUS
<1>4. head \in Byte /\ head % 8 = 5 /\ head \div 16 = r.count
  BY <1>2, <1>3, HeadIs, ZenonT(60)
<1>5. Seal(id \o <<HeadByte(r.count, 0, 5), c>> \o Body(r)) = frame
  BY Zenon DEF FrameOf
<1> HIDE DEF head, body, frame
<1>6. IsFrame(frame, id, head, c, body)
  BY <1>2, <1>4, IdIs, FrameIs, Zenon DEF frame
<1>7. /\ frame[7] = head /\ Len(frame) = 10 + Len(body)
      /\ \A i \in 1..Len(body) : frame[8 + i] = body[i]
  BY <1>6, Zenon DEF IsFrame
<1>8. ~IsData(frame)
  <2>1. PacketType(frame) = 5
    BY <1>4, <1>7, Zenon DEF PacketType
  <2> QED
    BY <2>1 DEF IsData
<1>9. DataCount(frame) = r.count
  BY <1>4, <1>7, Zenon DEF DataCount
<1>10. Len(frame) = 8 + Len(body) + 2
  <2> DEFINE l == Len(body)
             n == Len(frame)
  <2>1. n = 10 + l /\ l \in Nat
    BY <1>2, <1>7
  <2> HIDE DEF l, n
  <2>2. n = 8 + l + 2
    BY <2>1
  <2> QED
    BY <2>2 DEF l, n
<1> QED
  BY <1>1, <1>5, <1>7, <1>8, <1>9, <1>10, Zenon DEF Carried, HasBody, body

\* The question for the time is a report of nothing.
LEMMA QuestionCarries ==
  ASSUME NEW id \in Ids
  PROVE  Carried(ControlFrame(id, 0, 7, 0, <<>>), [params |-> <<>>, count |-> 0, cut |-> 0])
<1> DEFINE frame == ControlFrame(id, 0, 7, 0, <<>>)
           r == [params |-> <<>>, count |-> 0, cut |-> 0]
<1>1. <<>> \in Seq(Byte) /\ Len(<<>>) = 0 /\ 7 \in 0..127 /\ 0 \in 0..1 /\ 0 \in 0..15
  OBVIOUS
<1>2. IsControlFrame(frame, id, 0, 7, 0, <<>>)
  BY <1>1, IdIs, ControlFrameIs, Zenon
<1>3. r.params = <<>> /\ r.count = 0 /\ r.cut = 0
  OBVIOUS
<1> HIDE DEF frame, r
<1>4. DataCount(frame) = 0 /\ PacketType(frame) = 4 /\ Len(frame) = 10 + Len(<<>>)
  BY <1>2, Zenon DEF IsControlFrame
<1>5. List(<<>>) = <<>>
  <2>1. Len(<<>>) \in Nat /\ \A i \in 1..Len(<<>>) : IsEntry(<<>>[i])
    BY <1>1
  <2>2. Chain(ListRun(<<>>), Byte, EntriesOf(<<>>), Len(<<>>))
    BY <2>1, ListChain, Zenon
  <2> QED
    BY <1>1, <2>2, ListOfRun, Zenon DEF Chain
<1>6. IsReport(r)
  <2>1. <<>> \in Seq(Entry) /\ \A i \in 1..Len(<<>>) : IsEntry(<<>>[i])
    BY <1>1
  <2>2. 0 \in 0..Len(<<>>)
    BY <1>1
  <2> QED
    BY <1>1, <1>3, <1>5, <2>1, <2>2, Zenon DEF IsReport
<1>7. Len(Body(r)) = 0
  <2>1. Body(r) = SubSeq(<<>>, 1, Len(<<>>) - 0)
    BY <1>3, <1>5, Zenon DEF Body
  <2>2. Len(SubSeq(<<>>, 1, Len(<<>>) - 0)) = 0
    OBVIOUS
  <2> QED
    BY <2>1, <2>2, Zenon
<1>8. ~IsData(frame)
  BY <1>4 DEF IsData
<1>9. Len(frame) = 8 + Len(Body(r)) + 2
  <2>1. 10 + 0 = 8 + 0 + 2
    OBVIOUS
  <2> QED
    BY <1>1, <1>4, <1>7, <2>1, Zenon
<1>10. HasBody(r, frame, 8)
  <2>1. \A i \in 1..0 : frame[8 + i] = Body(r)[i]
    OBVIOUS
  <2> QED
    BY <1>7, <2>1, Zenon DEF HasBody
<1> QED
  BY <1>3, <1>4, <1>6, <1>8, <1>9, <1>10, Zenon DEF Carried, frame, r

\* So what the sensors send keeps the second invariant.
LEMMA SentRead ==
  ASSUME Inv, ReadInv, Report \/ Answer \/ Calibration
  PROVE  ReadInv'
<1>1. CASE Report
  <2>1. PICK id \in Ids, p \in {0, 2}, r \in Reports :
          Arrives(Seal(id \o <<HeadByte(r.count, 0, p)>> \o Body(r)), r)
    BY <1>1 DEF Report
  <2>2. pc \in {"idle", "request"}
    BY <1>1 DEF Report
  <2> DEFINE frame == Seal(id \o <<HeadByte(r.count, 0, p)>> \o Body(r))
  <2>3. Arrives(frame, r) /\ Carried(frame, r)
    BY <2>1, ReportCarries, Zenon
  <2> HIDE DEF frame
  <2> QED
    BY <2>2, <2>3, ArrivesRead, Zenon
<1>2. CASE Answer
  <2>1. PICK id \in Ids, r \in Reports :
          Arrives(Seal(id \o <<HeadByte(r.count, 0, 5), wire[8]>> \o Body(r)), r)
    BY <1>2 DEF Answer
  <2>2. pc \in {"idle", "request"} /\ pc = "request"
    BY <1>2 DEF Answer
  <2>3. wire[8] \in Byte
    <3>1. origin.request \in Names /\ wire = Request[origin.request]
      BY <2>2, Zenon DEF Inv
    <3> QED
      BY <3>1, RequestIs, Zenon DEF IsRequest
  <2> DEFINE frame == Seal(id \o <<HeadByte(r.count, 0, 5), wire[8]>> \o Body(r))
  <2>4. Arrives(frame, r) /\ Carried(frame, r)
    BY <2>1, <2>3, AnswerCarries, Zenon
  <2> HIDE DEF frame
  <2> QED
    BY <2>2, <2>4, ArrivesRead, Zenon
<1>3. CASE Calibration
  <2> DEFINE r == [params |-> <<>>, count |-> 0, cut |-> 0]
  <2>1. PICK id \in Ids : Arrives(ControlFrame(id, 0, 7, 0, <<>>), r)
    BY <1>3 DEF Calibration
  <2>2. pc \in {"idle", "request"}
    BY <1>3 DEF Calibration
  <2> DEFINE frame == ControlFrame(id, 0, 7, 0, <<>>)
  <2>3. Arrives(frame, r) /\ Carried(frame, r)
    BY <2>1, QuestionCarries, Zenon
  <2> HIDE DEF frame, r
  <2> QED
    BY <2>2, <2>3, ArrivesRead, Zenon
<1> QED
  BY <1>1, <1>2, <1>3

\* Before the first entry.
LEMMA FirstEntry ==
  ASSUME IsReport(origin), origin' = origin, count' = origin.count,
         idx' = 0, parsed' = 0, found' = <<>>
  PROVE  0 \in 0..Len(origin.params) /\ BeforeEntry(0)'
<1>1. /\ Len(origin.params) \in Nat /\ origin.count \in Nat /\ Len(Body(origin)) \in Nat
      /\ Listed(origin, 0) = <<>> /\ Meant(origin, 0) = <<>>
  BY ReportNumbers, ListedBytes, MeantSteps, Zenon
<1>2. 0 \in 0..Len(origin.params) /\ 0 <= origin.count /\ 0 <= Len(Body(origin)) /\ Len(<<>>) = 0
  BY <1>1
<1>3. IsList(<<>>) /\ WholeTopologies(origin, <<>>)
  BY DEF IsList, WholeTopologies
<1> QED
  BY <1>1, <1>2, <1>3, Zenon DEF BeforeEntry

\* A loop begins before the first entry.
LEMMA AcceptRead ==
  ASSUME Inv, ReadInv, AcceptData \/ AcceptResponse
  PROVE  ReadInv'
<1> DEFINE b == Body(origin)
<1>1. /\ Accepted /\ pc' = "params" /\ wire' = wire /\ origin' = origin
      /\ count' = DataCount(wire) /\ idx' = idx /\ parsed' = parsed /\ found' = found
      /\ \/ IsData(wire) /\ reader' = "StartParser" /\ data' = SubSeq(wire, 8, Len(wire))
         \/ /\ IsControl(wire) /\ reader' = "common_para_response"
            /\ data' = SubSeq(wire, 9, Len(wire) - 2)
  BY DEF AcceptData, AcceptResponse, StartLoop
<1>2. /\ pc = "arrived" /\ damaged = FALSE /\ wire \in Seq(Byte)
  BY <1>1, AcceptedIsClean
<1>3. /\ idx = 0 /\ parsed = 0 /\ found = <<>> /\ Carried(wire, origin)
  <2>1. pc \in {"idle", "request", "arrived"}
    BY <1>2
  <2> QED
    BY <1>2, <2>1, Zenon DEF ReadInv
<1>4. IsReport(origin) /\ origin.count = DataCount(wire)
  BY <1>3, Zenon DEF Carried
<1>5. Len(b) \in Nat
  BY <1>4, ReportNumbers, Zenon
<1>6. ~(IsControl(wire) /\ IsData(wire))
  BY DEF IsControl, IsData
<1> HIDE DEF b
<1>7. Reading'
  <2>1. CASE IsData(wire) /\ reader' = "StartParser" /\ data' = SubSeq(wire, 8, Len(wire))
    <3>1. Len(wire) = 7 + Len(b) + 2 /\ \A i \in 1..Len(b) : wire[7 + i] = b[i]
      BY <1>3, <2>1, Zenon DEF Carried, HasBody, b
    <3> DEFINE d == SubSeq(wire, 8, Len(wire))
    <3>2. d \in Seq(Byte) /\ Len(d) = Len(b) + 2
      BY <1>2, <1>5, <3>1
    <3>3. \A i \in 1..Len(b) : d[0 + i] = wire[7 + i]
      BY <1>2, <1>5, <3>1
    <3> HIDE DEF d
    <3>4. HasBody(origin', d, 0)
      BY <1>1, <3>1, <3>3, Zenon DEF HasBody, b
    <3> QED
      BY <1>1, <1>4, <2>1, <3>2, <3>4, Zenon DEF Reading, d, b
  <2>2. CASE /\ IsControl(wire) /\ reader' = "common_para_response"
             /\ data' = SubSeq(wire, 9, Len(wire) - 2)
    <3>1. Len(wire) = 8 + Len(b) + 2 /\ \A i \in 1..Len(b) : wire[8 + i] = b[i]
      BY <1>3, <1>6, <2>2, Zenon DEF Carried, HasBody, b
    <3> DEFINE d == SubSeq(wire, 9, Len(wire) - 2)
    <3>2. d \in Seq(Byte) /\ Len(d) = Len(b) /\ Len(wire) = Len(b) + 10
      BY <1>2, <1>5, <3>1
    <3>3. \A i \in 1..Len(b) : d[0 + i] = wire[8 + i]
      BY <1>2, <1>5, <3>1
    <3> HIDE DEF d
    <3>4. HasBody(origin', d, 0)
      BY <1>1, <3>1, <3>3, Zenon DEF HasBody, b
    <3> QED
      BY <1>1, <1>4, <2>2, <3>2, <3>4, Zenon DEF Reading, d, b
  <2> QED
    BY <1>1, <2>1, <2>2
<1>8. 0 \in 0..Len(origin'.params) /\ BeforeEntry(0)'
  BY <1>1, <1>3, <1>4, FirstEntry, Zenon
<1>9. pc' # "idle" /\ pc' # "request" /\ pc' # "arrived" /\ pc' # "read"
  BY <1>1
<1> QED
  BY <1>1, <1>7, <1>8, <1>9, Zenon DEF ReadInv

\* A loop that has ended stays right.
LEMMA StillDone ==
  ASSUME Done, wire' = wire, origin' = origin, reader' = reader, found' = found
  PROVE  Done'
<1>1. NothingLost' <=> NothingLost
  BY Zenon DEF NothingLost
<1>2. InFrame' = InFrame
  BY Zenon DEF InFrame
<1>3. Whole' = Whole
  BY <1>2, Zenon DEF Whole
<1> QED
  BY <1>1, <1>3, Zenon DEF Done, StartDone, TopologyDone, ShortDone

\* The loop ends, in whatever way.
LEMMA EndRead ==
  ASSUME Inv, ReadInv, LoopEnds \/ DataMissing
  PROVE  ReadInv'
<1>1. /\ pc = "params" /\ pc' = "read" /\ wire' = wire /\ origin' = origin
      /\ reader' = reader /\ found' = found
      /\ reader = "StartParser" => ~InHeader
  BY DEF LoopEnds, DataMissing, InLength, InHeader, End, loop
<1>2. /\ Reading
      /\ \/ Misleading
         \/ \E k \in 0..Len(origin.params) : BeforeEntry(k) \/ BehindCut(k)
  BY <1>1, Zenon DEF ReadInv
<1>3. IsReport(origin) /\ Len(wire) \in Nat
  <2>1. wire \in Seq(Byte)
    BY <1>1 DEF Inv, Arrived, Accepting
  <2>2. IsReport(origin)
    BY <1>2, Zenon DEF Reading
  <2> QED
    BY <2>1, <2>2
<1>4. Done
  BY <1>1, <1>2, <1>3, MisledIsDone, BeforeIsDone, BehindIsDone, Zenon
<1>5. Done'
  BY <1>1, <1>4, StillDone
<1>6. pc' # "idle" /\ pc' # "request" /\ pc' # "arrived" /\ pc' # "params"
  BY <1>1
<1> QED
  BY <1>5, <1>6, Zenon DEF ReadInv

\* An iteration of the loop leads from entry to entry, to behind the cut, or astray.
LEMMA NextParam ==
  ASSUME Inv, ReadInv, ReadParam \/ Overrun, pc' = "params"
  PROVE  ReadInv'
<1>1. /\ pc = "params" /\ InLength /\ idx' = Last /\ SameFrame
      /\ \E bytes : Store(bytes) /\ (Last <= Limit => bytes = SubSeq(data, First + 1, Last))
      /\ reader # "StartParser" => Last <= Limit
  <2>1. CASE ReadParam
    BY <2>1, Zenon DEF ReadParam, InLength, InHeader, SameFrame
  <2>2. CASE Overrun
    <3>1. pc = "params" /\ InLength /\ reader = "StartParser" /\ Last > Limit
      BY <2>2 DEF Overrun, InLength, InHeader
    <3>2. pc' # "dead"
      OBVIOUS
    <3>3. idx' = Last /\ SameFrame /\ \E bytes : Store(bytes)
      BY <2>2, <3>2, Zenon DEF Overrun, End, SameFrame
    <3>4. ~(Last <= Limit)
      <4>1. data \in Seq(Byte) /\ IsReport(origin) /\ \E k \in 0..Len(origin.params) : BeforeEntry(k) \/ BehindCut(k)
        BY <3>1 DEF ReadInv, Reading, Misleading
      <4>2. idx \in Nat
        BY <4>1, ListedBytes DEF BeforeEntry, BehindCut
      <4>3. DataLen(idx + 2) \in Nat /\ LenFlag \in 0..3
        BY <3>1, <4>1, <4>2, SomeLength
      <4>4. Last = idx + 2 + LenFlag + DataLen(idx + 2)
        BY Zenon DEF Last, First, LengthBytes
      <4>5. Limit = Len(data)
        BY <3>1 DEF Limit
      <4> DEFINE l == Last
                 y == DataLen(idx + 2)
                 f == LenFlag
      <4>6. l = idx + 2 + f + y /\ l > Len(data) /\ y \in Nat /\ f \in 0..3
        BY <3>1, <4>3, <4>4, <4>5
      <4>7. Len(data) \in Nat
        BY <4>1
      <4> HIDE DEF l, y, f
      <4>8. ~(l <= Len(data))
        BY <4>2, <4>6, <4>7
      <4> QED
        BY <4>5, <4>8 DEF l
    <3> QED
      BY <3>1, <3>3, <3>4, Zenon
  <2> QED
    BY <2>1, <2>2
<1>2. /\ Reading
      /\ \/ Misleading
         \/ \E k \in 0..Len(origin.params) : BeforeEntry(k) \/ BehindCut(k)
  BY <1>1, Zenon DEF ReadInv
<1>3. Reading'
  BY <1>1, <1>2, StillReading
<1>4. Misleading => Misleading'
  BY <1>1, Zenon DEF Misleading, SameFrame
<1>5. ASSUME ~Misleading
      PROVE  \E j \in 0..Len(origin.params) : BeforeEntry(j)' \/ BehindCut(j)'
  <2>1. PICK k \in 0..Len(origin.params) : BeforeEntry(k) \/ BehindCut(k)
    BY <1>2, <1>5
  <2>2. ~BehindCut(k)
    <3> SUFFICES ASSUME BehindCut(k) PROVE FALSE
      OBVIOUS
    <3>1. reader = "StartParser" /\ idx \in Nat /\ idx + 2 > Len(Body(origin))
      BY Zenon DEF BehindCut
    <3>2. Len(data) = Len(Body(origin)) + 2 /\ IsReport(origin)
      BY <1>2, <3>1 DEF Reading
    <3>3. Len(Body(origin)) \in Nat
      BY <3>2, ReportNumbers, Zenon
    <3>4. idx + 2 <= Len(data) - 2
      BY <1>1 DEF InLength, InHeader
    <3> DEFINE b == Len(Body(origin))
    <3>5. b \in Nat /\ idx + 2 > b /\ idx + 2 <= (b + 2) - 2
      BY <3>1, <3>2, <3>3, <3>4
    <3> HIDE DEF b
    <3> QED
      BY <3>1, <3>5
  <2>3. BeforeEntry(k)
    BY <2>1, <2>2
  <2>4. PICK bytes : Store(bytes) /\ (Last <= Limit => bytes = SubSeq(data, First + 1, Last))
    BY <1>1
  <2>5. CASE reader = "StartParser"
    <3>1. Limit = Len(data)
      BY <2>5 DEF Limit
    <3>2. Last <= Len(data) => bytes = SubSeq(data, First + 1, Last)
      BY <2>4, <3>1, Zenon
    <3> QED
      BY <1>1, <1>2, <2>3, <2>4, <2>5, <3>2, StartReads
  <2>6. CASE reader = "common_para_response"
    <3>1. Limit = Len(data) - 2 /\ Last <= Limit
      BY <1>1, <2>6 DEF Limit
    <3>2. Last <= Len(data) - 2 /\ Store(SubSeq(data, First + 1, Last))
      BY <2>4, <3>1, Zenon
    <3> QED
      BY <1>1, <1>2, <1>5, <2>3, <2>6, <3>2, ResponseReads
  <2>7. reader = "StartParser" \/ reader = "common_para_response"
    BY <1>2, Zenon DEF Reading
  <2> QED
    BY <2>5, <2>6, <2>7
<1>6. pc' # "idle" /\ pc' # "request" /\ pc' # "arrived" /\ pc' # "read" /\ origin' = origin
  BY <1>1, Zenon DEF SameFrame
<1> QED
  BY <1>3, <1>4, <1>5, <1>6, Zenon DEF ReadInv

\* Where nothing is said of the loop.
LEMMA NothingRead ==
  ASSUME pc' \in {"ack", "refused", "handled", "dead"}
  PROVE  ReadInv'
<1>1. /\ pc' # "idle" /\ pc' # "request" /\ pc' # "arrived"
      /\ pc' # "params" /\ pc' # "read"
  OBVIOUS
<1> QED
  BY <1>1, Zenon DEF ReadInv

\* Every step keeps the second invariant.
LEMMA StepRead ==
  ASSUME Inv, ReadInv, [Next]_vars
  PROVE  ReadInv'
<1>1. CASE SendRequest
  <2>1. pc = "idle" /\ pc' = "request" /\ idx' = idx /\ parsed' = parsed /\ found' = found
    BY <1>1 DEF SendRequest, loop
  <2>2. pc' # "arrived" /\ pc' # "params" /\ pc' # "read" /\ pc \in {"idle", "request", "arrived"}
    BY <2>1
  <2> QED
    BY <2>1, <2>2, Zenon DEF ReadInv
<1>2. CASE Damage
  <2>1. /\ pc = "arrived" /\ pc' = "arrived" /\ damaged' = TRUE
        /\ idx' = idx /\ parsed' = parsed /\ found' = found
    BY <1>2 DEF Damage, loop
  <2>2. pc' # "params" /\ pc' # "read" /\ pc \in {"idle", "request", "arrived"}
    BY <2>1
  <2> QED
    BY <2>1, <2>2, Zenon DEF ReadInv
<1>3. CASE SendAck \/ Refuse \/ AcceptOther \/ LengthMissing
  <2>1. pc' \in {"ack", "refused", "handled", "dead"}
    BY <1>3 DEF SendAck, Refuse, AcceptOther, LengthMissing, End
  <2> QED
    BY <2>1, NothingRead
<1>4. CASE Report \/ Answer \/ Calibration
  BY <1>4, SentRead
<1>5. CASE AcceptData \/ AcceptResponse
  BY <1>5, AcceptRead
<1>6. CASE LoopEnds \/ DataMissing
  BY <1>6, EndRead
<1>7. CASE ReadParam \/ Overrun
  <2>1. pc' = "params" \/ pc' = "dead"
    BY <1>7 DEF ReadParam, Overrun, InLength, InHeader, End
  <2> QED
    BY <1>7, <2>1, NextParam, NothingRead
<1>8. CASE UNCHANGED vars
  <2>1. /\ pc' = pc /\ wire' = wire /\ origin' = origin /\ damaged' = damaged
        /\ reader' = reader /\ data' = data /\ count' = count
        /\ idx' = idx /\ parsed' = parsed /\ found' = found
    BY <1>8, Zenon DEF vars, loop
  <2>2. /\ (Carried(wire, origin))' = Carried(wire, origin)
        /\ Reading => Reading' /\ (Misleading => Misleading')
    BY <2>1, StillReading, Zenon DEF SameFrame, Misleading
  <2>3. NothingLost' <=> NothingLost
    BY <2>1, Zenon DEF NothingLost
  <2>4. ASSUME NEW k PROVE (BeforeEntry(k) => BeforeEntry(k)') /\ (BehindCut(k) => BehindCut(k)')
    BY <2>1, <2>3, Zenon DEF BeforeEntry, BehindCut
  <2>5. Done => Done'
    BY <2>1, StillDone
  <2> QED
    BY <2>1, <2>2, <2>4, <2>5, Zenon DEF ReadInv
<1> QED
  BY <1>1, <1>2, <1>3, <1>4, <1>5, <1>6, <1>7, <1>8 DEF Next

\* The second inductive invariant, on top of the first: where either parameter loop is in the list
\* that was sent, and what it has found there.
THEOREM InductiveRead == Spec => [](Inv /\ ReadInv)
<1>1. Init => Inv /\ ReadInv
  BY InitInv, InitRead
<1>2. Inv /\ ReadInv /\ [Next]_vars => Inv' /\ ReadInv'
  BY StepInv, StepRead
<1> QED
  BY <1>1, <1>2, PTL DEF Spec

\* Of whatever entries, in whatever number and order, with whatever lengths and unknown
\* types between them, StartParser's loop (frameparser.go) reads every value of every
\* whole and counted entry as the sensor wrote it, and of a list cut short one more at most.
THEOREM ReportsAreRead == Spec => []ReportsRead
<1>1. ASSUME ReadInv PROVE ReportsRead
  BY <1>1, Zenon DEF ReadInv, ReportsRead, Done, StartDone, Meant
<1> QED
  BY <1>1, InductiveRead, PTL

\* A topology of whatever length, whatever is missing at its end, is stored as whole
\* nodes, as they were sent, from the first one on (parseTopo).
THEOREM TopologiesAreWhole == Spec => []TopologyOfWholeNodes
<1>1. ASSUME ReadInv PROVE TopologyOfWholeNodes
  BY <1>1, Zenon DEF ReadInv, TopologyOfWholeNodes, Done, TopologyDone, WholeTopologies
<1> QED
  BY <1>1, InductiveRead, PTL

-----------------------------------------------------------------------------
(* The answers, up to the first length that can be misread.                *)

\* common_para_response has taken a two byte length, and keeps what it had before.
AtArray(k) ==
  /\ k \in 0..Len(origin.params) - 1 /\ origin.params[k + 1].flag = 2
  /\ IsList(found) /\ (NothingLost => IsPrefix(Meant(origin, k), found))

\* Of the entries before it, all is read, up to a place, or more.
UpToArray ==
  (pc = "read" /\ reader = "common_para_response" /\ NothingLost) =>
    \A k \in 0..Len(origin.params) : (\A i \in 1..k : origin.params[i].flag # 2) =>
      IsPrefix(found, Meant(origin, k)) \/ IsPrefix(Meant(origin, k), found)

\* It stands before an entry, and has read the others, or it was at an array before.
ArrayInv ==
  /\ (pc = "params" /\ reader = "common_para_response") =>
       \E k \in 0..Len(origin.params) : BeforeEntry(k) \/ AtArray(k)
  /\ UpToArray

\* What is appended leaves a list its beginning.
LEMMA PrefixOfMore ==
  ASSUME NEW f, IsList(f), NEW g, IsPrefix(g, f), NEW w
  PROVE  IsPrefix(g, f \o <<w>>)
<1> DEFINE S == {f[i] : i \in 1..Len(f)} \cup {w}
<1>1. f \in Seq({f[i] : i \in 1..Len(f)})
  BY Zenon DEF IsList
<1>2. f \in Seq(S) /\ w \in S
  BY <1>1
<1> HIDE DEF S
<1>3. Len(g) <= Len(f) /\ SubSeq(f, 1, Len(g)) = g
  BY DEF IsPrefix
<1>4. CASE Len(g) \in Int
  <2>1. SubSeq(f \o <<w>>, 1, Len(g)) = SubSeq(f, 1, Len(g))
    <3> DEFINE n == Len(g)
               x == f \o <<w>>
    <3>1. /\ x \in Seq(S) /\ Len(x) = Len(f) + 1
          /\ \A i \in 1..Len(f) : x[i] = f[i]
      BY <1>2
    <3>2. n <= Len(f) /\ n \in Int
      BY <1>3, <1>4
    <3> HIDE DEF n, x
    <3>3. SubSeq(x, 1, n) = SubSeq(f, 1, n)
      BY <1>2, <3>1, <3>2
    <3> QED
      BY <3>3 DEF n, x
  <2>2. Len(f \o <<w>>) = Len(f) + 1 /\ Len(f) \in Nat
    BY <1>2
  <2>3. Len(g) <= Len(f \o <<w>>)
    BY <1>3, <1>4, <2>2
  <2> QED
    BY <1>3, <2>1, <2>3, Zenon DEF IsPrefix
<1>5. Len(g) \in Int
  <2>1. SubSeq(f, 1, Len(g)) = [i \in 1..Len(g) |-> f[i]]
    OBVIOUS
  <2> QED
    BY <1>2, <1>3
<1> QED
  BY <1>4, <1>5

\* Of three lists, the first begins the second and that the third.
LEMMA PrefixThrough ==
  ASSUME NEW f \in Seq(Stored), NEW g \in Seq(Stored), NEW h, IsList(h),
         IsPrefix(f, g), IsPrefix(g, h)
  PROVE  IsPrefix(f, h)
<1>1. h \in Seq({h[i] : i \in 1..Len(h)})
  BY Zenon DEF IsList
<1> DEFINE S == {h[i] : i \in 1..Len(h)}
<1> HIDE DEF S
<1>2. h \in Seq(S)
  BY <1>1 DEF S
<1>3. Len(f) <= Len(g) /\ SubSeq(g, 1, Len(f)) = f /\ Len(g) <= Len(h) /\ SubSeq(h, 1, Len(g)) = g
  BY DEF IsPrefix
<1>4. Len(f) <= Len(h) /\ \A i \in 1..Len(f) : h[i] = f[i]
  <2>1. \A i \in 1..Len(g) : g[i] = h[i]
    <3>1. \A i \in 1..Len(g) : SubSeq(h, 1, Len(g))[i] = h[i]
      BY <1>2, <1>3
    <3> QED
      BY <1>3, <3>1
  <2>2. \A i \in 1..Len(f) : f[i] = g[i]
    <3>1. \A i \in 1..Len(f) : SubSeq(g, 1, Len(f))[i] = g[i]
      BY <1>3
    <3> QED
      BY <1>3, <3>1
  <2>3. \A i \in 1..Len(f) : i \in 1..Len(g)
    BY <1>3
  <2>4. Len(f) <= Len(h)
    BY <1>2, <1>3
  <2> QED
    BY <2>1, <2>2, <2>3, <2>4
<1>5. SubSeq(h, 1, Len(f)) = f
  <2> DEFINE s == SubSeq(h, 1, Len(f))
             T == S \cup Stored
  <2>1. s \in Seq(S) /\ Len(s) = Len(f) /\ \A i \in 1..Len(f) : s[i] = h[i]
    BY <1>2, <1>4
  <2>2. Len(f) \in Nat /\ s = [i \in 1..Len(s) |-> s[i]] /\ f = [i \in 1..Len(f) |-> f[i]]
    <3> HIDE DEF s
    <3> QED
      BY <2>1
  <2> HIDE DEF s
  <2>3. s = f
    BY <1>4, <2>1, <2>2
  <2> QED
    BY <2>3 DEF s
<1> QED
  BY <1>4, <1>5, Zenon DEF IsPrefix

\* When the loop ends, the entries before an array, or all, are read or still to come.
LEMMA AnswerDone ==
  ASSUME IsReport(origin), NEW k \in 0..Len(origin.params), BeforeEntry(k) \/ AtArray(k),
         NothingLost,
         NEW j \in 0..Len(origin.params), \A i \in 1..j : origin.params[i].flag # 2
  PROVE  IsPrefix(found, Meant(origin, j)) \/ IsPrefix(Meant(origin, j), found)
<1>1. Len(origin.params) \in Nat
  BY ReportNumbers, Zenon
<1> DEFINE m == Len(origin.params)
<1>2. j <= k \/ k <= j
  BY <1>1
<1>3. CASE BeforeEntry(k)
  <2>1. found = Meant(origin, k)
    BY <1>3, Zenon DEF BeforeEntry
  <2> QED
    BY <1>2, <2>1, MeantGrows, Zenon
<1>4. CASE AtArray(k)
  <2>1. k \in 0..m - 1 /\ origin.params[k + 1].flag = 2 /\ IsList(found) /\ IsPrefix(Meant(origin, k), found)
    BY <1>4, Zenon DEF AtArray
  <2>2. ~(k + 1 \in 1..j)
    BY <2>1, Zenon
  <2>3. j <= k
    <3> HIDE DEF m
    <3>1. m \in Nat /\ j \in 0..m
      BY <1>1 DEF m
    <3> QED
      BY <2>1, <2>2, <3>1
  <2>4. IsPrefix(Meant(origin, j), Meant(origin, k))
    BY <2>3, MeantGrows, Zenon
  <2>5. Meant(origin, j) \in Seq(Stored) /\ Meant(origin, k) \in Seq(Stored)
    BY MeantSteps, Zenon
  <2> QED
    BY <2>1, <2>4, <2>5, PrefixThrough, Zenon
<1> QED
  BY <1>3, <1>4

\* An iteration leads to the next entry, or stays at the array, with more or nothing more.
LEMMA AnswerReads ==
  ASSUME Reading, SameFrame, reader = "common_para_response", InLength, idx' = Last,
         Last <= Len(data) - 2, Store(SubSeq(data, First + 1, Last)),
         NEW k \in 0..Len(origin.params), BeforeEntry(k) \/ AtArray(k)
  PROVE  \E j \in 0..Len(origin.params) : BeforeEntry(j)' \/ AtArray(j)'
<1>1. IsReport(origin) /\ origin' = origin /\ (NothingLost' <=> NothingLost)
  <2>1. origin' = origin
    BY DEF SameFrame
  <2> QED
    BY <2>1, Zenon DEF Reading, NothingLost
<1>2. \/ found' = found \o <<>>
      \/ \E w : found' = found \o <<w>>
  BY StoreIs, Zenon
<1>3. ASSUME AtArray(k) PROVE AtArray(k)'
  <2>1. /\ k \in 0..Len(origin.params) - 1 /\ origin.params[k + 1].flag = 2
        /\ IsList(found) /\ (NothingLost => IsPrefix(Meant(origin, k), found))
    BY <1>3, Zenon DEF AtArray
  <2>2. IsList(found') /\ (NothingLost => IsPrefix(Meant(origin, k), found'))
    <3>1. CASE found' = found \o <<>>
      <4>1. found' = found
        BY <2>1, <3>1, ListGrows, Zenon
      <4> QED
        BY <2>1, <4>1, Zenon
    <3>2. ASSUME NEW w, found' = found \o <<w>>
          PROVE  IsList(found') /\ (NothingLost => IsPrefix(Meant(origin, k), found'))
      <4>1. IsList(found')
        BY <2>1, <3>2, ListGrows, Zenon
      <4>2. NothingLost => IsPrefix(Meant(origin, k), found')
        BY <2>1, <3>2, PrefixOfMore, Zenon
      <4> QED
        BY <4>1, <4>2
    <3> QED
      BY <1>2, <3>1, <3>2
  <2>3. Meant(origin', k) = Meant(origin, k)
    BY <1>1, Zenon
  <2> QED
    BY <1>1, <2>1, <2>2, <2>3, Zenon DEF AtArray
<1>4. CASE BeforeEntry(k)
  <2> DEFINE e == origin.params[k + 1]
  <2>1. AtEntry(k, e)
    BY <1>4, EntryAhead DEF InLength
  <2>2. CASE e.flag = 2
    <3>1. IsList(found) /\ (NothingLost => found = Meant(origin, k))
      BY <1>4, Zenon DEF BeforeEntry
    <3>2. k \in 0..Len(origin.params) - 1
      BY <2>1, Zenon DEF AtEntry
    <3>3. NothingLost => IsPrefix(Meant(origin, k), found)
      BY <3>1, PrefixOfItself, Zenon
    <3>4. AtArray(k)
      BY <2>2, <3>1, <3>2, <3>3, Zenon DEF AtArray
    <3>5. k \in 0..Len(origin'.params) /\ AtArray(k)'
      BY <1>1, <1>3, <3>4, Zenon
    <3> QED
      BY <3>5, Zenon
  <2>3. CASE e.flag # 2
    <3> DEFINE b == Len(Body(origin))
               f == e.flag
    <3>1. /\ data \in Seq(Byte) /\ Len(data) = b /\ b \in Nat
      BY <1>1, ReportNumbers, Zenon DEF Reading
    <3>2. idx + 2 + f <= b
      <4>1. LenFlag = f
        BY <2>1, Zenon DEF AtEntry
      <4>2. idx + 2 + LenFlag <= Len(data)
        BY DEF InLength, LengthBytes
      <4> QED
        BY <3>1, <4>1, <4>2, Zenon
    <3>3. DataLen(idx + 2) = Len(DataOf(e))
      BY <2>1, <2>3, <3>1, <3>2, LengthIs, Zenon
    <3>4. k + 1 \in 0..Len(origin.params) /\ BeforeEntry(k + 1)'
      BY <1>4, <3>3, ResponseReadsEntry, Zenon
    <3> QED
      BY <3>4, Zenon
  <2> QED
    BY <2>2, <2>3
<1> QED
  BY <1>3, <1>4, Zenon

\* Every step keeps it.
LEMMA StepAnswer ==
  ASSUME Inv, ReadInv, ArrayInv, [Next]_vars
  PROVE  ArrayInv'
<1>1. CASE AcceptData
  <2>1. pc' = "params" /\ reader' = "StartParser"
    BY <1>1 DEF AcceptData, StartLoop
  <2> QED
    BY <2>1, Zenon DEF ArrayInv, UpToArray
<1>2. CASE AcceptResponse
  <2>1. /\ Accepted /\ pc' = "params" /\ origin' = origin /\ count' = DataCount(wire)
        /\ idx' = idx /\ parsed' = parsed /\ found' = found
    BY <1>2 DEF AcceptResponse, StartLoop
  <2>2. pc = "arrived" /\ damaged = FALSE
    BY <2>1, AcceptedIsClean
  <2>3. idx = 0 /\ parsed = 0 /\ found = <<>> /\ Carried(wire, origin)
    <3>1. pc \in {"idle", "request", "arrived"}
      BY <2>2
    <3> QED
      BY <2>2, <3>1, Zenon DEF ReadInv
  <2>4. IsReport(origin) /\ origin.count = DataCount(wire)
    BY <2>3, Zenon DEF Carried
  <2>5. 0 \in 0..Len(origin'.params) /\ BeforeEntry(0)'
    BY <2>1, <2>3, <2>4, FirstEntry, Zenon
  <2>6. pc' # "read"
    BY <2>1
  <2> QED
    BY <2>5, <2>6, Zenon DEF ArrayInv, UpToArray
<1>3. CASE LoopEnds \/ DataMissing
  <2>1. /\ pc = "params" /\ pc' = "read" /\ origin' = origin /\ reader' = reader /\ found' = found
    BY <1>3 DEF LoopEnds, DataMissing, InLength, InHeader, End, loop
  <2>2. IsReport(origin)
    BY <2>1, Zenon DEF ReadInv, Reading
  <2>3. UpToArray'
    <3> SUFFICES ASSUME reader = "common_para_response", NothingLost, NEW j \in 0..Len(origin.params),
                        \A i \in 1..j : origin.params[i].flag # 2
                 PROVE  IsPrefix(found, Meant(origin, j)) \/ IsPrefix(Meant(origin, j), found)
      <4>1. NothingLost' <=> NothingLost
        BY <2>1, Zenon DEF NothingLost
      <4> QED
        BY <2>1, <4>1, Zenon DEF UpToArray, Meant
    <3>1. PICK k \in 0..Len(origin.params) : BeforeEntry(k) \/ AtArray(k)
      BY <2>1, Zenon DEF ArrayInv
    <3> QED
      BY <2>2, <3>1, AnswerDone, Zenon
  <2>4. pc' # "params"
    BY <2>1
  <2> QED
    BY <2>3, <2>4, Zenon DEF ArrayInv
<1>4. CASE ReadParam /\ reader = "common_para_response"
  <2>1. /\ pc = "params" /\ pc' = "params" /\ InLength /\ idx' = Last /\ SameFrame
        /\ Store(SubSeq(data, First + 1, Last)) /\ Last <= Limit
    BY <1>4, Zenon DEF ReadParam, InLength, InHeader, SameFrame
  <2>2. Limit = Len(data) - 2
    BY <1>4 DEF Limit
  <2>3. Reading /\ Last <= Len(data) - 2
    BY <2>1, <2>2, Zenon DEF ReadInv
  <2>4. PICK k \in 0..Len(origin.params) : BeforeEntry(k) \/ AtArray(k)
    BY <1>4, <2>1, Zenon DEF ArrayInv
  <2>5. \E j \in 0..Len(origin.params) : BeforeEntry(j)' \/ AtArray(j)'
    BY <1>4, <2>1, <2>3, <2>4, AnswerReads
  <2>6. origin' = origin /\ pc' # "read"
    BY <2>1, Zenon DEF SameFrame
  <2> QED
    BY <2>5, <2>6, Zenon DEF ArrayInv, UpToArray
<1>5. CASE (ReadParam /\ reader # "common_para_response") \/ Overrun
  <2>1. reader' # "common_para_response"
    <3>1. reader # "common_para_response" /\ reader' = reader
      BY <1>5 DEF ReadParam, Overrun, End, loop
    <3> QED
      BY <3>1
  <2> QED
    BY <2>1, Zenon DEF ArrayInv, UpToArray
<1>6. CASE \/ SendRequest \/ SendAck \/ Report \/ Answer \/ Calibration \/ Damage
           \/ Refuse \/ AcceptOther \/ LengthMissing
  <2>1. pc' \in {"request", "ack", "arrived", "refused", "handled", "dead"}
    BY <1>6 DEF SendRequest, SendAck, Report, Answer, Calibration, Arrives, Damage, Refuse, AcceptOther,
                LengthMissing, End
  <2>2. pc' # "params" /\ pc' # "read"
    BY <2>1
  <2> QED
    BY <2>2, Zenon DEF ArrayInv, UpToArray
<1>7. CASE UNCHANGED vars
  <2>1. /\ pc' = pc /\ wire' = wire /\ origin' = origin /\ reader' = reader /\ data' = data
        /\ count' = count /\ idx' = idx /\ parsed' = parsed /\ found' = found
    BY <1>7, Zenon DEF vars, loop
  <2>2. NothingLost' <=> NothingLost
    BY <2>1, Zenon DEF NothingLost
  <2>3. ASSUME NEW k PROVE (BeforeEntry(k) => BeforeEntry(k)') /\ (AtArray(k) => AtArray(k)')
    BY <2>1, <2>2, Zenon DEF BeforeEntry, AtArray
  <2>4. UpToArray'
    BY <2>1, <2>2, Zenon DEF ArrayInv, UpToArray
  <2> QED
    BY <2>1, <2>3, <2>4, Zenon DEF ArrayInv
<1> QED
  BY <1>1, <1>2, <1>3, <1>4, <1>5, <1>6, <1>7 DEF Next

\* Of the entries before the first two byte length, in an answer of any length, with
\* anything behind them, cut anywhere and with any count, common_para_response stores
\* values as they were sent, in their order, and no others before them; of an answer of
\* up to 256 bytes it stores no others at all.
THEOREM AnswersAreRead == Spec => []AnswersRead
<1>1. Init => ArrayInv
  BY DEF Init, ArrayInv, UpToArray
<1>2. Inv /\ ReadInv /\ ArrayInv /\ [Next]_vars => ArrayInv'
  BY StepAnswer
<1>3. ReadInv /\ ArrayInv => AnswersRead
  BY Zenon DEF ReadInv, Done, ShortDone, ArrayInv, UpToArray, AnswersRead, Meant
<1> QED
  BY <1>1, <1>2, <1>3, InductiveRead, PTL DEF Spec
=============================================================================
