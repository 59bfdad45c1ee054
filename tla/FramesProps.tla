----------------------------- MODULE FramesProps -----------------------------
(***************************************************************************)
(* What holds of a frame on its way.                                       *)
(***************************************************************************)
EXTENDS Frames

IsPrefix(s, t) == Len(s) <= Len(t) /\ SubSeq(t, 1, Len(s)) = s

\* The values of a list of entries; a type that the table lacks leaves none.
Values(params) ==
  LET upTo[n \in 0..Len(params)] ==
        IF n = 0 THEN <<>>
        ELSE LET e == params[n]
             IN  IF LookupParamInfo(e.type) = "none" THEN upTo[n - 1]
                 ELSE Append(upTo[n - 1], [name |-> Name(e.type), value |-> e.value])
  IN  upTo[Len(params)]

\* How many entries are whole in the frame, and counted.
InFrame == CHOOSE n \in 0..Len(origin.params) :
           /\ Len(List(SubSeq(origin.params, 1, n))) <= Len(Body(origin))
           /\ n < Len(origin.params) =>
                Len(List(SubSeq(origin.params, 1, n + 1))) > Len(Body(origin))

Whole == IF InFrame < origin.count THEN InFrame ELSE origin.count

NothingLost == \A i \in DOMAIN origin.params : origin.params[i].lost = 0

-----------------------------------------------------------------------------
\* What the service sends (requests, data statuses, the time) passes the checks that it
\* makes itself: length, CRC over all bytes before it, high byte first; a status repeats
\* the count of the frame it answers.
SentIsSound ==
  /\ pc = "request" => Len(wire) >= 9 /\ Sound(wire) /\ FragInd(wire) = 0 /\ PacketType(wire) = 4
  /\ reply # <<>> => Len(reply) >= 9 /\ Sound(reply) /\ DataCount(reply) = DataCount(wire)

\* The tables compute the CRC they stand for, of every frame that is on the wire.
TablesMatchPolynomial ==
  pc \in {"request", "arrived"} =>
    LET payload == SubSeq(wire, 1, Len(wire) - 2)
    IN  CRC16(payload) = BitwiseCRC(payload)

\* One damaged byte, wherever it is (in the id, the count, the check itself), never
\* gets past the checks, and no success is sent for it.
DamageRefused ==
  damaged => /\ pc \in {"arrived", "refused"} /\ found = <<>>
             /\ reply # <<>> => reply[8] = 0

\* What StartParser reads of a data frame is what the sensor wrote, every value of
\* every whole entry, in its order, whatever lengths and unknown types stand between
\* them; of a list cut short, one more value at most.
ReportsRead ==
  (pc = "read" /\ reader = "StartParser" /\ NothingLost) =>
    LET sent == Values(SubSeq(origin.params, 1, Whole))
    IN  /\ IsPrefix(sent, found)
        /\ Len(found) <= Len(sent) + (IF origin.cut > 0 THEN 1 ELSE 0)

\* A topology that is stored is a list of whole nodes as they were sent, from the
\* first one on, also when the end of its data is missing; of an answer, in a frame of
\* up to 256 bytes.
TopologyOfWholeNodes ==
  (pc = "read" /\ origin.cut = 0 /\ (reader = "StartParser" \/ Len(wire) <= 256)) =>
    \A i \in DOMAIN found : found[i].name = Type(0, 8) =>
      /\ Len(found[i].value) % 14 = 0
      /\ \E j \in DOMAIN origin.params :
           origin.params[j].type = Type(0, 8) /\ IsPrefix(found[i].value, origin.params[j].value)

\* The reader of responses leaves out the last entry, and may stop at any, in a list cut
\* anywhere and with any count.  Of the entries before the first one with a two byte
\* length it stores no wrong value, none twice and none out of order, however long the
\* list; nor of the others, in a frame of up to 256 bytes.
AnswersRead ==
  (pc = "read" /\ reader = "common_para_response" /\ NothingLost) =>
    /\ \A k \in 0..Len(origin.params) : (\A i \in 1..k : origin.params[i].flag # 2) =>
         LET sent == Values(SubSeq(origin.params, 1, k))
         IN  IsPrefix(found, sent) \/ IsPrefix(sent, found)
    /\ Len(wire) + origin.cut <= 256 => IsPrefix(found, Values(origin.params))

\* The answer to a request goes to the handler for what was asked, or to none: the
\* builders and ResponseMap agree on the control bytes.
AnswerToItsHandler ==
  (pc \in {"params", "read", "handled", "dead"} /\ origin.request # "none") =>
    reader \in {"none"} \cup
      (CASE origin.request \in {"Time_Parameter_Query", "Time_Parameter_Set"} -> {"timestamp_response"}
         [] origin.request = "Reset_Set" -> {"reset_response"}
         [] origin.request \in {"ID_Query"} -> {}
         [] OTHER -> {"common_para_response"})
=============================================================================
