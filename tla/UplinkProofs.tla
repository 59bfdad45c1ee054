---------------------------- MODULE UplinkProofs ----------------------------
(***************************************************************************)
(* The safety properties of the uplink, for every set of messages and all  *)
(* capacities, and that it implements LossyRelay.                          *)
(***************************************************************************)
EXTENDS UplinkProps, WellFoundedInduction, SequenceTheorems, TLAPS

\* Where the parser may be.
Places == {"idle", "check", "status", "fragment", "params", "control", "report", "flag",
           "stuck"}

\* A message that has passed every check at the head of the parser's loop.
Passed(m) == m.decodable /\ m.known /\ m.sound

\* The sensor of a frame has been told that it arrived well.
Answered(n, replies) ==
  \E i \in DOMAIN replies : replies[i] = [frame |-> n, ok |-> TRUE]

\* The frames that wait came after the one in hand, and decode.
Waiting ==
  /\ \A i \in DOMAIN rawCh : rawCh[i] > cur /\ arrived[rawCh[i]].decodable
  /\ \A i, j \in DOMAIN rawCh : i < j => rawCh[i] < rawCh[j]

\* What the parser has established about the frame in hand at each place.
InHand ==
  /\ pc # "idle" => Msg.decodable
  /\ pc = "status" => Msg.known /\ Msg.kind = "data"
  /\ pc = "fragment" => Passed(Msg) /\ Msg.kind = "fragment"
  /\ pc \in {"params", "report"} =>
       /\ Passed(Msg) /\ Msg.kind \in {"data", "fragment"}
       /\ Msg.kind = "data" => Answered(cur, statuses)
  /\ pc = "report" => \A v \in values : v[1] = cur
  /\ pc \in {"control", "flag"} => Passed(Msg) /\ Msg.kind = "control"
  /\ ResourcesFlag =>
       pc = "flag" /\ Msg.handler = "params" /\ \A v \in Resources1 : v[1] = cur

\* The replies tell the truth, in the order of arrival, up to the frame in hand.
Replies ==
  /\ \A i \in DOMAIN statuses :
       /\ statuses[i].ok = arrived[statuses[i].frame].sound
       /\ statuses[i].frame <= cur
       /\ pc \in {"check", "status"} => statuses[i].frame < cur
  /\ \A i, j \in DOMAIN statuses : i < j => statuses[i].frame < statuses[j].frame

\* What has been taken, the frame in hand last.
TakenSoFar ==
  /\ \A n \in taken : n <= cur
  /\ pc # "idle" => cur \in taken

\* The frames that have a reply.
Replied == {statuses[i].frame : i \in DOMAIN statuses}
AllAnswered == Replied = ToAnswer

\* What a report may be.
Reported(r, messages, replies) ==
  /\ r.values # {} /\ \A v \in r.values : v[1] = r.frame
  /\ Passed(messages[r.frame])
  /\ messages[r.frame].kind \in {"data", "fragment"} \/ messages[r.frame].handler = "params"
  /\ messages[r.frame].kind = "data" => Answered(r.frame, replies)
AllReported == \A k \in DOMAIN Reports : Reported(Reports[k], arrived, statuses)

\* The reports, those the SDK has taken first, are in the order of arrival and stay
\* behind the frame in hand.
Ordered ==
  /\ \A k \in DOMAIN Reports :
       Reports[k].frame <= cur /\ (pc # "idle" => Reports[k].frame < cur)
  /\ \A j, k \in DOMAIN Reports : j < k => Reports[j].frame < Reports[k].frame

IInv ==
  /\ TypeOK /\ Waiting /\ InHand /\ Replies /\ Ordered /\ TakenSoFar /\ AllAnswered
  /\ AllReported
-----------------------------------------------------------------------------
\* What Append does, element by element.
LEMMA Appended ==
  ASSUME NEW S, NEW s \in Seq(S), NEW e
  PROVE  /\ DOMAIN s = 1..Len(s) /\ Len(s) \in Nat
         /\ DOMAIN Append(s, e) = 1..Len(s) + 1 /\ Len(Append(s, e)) = Len(s) + 1
         /\ \A i \in DOMAIN s : i \in DOMAIN Append(s, e) /\ Append(s, e)[i] = s[i]
         /\ Append(s, e)[Len(s) + 1] = e
         /\ \A i \in DOMAIN Append(s, e) : i \in DOMAIN s \/ i = Len(s) + 1
OBVIOUS

\* What Tail does, element by element.
LEMMA Shifted ==
  ASSUME NEW S, NEW s \in Seq(S), s # <<>>
  PROVE  /\ DOMAIN s = 1..Len(s) /\ Len(s) \in Nat /\ Len(s) >= 1
         /\ Tail(s) \in Seq(S) /\ Len(Tail(s)) = Len(s) - 1
         /\ \A i \in DOMAIN Tail(s) : i + 1 \in DOMAIN s /\ Tail(s)[i] = s[i + 1]
         /\ 1 \in DOMAIN s /\ Head(s) = s[1] /\ Head(s) \in S
OBVIOUS

\* A set of naturals that is not empty has a least element.
LEMMA LeastElement ==
  ASSUME NEW T, T \subseteq Nat, T # {}
  PROVE  \E n \in T : \A m \in T : n <= m
<1>1. PICK n \in T : \A m \in T : <<m, n>> \notin OpToRel(<, Nat)
  BY WFMin, NatLessThanWellFounded, Zenon
<1>2. ASSUME NEW m \in T, m < n PROVE FALSE
  BY <1>1, <1>2, Zenon DEF OpToRel
<1> QED BY <1>2

\* A message of the model.
LEMMA MessageOf ==
  ASSUME TypeOK, NEW n \in Numbers
  PROVE  arrived[n] \in Message /\ arrived[n].params \in Seq(Outcome)
<1>1. arrived[n] \in Messages
  BY DEF TypeOK, Numbers
<1>2. arrived[n] \in Message
  BY <1>1, MessagesAssumption
<1> QED BY <1>2 DEF Message

\* The parameters are read up to a place among them.
LEMMA EndInRange ==
  ASSUME NEW ps \in Seq(Outcome)
  PROVE  End(ps) \in 0..Len(ps)
<1> DEFINE Over == {i \in DOMAIN ps : ps[i] = "overrun"}
<1>0. DOMAIN ps = 1..Len(ps) /\ Len(ps) \in Nat
  OBVIOUS
<1>1. CASE Over = {}
  BY <1>0, <1>1 DEF End
<1>2. CASE Over # {}
  <2>1. Over \subseteq Nat
    BY <1>0
  <2>2. PICK n \in Over : \A m \in Over : n <= m
    BY <1>2, <2>1, LeastElement, Zenon
  <2>3. End(ps) \in Over
    BY <1>2, <2>2 DEF End
  <2> QED BY <1>0, <2>3
<1> QED BY <1>1, <1>2

\* Values found in the frame in hand are its own.
LEMMA FoundValues ==
  ASSUME NEW ps \in Seq(Outcome), NEW n \in Int, n <= Len(ps), cur \in Numbers
  PROVE  /\ Found(SubSeq(ps, 1, n)) \subseteq Numbers \X Nat
         /\ \A v \in Found(SubSeq(ps, 1, n)) : v[1] = cur
<1>1. DOMAIN SubSeq(ps, 1, n) \subseteq Nat
  <2>1. \A i \in 1..n : ps[i] \in Outcome
    BY ElementOfSeq
  <2>2. SubSeq(ps, 1, n) \in Seq(Outcome)
    BY <2>1, SubSeqProperties
  <2> QED BY <2>2
<1> QED BY <1>1 DEF Found

-----------------------------------------------------------------------------
\* No message has come: every property holds of nothing.
LEMMA InitInvariant == Init => IInv
<1> SUFFICES ASSUME Init PROVE IInv
  OBVIOUS
<1> USE DEF Init
<1>1. TypeOK
  <2>1. \A S : <<>> \in Seq(S)
    BY EmptySeq
  <2>2. Len(<<>>) <= RawCap /\ Len(<<>>) <= WriteCap /\ Len(<<>>) <= AsyncCap
    BY CapacityAssumption
  <2> QED BY <2>1, <2>2, Zenon DEF TypeOK
<1>2. Reports = <<>>
  BY DEF Reports
<1>3. TakenSoFar /\ AllAnswered
  BY DEF TakenSoFar, AllAnswered, Replied, ToAnswer
<1>4. Waiting /\ InHand /\ Replies /\ Ordered /\ AllReported
  BY <1>2 DEF Waiting, InHand, Replies, Ordered, AllReported
<1> QED BY <1>1, <1>3, <1>4 DEF IInv

\* What has arrived stays as it is.
LEMMA ArrivedGrows ==
  ASSUME TypeOK, [Next]_vars
  PROVE  /\ arrived' \in Seq(Messages)
         /\ Numbers \subseteq Numbers'
         /\ \A n \in Numbers : arrived'[n] = arrived[n]
         /\ UNCHANGED arrived \/ Len(arrived') = Len(arrived) + 1
<1> USE DEF TypeOK, Numbers
<1>1. ASSUME NEW m \in Messages, sinkMsgHandler(m)
      PROVE  /\ arrived' \in Seq(Messages)
             /\ Numbers \subseteq Numbers'
             /\ \A n \in Numbers : arrived'[n] = arrived[n]
             /\ Len(arrived') = Len(arrived) + 1
  BY <1>1 DEF sinkMsgHandler
<1>2. CASE Parser \/ Consume \/ RemoveDevice \/ Stop \/ UNCHANGED vars
  <2>1. UNCHANGED arrived
    BY <1>2 DEF Parser, Take, Check, SendDataStatus, ProcessFrame, ParseParams,
                common_para_response, PlainControl,
                resetCommands, ReportControl, ReportParams, Panic, Consume, RemoveDevice,
                Stop, vars
  <2> QED BY <2>1
<1> QED BY <1>1, <1>2 DEF Next
\* The sets of numbers and of reports grow with the messages.
LEMMA TypesGrow ==
  ASSUME TypeOK, [Next]_vars
  PROVE  /\ Numbers \subseteq Numbers' /\ ReportType \subseteq ReportType'
         /\ \A s \in Seq(Numbers) : s \in Seq(Numbers')
         /\ \A s \in Seq(ReportType) : s \in Seq(ReportType')
         /\ \A s \in Seq([frame : Numbers, ok : BOOLEAN]) :
               s \in Seq([frame : Numbers', ok : BOOLEAN])
         /\ \A vs : vs \subseteq Numbers \X Nat => vs \subseteq Numbers' \X Nat
         /\ Len(arrived) + 1 \in Numbers' <=> Len(arrived') = Len(arrived) + 1
<1>1. Numbers \subseteq Numbers'
  BY ArrivedGrows
<1>2. ReportType \subseteq ReportType'
  BY <1>1 DEF ReportType
<1>3. [frame : Numbers, ok : BOOLEAN] \subseteq [frame : Numbers', ok : BOOLEAN]
  BY <1>1
<1>4. \A s \in Seq(Numbers) : s \in Seq(Numbers')
  BY <1>1, SeqMonotonic, Zenon
<1>5. \A s \in Seq(ReportType) : s \in Seq(ReportType')
  BY <1>2, SeqMonotonic, Zenon
<1>6. \A s \in Seq([frame : Numbers, ok : BOOLEAN]) :
         s \in Seq([frame : Numbers', ok : BOOLEAN])
  BY <1>3, SeqMonotonic, Zenon
<1>7. \A vs : vs \subseteq Numbers \X Nat => vs \subseteq Numbers' \X Nat
  BY <1>1
<1>8. Len(arrived) + 1 \in Numbers' <=> Len(arrived') = Len(arrived) + 1
  BY ArrivedGrows DEF TypeOK, Numbers
<1> QED BY <1>1, <1>2, <1>4, <1>5, <1>6, <1>7, <1>8

\* What AsyncReporting puts is a report of the frame in hand.
LEMMA ReportedType ==
  ASSUME TypeOK, cur # 0, NEW vs, vs \subseteq Numbers \X Nat, AsyncReporting(vs)
  PROVE  asyncCh' \in Seq(ReportType) /\ Len(asyncCh') <= AsyncCap
<1>1. Report(vs) \in ReportType
  BY DEF Report, Reportable, ReportType, TypeOK
<1>2. asyncCh \in Seq(ReportType) /\ Len(asyncCh) <= AsyncCap /\ AsyncCap \in Nat
  BY CapacityAssumption DEF TypeOK
<1>3. CASE UNCHANGED asyncCh
  BY <1>2, <1>3
<1>4. CASE Len(asyncCh) < AsyncCap /\ asyncCh' = Append(asyncCh, Report(vs))
  <2> HIDE DEF ReportType, Report
  <2> QED BY <1>1, <1>2, <1>4
<1> QED BY <1>3, <1>4 DEF AsyncReporting

\* Types and capacities.
LEMMA StepTypes == TypeOK /\ [Next]_vars => TypeOK'
<1> SUFFICES ASSUME TypeOK, [Next]_vars PROVE TypeOK'
  OBVIOUS
<1> DEFINE Statuses == Seq([frame : Numbers, ok : BOOLEAN])
<1> USE DEF Places
<1>0. /\ up \in BOOLEAN /\ gone \in BOOLEAN /\ taken \subseteq Numbers
      /\ writeOpen \in BOOLEAN /\ ResourcesFlag \in BOOLEAN
      /\ pc \in Places
      /\ cur \in Numbers \cup {0} /\ (pc # "idle" => cur # 0)
      /\ rawCh \in Seq(Numbers) /\ Len(rawCh) <= RawCap
      /\ writeCh \in Seq(Numbers) /\ Len(writeCh) <= WriteCap
      /\ values \subseteq Numbers \X Nat /\ Resources1 \subseteq Numbers \X Nat
      /\ statuses \in Statuses
      /\ asyncCh \in Seq(ReportType) /\ Len(asyncCh) <= AsyncCap
      /\ forwarded \in Seq(ReportType)
      /\ RawCap \in Nat /\ AsyncCap \in Nat /\ WriteCap \in Nat
  BY CapacityAssumption DEF TypeOK
<1>a. arrived' \in Seq(Messages)
  BY ArrivedGrows
\* With the sets as they are, the conclusion is this.
<1>b. ASSUME /\ up' \in BOOLEAN /\ gone' \in BOOLEAN /\ taken' \subseteq Numbers
             /\ writeOpen' \in BOOLEAN /\ ResourcesFlag' \in BOOLEAN
             /\ pc' \in Places
             /\ cur' \in Numbers \cup {0} /\ (pc' # "idle" => cur' # 0)
             /\ rawCh' \in Seq(Numbers') /\ Len(rawCh') <= RawCap
             /\ writeCh' \in Seq(Numbers) /\ Len(writeCh') <= WriteCap
             /\ values' \subseteq Numbers \X Nat /\ Resources1' \subseteq Numbers \X Nat
             /\ statuses' \in Statuses
             /\ asyncCh' \in Seq(ReportType) /\ Len(asyncCh') <= AsyncCap
             /\ forwarded' \in Seq(ReportType)
      PROVE  TypeOK'
  <2>1. cur' \in Numbers' \cup {0}
    BY <1>b, TypesGrow
  <2>2. statuses' \in Seq([frame : Numbers', ok : BOOLEAN])
    BY <1>b, TypesGrow
  <2>3. writeCh' \in Seq(Numbers')
    BY <1>b, TypesGrow
  <2>4. asyncCh' \in Seq(ReportType') /\ forwarded' \in Seq(ReportType')
    BY <1>b, TypesGrow
  <2>5. /\ values' \subseteq Numbers' \X Nat /\ Resources1' \subseteq Numbers' \X Nat
        /\ taken' \subseteq Numbers'
    BY <1>b, TypesGrow
  <2> QED BY <1>a, <1>b, <2>1, <2>2, <2>3, <2>4, <2>5, Zenon DEF TypeOK
<1> DEFINE Inside == rawCh' \in Seq(Numbers) /\ Len(rawCh') <= RawCap
<1>c. Inside => rawCh' \in Seq(Numbers') /\ Len(rawCh') <= RawCap
  BY TypesGrow, Zenon
<1>1. ASSUME NEW m \in Messages, sinkMsgHandler(m) PROVE TypeOK'
  <2>1. rawCh' \in Seq(Numbers') /\ Len(rawCh') <= RawCap
    <3>1. CASE UNCHANGED rawCh
      BY <3>1, <1>0, <1>c
    <3>2. CASE rawCh' = Append(rawCh, Len(arrived) + 1) /\ Len(rawCh) < RawCap
      <4>1. Len(arrived) + 1 \in Numbers'
        BY <1>1, ArrivedGrows DEF sinkMsgHandler, TypeOK, Numbers
      <4>2. rawCh \in Seq(Numbers')
        BY <1>0, TypesGrow, Zenon
      <4> QED BY <3>2, <4>1, <4>2, <1>0
    <3> QED BY <1>1, <3>1, <3>2 DEF sinkMsgHandler, Put
  <2> QED BY <1>0, <1>b, <1>1, <2>1, Zenon DEF sinkMsgHandler
<1>2. CASE Take
  <2>1. Head(rawCh) \in Numbers /\ Tail(rawCh) \in Seq(Numbers) /\ Len(Tail(rawCh)) <= RawCap
    BY <1>0, <1>2, Shifted DEF Take
  <2>2. cur' # 0
    BY <1>2, <2>1 DEF Take, TypeOK, Numbers
  <2>3. /\ Inside /\ cur' \in Numbers \cup {0} /\ pc' = "check" /\ values' = {}
        /\ gone' = FALSE /\ taken' \subseteq Numbers
    BY <1>0, <1>2, <2>1 DEF Take
  <2>4. {} \subseteq Numbers \X Nat
    OBVIOUS
  <2> QED BY <1>0, <1>b, <1>c, <1>2, <2>2, <2>3, <2>4 DEF Take
<1>3. CASE Check \/ ProcessFrame
  <2>1. cur \in Numbers /\ cur # 0
    BY <1>0, <1>3 DEF Check, ProcessFrame
  <2>2. pc' \in Places
    <3>1. Msg.kind \in {"data", "control", "other", "fragment"}
      BY <2>1, MessageOf DEF Msg, Message
    <3>2. Msg.known \in BOOLEAN /\ Msg.sound \in BOOLEAN
      BY <2>1, MessageOf DEF Msg, Message
    <3> QED BY <1>3, <3>1, <3>2 DEF Check, ProcessFrame, Dispatch
  <2>3. Inside
    BY <1>0, <1>3 DEF Check, ProcessFrame
  <2> QED BY <1>0, <1>b, <1>c, <1>3, <2>1, <2>2, <2>3, Zenon DEF Check, ProcessFrame
<1>11. CASE SendDataStatus
  <2>1. /\ cur \in Numbers /\ cur # 0 /\ Msg.sound \in BOOLEAN /\ Msg.known \in BOOLEAN
        /\ Msg.kind \in {"data", "control", "other", "fragment"}
    <3>1. cur \in Numbers /\ cur # 0
      BY <1>0, <1>11 DEF SendDataStatus
    <3> QED BY <3>1, MessageOf DEF Msg, Message
  <2>2. statuses' \in Statuses
    <3> DEFINE Reply == [frame : Numbers, ok : BOOLEAN]
               new == [frame |-> cur, ok |-> Msg.sound]
    <3>1. statuses \in Seq(Reply) /\ new \in Reply
      BY <1>0, <2>1
    <3>2. statuses' = Append(statuses, new)
      BY <1>11 DEF SendDataStatus
    <3> HIDE DEF Reply, new
    <3>3. statuses' \in Seq(Reply)
      BY <3>1, <3>2
    <3> QED BY <3>3 DEF Reply
  <2>3. pc' \in Places
    BY <1>11, <2>1 DEF SendDataStatus, Dispatch
  <2>4. Inside
    BY <1>0, <1>11 DEF SendDataStatus
  <2> QED BY <1>0, <1>b, <1>c, <1>11, <2>1, <2>2, <2>3, <2>4, Zenon DEF SendDataStatus
<1>4. CASE ParseParams
  <2>1. cur \in Numbers
    BY <1>0, <1>4 DEF ParseParams
  <2>2. Msg.params \in Seq(Outcome)
    BY <2>1, MessageOf DEF Msg
  <2>3. PICK n \in Int : n <= Len(Msg.params) /\ values' = Found(SubSeq(Msg.params, 1, n))
    BY <1>4, <2>2, EndInRange DEF ParseParams
  <2>4. values' \subseteq Numbers \X Nat
    BY <2>1, <2>2, <2>3, FoundValues
  <2>5. pc' = "report" /\ cur # 0 /\ Inside
    BY <1>0, <1>4 DEF ParseParams
  <2> QED BY <1>0, <1>b, <1>c, <1>4, <2>4, <2>5 DEF ParseParams
<1>5. CASE common_para_response
  <2>1. cur \in Numbers
    BY <1>0, <1>5 DEF common_para_response
  <2>2. Msg.params \in Seq(Outcome)
    BY <2>1, MessageOf DEF Msg
  <2>3. End(Msg.params) - 1 \in Int /\ End(Msg.params) - 1 <= Len(Msg.params)
    BY <2>2, EndInRange
  <2>4. Resources1' \subseteq Numbers \X Nat
    <3>1. Found(SubSeq(Msg.params, 1, End(Msg.params) - 1)) \subseteq Numbers \X Nat
      BY <2>1, <2>2, <2>3, FoundValues
    <3>2. Resources1' \subseteq Found(SubSeq(Msg.params, 1, End(Msg.params) - 1))
      BY <1>5 DEF common_para_response
    <3> QED BY <3>1, <3>2, Zenon
  <2>5. pc' = "flag" /\ cur # 0 /\ Inside /\ ResourcesFlag' = TRUE
    BY <1>0, <1>5 DEF common_para_response
  <2> QED BY <1>0, <1>b, <1>c, <1>5, <2>4, <2>5 DEF common_para_response
<1>6. CASE PlainControl
  <2>1. pc' = "flag" /\ cur # 0 /\ Inside
    BY <1>0, <1>6 DEF PlainControl
  <2> QED BY <1>0, <1>b, <1>c, <1>6, <2>1 DEF PlainControl
<1>7. CASE resetCommands
  <2>1. pc' = "flag" /\ cur # 0 /\ cur \in Numbers /\ Inside
    BY <1>0, <1>7 DEF resetCommands
  <2>2. writeCh' \in Seq(Numbers) /\ Len(writeCh') <= WriteCap
    BY <1>0, <1>7, <2>1 DEF resetCommands
  <2> QED BY <1>0, <1>b, <1>c, <1>7, <2>1, <2>2 DEF resetCommands
<1>8. CASE ReportControl \/ ReportParams
  <2>1. asyncCh' \in Seq(ReportType) /\ Len(asyncCh') <= AsyncCap
    BY <1>0, <1>8, ReportedType DEF ReportControl, ReportParams
  <2>2. pc' = "idle" /\ Inside /\ ResourcesFlag' \in BOOLEAN
    BY <1>0, <1>8 DEF ReportControl, ReportParams
  <2> QED BY <1>0, <1>b, <1>c, <1>8, <2>1, <2>2 DEF ReportControl, ReportParams
<1>9. CASE Consume
  <2>1. /\ asyncCh' \in Seq(ReportType) /\ Len(asyncCh') <= AsyncCap
        /\ forwarded' \in Seq(ReportType)
    <3> HIDE DEF ReportType
    <3>1. asyncCh # <<>> /\ asyncCh' = Tail(asyncCh) /\ forwarded' = Append(forwarded,
          Head(asyncCh))
      BY <1>9 DEF Consume
    <3>2. Head(asyncCh) \in ReportType /\ Tail(asyncCh) \in Seq(ReportType)
          /\ Len(Tail(asyncCh)) = Len(asyncCh) - 1 /\ Len(asyncCh) \in Nat
      BY <1>0, <3>1, Shifted
    <3>3. forwarded' \in Seq(ReportType)
      BY <1>0, <3>1, <3>2, AppendProperties, Zenon
    <3> QED BY <1>0, <3>1, <3>2, <3>3
  <2>2. Inside
    BY <1>0, <1>9 DEF Consume
  <2> QED BY <1>0, <1>b, <1>c, <1>9, <2>1, <2>2, Zenon DEF Consume
<1>10. CASE Panic \/ RemoveDevice \/ Stop \/ UNCHANGED vars
  <2>1. /\ UNCHANGED <<pc, cur, taken, values, Resources1, ResourcesFlag, rawCh,
                        statuses, asyncCh, forwarded, writeCh>>
        /\ up' \in BOOLEAN /\ gone' \in BOOLEAN /\ writeOpen' \in BOOLEAN
    BY <1>0, <1>10 DEF Panic, RemoveDevice, Stop, vars
  <2>2. Inside
    BY <1>0, <2>1
  <2> QED BY <1>0, <1>b, <1>c, <2>1, <2>2
<1> QED BY <1>1, <1>2, <1>3, <1>4, <1>5, <1>6, <1>7, <1>8, <1>9, <1>10, <1>11 DEF Next, Parser
-----------------------------------------------------------------------------
\* The reports change when the parser is done with a frame, by one of its own at
\* the end; the SDK's taking one changes nothing about them.
LEMMA ReportsStep ==
  ASSUME TypeOK, [Next]_vars
  PROVE  /\ Reports \in Seq(ReportType)
         /\ \/ Reports' = Reports
            \/ /\ pc' = "idle" /\ UNCHANGED <<arrived, cur, statuses>>
               /\ \E vs : /\ Reportable(vs) # {} /\ Reports' = Append(Reports, Report(vs))
                         /\ \/ pc = "report" /\ vs = values
                            \/ pc = "flag" /\ ResourcesFlag /\ vs = Resources1
<1>0. asyncCh \in Seq(ReportType) /\ forwarded \in Seq(ReportType)
  BY DEF TypeOK
<1>1. Reports \in Seq(ReportType)
  BY <1>0, ConcatProperties, Zenon DEF Reports
<1>2. ASSUME UNCHANGED <<asyncCh, forwarded>> PROVE Reports' = Reports
  BY <1>2 DEF Reports
<1>3. ASSUME Consume PROVE Reports' = Reports
  <2> DEFINE T == ReportType
  <2>1. /\ asyncCh # <<>> /\ asyncCh' = Tail(asyncCh)
        /\ forwarded' = Append(forwarded, Head(asyncCh))
    BY <1>3 DEF Consume
  <2>2. asyncCh \in Seq(T) /\ forwarded \in Seq(T)
    BY <1>0
  <2> HIDE DEF T
  <2>3. Append(forwarded, Head(asyncCh)) \o Tail(asyncCh) = forwarded \o asyncCh
    BY <2>1, <2>2
  <2> QED BY <2>1, <2>3 DEF Reports
<1>4. ASSUME NEW vs, vs \subseteq Numbers \X Nat, cur # 0, AsyncReporting(vs),
      UNCHANGED forwarded
      PROVE  \/ Reports' = Reports
             \/ Reportable(vs) # {} /\ Reports' = Append(Reports, Report(vs))
  <2> DEFINE T == ReportType
             r == Report(vs)
  <2>1. CASE UNCHANGED asyncCh
    BY <1>2, <1>4, <2>1
  <2>2. CASE Reportable(vs) # {} /\ asyncCh' = Append(asyncCh, r)
    <3>1. r \in T
      BY <1>4 DEF Report, Reportable, ReportType, TypeOK
    <3>2. asyncCh \in Seq(T) /\ forwarded \in Seq(T) /\ Reports \in Seq(T)
      BY <1>0, <1>1
    <3>3. asyncCh' = Append(asyncCh, r) /\ forwarded' = forwarded
      BY <1>4, <2>2
    <3> HIDE DEF T, r
    <3>4. forwarded \o Append(asyncCh, r) = Append(forwarded \o asyncCh, r)
      BY <3>1, <3>2
    <3>5. Reports' = Append(Reports, r)
      BY <3>3, <3>4 DEF Reports
    <3> QED BY <2>2, <3>5 DEF r
  <2> QED BY <1>4, <2>1, <2>2 DEF AsyncReporting
<1>5. CASE ReportParams
  <2>1. values \subseteq Numbers \X Nat /\ cur # 0 /\ UNCHANGED forwarded
        /\ AsyncReporting(values) /\ pc = "report" /\ pc' = "idle"
        /\ UNCHANGED <<arrived, cur, statuses>>
    BY <1>5 DEF ReportParams, TypeOK
  <2> QED BY <1>1, <1>4, <2>1, Zenon
<1>6. CASE ReportControl /\ ResourcesFlag
  <2>1. Resources1 \subseteq Numbers \X Nat /\ cur # 0 /\ UNCHANGED forwarded
        /\ AsyncReporting(Resources1) /\ pc = "flag" /\ pc' = "idle"
        /\ UNCHANGED <<arrived, cur, statuses>>
    BY <1>6 DEF ReportControl, TypeOK
  <2> QED BY <1>1, <1>4, <1>6, <2>1, Zenon
<1>7. CASE ReportControl /\ ~ResourcesFlag
  BY <1>1, <1>2, <1>7 DEF ReportControl
<1>8. CASE (\E m \in Messages : sinkMsgHandler(m)) \/ Take \/ Check \/ SendDataStatus
      \/ ProcessFrame \/ ParseParams
           \/ common_para_response \/ PlainControl \/ resetCommands \/ Panic
           \/ RemoveDevice \/ Stop
           \/ UNCHANGED vars
  <2>1. UNCHANGED <<asyncCh, forwarded>>
    BY <1>8 DEF sinkMsgHandler, Take, Check, SendDataStatus, ProcessFrame, ParseParams,
                common_para_response, PlainControl,
                resetCommands, Panic, RemoveDevice, Stop, vars
  <2> QED BY <1>1, <1>2, <2>1
<1> QED BY <1>1, <1>3, <1>5, <1>6, <1>7, <1>8, Zenon DEF Next, Parser

\* Replies once given stay, and every message keeps its number.
LEMMA RepliesStep ==
  ASSUME TypeOK, [Next]_vars
  PROVE  /\ statuses \in Seq([frame : Numbers, ok : BOOLEAN])
         /\ \/ UNCHANGED statuses
            \/ /\ pc = "status" /\ UNCHANGED <<arrived, cur, taken>>
               /\ pc' \notin {"check", "status"}
               /\ statuses' = Append(statuses, [frame |-> cur, ok |-> Msg.sound])
         /\ \A n : Answered(n, statuses) => Answered(n, statuses')
<1>1. statuses \in Seq([frame : Numbers, ok : BOOLEAN])
  BY DEF TypeOK
<1>2. \/ UNCHANGED statuses
      \/ /\ pc = "status" /\ UNCHANGED <<arrived, cur, taken>>
         /\ pc' \notin {"check", "status"}
         /\ statuses' = Append(statuses, [frame |-> cur, ok |-> Msg.sound])
  <2>1. Next => UNCHANGED statuses \/ SendDataStatus
    BY DEF Next, Parser, sinkMsgHandler, Take, Check, SendDataStatus, ProcessFrame,
           ParseParams, common_para_response,
         PlainControl, resetCommands, ReportControl, ReportParams, Panic, Consume,
         RemoveDevice, Stop, vars
  <2>2. UNCHANGED vars => UNCHANGED statuses
    BY DEF vars
  <2>3. SendDataStatus => pc' \notin {"check", "status"}
    <3> SUFFICES ASSUME SendDataStatus PROVE pc' \notin {"check", "status"}
      OBVIOUS
    <3>1. cur \in Numbers
      BY DEF SendDataStatus, TypeOK
    <3>2. /\ Msg.kind \in {"data", "control", "other", "fragment"}
          /\ Msg.known \in BOOLEAN /\ Msg.sound \in BOOLEAN
      BY <3>1, MessageOf DEF Msg, Message
    <3> QED BY <3>2 DEF SendDataStatus, Dispatch
  <2> QED BY <2>1, <2>2, <2>3 DEF SendDataStatus
<1>3. \A i \in DOMAIN statuses : i \in DOMAIN statuses' /\ statuses'[i] = statuses[i]
  BY <1>1, <1>2, Appended
<1> QED BY <1>1, <1>2, <1>3 DEF Answered
\* The frames that wait stay in the order of arrival, behind the one in hand.
LEMMA StepWaiting == IInv /\ [Next]_vars => Waiting'
<1> SUFFICES ASSUME TypeOK, Waiting, [Next]_vars PROVE Waiting'
  BY DEF IInv
<1>0. /\ rawCh \in Seq(Numbers) /\ Numbers = 1..Len(arrived) /\ Len(arrived) \in Nat
      /\ cur \in Numbers \cup {0}
      /\ \A i \in DOMAIN rawCh : rawCh[i] \in Numbers
  BY DEF TypeOK, Numbers
<1>1. ASSUME NEW m \in Messages, sinkMsgHandler(m) PROVE Waiting'
  <2>1. UNCHANGED cur /\ arrived' = Append(arrived, m)
    BY <1>1 DEF sinkMsgHandler
  <2>2. \A n \in Numbers : arrived'[n] = arrived[n]
    BY ArrivedGrows
  <2>3. CASE UNCHANGED rawCh
    BY <1>0, <2>1, <2>2, <2>3 DEF Waiting
  <2>4. CASE m.decodable /\ rawCh' = Append(rawCh, Len(arrived) + 1)
    <3> DEFINE new == Len(arrived) + 1
    <3>1. arrived'[new] = m /\ m.decodable
      BY <2>1, <2>4 DEF TypeOK
    <3>2. /\ \A i \in DOMAIN rawCh' : i \in DOMAIN rawCh \/ i = Len(rawCh) + 1
          /\ \A i \in DOMAIN rawCh : i < Len(rawCh) + 1 /\ rawCh'[i] = rawCh[i]
          /\ rawCh'[Len(rawCh) + 1] = new
          /\ Len(rawCh) \in Nat /\ DOMAIN rawCh \subseteq Nat
      BY <1>0, <2>4, Appended
    <3>3. new > cur /\ \A i \in DOMAIN rawCh : rawCh[i] < new /\ rawCh[i] \in Nat
      BY <1>0
    <3> HIDE DEF new
    <3>4. \A i \in DOMAIN rawCh' : rawCh'[i] > cur' /\ arrived'[rawCh'[i]].decodable
      <4>1. \A i \in DOMAIN rawCh : rawCh[i] > cur /\ arrived'[rawCh[i]].decodable
        BY <1>0, <2>2 DEF Waiting
      <4>2. new > cur' /\ arrived'[new].decodable /\ cur' = cur
        BY <2>1, <3>1, <3>3
      <4> QED BY <3>2, <4>1, <4>2
    <3>5. \A i, j \in DOMAIN rawCh' : i < j => rawCh'[i] < rawCh'[j]
      BY <3>2, <3>3 DEF Waiting
    <3> QED BY <3>4, <3>5 DEF Waiting
  <2> QED BY <1>1, <2>3, <2>4 DEF sinkMsgHandler, Put
<1>2. CASE Take
  <2>1. rawCh # <<>> /\ rawCh' = Tail(rawCh) /\ cur' = Head(rawCh) /\ UNCHANGED arrived
    BY <1>2 DEF Take
  <2>2. /\ \A i \in DOMAIN rawCh' : i + 1 \in DOMAIN rawCh /\ rawCh'[i] = rawCh[i + 1]
        /\ cur' = rawCh[1] /\ 1 \in DOMAIN rawCh
        /\ DOMAIN rawCh \subseteq Nat \ {0} /\ DOMAIN rawCh' \subseteq Nat \ {0}
    BY <1>0, <2>1, Shifted
  <2>3. \A i \in DOMAIN rawCh' : 1 < i + 1
    BY <2>2
  <2>4. \A i, j \in DOMAIN rawCh' : i < j => i + 1 < j + 1
    BY <2>2
  <2>5. \A i \in DOMAIN rawCh : rawCh[i] \in Nat
    BY <1>0
  <2> QED BY <2>1, <2>2, <2>3, <2>4, <2>5 DEF Waiting
<1>3. CASE UNCHANGED <<rawCh, cur, arrived>>
  BY <1>3 DEF Waiting
<1>4. CASE Check \/ SendDataStatus \/ ProcessFrame \/ ParseParams \/ common_para_response
           \/ PlainControl \/ resetCommands
           \/ ReportControl \/ ReportParams \/ Panic \/ Consume \/ RemoveDevice \/ Stop
           \/ UNCHANGED vars
  <2>1. UNCHANGED <<rawCh, cur, arrived>>
    BY <1>4 DEF Check, SendDataStatus, ProcessFrame, ParseParams, common_para_response,
                PlainControl, resetCommands,
                ReportControl, ReportParams, Panic, Consume, RemoveDevice, Stop, vars
  <2> QED BY <1>3, <2>1
<1> QED BY <1>1, <1>2, <1>4 DEF Next, Parser

\* The replies stay true and in order.
LEMMA StepReplies == IInv /\ [Next]_vars => Replies'
<1> SUFFICES ASSUME TypeOK, Waiting, Replies, [Next]_vars PROVE Replies'
  BY DEF IInv
<1>0. /\ Numbers = 1..Len(arrived) /\ Len(arrived) \in Nat /\ cur \in Numbers \cup {0}
      /\ \A i \in DOMAIN statuses : statuses[i].frame \in Numbers
      /\ \A n \in Numbers : arrived'[n] = arrived[n]
  <2>1. Numbers = 1..Len(arrived) /\ Len(arrived) \in Nat /\ cur \in Numbers \cup {0}
    BY DEF TypeOK, Numbers
  <2>2. \A i \in DOMAIN statuses : statuses[i].frame \in Numbers
    <3> DEFINE Reply == [frame : Numbers, ok : BOOLEAN]
    <3>1. statuses \in Seq(Reply)
      BY RepliesStep
    <3>2. \A r \in Reply : r.frame \in Numbers
      OBVIOUS
    <3> HIDE DEF Reply
    <3> QED BY <3>1, <3>2
  <2>3. \A n \in Numbers : arrived'[n] = arrived[n]
    BY ArrivedGrows
  <2> QED BY <2>1, <2>2, <2>3
<1>1. CASE UNCHANGED statuses
  <2>1. CASE UNCHANGED <<cur, pc>>
    BY <1>0, <1>1, <2>1 DEF Replies
  <2>2. CASE Take
    <3>1. cur' > cur /\ cur' \in Numbers
      BY <1>0, <2>2, Shifted DEF Take, Waiting, TypeOK
    <3> QED BY <1>0, <1>1, <3>1 DEF Replies
  <2>3. CASE UNCHANGED cur /\ pc' \notin {"check", "status"}
    BY <1>0, <1>1, <2>3 DEF Replies
  <2>4. CASE UNCHANGED cur /\ pc = "check"
    BY <1>0, <1>1, <2>4 DEF Replies
  <2>5. (\E m \in Messages : sinkMsgHandler(m)) \/ Panic \/ Consume \/ RemoveDevice \/ Stop
        \/ UNCHANGED vars => UNCHANGED <<cur, pc>>
    BY DEF sinkMsgHandler, Panic, Consume, RemoveDevice, Stop, vars
  <2>6. ProcessFrame \/ ParseParams \/ common_para_response \/ PlainControl \/ resetCommands
        \/ ReportControl \/ ReportParams => UNCHANGED cur /\ pc' \notin {"check", "status"}
    BY DEF ProcessFrame, ParseParams, common_para_response, PlainControl, resetCommands,
           ReportControl, ReportParams
  <2>7. Check => UNCHANGED cur /\ pc = "check"
    BY DEF Check
  <2>8. ~SendDataStatus
    <3> SUFFICES ASSUME SendDataStatus PROVE FALSE
      OBVIOUS
    <3>1. statuses' = Append(statuses, [frame |-> cur, ok |-> Msg.sound])
      BY DEF SendDataStatus
    <3> QED BY <1>1, <3>1, Appended, RepliesStep
  <2> QED BY <2>1, <2>2, <2>3, <2>4, <2>5, <2>6, <2>7, <2>8 DEF Next, Parser
<1>2. CASE /\ pc = "status" /\ UNCHANGED <<arrived, cur>> /\ pc' \notin {"check", "status"}
           /\ statuses' = Append(statuses, [frame |-> cur, ok |-> Msg.sound])
  <2> DEFINE new == [frame |-> cur, ok |-> Msg.sound]
  <2>1. pc = "status" /\ cur' = cur /\ cur \in Numbers /\ pc' \notin {"check", "status"}
    BY <1>2 DEF TypeOK
  <2>2. new.frame = cur /\ new.ok = arrived[cur].sound
    BY DEF Msg
  <2>3. /\ \A i \in DOMAIN statuses' : i \in DOMAIN statuses \/ i = Len(statuses) + 1
        /\ \A i \in DOMAIN statuses : statuses'[i] = statuses[i]
        /\ statuses'[Len(statuses) + 1] = new
        /\ DOMAIN statuses = 1..Len(statuses) /\ Len(statuses) \in Nat
    BY <1>2, Appended, RepliesStep
  <2> HIDE DEF new
  <2>4. \A i \in DOMAIN statuses :
          /\ statuses[i].ok = arrived[statuses[i].frame].sound
          /\ statuses[i].frame < cur
    BY <2>1 DEF Replies
  <2> QED BY <1>0, <2>1, <2>2, <2>3, <2>4 DEF Replies
<1> QED BY <1>1, <1>2, RepliesStep

\* What is taken comes after all that has been taken before.
LEMMA StepTaken == IInv /\ [Next]_vars => TakenSoFar'
<1> SUFFICES ASSUME TypeOK, Waiting, TakenSoFar, [Next]_vars PROVE TakenSoFar'
  BY DEF IInv
<1>0. cur \in Nat /\ taken \subseteq Nat
  BY DEF TypeOK, Numbers
<1>1. CASE Take
  <2>1. /\ cur' = rawCh[1] /\ 1 \in DOMAIN rawCh /\ taken' = taken \cup {cur'}
        /\ cur' > cur /\ cur' \in Nat
    BY <1>1, Shifted DEF Take, TypeOK, Waiting, Numbers
  <2> QED BY <1>0, <2>1 DEF TakenSoFar
<1>2. CASE ~Take
  <2>1. UNCHANGED <<cur, taken>> /\ (pc = "idle" => pc' = "idle")
    BY <1>2 DEF Next, Parser, sinkMsgHandler, Check, SendDataStatus, ProcessFrame, ParseParams,
           common_para_response, PlainControl, resetCommands, ReportControl, ReportParams,
           Panic,
           Consume, RemoveDevice, Stop, vars
  <2> QED BY <2>1 DEF TakenSoFar
<1> QED BY <1>1, <1>2

\* A frame is to be answered from the moment its reply is sent: taking one, and
\* dismissing one that is no data frame, leave the others as they are.
LEMMA StepToAnswer ==
  ASSUME IInv, [Next]_vars
  PROVE  ToAnswer' = IF SendDataStatus THEN ToAnswer \cup {cur} ELSE ToAnswer
<1>0. /\ \A n \in taken : n \in Numbers /\ arrived'[n] = arrived[n]
      /\ cur \in Nat /\ taken \subseteq Nat
  BY ArrivedGrows DEF IInv, TypeOK, Numbers
<1>1. CASE Take
  <2>1. /\ cur' = rawCh[1] /\ 1 \in DOMAIN rawCh /\ taken' = taken \cup {cur'}
        /\ cur' > cur /\ cur' \in Nat /\ pc' = "check" /\ pc = "idle" /\ UNCHANGED arrived
    BY <1>1, Shifted DEF Take, TypeOK, IInv, Waiting, Numbers
  <2>2. \A n \in taken : n # cur'
    BY <1>0, <2>1 DEF IInv, TakenSoFar
  <2>3. ~SendDataStatus
    BY <2>1 DEF SendDataStatus
  <2> QED BY <2>1, <2>2, <2>3 DEF ToAnswer
<1>2. CASE SendDataStatus
  <2>1. pc = "status" /\ UNCHANGED <<arrived, cur, taken>> /\ cur \in taken
        /\ arrived[cur].known /\ arrived[cur].kind = "data"
    BY <1>2 DEF SendDataStatus, IInv, TakenSoFar, InHand, Msg
  <2>2. pc' \notin {"check", "status"}
    <3>1. statuses' # statuses
      <4>1. statuses' = Append(statuses, [frame |-> cur, ok |-> Msg.sound])
        BY <1>2 DEF SendDataStatus
      <4> QED BY <4>1, Appended, RepliesStep DEF IInv
    <3> QED BY <3>1, RepliesStep DEF IInv
  <2> QED BY <1>2, <2>1, <2>2 DEF ToAnswer
<1>3. CASE Check
  <2>1. pc = "check" /\ UNCHANGED <<arrived, cur, taken>> /\ cur \in Numbers
    BY <1>3 DEF Check, IInv, TypeOK
  <2>2. /\ Msg.kind \in {"data", "control", "other", "fragment"}
        /\ Msg.known \in BOOLEAN /\ Msg.sound \in BOOLEAN
    BY <2>1, MessageOf DEF Msg, Message, IInv
  <2>3. ~(arrived[cur].known /\ arrived[cur].kind = "data") \/ pc' = "status"
    BY <1>3 DEF Check, Msg
  <2>4. ~SendDataStatus
    BY <2>1 DEF SendDataStatus
  <2> QED BY <2>1, <2>3, <2>4 DEF ToAnswer
<1>4. CASE ~Take /\ ~SendDataStatus /\ ~Check
  <2>1. /\ UNCHANGED <<cur, taken>>
        /\ pc \in {"check", "status"} <=> pc' \in {"check", "status"}
    BY <1>4 DEF Next, Parser, sinkMsgHandler, ProcessFrame, ParseParams,
           common_para_response, PlainControl, resetCommands, ReportControl, ReportParams,
           Panic,
           Consume, RemoveDevice, Stop, vars
  <2> QED BY <1>0, <1>4, <2>1 DEF ToAnswer
<1> QED BY <1>1, <1>2, <1>3, <1>4

\* Each data frame taken and looked at has its reply, and nothing else has.
LEMMA StepAllAnswered == IInv /\ [Next]_vars => AllAnswered'
<1> SUFFICES ASSUME IInv, [Next]_vars PROVE AllAnswered'
  OBVIOUS
<1>1. CASE SendDataStatus
  <2> DEFINE new == [frame |-> cur, ok |-> Msg.sound]
  <2>1. new.frame = cur /\ statuses' = Append(statuses, new)
    BY <1>1 DEF SendDataStatus
  <2> HIDE DEF new
  <2>2. /\ \A i \in DOMAIN statuses' : i \in DOMAIN statuses \/ i = Len(statuses) + 1
        /\ \A i \in DOMAIN statuses : i \in DOMAIN statuses' /\ statuses'[i] = statuses[i]
        /\ statuses'[Len(statuses) + 1] = new /\ Len(statuses) + 1 \in DOMAIN statuses'
    BY <2>1, Appended, RepliesStep DEF IInv
  <2>3. Replied' = Replied \cup {cur}
    BY <2>1, <2>2 DEF Replied
  <2> QED BY <1>1, <2>3, StepToAnswer DEF IInv, AllAnswered
<1>2. CASE ~SendDataStatus
  <2>1. UNCHANGED statuses
    BY <1>2 DEF Next, Parser, sinkMsgHandler, Take, Check, ProcessFrame, ParseParams,
           common_para_response, PlainControl, resetCommands, ReportControl, ReportParams,
           Panic,
           Consume, RemoveDevice, Stop, vars
  <2>2. Replied' = Replied
    BY <2>1 DEF Replied
  <2> QED BY <1>2, <2>2, StepToAnswer DEF IInv, AllAnswered
<1> QED BY <1>1, <1>2

\* What is known of the frame in hand, at the place the parser gets to.
LEMMA StepInHand == IInv /\ [Next]_vars => InHand'
<1> SUFFICES ASSUME TypeOK, Waiting, InHand, [Next]_vars PROVE InHand'
  BY DEF IInv
<1>0. pc # "idle" => cur \in Numbers
  BY DEF TypeOK
<1>1. \A n \in Numbers : arrived'[n] = arrived[n]
  BY ArrivedGrows
<1>2. \A n : Answered(n, statuses) => Answered(n, statuses')
  BY RepliesStep
<1>3. CASE UNCHANGED <<pc, cur, values, Resources1, ResourcesFlag>>
  <2>1. pc # "idle" => Msg' = Msg
    BY <1>0, <1>1, <1>3 DEF Msg
  <2>2. Answered(cur, statuses) => Answered(cur', statuses')
    BY <1>2, <1>3
  <2> QED BY <1>3, <2>1, <2>2 DEF InHand
<1>4. CASE Take
  <2>1. /\ rawCh # <<>> /\ cur' = rawCh[1] /\ 1 \in DOMAIN rawCh
        /\ UNCHANGED <<arrived, ResourcesFlag>>
        /\ pc' = "check" /\ pc = "idle"
    BY <1>4, Shifted DEF Take, TypeOK
  <2> QED BY <2>1 DEF InHand, Waiting, Msg
<1>5. CASE Check
  <2>1. /\ UNCHANGED <<cur, arrived, values, Resources1, ResourcesFlag>>
        /\ pc = "check" /\ Msg' = Msg
        /\ pc' = IF Msg.known /\ Msg.kind = "data" THEN "status" ELSE Dispatch(Msg)
    BY <1>5 DEF Check, Msg
  <2>2. /\ Msg.kind \in {"data", "control", "other", "fragment"}
        /\ Msg.known \in BOOLEAN /\ Msg.sound \in BOOLEAN
    BY <1>0, <2>1, MessageOf DEF Msg, Message
  <2>3. CASE Msg.known /\ Msg.kind = "data"
    BY <2>1, <2>3 DEF InHand
  <2>4. CASE ~(Msg.known /\ Msg.kind = "data")
    <3>1. /\ pc' \in {"idle", "fragment", "control"}
          /\ pc' # "idle" => Passed(Msg)
          /\ pc' = "fragment" => Msg.kind = "fragment"
          /\ pc' = "control" => Msg.kind = "control"
      BY <2>1, <2>2, <2>4 DEF Dispatch, InHand, Passed
    <3> QED BY <2>1, <3>1 DEF InHand, Passed
  <2> QED BY <2>3, <2>4
<1>11. CASE SendDataStatus
  <2>1. /\ UNCHANGED <<cur, arrived, values, Resources1, ResourcesFlag>>
        /\ pc = "status" /\ Msg' = Msg
        /\ pc' \in {Dispatch(Msg), "stuck"}
    BY <1>11 DEF SendDataStatus, Msg
  <2>2. /\ Msg.kind = "data" /\ Msg.known
        /\ Msg.known \in BOOLEAN /\ Msg.sound \in BOOLEAN
    BY <1>0, <2>1, MessageOf DEF Msg, Message, InHand
  <2>3. /\ pc' \in {"idle", "params", "stuck"}
        /\ pc' = "params" => Passed(Msg)
    BY <2>1, <2>2 DEF Dispatch, InHand, Passed
  <2>4. pc' = "params" => Answered(cur', statuses')
    <3> SUFFICES ASSUME pc' = "params" PROVE Answered(cur', statuses')
      OBVIOUS
    <3>1. Msg.sound = TRUE
      BY <2>2, <2>3 DEF Passed
    <3>2. statuses' = Append(statuses, [frame |-> cur, ok |-> TRUE])
      BY <1>11, <3>1 DEF SendDataStatus
    <3>3. Len(statuses) + 1 \in DOMAIN statuses'
          /\ statuses'[Len(statuses) + 1] = [frame |-> cur, ok |-> TRUE]
      BY <3>2, Appended, RepliesStep
    <3> QED BY <2>1, <3>3 DEF Answered
  <2> QED BY <2>1, <2>2, <2>3, <2>4 DEF InHand, Passed
<1>12. CASE ProcessFrame
  <2>1. /\ UNCHANGED <<cur, arrived, values, Resources1, ResourcesFlag>>
        /\ pc = "fragment" /\ Msg' = Msg
        /\ pc' \in {"params", "stuck"}
    BY <1>12 DEF ProcessFrame, Msg
  <2> QED BY <2>1 DEF InHand, Passed
<1>6. CASE ParseParams
  <2>1. /\ UNCHANGED <<cur, arrived, Resources1, ResourcesFlag, statuses>>
        /\ pc = "params" /\ Msg' = Msg
        /\ pc' = "report"
    BY <1>6 DEF ParseParams, Msg
  <2>2. \A v \in values' : v[1] = cur
    <3>1. Msg.params \in Seq(Outcome)
      BY <1>0, <2>1, MessageOf DEF Msg
    <3>2. PICK n \in Int : n <= Len(Msg.params) /\ values' = Found(SubSeq(Msg.params, 1, n))
      BY <1>6, <3>1, EndInRange DEF ParseParams
    <3> QED BY <1>0, <2>1, <3>1, <3>2, FoundValues
  <2> QED BY <1>2, <2>1, <2>2 DEF InHand
<1>7. CASE common_para_response
  <2>1. UNCHANGED <<cur, arrived>> /\ pc = "control" /\ Msg' = Msg /\ pc' = "flag"
        /\ Msg.handler = "params"
    BY <1>7 DEF common_para_response, Msg
  <2>2. \A v \in Resources1' : v[1] = cur
    <3>1. Msg.params \in Seq(Outcome)
      BY <1>0, <2>1, MessageOf DEF Msg
    <3>2. End(Msg.params) - 1 \in Int /\ End(Msg.params) - 1 <= Len(Msg.params)
      BY <3>1, EndInRange
    <3>3. \A v \in Found(SubSeq(Msg.params, 1, End(Msg.params) - 1)) : v[1] = cur
      BY <1>0, <2>1, <3>1, <3>2, FoundValues
    <3>4. Resources1' \subseteq Found(SubSeq(Msg.params, 1, End(Msg.params) - 1))
      BY <1>7 DEF common_para_response
    <3> QED BY <2>1, <3>3, <3>4, Zenon
  <2> QED BY <2>1, <2>2 DEF InHand
<1>8. CASE PlainControl \/ resetCommands
  <2>1. UNCHANGED <<cur, arrived, ResourcesFlag>> /\ pc = "control" /\ Msg' = Msg
        /\ pc' = "flag"
    BY <1>8 DEF PlainControl, resetCommands, Msg
  <2> QED BY <2>1 DEF InHand
<1>9. CASE ReportControl \/ ReportParams
  <2>1. pc' = "idle" /\ ResourcesFlag' = FALSE
    BY <1>9 DEF ReportControl, ReportParams, InHand, TypeOK
  <2> QED BY <2>1 DEF InHand
<1>10. CASE (\E m \in Messages : sinkMsgHandler(m)) \/ Panic \/ Consume \/ RemoveDevice
       \/ Stop \/ UNCHANGED vars
  <2>1. UNCHANGED <<pc, cur, values, Resources1, ResourcesFlag>>
    BY <1>10 DEF sinkMsgHandler, Panic, Consume, RemoveDevice, Stop, vars
  <2> QED BY <1>3, <2>1
<1> QED BY <1>4, <1>5, <1>6, <1>7, <1>8, <1>9, <1>10, <1>11, <1>12 DEF Next, Parser

\* When the parser is done with a frame it reports what it may of it.
LEMMA NewReport ==
  ASSUME TypeOK, InHand, NEW vs, Reportable(vs) # {},
         (pc = "report" /\ vs = values) \/ (pc = "flag" /\ ResourcesFlag /\ vs = Resources1)
  PROVE  Reported(Report(vs), arrived, statuses) /\ Report(vs).frame = cur
         /\ Report(vs).values = Reportable(vs)
<1>1. Report(vs).frame = cur /\ Report(vs).values = Reportable(vs)
      /\ Reportable(vs) \subseteq vs
  BY DEF Report, Reportable
<1>2. \A v \in vs : v[1] = cur
  BY DEF InHand
<1>3. Passed(arrived[cur])
  BY DEF InHand, Msg
<1>4. /\ arrived[cur].kind \in {"data", "fragment"} \/ arrived[cur].handler = "params"
      /\ arrived[cur].kind = "data" => Answered(cur, statuses)
  BY DEF InHand, Msg
<1> QED BY <1>1, <1>2, <1>3, <1>4 DEF Reported

\* Reports stay what they were, and come one after the other.
LEMMA StepReports ==
  IInv /\ [Next]_vars => Ordered' /\ AllReported'
<1> SUFFICES ASSUME TypeOK, Waiting, InHand, Ordered, AllReported, [Next]_vars
             PROVE  Ordered' /\ AllReported'
  BY DEF IInv
<1>0. \A k \in DOMAIN Reports : Reports[k].frame \in Numbers
  <2>1. Reports \in Seq(ReportType)
    BY ReportsStep
  <2>2. \A r \in ReportType : r.frame \in Numbers
    BY DEF ReportType
  <2> QED BY <2>1, <2>2
<1>1. ASSUME NEW r, r.frame \in Numbers, Reported(r, arrived, statuses)
      PROVE  Reported(r, arrived', statuses')
  <2>1. arrived'[r.frame] = arrived[r.frame]
    BY <1>1, ArrivedGrows
  <2>2. Answered(r.frame, statuses) => Answered(r.frame, statuses')
    BY RepliesStep
  <2> QED BY <1>1, <2>1, <2>2 DEF Reported
<1>a. Numbers = 1..Len(arrived) /\ Len(arrived) \in Nat /\ cur \in Numbers \cup {0}
  BY DEF TypeOK, Numbers
<1>2. CASE Reports' = Reports
  <2>1. AllReported'
    BY <1>0, <1>1, <1>2 DEF AllReported
  <2>2. CASE UNCHANGED cur /\ (pc = "idle" => pc' = "idle")
    BY <1>0, <1>2, <2>1, <2>2 DEF Ordered
  <2>3. CASE Take
    <3>1. cur' > cur /\ cur' \in Numbers
      BY <1>a, <2>3, Shifted DEF Take, Waiting, TypeOK
    <3> QED BY <1>0, <1>a, <1>2, <2>1, <3>1 DEF Ordered
  <2>4. ~Take => UNCHANGED cur /\ (pc = "idle" => pc' = "idle")
    BY DEF Next, Parser, sinkMsgHandler, Check, SendDataStatus, ProcessFrame, ParseParams,
           common_para_response,
           PlainControl, resetCommands, ReportControl, ReportParams, Panic, Consume,
           RemoveDevice, Stop, vars
  <2> QED BY <2>2, <2>3, <2>4
<1>3. ASSUME pc' = "idle", UNCHANGED <<arrived, cur, statuses>>,
             NEW vs, Reportable(vs) # {}, Reports' = Append(Reports, Report(vs)),
             (pc = "report" /\ vs = values) \/ (pc = "flag" /\ ResourcesFlag /\ vs = Resources1)
      PROVE  Ordered' /\ AllReported'
  <2> DEFINE new == Report(vs)
  <2>1. Reported(new, arrived, statuses) /\ new.frame = cur
    BY <1>3, NewReport, Zenon
  <2>2. cur \in Numbers /\ pc # "idle"
    BY <1>3 DEF TypeOK
  <2>3. /\ \A k \in DOMAIN Reports' : k \in DOMAIN Reports \/ k = Len(Reports) + 1
        /\ \A k \in DOMAIN Reports : Reports'[k] = Reports[k]
        /\ Reports'[Len(Reports) + 1] = new
        /\ DOMAIN Reports = 1..Len(Reports) /\ Len(Reports) \in Nat
    BY <1>3, Appended, ReportsStep
  <2> HIDE DEF new
  <2>4. Reported(new, arrived', statuses')
    BY <1>1, <2>1, <2>2
  <2>5. AllReported'
    BY <1>0, <1>1, <2>3, <2>4 DEF AllReported
  <2>6. \A k \in DOMAIN Reports : Reports[k].frame < cur
    BY <2>2 DEF Ordered
  <2>7. Ordered'
    BY <1>0, <1>3, <1>a, <2>1, <2>2, <2>3, <2>6 DEF Ordered
  <2> QED BY <2>5, <2>7
<1> QED BY <1>2, <1>3, ReportsStep
LEMMA Invariance == Spec => []IInv
<1>1. IInv /\ [Next]_vars => IInv'
  BY StepTypes, StepWaiting, StepInHand, StepReplies, StepTaken, StepAllAnswered,
     StepReports DEF IInv
<1> QED BY <1>1, InitInvariant, PTL DEF Spec

-----------------------------------------------------------------------------
\* Channels keep within their capacities and hold numbers of messages that have
\* arrived, whatever the messages.
THEOREM TypeCorrect == Spec => []TypeOK
BY Invariance, PTL DEF IInv

\* A report carries values of its own frame only, although Resources1 and its flag
\* outlive the frame that set them.
THEOREM OfOneFrame == Spec => []ReportOfOneFrame
<1>1. IInv => ReportOfOneFrame
  BY DEF IInv, AllReported, Reported, ReportOfOneFrame
<1> QED BY <1>1, Invariance, PTL

\* Only sound frames of known sensors are reported.
THEOREM OnlySound == Spec => []OnlySoundFramesReported
<1>1. IInv => OnlySoundFramesReported
  BY DEF IInv, AllReported, Reported, Passed, OnlySoundFramesReported
<1> QED BY <1>1, Invariance, PTL

\* Each data frame taken is answered by exactly one reply, in order, that tells what
\* came of its CRC, and before the report.
THEOREM StatusesCorrect == Spec => []StatusesMatch
<1>1. IInv => StatusesMatch
  <2>1. IInv => {statuses[i].frame : i \in DOMAIN statuses} = ToAnswer
    BY DEF IInv, AllAnswered, Replied
  <2>2. IInv => \A k \in DOMAIN Reports :
                  arrived[Reports[k].frame].kind = "data" => Answered(Reports[k].frame,
                  statuses)
    BY DEF IInv, AllReported, Reported
  <2> QED BY <2>1, <2>2 DEF IInv, Answered, Replies, StatusesMatch
<1> QED BY <1>1, Invariance, PTL

\* What the SDK takes next is newer than what it took last.
LEMMA NextTaken ==
  ASSUME IInv, Consume
  PROVE  \E k \in 1..Len(arrived) :
           /\ k > (IF forwarded = <<>> THEN 0 ELSE forwarded[Len(forwarded)].frame)
           /\ (IF forwarded = <<>> THEN 0 ELSE forwarded[Len(forwarded)].frame)' = k
<1> DEFINE T == ReportType
           n == Len(forwarded)
<1>0. asyncCh \in Seq(T) /\ forwarded \in Seq(T) /\ asyncCh # <<>>
  BY DEF IInv, TypeOK, Consume
<1>1. forwarded' = Append(forwarded, Head(asyncCh))
  BY DEF Consume
<1>2. \A r \in T : r.frame \in 1..Len(arrived) /\ r.frame \in Nat
  BY DEF IInv, TypeOK, ReportType, Numbers
<1> HIDE DEF T
<1>3. /\ n \in Nat /\ n + 1 \in DOMAIN Reports /\ Reports[n + 1] = Head(asyncCh)
      /\ forwarded # <<>> => n \in DOMAIN Reports /\ n < n + 1 /\ Reports[n] = forwarded[n]
      /\ Head(asyncCh) \in T
  BY <1>0, ConcatProperties DEF Reports
<1>4. forwarded' # <<>> /\ forwarded'[Len(forwarded')] = Head(asyncCh)
  BY <1>0, <1>1, <1>3
<1>5. forwarded # <<>> => forwarded[n].frame < Head(asyncCh).frame
  BY <1>3 DEF IInv, Ordered
<1>6. Head(asyncCh).frame \in 1..Len(arrived) /\ Head(asyncCh).frame > 0
  BY <1>2, <1>3
<1> QED BY <1>4, <1>5, <1>6

\* The uplink implements the relay that may lose messages but keeps their order and
\* neither doubles nor invents one: the put, the parser and the SDK's reader, however
\* they interleave.
THEOREM ImplementsRelay == Spec => LossyRelay
<1> DEFINE published == Len(arrived)
           last == IF forwarded = <<>> THEN 0 ELSE forwarded[Len(forwarded)].frame
<1>1. Init => Relay!Init
  BY DEF Init, Relay!Init
<1>2. IInv /\ [Next]_vars => [Relay!Next]_<<published, last>>
  <2> SUFFICES ASSUME IInv, [Next]_vars PROVE [Relay!Next]_<<published, last>>
    OBVIOUS
  <2>1. ASSUME NEW m \in Messages, sinkMsgHandler(m) PROVE Relay!Publish
    BY <2>1 DEF sinkMsgHandler, Relay!Publish, IInv, TypeOK
  <2>2. ASSUME Consume PROVE \E k \in 1..published : Relay!Forward(k)
    <3>1. UNCHANGED published
      BY <2>2 DEF Consume
    <3>2. PICK k \in 1..published : k > last /\ last' = k
      BY <2>2, NextTaken
    <3> QED BY <3>1, <3>2 DEF Relay!Forward
  <2>3. CASE Parser \/ RemoveDevice \/ Stop \/ UNCHANGED vars
    <3>1. UNCHANGED <<arrived, forwarded>>
      BY <2>3 DEF Parser, Take, Check, SendDataStatus, ProcessFrame, ParseParams,
                  common_para_response, PlainControl,
                  resetCommands, ReportControl, ReportParams, Panic, RemoveDevice, Stop, vars
    <3> QED BY <3>1
  <2> QED BY <2>1, <2>2, <2>3 DEF Next, Relay!Next
<1> QED BY <1>1, <1>2, Invariance, PTL DEF Spec, LossyRelay, Relay!Spec
=============================================================================
