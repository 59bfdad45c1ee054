----------------------------- MODULE UplinkProps -----------------------------
(***************************************************************************)
(* What the uplink guarantees, and the refinement of LossyRelay.           *)
(***************************************************************************)
EXTENDS Uplink

Numbers == DOMAIN arrived

ReportType == [frame : Numbers, values : SUBSET (Numbers \X Nat)]

\* Every variable has its type, and the channels hold what they are made for,
\* within their capacities.
TypeOK ==
  /\ up \in BOOLEAN /\ gone \in BOOLEAN /\ writeOpen \in BOOLEAN /\ ResourcesFlag \in BOOLEAN
  /\ arrived \in Seq(Messages)
  /\ pc \in {"idle", "check", "status", "fragment", "params", "control",
            "report", "flag", "stuck"}
  /\ cur \in Numbers \cup {0}
  /\ pc # "idle" => cur # 0
  /\ taken \subseteq Numbers
  /\ rawCh \in Seq(Numbers) /\ Len(rawCh) <= RawCap
  /\ writeCh \in Seq(Numbers) /\ Len(writeCh) <= WriteCap
  /\ values \subseteq Numbers \X Nat /\ Resources1 \subseteq Numbers \X Nat
  /\ statuses \in Seq([frame : Numbers, ok : BOOLEAN])
  /\ asyncCh \in Seq(ReportType) /\ Len(asyncCh) <= AsyncCap
  /\ forwarded \in Seq(ReportType)

Reports == forwarded \o asyncCh

\* A report carries values of its own frame only: neither Resources1, which
\* outlives the frame that filled it, nor its flag makes an old value appear
\* under a later frame.
ReportOfOneFrame ==
  \A k \in DOMAIN Reports :
    /\ Reports[k].values # {}
    /\ \A v \in Reports[k].values : v[1] = Reports[k].frame

\* Nothing of a frame with a wrong CRC or of an unknown sensor is reported, nor of
\* a control frame other than a parameter response.
OnlySoundFramesReported ==
  \A k \in DOMAIN Reports :
    LET m == arrived[Reports[k].frame] IN
      /\ m.decodable /\ m.known /\ m.sound
      /\ m.kind \in {"data", "fragment"} \/ m.handler = "params"

\* The data frames of known sensors that the parser has taken and come to answer.
ToAnswer ==
  {n \in taken : /\ arrived[n].known /\ arrived[n].kind = "data"
                 /\ n = cur => pc \notin {"check", "status"}}

\* Each data frame of a known sensor is answered by one status, in the order of
\* arrival, and nothing else is: a success for a sound frame, a failure for one with
\* a wrong CRC.  A data frame that is reported was answered with a success before.
StatusesMatch ==
  /\ {statuses[i].frame : i \in DOMAIN statuses} = ToAnswer
  /\ \A i \in DOMAIN statuses : statuses[i].ok = arrived[statuses[i].frame].sound
  /\ \A i, j \in DOMAIN statuses : i < j => statuses[i].frame < statuses[j].frame
  /\ \A k \in DOMAIN Reports :
        arrived[Reports[k].frame].kind = "data"
          => \E i \in DOMAIN statuses : statuses[i] = [frame |-> Reports[k].frame, ok |-> TRUE]

\* The reports a frame should lead to: it is sound and one of its values, for a
\* parameter response one other than the last, is of a type that is reported.
Due(m) ==
  /\ m.decodable /\ m.known /\ m.sound
  /\ \E i \in DOMAIN m.params :
        /\ m.params[i] = "value"
        /\ \/ m.kind \in {"data", "fragment"}
           \/ m.handler = "params" /\ i < Len(m.params)

\* The parser has met a full WriteChan, which nothing reads.
StuckInCalibration == pc = "control" /\ Msg.handler = "calibrate" /\ Len(writeCh) = WriteCap

\* What may keep a frame that waits from the SDK: the process has died, the parser
\* waits for a token that never comes or for WriteChan, or the device of the frame is
\* removed while a control frame of it is in hand.
Lost(n) ==
  \/ ~up \/ pc = "stuck" \/ StuckInCalibration
  \/ cur = n /\ gone

\* A frame that got into SinkRawDataCh and is due a report reaches the SDK, unless the
\* parser is stuck for good before it does: the waits for room in asyncCh end, and
\* neither the frames before it nor the reports of control frames keep it back.
AcceptedIsForwarded ==
  \A n \in 1..MaxMessages :
    (\E i \in DOMAIN rawCh : rawCh[i] = n /\ Due(arrived[n]))
      ~> (Lost(n) \/ \E k \in DOMAIN forwarded : forwarded[k].frame = n)

-----------------------------------------------------------------------------
Relay == INSTANCE LossyRelay WITH
  published <- Len(arrived),
  last <- IF forwarded = <<>> THEN 0 ELSE forwarded[Len(forwarded)].frame

\* The uplink is a relay that may lose messages but keeps their order and never
\* doubles or invents one.
LossyRelay == Relay!Spec

=============================================================================
