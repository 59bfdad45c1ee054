---------------------------- MODULE WireSinkProps ----------------------------
(***************************************************************************)
(* What holds of the service as a whole: who may hold up whom.             *)
(***************************************************************************)
EXTENDS WireSink

RP == INSTANCE ReassemblyProps

Publishing(c) == pc[c] \in {"publish", "stuck"}
Stuck(c) == pc[c] = "stuck"

\* When a positive acknowledgement leaves for the sink, the session still holds the
\* fragment: no timeout comes between ProcessFrame's decision and its sendAck.
AckTrueWhenSent ==
  (Publishing(Parser) /\ ack[Parser] # None /\ ack[Parser].ok) =>
    LET a == ack[Parser]
        c == caches[a.sensor]
    IN  /\ c # None /\ c.SSEQ = a.sseq
        /\ a.pseq >= RP!First(c) => a.pseq \in RP!Held(c)

\* A request is answered though the parser and every callback may be stuck in
\* publications, with cacheMu held or not: only another request can hold it up.
RequestsGetThrough ==
  \A r \in Requests :
    pc[r] = "lock" ~> (pc[r] \in {"ok", "failed"} \/ ~up \/ \E s \in Requests : Stuck(s))

\* A fragment is dealt with though requests and callbacks may be stuck: only the
\* parser's own publication can stop it.
UplinkGoesOn ==
  (cur # None) ~> ((cur = None /\ pc[Parser] = "idle") \/ Stuck(Parser) \/ ~up)

\* The session that the timer i was set for is still there.
InSession(i) == \E s \in Sensors : caches[s] # None /\ caches[s].timer = i

\* Every session ends, by a restart or at the latest by its timeout, unless the parser
\* is stuck in a publication with cacheMu held: then no session ends any more.
SessionsEnd ==
  \A i \in Callbacks :
    InSession(i) ~> (~InSession(i) \/ (Stuck(Parser) /\ cacheMu = Parser) \/ ~up)

\* A timeout that has fired gets as far as its publication, a refusal of the fragment
\* that started its session, unless that publication is stuck, or the parser's with
\* cacheMu held; and even when its session has been replaced by then.
TimeoutsGetThrough ==
  \A i \in Callbacks :
    (i \in DOMAIN timers /\ timers[i].state = "fired") ~>
      \/ /\ at[i] = 2
         /\ ack[i] = [sensor |-> timers[i].sensor, ok |-> FALSE,
                      sseq |-> timers[i].sseq, pseq |-> timers[i].pseq]
      \/ Stuck(i) \/ (Stuck(Parser) /\ cacheMu = Parser) \/ ~up
=============================================================================
