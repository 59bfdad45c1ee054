---------------------------- MODULE WireSinkProofs ----------------------------
(***************************************************************************)
(* Proofs about the service as a whole: that it runs its components as     *)
(* they are specified, so that what is proved of each holds of the service, *)
(* and that an acknowledgement is still true when it leaves.               *)
(***************************************************************************)
EXTENDS WireSinkProps, TLAPS

RT == INSTANCE ReassemblyProofs
DT == INSTANCE DownlinkProofs

-----------------------------------------------------------------------------
(* The theorems of the components are about their own copies RT and DT of  *)
(* the specifications that WireSink composes as R and D.                   *)

LEMMA SameReassembly ==
  /\ R!Spec => RT!Spec
  /\ \A w \in Words : w \in Nat /\ w < 64 * 1024
  /\ MaxSessions \in Nat
  /\ None \notin RT!Frame \cup RT!Ack \cup RT!SDUCache
<1>1. R!Spec => RT!Spec
  BY
   DEF R!vars, RT!vars, R!SSEQ, RT!SSEQ, R!PSEQ, RT!PSEQ, R!isStart,
       RT!isStart, R!isEnd, RT!isEnd, R!Forms, RT!Forms, R!SSEQs, RT!SSEQs,
       R!PSEQs, RT!PSEQs, R!Expecteds, RT!Expecteds, R!Frame, RT!Frame, R!Ack,
       RT!Ack, R!Timer, RT!Timer, R!SDUCache, RT!SDUCache, R!SDU, RT!SDU,
       R!Live, RT!Live, R!Keys, RT!Keys, R!Stored, RT!Stored, R!Put, RT!Put,
       R!MergeEnd, RT!MergeEnd, R!AppendAndMerge, RT!AppendAndMerge,
       R!sendAck, RT!sendAck, R!Stopped, RT!Stopped, R!Finalized,
       RT!Finalized, R!finalize, RT!finalize, R!Init, RT!Init, R!Receive,
       RT!Receive, R!Panic, RT!Panic, R!HeaderTooShort, RT!HeaderTooShort,
       R!DataOverrun, RT!DataOverrun, R!Whole, RT!Whole, R!NewSession,
       RT!NewSession, R!StartSession, RT!StartSession, R!Restart, RT!Restart,
       R!SameSession, RT!SameSession, R!Duplicate, RT!Duplicate, R!Ahead,
       RT!Ahead, R!InOrder, RT!InOrder, R!Fire, RT!Fire, R!TimerDiscard,
       RT!TimerDiscard, R!TimerNack, RT!TimerNack, R!Handle, RT!Handle,
       R!Timeout, RT!Timeout, R!Next, RT!Next, R!Spec, RT!Spec
<1>2. None \notin RT!Frame \cup RT!Ack \cup RT!SDUCache
  BY ReassemblyAssumption
     DEF R!Frame, R!Ack, R!SDUCache, R!SSEQs, R!PSEQs, R!Expecteds, R!Forms,
         RT!Frame, RT!Ack, RT!SDUCache, RT!SSEQs, RT!PSEQs, RT!Expecteds, RT!Forms
<1>. QED  BY <1>1, <1>2, ReassemblyAssumption

LEMMA SameDownlink ==
  /\ D!Spec => DT!Spec
  /\ Work \in [Requests -> [op : {"read", "write"}, device : Devices,
                            resources : Seq(DT!Commands \cup {"plain"}), params : Nat]]
  /\ Senders \cap Requests = {} /\ None \notin Requests
  /\ MaxStatuses \in Nat /\ MaxLosses \in Nat
<1>1. D!Spec => DT!Spec
  BY
   DEF D!Commands, DT!Commands, D!Callers, DT!Callers, D!vars, DT!vars,
       D!Current, DT!Current, D!Mismatched, DT!Mismatched, D!Holdings, DT!Holdings, D!Init, DT!Init, D!Call, DT!Call, D!Lock,
       DT!Lock, D!Return, DT!Return, D!HandleReadCommands,
       DT!HandleReadCommands, D!HandleCommand, DT!HandleCommand,
       D!HandleWriteCommands, DT!HandleWriteCommands, D!SendStatus,
       DT!SendStatus, D!Resume, DT!Resume, D!Publish, DT!Publish,
       D!PublishDropped, DT!PublishDropped, D!PublishStuck, DT!PublishStuck,
       D!PublishSinkCommand, DT!PublishSinkCommand, D!ConnectionLost,
       DT!ConnectionLost, D!Reconnect, DT!Reconnect, D!DeviceChanged,
       DT!DeviceChanged, D!Handle, DT!Handle, D!Next, DT!Next, D!Spec, DT!Spec
<1>2. Work \in [Requests -> [op : {"read", "write"}, device : Devices,
                             resources : Seq(DT!Commands \cup {"plain"}), params : Nat]]
  BY DownlinkAssumption DEF D!Commands, DT!Commands
<1>3. Senders \cap Requests = {} /\ None \notin Requests
  BY GoroutinesAssumption DEF Senders
<1>. QED  BY <1>1, <1>2, <1>3, DownlinkAssumption

-----------------------------------------------------------------------------
(* The service as its components.                                          *)

LEMMA ReassemblyStep ==
  [Next]_vars => [R!Next]_(R!vars)
<1>. SUFFICES ASSUME [Next]_vars PROVE R!Next \/ UNCHANGED reassembly
  BY DEF reassembly, R!vars
<1>1. CASE DataFrame \/ Surroundings \/ Reconnect \/ UNCHANGED vars
  BY <1>1 DEF DataFrame, Surroundings, Reconnect, vars
<1>2. CASE Fragment
  BY <1>2 DEF Fragment, R!Next
<1>3. CASE Panic
  BY <1>3 DEF Panic, R!Next
<1>4. CASE Refuse \/ Process
  BY <1>4 DEF Refuse, Process, R!Next, R!Handle
<1>5. ASSUME NEW i \in DOMAIN timers, Fire(i) \/ Discard(i) \/ Nack(i)
      PROVE  R!Next
  BY <1>5 DEF Fire, Discard, Nack, R!Next, R!Timeout
<1>6. ASSUME NEW r \in Requests, Call(r) \/ Handle(r)
      PROVE  UNCHANGED reassembly
  BY <1>6 DEF Call, Handle
<1>7. ASSUME NEW c \in Senders \cup Requests, SendFrame(c)
      PROVE  UNCHANGED reassembly
  BY <1>7 DEF SendFrame
<1>. QED  BY <1>1, <1>2, <1>3, <1>4, <1>5, <1>6, <1>7 DEF Next

\* Fragments and timeouts of the service are handled as Reassembly says: what a
\* publication that hangs under cacheMu adds are delays.
THEOREM ServiceReassembles == Spec => R!Spec
<1>1. Init => R!Init
  BY DEF Init
<1>. QED  BY <1>1, ReassemblyStep, PTL DEF Spec, R!Spec

LEMMA ReassemblyFacts ==
  Spec => [](RT!IInv /\ RT!Bounded) /\ [][RT!AckHeld]_(RT!vars)
<1>1. RT!Spec => []RT!IInv
  BY RT!Invariance, SameReassembly
<1>2. RT!Spec => []RT!Bounded
  BY RT!WithinBound, SameReassembly
<1>3. RT!Spec => RT!AckedDataHeld
  BY RT!AckedAlwaysHeld, SameReassembly
<1>4. RT!Spec => [][RT!AckHeld]_(RT!vars)
  BY <1>3, PTL DEF RT!AckedDataHeld, RT!AckHeld
<1>. QED  BY <1>1, <1>2, <1>4, ServiceReassembles, SameReassembly, PTL

\* Every timer has a callback of its own among the senders.
LEMMA TimersAreCallbacks ==
  ASSUME RT!IInv, RT!Bounded
  PROVE  DOMAIN timers \subseteq Callbacks
BY ReassemblyAssumption DEF RT!IInv, RT!TypeOK, RT!Bounded, Callbacks

LEMMA DownlinkStep ==
  ASSUME RT!IInv, RT!Bounded, [Next]_vars
  PROVE  D!Next \/ UNCHANGED downlink
<1>1. CASE Surroundings \/ Reconnect
  BY <1>1 DEF Surroundings, Reconnect, D!Next
<1>2. CASE Fragment \/ Panic \/ UNCHANGED vars
  BY <1>2 DEF Fragment, Panic, vars
<1>3. ASSUME NEW c \in Senders, SendAck(c) PROVE D!Next
  BY <1>3 DEF SendAck, D!Next
<1>4. CASE DataFrame \/ Refuse \/ Process
  <2>1. Parser \in Senders
    BY DEF Senders
  <2>. QED  BY <1>3, <1>4, <2>1 DEF DataFrame, Refuse, Process, D!Next
<1>5. ASSUME NEW i \in DOMAIN timers, Fire(i) \/ Discard(i) \/ Nack(i)
      PROVE  D!Next \/ UNCHANGED downlink
  <2>1. i \in Senders
    BY TimersAreCallbacks DEF Senders
  <2>. QED  BY <1>3, <1>5, <2>1 DEF Fire, Discard, Nack
<1>6. ASSUME NEW r \in Requests, Call(r) \/ Handle(r)
      PROVE  D!Next
  BY <1>6 DEF Call, Handle, D!Next
<1>7. ASSUME NEW c \in Senders \cup Requests, SendFrame(c)
      PROVE  D!Next
  BY <1>7 DEF SendFrame, D!Next, D!Callers
<1>. QED  BY <1>1, <1>2, <1>4, <1>5, <1>6, <1>7 DEF Next

\* Commands of the service, and what parser and callbacks publish next to them, go
\* down as Downlink says: cacheMu never touches a request.
THEOREM ServiceCommands == Spec => D!Spec
<1>1. Init => D!Init
  BY DEF Init
<1>2. RT!IInv /\ RT!Bounded /\ [Next]_vars => [D!Next]_(D!vars)
  BY DownlinkStep DEF downlink, D!vars
<1>. QED  BY <1>1, <1>2, ReassemblyFacts, PTL DEF Spec, D!Spec

LEMMA DownlinkFacts == Spec => []DT!TypeOK
<1>1. DT!Spec => []DT!TypeOK
  BY DT!TypeCorrect, SameDownlink
<1>. QED  BY <1>1, ServiceCommands, SameDownlink, PTL

-----------------------------------------------------------------------------
(* The acknowledgements.                                                   *)

\* What the acknowledgement a claims is in the sessions.
HoldsIn(sessions, a) ==
  LET c == sessions[a.sensor]
  IN  /\ c # None /\ c.SSEQ = a.sseq
      /\ a.pseq >= RP!First(c) => a.pseq \in RP!Held(c)

Claiming == Publishing(Parser) /\ ack[Parser] # None /\ ack[Parser].ok

\* The inductive invariant.  That the acknowledgement is true when it leaves needs
\* that cacheMu is held from the decision on, which keeps the callbacks out.
AckInv ==
  /\ ack \in [Senders -> RT!Ack \cup {None}]
  /\ Claiming => cacheMu = Parser
  /\ Claiming => HoldsIn(caches, ack[Parser])


LEMMA ParserSends == Parser \in Senders /\ Parser # None /\ Parser \notin Callbacks
BY GoroutinesAssumption DEF Senders

\* Steps that change neither sessions, lock nor the parser's publication.
LEMMA ParserUntouched ==
  ASSUME AckInv, pc'[Parser] = pc[Parser], UNCHANGED <<ack, caches, cacheMu>>
  PROVE  AckInv'
BY DEF AckInv, Claiming, Publishing, HoldsIn, RP!First, RP!Held, RP!Keys, RP!PSEQ

\* While nobody holds cacheMu the parser claims nothing, so sessions may change.
LEMMA NothingClaimed ==
  ASSUME AckInv, cacheMu = None, pc'[Parser] = pc[Parser], UNCHANGED ack
  PROVE  AckInv'
<1>1. ~Claiming
  BY ParserSends DEF AckInv
<1>2. ~Claiming'
  BY <1>1 DEF Claiming, Publishing
<1>. QED  BY <1>2 DEF AckInv

\* A goroutine other than the parser begins a publication.
LEMMA OtherSends ==
  ASSUME AckInv, DT!TypeOK, RT!TypeOK', NEW i \in Callbacks, SendAck(i),
         UNCHANGED <<caches, cacheMu>>
  PROVE  AckInv'
<1>1. i \in Senders /\ i # Parser
  BY ParserSends DEF Senders
<1>2. pc' = [pc EXCEPT ![i] = "publish"] /\ ack' = [ack EXCEPT ![i] = reply']
  BY DEF SendAck, D!SendStatus
<1>3. reply' \in RT!Ack \cup {None}
  BY DEF RT!TypeOK
<1>4. /\ pc'[Parser] = pc[Parser] /\ ack'[Parser] = ack[Parser]
      /\ ack' \in [Senders -> RT!Ack \cup {None}]
  BY <1>1, <1>2, <1>3, ParserSends DEF AckInv, DT!TypeOK, DT!Callers
<1>. QED
  BY <1>4 DEF AckInv, Claiming, Publishing, HoldsIn, RP!First, RP!Held, RP!Keys, RP!PSEQ

\* The parser begins one: with cacheMu held, if what it claims is positive.
LEMMA ParserAcks ==
  ASSUME AckInv, RT!TypeOK', [RT!AckHeld]_(RT!vars), SendAck(Parser),
         RT!Replied, reply'.ok => cacheMu' = Parser
  PROVE  AckInv'
<1>1. ack' = [ack EXCEPT ![Parser] = reply']
  BY DEF SendAck
<1>2. reply' \in RT!Ack \cup {None}
  BY DEF RT!TypeOK
<1>3. ack' \in [Senders -> RT!Ack \cup {None}] /\ ack'[Parser] = reply'
  BY <1>1, <1>2, ParserSends DEF AckInv
<1>4. RT!AckHeld
  BY DEF RT!Replied, RT!vars
<1>5. reply'.ok => HoldsIn(caches, reply)'
  BY <1>4 DEF RT!AckHeld, HoldsIn, RT!First, RT!Held, RT!Keys, RT!PSEQ,
              RP!First, RP!Held, RP!Keys, RP!PSEQ
<1>. QED  BY <1>3, <1>5 DEF AckInv, Claiming, HoldsIn

\* A publication of anybody ends, or gets stuck.
LEMMA PublicationEnds ==
  ASSUME AckInv, DT!TypeOK, NEW c \in Senders \cup Requests, SendFrame(c)
  PROVE  AckInv'
<1>1. UNCHANGED <<ack, caches>>
  BY DEF SendFrame, reassembly
<1>2. CASE c = Parser
  <2>1. CASE pc'[Parser] = "stuck"
    <3>1. cacheMu' = cacheMu /\ pc[Parser] = "publish"
      BY <1>2, <2>1 DEF SendFrame, D!PublishSinkCommand, D!Publish, D!PublishDropped,
                        D!PublishStuck
    <3>. QED
      BY <1>1, <3>1 DEF AckInv, Claiming, Publishing, HoldsIn,
                        RP!First, RP!Held, RP!Keys, RP!PSEQ
  <2>2. CASE pc'[Parser] # "stuck"
    <3>1. pc'[Parser] = "idle"
      BY <1>2, <2>2, ParserSends
         DEF SendFrame, D!PublishSinkCommand, D!Publish, D!PublishDropped, D!PublishStuck,
             D!Resume, DT!TypeOK, DT!Callers
    <3>. QED  BY <1>1, <3>1 DEF AckInv, Claiming, Publishing
  <2>. QED  BY <2>1, <2>2
<1>3. CASE c # Parser
  <2>1. pc'[Parser] = pc[Parser]
    BY <1>3, ParserSends
       DEF SendFrame, D!PublishSinkCommand, D!Publish, D!PublishDropped, D!PublishStuck,
           D!Resume, DT!TypeOK, DT!Callers
  <2>2. cacheMu = Parser => cacheMu' = Parser
    BY <1>3 DEF SendFrame
  <2>. QED
    BY <1>1, <2>1, <2>2 DEF AckInv, Claiming, Publishing, HoldsIn,
                            RP!First, RP!Held, RP!Keys, RP!PSEQ
<1>. QED  BY <1>2, <1>3

LEMMA AckStep ==
  ASSUME RT!IInv, RT!Bounded, RT!TypeOK', DT!TypeOK, AckInv,
         [RT!AckHeld]_(RT!vars), [Next]_vars
  PROVE  AckInv'
<1>0. DOMAIN pc = Senders \cup Requests /\ \A c \in Requests : c # Parser
  BY ParserSends, GoroutinesAssumption DEF DT!TypeOK, DT!Callers
<1>1. CASE DataFrame
  <2>1. UNCHANGED <<caches, cacheMu>> /\ ack' = [ack EXCEPT ![Parser] = None]
    BY <1>1 DEF DataFrame, reassembly
  <2>. QED  BY <2>1, ParserSends DEF AckInv, Claiming
<1>2. CASE Fragment \/ Panic \/ UNCHANGED vars
  BY <1>2, ParserUntouched DEF Fragment, Panic, vars, reassembly, downlink, R!Receive, R!Panic
<1>3. CASE Refuse
  <2>1. SendAck(Parser) /\ RT!Replied /\ reply'.ok = FALSE
    BY <1>3 DEF Refuse, R!HeaderTooShort, R!DataOverrun, R!sendAck, RT!Replied
  <2>. QED  BY <2>1, ParserAcks
<1>4. CASE Process
  <2>1. cacheMu = None /\ cur # None
    BY <1>4 DEF Process, R!StartSession, R!Restart, R!Duplicate, R!Ahead, R!InOrder,
                R!SameSession, R!Whole
  <2>2. CASE cur' = None
    BY <1>4, <2>1, <2>2, ParserAcks DEF Process, RT!Replied
  <2>3. CASE cur' # None
    BY <1>4, <2>1, <2>3, NothingClaimed DEF Process, downlink
  <2>. QED  BY <2>2, <2>3
<1>5. ASSUME NEW i \in DOMAIN timers, Fire(i) \/ Discard(i) \/ Nack(i)
      PROVE  AckInv'
  <2>1. i \in Callbacks
    BY TimersAreCallbacks
  <2>2. CASE Fire(i)
    BY <2>2, ParserUntouched DEF Fire, R!Fire, downlink
  <2>3. CASE Discard(i)
    BY <2>3, NothingClaimed DEF Discard, downlink
  <2>4. CASE Nack(i)
    BY <2>1, <2>4, OtherSends DEF Nack, R!TimerNack
  <2>. QED  BY <1>5, <2>2, <2>3, <2>4
<1>6. ASSUME NEW r \in Requests, Call(r) \/ Handle(r)
      PROVE  AckInv'
  <2>1. UNCHANGED <<ack, caches, cacheMu>>
    BY <1>6 DEF Call, Handle, reassembly
  <2>2. pc'[Parser] = pc[Parser]
    BY <1>0, <1>6, ParserSends
       DEF Call, Handle, D!Call, D!Handle, D!Lock, D!HandleReadCommands,
           D!HandleWriteCommands, D!HandleCommand, D!Return, DT!TypeOK, DT!Callers
  <2>. QED  BY <2>1, <2>2, ParserUntouched
<1>7. CASE Surroundings \/ Reconnect
  BY <1>7, ParserUntouched
     DEF Surroundings, Reconnect, reassembly, D!ConnectionLost, D!DeviceChanged, D!Reconnect
<1>. QED
  BY <1>1, <1>2, <1>3, <1>4, <1>5, <1>6, <1>7, PublicationEnds DEF Next

\* When a positive acknowledgement leaves for the sink, the session still holds the
\* fragment, whoever else publishes, times out or is stuck meanwhile.
THEOREM AckStaysTrue == Spec => []AckTrueWhenSent
<1>1. Init => AckInv
  <2>1. ASSUME Init PROVE pc[Parser] = "idle" /\ ack \in [Senders -> RT!Ack \cup {None}]
    BY <2>1, ParserSends DEF Init, D!Init, D!Callers
  <2>. QED  BY <2>1 DEF AckInv, Claiming, Publishing
<1>2. /\ RT!IInv /\ RT!Bounded /\ RT!TypeOK' /\ DT!TypeOK /\ AckInv
      /\ [RT!AckHeld]_(RT!vars) /\ [Next]_vars
      => AckInv'
  BY AckStep
<1>3. AckInv => AckTrueWhenSent
  BY DEF AckInv, AckTrueWhenSent, Claiming, HoldsIn
<1>4. RT!IInv => RT!TypeOK
  BY DEF RT!IInv
<1>. QED  BY <1>1, <1>2, <1>3, <1>4, ReassemblyFacts, DownlinkFacts, PTL DEF Spec

\* What is proved of the components holds of the service: the order and the lock of
\* the requests, the buffers, and the promise of an ordered receiver.
THEOREM ServiceKeepsPromises ==
  Spec => /\ []DT!RequestsDoNotMix /\ []DT!TriedUpToHere
          /\ []RT!BufferContiguous /\ []RT!LiveSessionHasTimer
          /\ RT!OrderedReceiver
<1>1. DT!Spec => []DT!RequestsDoNotMix /\ []DT!TriedUpToHere
  BY DT!NoMixing, DT!TriedExactly, SameDownlink
<1>2. RT!Spec => []RT!BufferContiguous /\ []RT!LiveSessionHasTimer
  BY RT!BufferAlwaysContiguous, RT!SessionsAlwaysTimed, SameReassembly
<1>3. RT!Spec => RT!OrderedReceiver
  BY RT!ImplementsOrderedReceiver, SameReassembly
<1>. QED
  BY <1>1, <1>2, <1>3, ServiceReassembles, ServiceCommands, SameReassembly, SameDownlink, PTL
=============================================================================
