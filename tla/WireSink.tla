------------------------------ MODULE WireSink ------------------------------
(***************************************************************************)
(* The running service: the components as their goroutines meet.           *)
(*                                                                         *)
(*   - the parser goroutine (StartParser), which reassembles fragments     *)
(*     under cacheMu and publishes statuses and acknowledgements;          *)
(*   - the timeout callbacks of sessions, which need cacheMu to discard,   *)
(*     and publish their refusal after they have given it back;            *)
(*   - the requests of the SDK, under the driver's own lock.               *)
(*                                                                         *)
(* They share one MQTT client, and each waits for its own publications.    *)
(* sendAck is called between cacheMu.Lock and cacheMu.Unlock: the parser   *)
(* waits for the client while it holds the mutex the callbacks need.       *)
(***************************************************************************)
EXTENDS Integers, Sequences

CONSTANTS
  Sensors, Words, MaxSessions,                       \* of Reassembly
  Requests, Work, Devices, MaxStatuses, MaxLosses,   \* of Downlink
  Parser,                                            \* the parser goroutine
  None

VARIABLES
  up, cur, caches, timers, reply, sduCh,                               \* of Reassembly
  pc, at, locker, holds, link, subscribed, losses, sent, dropped,     \* of Downlink
  cacheMu,     \* the goroutine that holds cacheMu
  ack          \* the acknowledgement each sender publishes; None: a data status

Callbacks == 1..MaxSessions
Senders == {Parser} \cup Callbacks

R == INSTANCE Reassembly
D == INSTANCE Downlink

ASSUME GoroutinesAssumption ==
  /\ Parser \notin Requests \cup Callbacks /\ Callbacks \cap Requests = {}
  /\ None \notin Senders \cup Requests

\* What the components assume of their constants.
ASSUME ReassemblyAssumption ==
  /\ \A w \in Words : w \in Nat /\ w < 64 * 1024
  /\ MaxSessions \in Nat
  /\ None \notin R!Frame \cup R!Ack \cup R!SDUCache
ASSUME DownlinkAssumption ==
  /\ Work \in [Requests -> [op : {"read", "write"}, device : Devices,
                            resources : Seq(D!Commands \cup {"plain"}), params : Nat]]
  /\ MaxStatuses \in Nat /\ MaxLosses \in Nat

reassembly == <<up, cur, caches, timers, reply, sduCh>>
downlink == <<pc, at, locker, holds, link, subscribed, losses, sent, dropped>>
vars == <<reassembly, downlink, cacheMu, ack>>

Init ==
  /\ R!Init /\ D!Init
  /\ cacheMu = None
  /\ ack = [c \in Senders |-> None]

-----------------------------------------------------------------------------
(* Publications.                                                           *)

\* sendAck builds the frame of the reply just decided on and calls SendFrame.
SendAck(c) ==
  /\ D!SendStatus(c)
  /\ ack' = [ack EXCEPT ![c] = reply']

\* Mutant: an early return, when the publication fails, passes over the Unlock.
SendFrame_keeps(c) ==
  /\ up
  /\ \/ D!Publish(c) /\ cacheMu' = IF cacheMu = c THEN None ELSE cacheMu
     \/ (D!PublishDropped(c) \/ D!PublishStuck(c)) /\ UNCHANGED cacheMu
  /\ UNCHANGED <<reassembly, ack>>

\* SendFrame returns when the publication does; whoever holds cacheMu unlocks it
\* only then, and keeps it while the publication is stuck.
SendFrame(c) ==
  /\ up
  /\ D!PublishSinkCommand(c)
  /\ cacheMu' = IF cacheMu = c /\ pc'[c] # "stuck" THEN None ELSE cacheMu
  /\ UNCHANGED <<reassembly, ack>>

-----------------------------------------------------------------------------
(* The parser goroutine.  It takes the next frame when it has published    *)
(* what the last one made it publish.  MaxStatuses bounds the frames.      *)

\* A data frame: its status is sent, without any lock.
DataFrame ==
  /\ up /\ cur = None
  /\ D!SendStatus(Parser)
  /\ ack' = [ack EXCEPT ![Parser] = None]
  /\ UNCHANGED <<reassembly, cacheMu>>

Fragment ==
  /\ pc[Parser] = "idle" /\ at[Parser] <= MaxStatuses
  /\ \E f \in R!Frame : R!Receive(f)
  /\ UNCHANGED <<downlink, cacheMu, ack>>

Panic == R!Panic /\ UNCHANGED <<downlink, cacheMu, ack>>

\* A fragment refused for its form: acknowledged before cacheMu is taken.
Refuse ==
  /\ R!HeaderTooShort \/ R!DataOverrun
  /\ SendAck(Parser)
  /\ UNCHANGED cacheMu

\* Any other is processed under cacheMu, up to its acknowledgement; only a restart
\* gives cacheMu back without one, to begin again.
Process ==
  /\ cacheMu = None
  /\ R!StartSession \/ R!Restart \/ R!Duplicate \/ R!Ahead \/ R!InOrder
  /\ IF cur' = None
     THEN SendAck(Parser) /\ cacheMu' = Parser
     ELSE UNCHANGED <<downlink, cacheMu, ack>>

-----------------------------------------------------------------------------
(* The timeout callbacks.                                                  *)

Fire(i) == R!Fire(i) /\ UNCHANGED <<downlink, cacheMu, ack>>

\* Mutant: the callback does not take cacheMu.
Discard_unlocked(i) == R!TimerDiscard(i) /\ UNCHANGED <<downlink, cacheMu, ack>>

\* Mutant: the callback unlocks when it returns (defer), after its publication.
Discard_held(i) ==
  /\ cacheMu = None
  /\ R!TimerDiscard(i)
  /\ cacheMu' = i
  /\ UNCHANGED <<downlink, ack>>

Discard(i) ==
  /\ cacheMu = None
  /\ R!TimerDiscard(i)
  /\ UNCHANGED <<downlink, cacheMu, ack>>

Nack(i) ==
  /\ R!TimerNack(i)
  /\ SendAck(i)
  /\ UNCHANGED cacheMu

-----------------------------------------------------------------------------
(* The requests, and the surroundings.                                     *)

Call(r) == up /\ D!Call(r) /\ UNCHANGED <<reassembly, cacheMu, ack>>

\* Mutant: one mutex for the whole service.
Handle_oneMutex(r) ==
  /\ up /\ cacheMu = None
  /\ D!Handle(r)
  /\ UNCHANGED <<reassembly, cacheMu, ack>>

Handle(r) == up /\ D!Handle(r) /\ UNCHANGED <<reassembly, cacheMu, ack>>

Reconnect == D!Reconnect /\ UNCHANGED <<reassembly, cacheMu, ack>>

Surroundings ==
  /\ D!ConnectionLost \/ D!DeviceChanged
  /\ UNCHANGED <<reassembly, cacheMu, ack>>

-----------------------------------------------------------------------------
Next ==
  \/ DataFrame \/ Fragment \/ Panic \/ Refuse \/ Process
  \/ \E i \in DOMAIN timers : Fire(i) \/ Discard(i) \/ Nack(i)
  \/ \E r \in Requests : Call(r) \/ Handle(r)
  \/ \E c \in Senders \cup Requests : SendFrame(c)
  \/ Reconnect \/ Surroundings

Spec == Init /\ [][Next]_vars

\* Goroutines run, timers expire, the client goes on reconnecting, publications
\* return unless they are stuck.  A sync.Mutex hands over to a waiter that others
\* have overtaken for a millisecond, so a callback gets cacheMu if it is free again
\* and again.
FairSpec ==
  /\ Spec
  /\ WF_vars(Panic) /\ WF_vars(Refuse) /\ WF_vars(Process) /\ WF_vars(Reconnect)
  /\ \A i \in Callbacks : /\ WF_vars(i \in DOMAIN timers /\ (Fire(i) \/ Nack(i)))
                          /\ SF_vars(i \in DOMAIN timers /\ Discard(i))
  /\ \A r \in Requests : WF_vars(Handle(r))
  /\ \A c \in Senders \cup Requests : WF_vars(SendFrame(c))
=============================================================================
