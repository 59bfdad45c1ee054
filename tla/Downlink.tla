------------------------------ MODULE Downlink ------------------------------
(***************************************************************************)
(* The way of a command from EdgeX to the sink:                            *)
(*   HandleWriteCommands -> handle... -> relay.SendFrame                   *)
(*     -> mqttclient.PublishSinkCommand -> the MQTT client,                *)
(* next to HandleReadCommands, which takes the same lock, and to the       *)
(* goroutines that publish without it: the parser with its data statuses   *)
(* and acknowledgements, the timeout callbacks with their refusals.        *)
(*                                                                         *)
(* A publication of a request is named by the request and the place of the *)
(* resource; those of other goroutines are only counted.                   *)
(***************************************************************************)
EXTENDS Integers, Sequences

CONSTANTS
  Requests,      \* the requests the SDK hands to the driver, each by a goroutine
  Work,          \* per request its operation, device, resources and number of values
  Devices,
  Senders,       \* the goroutines that publish without the driver's lock
  None,
  MaxStatuses,   \* bound on the publications of a sender (TLC only)
  MaxLosses      \* bound on the connection losses (TLC only)

\* The resources that are commands, when their value is 1; any other resource, or
\* a command with another value, is a "plain" one.
Commands ==
  {"Time_Parameter_Query", "Time_Parameter_Set", "Reset_Set", "ID_Query",
   "General_Parameter_Query", "Alarm_Parameter_Query", "Monitoring_Data_Query",
   "topologyDiagramQuery"}

ASSUME WorkAssumption ==
  Work \in [Requests -> [op : {"read", "write"}, device : Devices,
                         resources : Seq(Commands \cup {"plain"}), params : Nat]]
ASSUME SendersAssumption == Senders \cap Requests = {} /\ None \notin Requests
ASSUME BoundAssumption == MaxStatuses \in Nat /\ MaxLosses \in Nat

Callers == Requests \cup Senders

VARIABLES
  pc,          \* what each caller does
  at,          \* the resource a request is at; a sender's count
  locker,      \* who holds the driver's lock
  holds,       \* what each device has: nothing, values, or values with an "eid"
  link,        \* the MQTT client's status
  subscribed,  \* whether the broker knows the subscription
  losses,      \* connection losses so far
  sent,        \* the requests' publications written to the connection, in their order
  dropped      \* those that were not

vars == <<pc, at, locker, holds, link, subscribed, losses, sent, dropped>>

Current(r) == Work[r].resources[at[r]]

\* A write request with more resources than values, or fewer.
Mismatched(r) == Work[r].op = "write" /\ Work[r].params # Len(Work[r].resources)

Holdings == {"nothing", "values", "eid"}

\* Initialize has connected and Start has subscribed.
Init ==
  /\ pc = [c \in Callers |-> "idle"]
  /\ at = [c \in Callers |-> 1]
  /\ locker = None
  /\ holds \in [Devices -> Holdings]
  /\ link = "connected" /\ subscribed = TRUE /\ losses = 0
  /\ sent = <<>> /\ dropped = {}

-----------------------------------------------------------------------------
(* Requests.                                                               *)

\* The SDK calls HandleReadCommands or HandleWriteCommands.
Call(r) ==
  /\ pc[r] = "idle"
  /\ pc' = [pc EXCEPT ![r] = "lock"]
  /\ UNCHANGED <<at, locker, holds, link, subscribed, losses, sent, dropped>>

\* Mutant: the lock is not waited for.
Lock_free(r) ==
  /\ pc[r] = "lock"
  /\ locker' = r
  /\ pc' = [pc EXCEPT ![r] = Work[r].op]
  /\ UNCHANGED <<at, holds, link, subscribed, losses, sent, dropped>>

Lock(r) ==
  /\ pc[r] = "lock" /\ locker = None
  /\ locker' = r
  /\ pc' = [pc EXCEPT ![r] = Work[r].op]
  /\ UNCHANGED <<at, holds, link, subscribed, losses, sent, dropped>>

\* Mutant: the lock is kept.
Return_locked(r, result) ==
  /\ pc' = [pc EXCEPT ![r] = result]
  /\ UNCHANGED locker

\* The handler returns; its deferred Unlock runs.
Return(r, result) ==
  /\ pc' = [pc EXCEPT ![r] = result]
  /\ locker' = None

\* A read copies the device's values at once.  It fails when the device has none; when
\* a resource is not among them, or cannot be converted (module Readings), it may.
HandleReadCommands(r) ==
  /\ pc[r] = "read"
  /\ \E result \in {"ok", "failed"} :
        /\ holds[Work[r].device] = "nothing" => result = "failed"
        /\ Return(r, result)
  /\ UNCHANGED <<at, holds, link, subscribed, losses, sent, dropped>>

\* Mutant: a device without an eid is passed over like a plain resource.
HandleCommand_skips(r) ==
  /\ Current(r) \in Commands
  /\ IF holds[Work[r].device] = "eid"
     THEN pc' = [pc EXCEPT ![r] = "publish"] /\ UNCHANGED <<at, locker>>
     ELSE at' = [at EXCEPT ![r] = @ + 1] /\ UNCHANGED <<pc, locker>>

\* The eight handlers: the device's eid is looked up, and without it the request
\* fails; else the command's frame is built and goes to SendFrame.
HandleCommand(r) ==
  /\ Current(r) \in Commands
  /\ IF holds[Work[r].device] = "eid"
     THEN pc' = [pc EXCEPT ![r] = "publish"] /\ UNCHANGED <<at, locker>>
     ELSE Return(r, "failed") /\ UNCHANGED at

\* Nothing is done unless there is a value for each resource; then one resource after
\* the other, a plain one is passed over.
HandleWriteCommands(r) ==
  /\ pc[r] = "write"
  /\ \/ Mismatched(r) /\ Return(r, "failed") /\ UNCHANGED at
     \/ /\ ~Mismatched(r) /\ at[r] > Len(Work[r].resources)
        /\ Return(r, "ok") /\ UNCHANGED at
     \/ /\ ~Mismatched(r) /\ at[r] <= Len(Work[r].resources)
        /\ \/ HandleCommand(r)
           \/ /\ Current(r) = "plain"
              /\ at' = [at EXCEPT ![r] = @ + 1]
              /\ UNCHANGED <<pc, locker>>
  /\ UNCHANGED <<holds, link, subscribed, losses, sent, dropped>>

-----------------------------------------------------------------------------
(* Publications.                                                           *)

\* SendDataStatus, or sendAck: a frame goes to SendFrame without the driver's lock.
SendStatus(c) ==
  /\ pc[c] = "idle" /\ at[c] <= MaxStatuses
  /\ pc' = [pc EXCEPT ![c] = "publish"]
  /\ UNCHANGED <<at, locker, holds, link, subscribed, losses, sent, dropped>>

\* SendFrame ignores the error of the publication: its caller goes on to the next
\* resource, or frame, as if it had been sent.
Resume(c) ==
  /\ pc' = [pc EXCEPT ![c] = IF c \in Senders THEN "idle" ELSE "write"]
  /\ at' = [at EXCEPT ![c] = @ + 1]

\* The client writes the publication to the connection, ...
Publish(c) ==
  /\ pc[c] = "publish" /\ link = "connected"
  /\ sent' = IF c \in Requests THEN Append(sent, [by |-> c, at |-> at[c]]) ELSE sent
  /\ Resume(c)
  /\ UNCHANGED <<locker, holds, link, subscribed, losses, dropped>>

\* ... or fails to (error, timeout), or throws it away while it reconnects.
PublishDropped(c) ==
  /\ pc[c] = "publish" /\ link \in {"connected", "reconnecting"}
  /\ dropped' = IF c \in Requests THEN dropped \cup {[by |-> c, at |-> at[c]]} ELSE dropped
  /\ Resume(c)
  /\ UNCHANGED <<locker, holds, link, subscribed, losses, sent>>

\* While the client takes an old connection down, it gives out a token that it
\* never completes, and token.Wait has no timeout.
PublishStuck(c) ==
  /\ pc[c] = "publish" /\ link = "disconnecting"
  /\ pc' = [pc EXCEPT ![c] = "stuck"]
  /\ UNCHANGED <<at, locker, holds, link, subscribed, losses, sent, dropped>>

PublishSinkCommand(c) == Publish(c) \/ PublishDropped(c) \/ PublishStuck(c)

-----------------------------------------------------------------------------
(* The surroundings.                                                       *)

\* The connection breaks; with a clean session the broker forgets the subscription.
ConnectionLost ==
  /\ link = "connected" /\ losses < MaxLosses
  /\ link' = "disconnecting" /\ subscribed' = FALSE
  /\ losses' = losses + 1
  /\ UNCHANGED <<pc, at, locker, holds, sent, dropped>>

\* The client reconnects by itself; nobody subscribes again.
Reconnect ==
  /\ \/ link = "disconnecting" /\ link' = "reconnecting"
     \/ link = "reconnecting" /\ link' = "connected"
  /\ UNCHANGED <<pc, at, locker, holds, subscribed, losses, sent, dropped>>

\* RemoveDevice and AddDevice (module DeviceTables).
DeviceChanged ==
  /\ \E d \in Devices, h \in Holdings : holds' = [holds EXCEPT ![d] = h]
  /\ UNCHANGED <<pc, at, locker, link, subscribed, losses, sent, dropped>>

-----------------------------------------------------------------------------
Handle(r) == Lock(r) \/ HandleReadCommands(r) \/ HandleWriteCommands(r)

Next ==
  \/ \E r \in Requests : Call(r) \/ Handle(r)
  \/ \E c \in Senders : SendStatus(c)
  \/ \E c \in Callers : PublishSinkCommand(c)
  \/ ConnectionLost \/ Reconnect \/ DeviceChanged

Spec == Init /\ [][Next]_vars

\* Goroutines run, a mutex that is free is given, the client goes on reconnecting.
FairSpec ==
  /\ Spec
  /\ \A r \in Requests : WF_vars(Handle(r))
  /\ \A c \in Callers : WF_vars(PublishSinkCommand(c))
  /\ WF_vars(Reconnect)
=============================================================================
