---------------------------- MODULE DownlinkProps ----------------------------
(***************************************************************************)
(* What holds of the command path, and what its texts say.                 *)
(***************************************************************************)
EXTENDS Downlink

Publications == [by : Requests, at : Nat]
Holding == {"read", "write", "publish", "stuck"}

\* Every variable has its type, and the lock is held by the one request that works.
TypeOK ==
  /\ pc \in [Callers -> {"idle", "lock", "ok", "failed"} \cup Holding]
  /\ \A c \in Senders : pc[c] \in {"idle", "publish", "stuck"}
  /\ at \in [Callers -> Nat]
  /\ locker \in Requests \cup {None}
  /\ \A r \in Requests : pc[r] \in Holding <=> locker = r
  /\ holds \in [Devices -> Holdings]
  /\ link \in {"connected", "disconnecting", "reconnecting"}
  /\ subscribed \in BOOLEAN
  /\ losses \in 0..MaxLosses
  /\ sent \in Seq(Publications) /\ dropped \subseteq Publications

\* The frames of one write request leave in the order of its resources, and no
\* frame of another request between them.
RequestsDoNotMix ==
  \A i, k \in DOMAIN sent :
    (i < k /\ sent[i].by = sent[k].by) =>
      /\ sent[i].at < sent[k].at
      /\ \A j \in i..k : sent[j].by = sent[i].by

Published == dropped \cup {sent[i] : i \in DOMAIN sent}
Attempted(r) == {p.at : p \in {q \in Published : q.by = r}}

\* Every command of a request has been tried, once, up to the place the request is
\* at, and none from there on: all of them when it succeeds, and when it fails
\* exactly those before the resource that failed.  A request whose values do not match
\* its resources tries none and fails.
TriedUpToHere ==
  \A r \in Requests : Work[r].op = "write" =>
    /\ Attempted(r) = {i \in 1..at[r] - 1 : Work[r].resources[i] \in Commands}
    /\ pc[r] = "ok" => at[r] = Len(Work[r].resources) + 1
    /\ pc[r] = "failed" /\ ~Mismatched(r) => Current(r) \in Commands
    /\ Mismatched(r) => Attempted(r) = {} /\ pc[r] # "ok"

\* Nothing is both sent and dropped: a publication that failed is not repeated.
NeverSentAgain == \A i \in DOMAIN sent : sent[i] \notin dropped

\* Every request is answered, whatever happens to devices and connection, unless a
\* request's publication falls into the taking down of a connection.  The publications
\* of the other senders, stuck or not, hold up no request.
RequestAnswered ==
  \A r \in Requests :
    pc[r] = "lock" ~> (pc[r] \in {"ok", "failed"} \/ \E s \in Requests : pc[s] = "stuck")

-----------------------------------------------------------------------------
(* What comments of mqttclient.go say, which the code does not do.         *)

\* mqttclient.go:22 "set automatic reconnection" and :59 "subscribe to the topic":
\* after a reconnection the messages of the sink arrive again.
SubscribedAgain == link = "reconnecting" ~> (link = "connected" /\ subscribed)
=============================================================================
