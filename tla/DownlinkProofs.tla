--------------------------- MODULE DownlinkProofs ---------------------------
(***************************************************************************)
(* The safety properties of the command path, for every set of requests,   *)
(* every list of resources and any number of connection losses.            *)
(***************************************************************************)
EXTENDS DownlinkProps, TLAPS

\* How far a request is, by what it does: it has not begun, it works on the
\* operation it asked for, a command of its list is on its way.
Place(r) ==
  /\ at[r] <= Len(Work[r].resources) + 1
  /\ pc[r] \in {"idle", "lock"} => at[r] = 1
  /\ pc[r] = "read" => Work[r].op = "read"
  /\ pc[r] \in {"write", "publish", "stuck"} => Work[r].op = "write"
  /\ pc[r] \in {"publish", "stuck"} =>
       at[r] <= Len(Work[r].resources) /\ Current(r) \in Commands
  /\ Mismatched(r) => at[r] = 1 /\ pc[r] \notin {"publish", "stuck", "ok"}
Places == \A r \in Requests : Place(r)

\* A caller has passed the numbers of its publications.
Numbered ==
  /\ \A c \in Callers : at[c] >= 1
  /\ \A p \in Published : p.at >= 1 /\ p.at < at[p.by]

\* A request after which another one has published is done.
Left ==
  \A i, j \in DOMAIN sent :
    (i < j /\ sent[i].by # sent[j].by) => pc[sent[i].by] \in {"ok", "failed"}

IInv ==
  /\ TypeOK /\ Places /\ Numbered /\ Left
  /\ TriedUpToHere /\ NeverSentAgain /\ RequestsDoNotMix

-----------------------------------------------------------------------------
\* What WorkAssumption says of one request.
LEMMA LengthIsNatural ==
  ASSUME NEW r \in Requests PROVE Len(Work[r].resources) \in Nat
<1>1. Work[r].resources \in Seq(Commands \cup {"plain"})
  BY WorkAssumption
<1> QED BY <1>1

LEMMA Operation == ASSUME NEW r \in Requests PROVE Work[r].op \in {"read", "write"}
  BY WorkAssumption

\* The initial states: nothing has been published.
LEMMA InitInvariant == Init => IInv
<1> SUFFICES ASSUME Init PROVE IInv
  OBVIOUS
<1> USE WorkAssumption, SendersAssumption, BoundAssumption
<1>0. sent = <<>> /\ DOMAIN sent = {} /\ Published = {}
  BY DEF Init, Published
<1>1. TypeOK
  BY DEF Init, TypeOK, Callers, Holding
<1>2. Places
  <2> SUFFICES ASSUME NEW r \in Requests PROVE Place(r)
    BY DEF Places
  <2>1. Len(Work[r].resources) \in Nat
    BY LengthIsNatural
  <2>2. pc[r] = "idle" /\ at[r] = 1
    BY DEF Init, Callers
  <2> QED BY <2>1, <2>2 DEF Place
<1>3. Numbered
  BY <1>0 DEF Numbered, Init, Callers
<1>4. Left /\ NeverSentAgain /\ RequestsDoNotMix
  BY <1>0 DEF Left, NeverSentAgain, RequestsDoNotMix
<1>5. TriedUpToHere
  <2> USE DEF TriedUpToHere
  <2> TAKE r \in Requests
  <2>1. Attempted(r) = {} /\ 1..at[r] - 1 = {} /\ pc[r] = "idle"
    BY <1>0 DEF Attempted, Init, Callers
  <2> QED BY <2>1
<1> QED BY <1>1, <1>2, <1>3, <1>4, <1>5 DEF IInv

\* Types and the lock.
LEMMA StepTypes == TypeOK /\ [Next]_vars => TypeOK'
<1> SUFFICES ASSUME TypeOK, [Next]_vars PROVE TypeOK'
  OBVIOUS
<1> USE SendersAssumption, BoundAssumption DEF TypeOK, Holding, Callers
<1>1. ASSUME NEW r \in Requests, Call(r) PROVE TypeOK'
  BY <1>1 DEF Call
<1>2. ASSUME NEW r \in Requests, Lock(r) PROVE TypeOK'
  BY <1>2, Operation DEF Lock
<1>3. ASSUME NEW r \in Requests, HandleReadCommands(r) PROVE TypeOK'
  BY <1>3 DEF HandleReadCommands, Return
<1>4. ASSUME NEW r \in Requests, HandleWriteCommands(r) PROVE TypeOK'
  <2> USE DEF HandleWriteCommands
  <2>1. ASSUME NEW result \in {"ok", "failed"}, Return(r, result), UNCHANGED at PROVE TypeOK'
    BY <1>4, <2>1 DEF Return
  <2>2. ASSUME pc' = [pc EXCEPT ![r] = "publish"], UNCHANGED <<at, locker>> PROVE TypeOK'
    BY <1>4, <2>2
  <2>3. ASSUME at' = [at EXCEPT ![r] = @ + 1], UNCHANGED <<pc, locker>> PROVE TypeOK'
    BY <1>4, <2>3
  <2> QED BY <1>4, <2>1, <2>2, <2>3 DEF HandleCommand
<1>5. ASSUME NEW c \in Senders, SendStatus(c) PROVE TypeOK'
  BY <1>5 DEF SendStatus
<1>6. ASSUME NEW c \in Callers, Publish(c) PROVE TypeOK'
  <2>1. sent' \in Seq(Publications)
    <3>1. sent \in Seq(Publications)
      BY DEF TypeOK
    <3>2. CASE c \in Requests
      <4>1. [by |-> c, at |-> at[c]] \in Publications
        BY <3>2 DEF Publications
      <4>2. sent' = Append(sent, [by |-> c, at |-> at[c]])
        BY <1>6, <3>2 DEF Publish
      <4> QED BY <3>1, <4>1, <4>2
    <3>3. CASE c \notin Requests
      BY <1>6, <3>1, <3>3 DEF Publish
    <3> QED BY <3>2, <3>3
  <2> QED BY <1>6, <2>1 DEF Publish, Resume
<1>7. ASSUME NEW c \in Callers, PublishDropped(c) PROVE TypeOK'
  <2>1. dropped' \subseteq Publications
    BY <1>7 DEF PublishDropped, Publications
  <2> QED BY <1>7, <2>1 DEF PublishDropped, Resume
<1>8. ASSUME NEW c \in Callers, PublishStuck(c) PROVE TypeOK'
  BY <1>8 DEF PublishStuck
<1>9. ASSUME ConnectionLost \/ Reconnect \/ DeviceChanged \/ UNCHANGED vars PROVE TypeOK'
  <2>1. CASE ConnectionLost
    <3>1. losses' \in 0..MaxLosses
      BY <2>1 DEF ConnectionLost
    <3>2. link' = "disconnecting" /\ subscribed' = FALSE
      BY <2>1 DEF ConnectionLost
    <3> QED BY <2>1, <3>1, <3>2 DEF ConnectionLost
  <2>2. CASE Reconnect
    BY <2>2 DEF Reconnect
  <2>3. CASE DeviceChanged
    <3>1. holds' \in [Devices -> Holdings]
      BY <2>3 DEF DeviceChanged
    <3> QED BY <2>3, <3>1 DEF DeviceChanged
  <2>4. CASE UNCHANGED vars
    BY <2>4 DEF vars
  <2> QED BY <1>9, <2>1, <2>2, <2>3, <2>4
<1> QED BY <1>1, <1>2, <1>3, <1>4, <1>5, <1>6, <1>7, <1>8, <1>9
        DEF Next, Handle, PublishSinkCommand

\* Whoever has published goes on.
LEMMA Resumed ==
  ASSUME TypeOK, NEW c \in Callers, Publish(c) \/ PublishDropped(c)
  PROVE  /\ pc' = [pc EXCEPT ![c] = IF c \in Senders THEN "idle" ELSE "write"]
         /\ at' = [at EXCEPT ![c] = @ + 1]
         /\ c \in Requests \/ UNCHANGED <<sent, dropped>>
  BY DEF Publish, PublishDropped, Resume

\* What a publication attempt of a request adds.
LEMMA Attempt ==
  ASSUME TypeOK, NEW c \in Requests, Publish(c) \/ PublishDropped(c)
  PROVE  /\ Published' = Published \cup {[by |-> c, at |-> at[c]]}
         /\ pc[c] = "publish" /\ pc'[c] # "publish"
         /\ pc' = [pc EXCEPT ![c] = IF c \in Senders THEN "idle" ELSE "write"]
         /\ at' = [at EXCEPT ![c] = @ + 1]
<1> DEFINE new == [by |-> c, at |-> at[c]]
<1>0. c \in Callers
  BY DEF Callers
<1>1. CASE Publish(c)
  <2>1. sent' = Append(sent, new) /\ dropped' = dropped /\ sent \in Seq(Publications)
    BY <1>1 DEF Publish, TypeOK
  <2>2. {sent'[i] : i \in DOMAIN sent'} = {sent[i] : i \in DOMAIN sent} \cup {new}
    <3> HIDE DEF new
    <3>1. DOMAIN sent = 1..Len(sent) /\ Len(sent) \in Nat /\ DOMAIN sent' = 1..Len(sent) + 1
      BY <2>1
    <3>2. \A i \in DOMAIN sent : sent'[i] = sent[i]
      BY <2>1
    <3>3. sent'[Len(sent) + 1] = new
      BY <2>1
    <3>4. \A i \in DOMAIN sent' : i \in DOMAIN sent \/ i = Len(sent) + 1
      BY <3>1
    <3>5. DOMAIN sent \subseteq DOMAIN sent' /\ Len(sent) + 1 \in DOMAIN sent'
      BY <3>1
    <3> QED BY <3>2, <3>3, <3>4, <3>5
  <2> QED BY <1>0, <1>1, <2>1, <2>2 DEF Publish, Resume, TypeOK, Published
<1>2. CASE PublishDropped(c)
  BY <1>0, <1>2 DEF PublishDropped, Resume, TypeOK, Published
<1> QED BY <1>1, <1>2

\* A step publishes or leaves the publications alone; no number goes back, and who
\* has answered has answered.
LEMMA Progress ==
  ASSUME TypeOK, [Next]_vars
  PROVE  /\ \/ \E c \in Requests : Publish(c) \/ PublishDropped(c)
            \/ UNCHANGED <<sent, dropped>>
         /\ \A c \in Callers : at'[c] >= at[c]
         /\ \A c \in Callers : pc[c] \in {"ok", "failed"} => pc'[c] = pc[c]
<1> USE DEF TypeOK, Callers
<1>1. CASE \E r \in Requests : Call(r) \/ Lock(r)
  BY <1>1 DEF Call, Lock
<1>2. CASE \E r \in Requests : HandleReadCommands(r)
  BY <1>2 DEF HandleReadCommands, Return
<1>3. ASSUME NEW r \in Requests, HandleWriteCommands(r)
      PROVE  /\ UNCHANGED <<sent, dropped>>
             /\ \A c \in Callers : at'[c] >= at[c]
             /\ \A c \in Callers : pc[c] \in {"ok", "failed"} => pc'[c] = pc[c]
  BY <1>3 DEF HandleWriteCommands, HandleCommand, Return
<1>4. CASE \E c \in Senders : SendStatus(c)
  BY <1>4 DEF SendStatus
<1>5. ASSUME NEW c \in Callers, Publish(c) \/ PublishDropped(c)
      PROVE  /\ c \in Requests \/ UNCHANGED <<sent, dropped>>
             /\ \A d \in Callers : at'[d] >= at[d]
             /\ \A d \in Callers : pc[d] \in {"ok", "failed"} => pc'[d] = pc[d]
  <2>1. pc[c] = "publish"
    BY <1>5 DEF Publish, PublishDropped
  <2> QED BY <1>5, <2>1, Resumed
<1>6. CASE \E c \in Callers : PublishStuck(c)
  BY <1>6 DEF PublishStuck
<1>7. CASE ConnectionLost \/ Reconnect \/ DeviceChanged \/ UNCHANGED vars
  BY <1>7 DEF ConnectionLost, Reconnect, DeviceChanged, vars
<1> QED BY <1>1, <1>2, <1>3, <1>4, <1>5, <1>6, <1>7 DEF Next, Handle, PublishSinkCommand

\* Where every request is, after a step.
LEMMA StepPlaces == IInv /\ [Next]_vars => Places'
<1> SUFFICES ASSUME TypeOK, Places, [Next]_vars, NEW s \in Requests PROVE Place(s)'
  BY DEF IInv, Places
<1>0. /\ Place(s) /\ Len(Work[s].resources) \in Nat
      /\ at[s] \in Nat /\ Work[s].op \in {"read", "write"} /\ s \notin Senders
  BY LengthIsNatural, Operation, SendersAssumption DEF Places, TypeOK, Callers
<1>a. CASE pc'[s] = pc[s] /\ at'[s] = at[s]
  BY <1>0, <1>a DEF Place, Current, Mismatched
<1> USE DEF TypeOK, Callers
<1>1. ASSUME NEW r \in Requests, Call(r) PROVE Place(s)'
  BY <1>1, <1>0, <1>a DEF Call, Place
<1>2. ASSUME NEW r \in Requests, Lock(r) PROVE Place(s)'
  BY <1>2, <1>0, <1>a DEF Lock, Place
<1>3. ASSUME NEW r \in Requests, HandleReadCommands(r) PROVE Place(s)'
  BY <1>3, <1>0, <1>a DEF HandleReadCommands, Return, Place, Mismatched
<1>4. ASSUME NEW r \in Requests, HandleWriteCommands(r) PROVE Place(s)'
  BY <1>4, <1>0, <1>a DEF HandleWriteCommands, HandleCommand, Return, Place, Current
<1>5. ASSUME NEW c \in Senders, SendStatus(c) PROVE Place(s)'
  BY <1>5, <1>0, <1>a DEF SendStatus
<1>6. ASSUME NEW c \in Callers, Publish(c) \/ PublishDropped(c) PROVE Place(s)'
  <2>1. pc[c] = "publish"
    BY <1>6 DEF Publish, PublishDropped
  <2> QED BY <1>6, <1>0, <1>a, <2>1, Resumed DEF Place
<1>7. ASSUME NEW c \in Callers, PublishStuck(c) PROVE Place(s)'
  BY <1>7, <1>0, <1>a DEF PublishStuck, Place, Current
<1>8. CASE ConnectionLost \/ Reconnect \/ DeviceChanged \/ UNCHANGED vars
  BY <1>8, <1>a DEF ConnectionLost, Reconnect, DeviceChanged, vars
<1> QED BY <1>1, <1>2, <1>3, <1>4, <1>5, <1>6, <1>7, <1>8 DEF Next, Handle, PublishSinkCommand

\* The numbers of publications stay behind their publisher's.
LEMMA StepNumbered == IInv /\ [Next]_vars => Numbered'
<1> SUFFICES ASSUME TypeOK, Numbered, [Next]_vars PROVE Numbered'
  BY DEF IInv
<1>1. at \in [Callers -> Nat] /\ Published \subseteq Publications
  BY DEF TypeOK, Published
<1>2. \A c \in Callers : at'[c] >= at[c]
  BY Progress
<1>3. ASSUME NEW c \in Requests, Publish(c) \/ PublishDropped(c) PROVE Numbered'
  <2>1. Published' = Published \cup {[by |-> c, at |-> at[c]]} /\ at' = [at EXCEPT ![c] = @ + 1]
    BY <1>3, Attempt
  <2> QED BY <1>1, <2>1 DEF Numbered, Publications, Callers
<1>4. CASE UNCHANGED <<sent, dropped>>
  <2>1. Published' = Published
    BY <1>4 DEF Published
  <2>2. at' \in [Callers -> Nat]
    BY StepTypes DEF TypeOK
  <2> QED BY <1>1, <1>2, <2>1, <2>2 DEF Numbered, Publications, Callers
<1> QED BY <1>3, <1>4, Progress

\* A publication that is written is new, and comes after everything sent before.
LEMMA StepSent == IInv /\ [Next]_vars => Left' /\ NeverSentAgain' /\ RequestsDoNotMix'
<1> SUFFICES ASSUME TypeOK, Places, Numbered, Left, NeverSentAgain,
                    RequestsDoNotMix, [Next]_vars
             PROVE  Left' /\ NeverSentAgain' /\ RequestsDoNotMix'
  BY DEF IInv
<1>0. /\ sent \in Seq(Publications) /\ Len(sent) \in Nat /\ DOMAIN sent = 1..Len(sent)
      /\ \A i \in DOMAIN sent : sent[i] \in Publications /\ sent[i] \in Published
      /\ \A p \in dropped : p \in Published
      /\ at \in [Callers -> Nat]
  BY DEF TypeOK, Published
<1>1. \A r \in Requests : pc[r] \in {"ok", "failed"} => pc'[r] = pc[r]
  BY Progress DEF Callers
<1>2. \A r \in Requests : pc[r] \in {"idle", "lock"} => at[r] = 1
  BY DEF Places, Place
<1>3. CASE UNCHANGED <<sent, dropped>>
  <2>1. NeverSentAgain' /\ RequestsDoNotMix'
    BY <1>3 DEF NeverSentAgain, RequestsDoNotMix
  <2>2. Left'
    BY <1>0, <1>1, <1>3 DEF Left, Publications
  <2> QED BY <2>1, <2>2
<1>4. ASSUME NEW c \in Requests, PublishDropped(c)
      PROVE  Left' /\ NeverSentAgain' /\ RequestsDoNotMix'
  <2>1. sent' = sent /\ dropped' = dropped \cup {[by |-> c, at |-> at[c]]}
    BY <1>4 DEF PublishDropped
  <2>2. \A i \in DOMAIN sent : sent[i] # [by |-> c, at |-> at[c]]
    BY <1>0 DEF Numbered, Callers
  <2>3. NeverSentAgain' /\ RequestsDoNotMix'
    BY <2>1, <2>2 DEF NeverSentAgain, RequestsDoNotMix
  <2>4. Left'
    BY <1>0, <1>1, <2>1 DEF Left, Publications
  <2> QED BY <2>3, <2>4
<1>5. ASSUME NEW c \in Requests, Publish(c)
      PROVE  Left' /\ NeverSentAgain' /\ RequestsDoNotMix'
  <2> DEFINE new == [by |-> c, at |-> at[c]]
             n   == Len(sent) + 1
  <2>0. /\ sent' = Append(sent, new) /\ dropped' = dropped /\ pc[c] = "publish"
        /\ new.by = c /\ new.at = at[c] /\ new \in Publications
    BY <1>0, <1>5 DEF Publish, Publications, Callers
  <2> HIDE DEF new
  <2>1. /\ DOMAIN sent' = 1..n /\ sent'[n] = new
        /\ \A i \in DOMAIN sent : sent'[i] = sent[i]
        /\ \A i \in DOMAIN sent' : i \in DOMAIN sent \/ i = n
    BY <1>0, <2>0
  <2>2. ASSUME NEW i \in DOMAIN sent, sent[i].by \in Requests, sent[i].by # c
        PROVE  pc[sent[i].by] \in {"ok", "failed"}
    <3> DEFINE r == sent[i].by
    <3>1. locker = c
      BY <2>0 DEF TypeOK, Holding
    <3>2. pc[r] \notin Holding
      BY <2>2, <3>1 DEF TypeOK
    <3>3. at[r] > 1
      BY <1>0, <2>2 DEF Numbered, Publications, Callers
    <3>4. pc[r] \notin {"idle", "lock"}
      BY <1>2, <2>2, <3>3
    <3> QED BY <2>2, <3>2, <3>4 DEF TypeOK, Callers
  <2>3. Left'
    <3> SUFFICES ASSUME NEW i \in DOMAIN sent', NEW j \in DOMAIN sent', i < j,
                        sent'[i].by # sent'[j].by
                 PROVE  pc'[sent'[i].by] \in {"ok", "failed"}
      BY DEF Left
    <3>1. i \in DOMAIN sent /\ sent'[i] = sent[i]
      BY <1>0, <2>1
    <3>2. CASE j \in DOMAIN sent
      BY <1>0, <1>1, <2>1, <3>1, <3>2 DEF Left, Publications
    <3>3. CASE j = n
      BY <1>0, <1>1, <2>0, <2>1, <2>2, <3>1, <3>3 DEF Publications
    <3> QED BY <2>1, <3>2, <3>3
  <2>4. NeverSentAgain'
    <3>1. new \notin dropped
      BY <1>0, <2>0 DEF Numbered, Callers
    <3> QED BY <2>0, <2>1, <3>1 DEF NeverSentAgain
  <2>5. RequestsDoNotMix'
    <3> SUFFICES ASSUME NEW i \in DOMAIN sent', NEW k \in DOMAIN sent', i < k,
                        sent'[i].by = sent'[k].by
                 PROVE  /\ sent'[i].at < sent'[k].at
                        /\ \A j \in i..k : sent'[j].by = sent'[i].by
      BY DEF RequestsDoNotMix
    <3>1. i \in DOMAIN sent /\ sent'[i] = sent[i]
      BY <1>0, <2>1
    <3>2. CASE k \in DOMAIN sent
      <4>1. \A j \in i..k : j \in DOMAIN sent /\ sent'[j] = sent[j]
        BY <1>0, <2>1, <3>1, <3>2
      <4>2. sent'[k] = sent[k]
        BY <2>1, <3>2
      <4> QED BY <3>1, <3>2, <4>1, <4>2 DEF RequestsDoNotMix
    <3>3. CASE k = n
      <4>1. sent'[k] = new /\ sent[i].by = c
        BY <2>0, <2>1, <3>1, <3>3
      <4>2. sent[i].at < at[c]
        BY <1>0, <3>1, <4>1 DEF Numbered
      <4>3. ASSUME NEW j \in i..k, sent'[j].by # c
            PROVE  FALSE
        <5>1. j \in DOMAIN sent /\ sent'[j] = sent[j] /\ i < j
          BY <1>0, <2>0, <2>1, <3>1, <3>3, <4>1, <4>3
        <5>2. pc[c] \in {"ok", "failed"}
          BY <3>1, <4>1, <4>3, <5>1 DEF Left
        <5> QED BY <2>0, <5>2
      <4> QED BY <2>0, <3>1, <4>1, <4>2, <4>3
    <3> QED BY <2>1, <3>2, <3>3
  <2> QED BY <2>3, <2>4, <2>5
<1> QED BY <1>3, <1>4, <1>5, Progress

\* What has been tried of a request, after a step.
LEMMA StepTried == IInv /\ [Next]_vars => TriedUpToHere'
<1> SUFFICES ASSUME IInv, TypeOK, Places, Numbered, TriedUpToHere, [Next]_vars,
                    NEW s \in Requests, Work[s].op = "write"
             PROVE  /\ Attempted(s)' = {i \in 1..at'[s] - 1 : Work[s].resources[i] \in Commands}
                    /\ pc'[s] = "ok" => at'[s] = Len(Work[s].resources) + 1
                    /\ pc'[s] = "failed" /\ ~Mismatched(s) => Work[s].resources[at'[s]] \in Commands
                    /\ Mismatched(s) => Attempted(s)' = {} /\ pc'[s] # "ok"
  BY DEF IInv, TriedUpToHere, Current, Mismatched
<1> DEFINE Tried(n) == {i \in 1..n - 1 : Work[s].resources[i] \in Commands}
           Goal == /\ Attempted(s)' = Tried(at'[s])
                   /\ pc'[s] = "ok" => at'[s] = Len(Work[s].resources) + 1
                   /\ pc'[s] = "failed" /\ ~Mismatched(s) => Work[s].resources[at'[s]] \in Commands
                   /\ Mismatched(s) => pc'[s] # "ok"
<1>11. s \in Callers /\ s \notin Senders /\ Current(s) = Work[s].resources[at[s]]
  BY SendersAssumption DEF Callers, Current
<1>12. /\ pc \in [Callers -> {"idle", "lock", "ok", "failed"} \cup Holding]
      /\ at \in [Callers -> Nat]
  BY DEF TypeOK
<1>0. /\ Attempted(s) = Tried(at[s])
      /\ pc[s] = "ok" => at[s] = Len(Work[s].resources) + 1
      /\ pc[s] = "failed" /\ ~Mismatched(s) => Work[s].resources[at[s]] \in Commands
      /\ Mismatched(s) => pc[s] # "ok"
      /\ pc \in [Callers -> {"idle", "lock", "ok", "failed"} \cup Holding]
      /\ at \in [Callers -> Nat]
      /\ s \in Callers /\ s \notin Senders /\ at[s] >= 1
  BY <1>11, <1>12 DEF TriedUpToHere, Numbered
<1>1. Len(Work[s].resources) \in Nat /\ Place(s)
  BY LengthIsNatural DEF Places
<1>2. ASSUME UNCHANGED <<sent, dropped>> PROVE Attempted(s)' = Attempted(s)
  BY <1>2 DEF Attempted, Published
<1>3. ASSUME UNCHANGED <<sent, dropped>>, pc'[s] = pc[s], at'[s] = at[s] PROVE Goal
  BY <1>0, <1>2, <1>3
<1>4. ASSUME UNCHANGED <<sent, dropped>>, pc'[s] \notin {"ok", "failed"}, at'[s] = at[s] PROVE Goal
  BY <1>0, <1>2, <1>4
<1>5. ASSUME NEW r \in Requests, Call(r) \/ Lock(r) \/ PublishStuck(r) PROVE Goal
  <2>1. CASE r = s
    BY <1>0, <1>4, <1>5, <2>1, Operation DEF Call, Lock, PublishStuck
  <2>2. CASE r # s
    BY <1>0, <1>3, <1>5, <2>2 DEF Call, Lock, PublishStuck
  <2> QED BY <2>1, <2>2
<1>6. ASSUME NEW r \in Requests, HandleReadCommands(r) PROVE Goal
  <2>1. r # s
    BY <1>1, <1>6 DEF HandleReadCommands, Place
  <2> QED BY <1>0, <1>3, <1>6, <2>1 DEF HandleReadCommands, Return
<1>7. ASSUME NEW r \in Requests, HandleWriteCommands(r) PROVE Goal
  <2>1. CASE r # s
    BY <1>0, <1>3, <1>7, <2>1 DEF HandleWriteCommands, HandleCommand, Return
  <2>2. ASSUME r = s, ~Mismatched(s), at[s] > Len(Work[s].resources), Return(s, "ok"), UNCHANGED at
        PROVE  Goal
    <3>1. pc'[s] = "ok" /\ at'[s] = Len(Work[s].resources) + 1
      BY <1>0, <1>1, <2>2 DEF Return, Place
    <3> QED BY <1>0, <1>2, <1>7, <2>2, <3>1 DEF HandleWriteCommands
  <2>3. ASSUME r = s, HandleCommand(s) PROVE Goal
    <3>1. CASE pc' = [pc EXCEPT ![s] = "publish"] /\ UNCHANGED at
      BY <1>0, <1>4, <1>7, <3>1 DEF HandleWriteCommands
    <3>2. CASE Return(s, "failed") /\ UNCHANGED at
      <4>1. pc'[s] = "failed" /\ Work[s].resources[at[s]] \in Commands
        BY <1>0, <2>3, <3>2 DEF Return, HandleCommand, Current
      <4> QED BY <1>0, <1>2, <1>7, <3>2, <4>1 DEF HandleWriteCommands
    <3> QED BY <2>3, <3>1, <3>2 DEF HandleCommand
  <2>4. ASSUME r = s, Current(s) = "plain", at' = [at EXCEPT ![s] = @ + 1], UNCHANGED pc PROVE Goal
    <3>1. Work[s].resources[at[s]] \notin Commands
      BY <2>4 DEF Current, Commands
    <3>2. Tried(at[s] + 1) = Tried(at[s])
      BY <1>0, <3>1
    <3>3. at'[s] = at[s] + 1 /\ pc'[s] = "write"
      BY <1>0, <1>7, <2>4 DEF HandleWriteCommands
    <3> QED BY <1>0, <1>2, <1>7, <3>2, <3>3 DEF HandleWriteCommands
  <2>5. ASSUME r = s, Mismatched(s), Return(s, "failed"), UNCHANGED at PROVE Goal
    <3>1. pc'[s] = "failed"
      BY <1>0, <2>5 DEF Return
    <3> QED BY <1>0, <1>2, <1>7, <2>5, <3>1 DEF HandleWriteCommands
  <2> QED BY <1>7, <2>1, <2>2, <2>3, <2>4, <2>5 DEF HandleWriteCommands
<1>8. ASSUME NEW c \in Requests, Publish(c) \/ PublishDropped(c) PROVE Goal
  <2>1. /\ Published' = Published \cup {[by |-> c, at |-> at[c]]}
        /\ pc[c] = "publish" /\ at' = [at EXCEPT ![c] = @ + 1]
        /\ pc' = [pc EXCEPT ![c] = IF c \in Senders THEN "idle" ELSE "write"]
    BY <1>8, Attempt DEF Callers
  <2>2. CASE c = s
    <3> DEFINE new == [by |-> c, at |-> at[c]]
    <3>5. new.by = s /\ new.at = at[s] /\ Published' = Published \cup {new}
      BY <2>1, <2>2
    <3>6. {p \in Published' : p.by = s} = {p \in Published : p.by = s} \cup {new}
      <4> HIDE DEF new
      <4> QED BY <3>5
    <3>1. Attempted(s)' = Attempted(s) \cup {at[s]}
      <4> HIDE DEF new
      <4> QED BY <3>5, <3>6 DEF Attempted
    <3>2. Work[s].resources[at[s]] \in Commands
      BY <1>1, <2>1, <2>2 DEF Place, Current
    <3>3. Tried(at[s] + 1) = Tried(at[s]) \cup {at[s]}
      BY <1>0, <3>2
    <3>4. at'[s] = at[s] + 1 /\ pc'[s] = "write"
      BY <1>0, <2>1, <2>2
    <3> QED BY <1>0, <3>1, <3>3, <3>4
  <2>3. CASE c # s
    <3>1. Attempted(s)' = Attempted(s)
      BY <2>1, <2>3 DEF Attempted
    <3>2. at'[s] = at[s] /\ pc'[s] = pc[s]
      BY <1>0, <2>1, <2>3
    <3> QED BY <1>0, <3>1, <3>2
  <2> QED BY <2>2, <2>3
<1>9. ASSUME NEW c \in Senders, SendStatus(c) \/ PublishStuck(c) \/ Publish(c) \/ PublishDropped(c)
      PROVE  Goal
  <2>1. CASE SendStatus(c) \/ PublishStuck(c)
    BY <1>0, <1>3, <2>1 DEF SendStatus, PublishStuck
  <2>2. CASE Publish(c) \/ PublishDropped(c)
    <3>1. /\ UNCHANGED <<sent, dropped>> /\ pc' = [pc EXCEPT ![c] = "idle"]
          /\ at' = [at EXCEPT ![c] = @ + 1]
      BY <2>2, SendersAssumption, Resumed DEF Callers
    <3> QED BY <1>0, <1>3, <3>1
  <2> QED BY <1>9, <2>1, <2>2
<1>10. ASSUME ConnectionLost \/ Reconnect \/ DeviceChanged \/ UNCHANGED vars PROVE Goal
  BY <1>3, <1>10 DEF ConnectionLost, Reconnect, DeviceChanged, vars
<1>13. Goal
  BY <1>5, <1>6, <1>7, <1>8, <1>9, <1>10 DEF Next, Handle, PublishSinkCommand, Callers
<1>14. Mismatched(s) => Attempted(s)' = {}
  <2>1. Place(s)'
    BY StepPlaces DEF Places
  <2>2. Mismatched(s) => at'[s] = 1
    BY <2>1 DEF Place, Mismatched
  <2> QED BY <1>13, <2>2
<1> QED BY <1>13, <1>14

LEMMA Invariance == Spec => []IInv
<1>1. IInv /\ [Next]_vars => IInv'
  BY StepTypes, StepPlaces, StepNumbered, StepSent, StepTried DEF IInv
<1> QED BY <1>1, InitInvariant, PTL DEF Spec

-----------------------------------------------------------------------------
\* Every variable has its type, and exactly the request that works holds the lock
\* of HandleReadCommands and HandleWriteCommands.
THEOREM TypeCorrect == Spec => []TypeOK
<1>1. IInv => TypeOK
  BY DEF IInv
<1> QED BY <1>1, Invariance, PTL

\* Frames of different write requests do not mix on their way to the sink, and those
\* of one request keep its order, however the connection behaves.
THEOREM NoMixing == Spec => []RequestsDoNotMix
<1>1. IInv => RequestsDoNotMix
  BY DEF IInv
<1> QED BY <1>1, Invariance, PTL

\* What HandleWriteCommands has tried follows from where it stands: no command is
\* passed over, and none after the one that failed is tried.
THEOREM TriedExactly == Spec => []TriedUpToHere
<1>1. IInv => TriedUpToHere
  BY DEF IInv
<1> QED BY <1>1, Invariance, PTL

\* SendFrame never repeats a publication that failed.
THEOREM NoRepetition == Spec => []NeverSentAgain
<1>1. IInv => NeverSentAgain
  BY DEF IInv
<1> QED BY <1>1, Invariance, PTL
=============================================================================
