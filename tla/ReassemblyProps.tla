--------------------------- MODULE ReassemblyProps ---------------------------
(***************************************************************************)
(* What reassembly guarantees, and the refinement of OrderedReceiver.      *)
(***************************************************************************)
EXTENDS Reassembly

-----------------------------------------------------------------------------
TimerInFlight(i) == timers[i].state \in {"armed", "fired"}

\* Every variable has its type; every session refers to a timer that exists.
TypeOK ==
  /\ up \in BOOLEAN
  /\ cur \in Frame \cup {None}
  /\ caches \in [Sensors -> SDUCache \cup {None}]
  /\ timers \in Seq(Timer)
  /\ reply \in Ack \cup {None}
  /\ sduCh \in Seq(SDU)

First(c) == PSEQ(c.buffer[1])

\* The buffer holds fragments of the session's own SSEQ only, numbered without
\* gap, repetition or inversion from the first one up to expected - 1.
Contiguous(c) ==
  /\ Len(c.buffer) > 0
  /\ c.expected = First(c) + Len(c.buffer)
  /\ \A i \in 1..Len(c.buffer) :
        /\ SSEQ(c.buffer[i]) = c.SSEQ
        /\ PSEQ(c.buffer[i]) = First(c) + i - 1

\* The fragments kept out of order are all beyond the gap at expected, one per
\* PSEQ, of the session's SSEQ.
Merged(c) ==
  \A w \in c.outOfOrder :
     /\ PSEQ(w) > c.expected
     /\ SSEQ(w) = c.SSEQ
     /\ \A x \in c.outOfOrder : PSEQ(x) = PSEQ(w) => x = w

\* Whatever the order, the losses and the repetitions on the link, the bytes
\* ProcessFrame has appended are a gapless run of fragments of one SDU.
BufferContiguous == \A s \in Sensors : Live(s) => Contiguous(caches[s])

\* The merge loop leaves nothing aside that could be appended.
NothingMergeableLeft == \A s \in Sensors : Live(s) => Merged(caches[s])

\* A live session is never left without a timer that will end it, and no two
\* sessions share one: restarts, stale callbacks and new sessions included.
LiveSessionHasTimer ==
  \A s \in Sensors : Live(s) =>
    /\ caches[s].timer \in DOMAIN timers
    /\ TimerInFlight(caches[s].timer)
    /\ timers[caches[s].timer].sensor = s
    /\ timers[caches[s].timer].sseq = caches[s].SSEQ
    /\ timers[caches[s].timer].pseq = First(caches[s])

\* The PSEQs whose data a session holds.
Held(c) == {PSEQ(c.buffer[i]) : i \in 1..Len(c.buffer)} \cup Keys(c.outOfOrder)

Replied == cur # None /\ cur' = None

\* A positive acknowledgement means that the data is kept: the session of that
\* SSEQ holds the fragment, unless it precedes the session's first fragment.
AckedDataHeld ==
  [][Replied /\ reply'.ok =>
       LET c == caches'[cur.sensor] IN
         /\ reply'.sensor = cur.sensor
         /\ c # None
         /\ c.SSEQ = reply'.sseq
         /\ reply'.pseq >= First(c) => reply'.pseq \in Held(c)]_vars

-----------------------------------------------------------------------------
(* The promise of an ordered receiver, and the session as one.             *)

Promise == INSTANCE OrderedReceiver WITH
  Numbers <- {PSEQ(w) : w \in Words},
  held <- [s \in Sensors |-> IF Live(s) THEN Held(caches[s]) ELSE {}],
  next <- [s \in Sensors |-> IF Live(s) THEN caches[s].expected ELSE 0]

\* Each sensor's session is an ordered receiver.
OrderedReceiver == Promise!Spec

-----------------------------------------------------------------------------
(* What comments of sharding.go say, which the code does not do.           *)

\* The end mark, where isEnd looks for it: bit 7 of the header word behind its bit 0.
\* ProcessFrame masks it away together with the bits of the SSEQ.
EndMarked(two) == (two \div 256) % 2 = 1

\* sharding.go:36 "a complete SDU after reassembly is handed to this channel" and :149
\* "stop the timer and put out the whole SDU": a session that holds all fragments, from
\* PSEQ 0 to the one with the end mark, does not wait for its timeout.
CompleteHandedOver ==
  \A s \in Sensors :
    (Live(s) /\ First(caches[s]) = 0) =>
      \A i \in DOMAIN caches[s].buffer : ~EndMarked(caches[s].buffer[i])

\* sharding.go:28 "reassembly timeout: what is not complete after this time is
\* discarded": a timeout discards the session it was set for, and no other.
OnlyOwnTimeoutDiscards ==
  [][\A i \in DOMAIN timers :
       (timers[i].state = "fired" /\ timers'[i].state = "unlocked")
         => \A s \in Sensors : (Live(s) /\ caches'[s] = None) => caches[s].timer = i]_vars
=============================================================================
