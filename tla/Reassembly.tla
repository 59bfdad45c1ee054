----------------------------- MODULE Reassembly -----------------------------
(***************************************************************************)
(* Reassembly of fragmented sensor frames: internal/frameparser/sharding.go. *)
(*                                                                         *)
(* Two kinds of goroutines share sduCaches under cacheMu:                  *)
(*   - the parser goroutine, which hands every fragment (FragInd = 1) of a *)
(*     known sensor to ProcessFrame, one at a time;                        *)
(*   - one time.AfterFunc callback per session ever started.               *)
(* The radio link may lose, repeat and reorder fragments: any frame may    *)
(* arrive at any time.  A fragment's bytes are abstracted to its 16-bit    *)
(* PDU header word, which the code splits into SSEQ and PSEQ.              *)
(***************************************************************************)
EXTENDS Integers, Sequences

CONSTANTS
  Sensors,       \* the sensor identifiers that have a device mapping
  Words,         \* the PDU header words that sensors send
  MaxSessions,   \* bound on the number of sessions started (TLC only)
  None           \* no session, no frame in hand, no reply yet

ASSUME WordsAssumption == \A w \in Words : w \in Nat /\ w < 64 * 1024    \* 16 bits
ASSUME BoundAssumption == MaxSessions \in Nat

VARIABLES
  up,       \* FALSE once the process has died of a panic
  cur,      \* the fragment ProcessFrame is working on, or None
  caches,   \* sduCaches: the session of each sensor, or None
  timers,   \* the AfterFunc timer of each session ever started
  reply,    \* the acknowledgement sent last, by anyone
  sduCh     \* SDUCh: the reassembled SDUs handed over so far

vars == <<up, cur, caches, timers, reply, sduCh>>

-----------------------------------------------------------------------------
(* The fields of the PDU header word, and the values they can take.        *)

SSEQ(two) == two \div 1024
PSEQ_unmasked(two) == two \div 2          \* mutant: the 7-bit mask forgotten
PSEQ(two) == (two \div 2) % 128

isStart(pseq) == (pseq \div 128) % 2 = 0
isEnd(pseq)   == (pseq \div 128) % 2 = 1

\* How much of the PDU arrived: fewer than 2 bytes, fewer than 4, less data
\* than the size field announces, or all of it.
Forms == {"truncated", "short", "overrun", "whole"}

SSEQs == 0..63          \* 6 bits
PSEQs == 0..127         \* 7 bits
Expecteds == 1..128     \* uint8, at most the highest PSEQ plus one

Frame   == [sensor : Sensors, two : Words, form : Forms]
Ack     == [sensor : Sensors, ok : BOOLEAN, sseq : SSEQs, pseq : PSEQs]
Timer   == [sensor : Sensors, sseq : SSEQs, pseq : PSEQs,
            state : {"armed", "stopped", "fired", "unlocked", "done"}]

\* SDUCache.  outOfOrder is a map keyed by PSEQ: here the set of the words it
\* holds, at most one per PSEQ.  timer is the index of the session's timer.
SDUCache == [SSEQ : SSEQs, expected : Expecteds, finalPSEQ : PSEQs,
             buffer : Seq(Words), outOfOrder : SUBSET Words, timer : Nat \ {0}]

SDU == [sensor : Sensors, data : Seq(Words)]

ASSUME NoneAssumption == None \notin Frame \cup Ack \cup SDUCache

Live(s) == caches[s] # None

-----------------------------------------------------------------------------
(* The map outOfOrder and the loop that merges it into the buffer.         *)

Keys(ooo) == {PSEQ(w) : w \in ooo}

Stored(ooo, p) == CHOOSE w \in ooo : PSEQ(w) = p

Put_forgotten(ooo, two) == ooo            \* mutant: fragment not kept aside
Put(ooo, two) == {w \in ooo : PSEQ(w) # PSEQ(two)} \cup {two}

MergeEnd_noLoop(ooo, e) == e              \* mutant: the merge loop left out

\* The value of expected when the merge loop that starts at e stops.
MergeEnd(ooo, e) ==
  CHOOSE n \in e..128 : n \notin Keys(ooo) /\ e..(n-1) \subseteq Keys(ooo)

\* The session after an in-order fragment: append it, then merge.
AppendAndMerge(c, two) ==
  LET e == c.expected + 1
      n == MergeEnd(c.outOfOrder, e)
  IN  [c EXCEPT !.expected = n,
                !.buffer = (@ \o <<two>>)
                           \o [k \in 1..(n - e) |-> Stored(c.outOfOrder, e + k - 1)],
                !.outOfOrder = {w \in @ : PSEQ(w) \notin e..(n-1)},
                !.finalPSEQ = IF isEnd(PSEQ(two)) THEN PSEQ(two) ELSE @]

sendAck(s, sseq, ok, pseq) ==
  reply' = [sensor |-> s, ok |-> ok, sseq |-> sseq, pseq |-> pseq]

\* timer.Stop() has no effect on a timer whose callback has started.
Stopped(ts, i) ==
  [ts EXCEPT ![i].state = IF @ = "armed" THEN "stopped" ELSE @]

\* finalize stops the timer, forgets the session and hands the SDU over inside
\* the last frame: copy() keeps what fits in that frame's payload, which for
\* fragments of one size is the first fragment.
Finalized(c) == c.finalPSEQ # 0 /\ c.expected > c.finalPSEQ

finalize(s, c, ts) ==
  IF Finalized(c)
  THEN /\ caches' = [caches EXCEPT ![s] = None]
       /\ timers' = Stopped(ts, c.timer)
       /\ sduCh' = Append(sduCh, [sensor |-> s, data |-> SubSeq(c.buffer, 1, 1)])
  ELSE /\ caches' = [caches EXCEPT ![s] = c]
       /\ timers' = ts
       /\ UNCHANGED sduCh

-----------------------------------------------------------------------------
Init ==
  /\ up = TRUE
  /\ cur = None
  /\ caches = [s \in Sensors |-> None]
  /\ timers = <<>>
  /\ reply = None
  /\ sduCh = <<>>

\* StartParser hands the next fragment to ProcessFrame, which is called for
\* one fragment at a time.  MaxSessions bounds the sessions TLC explores: each
\* fragment starts at most one.
Receive(f) ==
  /\ up
  /\ cur = None
  /\ Len(timers) < MaxSessions
  /\ cur' = f
  /\ UNCHANGED <<up, caches, timers, reply, sduCh>>

\* The first two payload bytes are read before any length check.
Panic ==
  /\ up
  /\ cur # None
  /\ cur.form = "truncated"
  /\ up' = FALSE
  /\ UNCHANGED <<cur, caches, timers, reply, sduCh>>

\* A header of 2 or 3 bytes, refused before the lock is taken.
HeaderTooShort ==
  /\ up
  /\ cur # None
  /\ cur.form = "short"
  /\ sendAck(cur.sensor, SSEQ(cur.two), FALSE, 0)
  /\ cur' = None
  /\ UNCHANGED <<up, caches, timers, sduCh>>

\* A size field that exceeds the payload, refused before the lock is taken.
DataOverrun ==
  /\ up
  /\ cur # None
  /\ cur.form = "overrun"
  /\ sendAck(cur.sensor, SSEQ(cur.two), FALSE, PSEQ(cur.two))
  /\ cur' = None
  /\ UNCHANGED <<up, caches, timers, sduCh>>

Whole == up /\ cur # None /\ cur.form = "whole"

\* Mutant: expected starts at the fragment that was just received.
NewSession_offByOne(two, timer) ==
  [SSEQ |-> SSEQ(two), expected |-> IF PSEQ(two) = 0 THEN 1 ELSE PSEQ(two),
   finalPSEQ |-> 0, buffer |-> <<two>>, outOfOrder |-> {}, timer |-> timer]

NewSession(two, timer) ==
  [SSEQ |-> SSEQ(two), expected |-> PSEQ(two) + 1,
   finalPSEQ |-> IF isEnd(PSEQ(two)) THEN PSEQ(two) ELSE 0,
   buffer |-> <<two>>, outOfOrder |-> {}, timer |-> timer]

\* No session: a fragment that counts as a first one starts a session, any
\* other is refused.
StartSession ==
  /\ Whole
  /\ ~Live(cur.sensor)
  /\ IF isStart(PSEQ(cur.two))
     THEN finalize(cur.sensor, NewSession(cur.two, Len(timers) + 1),
                   Append(timers, [sensor |-> cur.sensor, sseq |-> SSEQ(cur.two),
                                   pseq |-> PSEQ(cur.two), state |-> "armed"]))
     ELSE UNCHANGED <<caches, timers, sduCh>>
  /\ sendAck(cur.sensor, SSEQ(cur.two), isStart(PSEQ(cur.two)), PSEQ(cur.two))
  /\ cur' = None
  /\ UNCHANGED up

\* A session of another SSEQ is in the way: stop its timer (the result of Stop
\* is ignored, so a callback that already runs goes on), forget the session,
\* unlock, and process the same frame again.
Restart ==
  /\ Whole
  /\ Live(cur.sensor)
  /\ caches[cur.sensor].SSEQ # SSEQ(cur.two)
  /\ IF isStart(PSEQ(cur.two))
     THEN /\ timers' = Stopped(timers, caches[cur.sensor].timer)
          /\ caches' = [caches EXCEPT ![cur.sensor] = None]
          /\ UNCHANGED <<cur, reply>>
     ELSE /\ sendAck(cur.sensor, SSEQ(cur.two), FALSE, PSEQ(cur.two))
          /\ cur' = None
          /\ UNCHANGED <<caches, timers>>
  /\ UNCHANGED <<up, sduCh>>

SameSession_anySSEQ == Whole /\ Live(cur.sensor)   \* mutant: SSEQ not compared

SameSession ==
  /\ Whole
  /\ Live(cur.sensor)
  /\ caches[cur.sensor].SSEQ = SSEQ(cur.two)

\* Below expected: taken for a repetition, acknowledged and ignored.
Duplicate ==
  /\ SameSession
  /\ PSEQ(cur.two) < caches[cur.sensor].expected
  /\ sendAck(cur.sensor, SSEQ(cur.two), TRUE, PSEQ(cur.two))
  /\ cur' = None
  /\ UNCHANGED <<up, caches, timers, sduCh>>

\* Above expected: kept aside until the gap closes.
Ahead ==
  /\ SameSession
  /\ PSEQ(cur.two) > caches[cur.sensor].expected
  /\ caches' = [caches EXCEPT
        ![cur.sensor].outOfOrder = Put(@, cur.two),
        ![cur.sensor].finalPSEQ = IF isEnd(PSEQ(cur.two)) THEN PSEQ(cur.two) ELSE @]
  /\ sendAck(cur.sensor, SSEQ(cur.two), TRUE, PSEQ(cur.two))
  /\ cur' = None
  /\ UNCHANGED <<up, timers, sduCh>>

\* Exactly expected: append, merge what was kept aside, hand over if complete.
InOrder ==
  /\ SameSession
  /\ PSEQ(cur.two) = caches[cur.sensor].expected
  /\ finalize(cur.sensor, AppendAndMerge(caches[cur.sensor], cur.two), timers)
  /\ sendAck(cur.sensor, SSEQ(cur.two), TRUE, PSEQ(cur.two))
  /\ cur' = None
  /\ UNCHANGED up

-----------------------------------------------------------------------------
(* The timeout callback: it starts running, takes the lock and deletes the *)
(* sensor's entry whoever owns it, unlocks, and sends a negative           *)
(* acknowledgement for the fragment that started its session.  Callbacks   *)
(* of different timers run in any order.                                   *)

Fire(i) ==
  /\ up
  /\ timers[i].state = "armed"
  /\ timers' = [timers EXCEPT ![i].state = "fired"]
  /\ UNCHANGED <<up, cur, caches, reply, sduCh>>

\* Mutant: the callback forgets to delete the session.
TimerDiscard_keeps(i) ==
  /\ up
  /\ timers[i].state = "fired"
  /\ timers' = [timers EXCEPT ![i].state = "unlocked"]
  /\ UNCHANGED <<up, cur, caches, reply, sduCh>>

\* Mutant: the callback reports nothing when it finds no session.
TimerDiscard_silent(i) ==
  /\ up
  /\ timers[i].state = "fired"
  /\ caches' = [caches EXCEPT ![timers[i].sensor] = None]
  /\ timers' = [timers EXCEPT ![i].state =
                   IF Live(timers[i].sensor) THEN "unlocked" ELSE "done"]
  /\ UNCHANGED <<up, cur, reply, sduCh>>

TimerDiscard(i) ==
  /\ up
  /\ timers[i].state = "fired"
  /\ caches' = [caches EXCEPT ![timers[i].sensor] = None]
  /\ timers' = [timers EXCEPT ![i].state = "unlocked"]
  /\ UNCHANGED <<up, cur, reply, sduCh>>

TimerNack(i) ==
  /\ up
  /\ timers[i].state = "unlocked"
  /\ sendAck(timers[i].sensor, timers[i].sseq, FALSE, timers[i].pseq)
  /\ timers' = [timers EXCEPT ![i].state = "done"]
  /\ UNCHANGED <<up, cur, caches, sduCh>>

-----------------------------------------------------------------------------
Handle == HeaderTooShort \/ DataOverrun \/ StartSession \/ Restart
          \/ Duplicate \/ Ahead \/ InOrder

Timeout(i) == Fire(i) \/ TimerDiscard(i) \/ TimerNack(i)

Next ==
  \/ \E f \in Frame : Receive(f)
  \/ Panic
  \/ Handle
  \/ \E i \in DOMAIN timers : Timeout(i)

Spec == Init /\ [][Next]_vars
=============================================================================
