-------------------------- MODULE ReassemblyProofs --------------------------
(***************************************************************************)
(* Proofs about reassembly, for any sensors, any header words of 16 bits   *)
(* and any number of sessions.                                             *)
(***************************************************************************)
EXTENDS ReassemblyProps, WellFoundedInduction, TLAPS

-----------------------------------------------------------------------------
(* The header word, and the merge loop.                                    *)

\* Whatever the word, SSEQ has 6 bits and PSEQ 7: every fragment counts as a
\* first one and none as a last one.

LEMMA HeaderFields ==
  ASSUME NEW w \in Words
  PROVE  /\ SSEQ(w) \in SSEQs
         /\ PSEQ(w) \in PSEQs
         /\ isStart(PSEQ(w))
         /\ ~isEnd(PSEQ(w))
<1>1. w \in Nat /\ w < 64 * 1024
  BY WordsAssumption
<1>2. SSEQ(w) \in 0..63
  BY <1>1 DEF SSEQ
<1>3. PSEQ(w) \in 0..127
  BY <1>1 DEF PSEQ
<1>4. isStart(PSEQ(w)) /\ ~isEnd(PSEQ(w))
  BY <1>3 DEF isStart, isEnd
<1>. QED  BY <1>2, <1>3, <1>4 DEF SSEQs, PSEQs

\* Sequence numbers are integers, and the next number after one fits expected.
LEMMA NumberRanges ==
  /\ 0 \in PSEQs
  /\ \A p \in PSEQs : p \in Int /\ 0 <= p /\ p < 128 /\ p + 1 \in Expecteds
  /\ \A e \in Expecteds : e \in Int /\ 1 <= e /\ e <= 128
BY DEF PSEQs, Expecteds

\* A set of naturals that is not empty has a least element.
LEMMA LeastElement ==
  ASSUME NEW T, T \subseteq Nat, T # {}
  PROVE  \E n \in T : \A m \in T : n <= m
<1>1. PICK n \in T : \A m \in T : <<m, n>> \notin OpToRel(<, Nat)
  BY WFMin, NatLessThanWellFounded, Zenon
<1>2. ASSUME NEW m \in T, m < n PROVE FALSE
  BY <1>1, <1>2, Zenon DEF OpToRel
<1>. QED  BY <1>2

\* The merge loop stops, at the first number that is not kept aside.
LEMMA MergeStops ==
  ASSUME NEW ooo, ooo \subseteq Words, NEW e \in Int, 1 <= e, e <= 128
  PROVE  LET n == MergeEnd(ooo, e)
         IN  n \in e..128 /\ n \notin Keys(ooo) /\ e..(n-1) \subseteq Keys(ooo)
<1>. DEFINE T == {n \in e..128 : n \notin Keys(ooo)}
<1>1. 128 \notin Keys(ooo)
  BY HeaderFields, NumberRanges DEF Keys
<1>2. 128 \in T
  BY <1>1
<1>. HIDE DEF T
<1>3. PICK n \in T : \A m \in T : n <= m
  <2>1. T \subseteq Nat /\ T # {}
    BY <1>2 DEF T
  <2>. QED  BY <2>1, LeastElement, Zenon
<1>. USE DEF T
<1>4. ASSUME NEW k \in e..(n-1) PROVE k \in Keys(ooo)
  BY <1>3, <1>4
<1>5. \E x \in e..128 : x \notin Keys(ooo) /\ e..(x-1) \subseteq Keys(ooo)
  BY <1>3, <1>4
<1>. QED  BY <1>5 DEF MergeEnd

\* What is kept aside under a number is a word with that number.
LEMMA StoredWord ==
  ASSUME NEW ooo, NEW p \in Keys(ooo)
  PROVE  Stored(ooo, p) \in ooo /\ PSEQ(Stored(ooo, p)) = p
BY DEF Keys, Stored

-----------------------------------------------------------------------------
(* What each way of handling a fragment does to a session.                 *)

\* The part of the inductive invariant that concerns one session.
Good(c) == c.finalPSEQ = 0 /\ Contiguous(c) /\ Merged(c)

LEMMA NewSessionGood ==
  ASSUME NEW w \in Words, NEW i \in Nat \ {0}
  PROVE  LET c == NewSession(w, i)
         IN  /\ c \in SDUCache
             /\ Good(c)
             /\ c.SSEQ = SSEQ(w) /\ First(c) = PSEQ(w) /\ c.timer = i
<1>. DEFINE c == NewSession(w, i)
<1>1. c = [SSEQ |-> SSEQ(w), expected |-> PSEQ(w) + 1, finalPSEQ |-> 0,
           buffer |-> <<w>>, outOfOrder |-> {}, timer |-> i]
  BY HeaderFields DEF NewSession
<1>. HIDE DEF c
<1>2. SSEQ(w) \in SSEQs /\ PSEQ(w) + 1 \in Expecteds /\ 0 \in PSEQs
  BY HeaderFields, NumberRanges
<1>3. <<w>> \in Seq(Words)
  OBVIOUS
<1>4. c \in SDUCache
  BY <1>1, <1>2, <1>3 DEF SDUCache
<1>5. PSEQ(w) \in Int
  BY HeaderFields, NumberRanges
<1>6. Contiguous(c) /\ First(c) = PSEQ(w)
  BY <1>1, <1>5 DEF Contiguous, First
<1>7. Merged(c)
  BY <1>1 DEF Merged
<1>. QED  BY <1>1, <1>4, <1>6, <1>7 DEF Good, c

LEMMA AheadGood ==
  ASSUME NEW c \in SDUCache, Good(c), NEW w \in Words,
         SSEQ(w) = c.SSEQ, PSEQ(w) > c.expected
  PROVE  LET d == [c EXCEPT !.outOfOrder = Put(@, w),
                            !.finalPSEQ = IF isEnd(PSEQ(w)) THEN PSEQ(w) ELSE @]
         IN  /\ d \in SDUCache
             /\ Good(d)
             /\ d.timer = c.timer /\ d.SSEQ = c.SSEQ /\ First(d) = First(c)
<1>. DEFINE d == [c EXCEPT !.outOfOrder = Put(@, w),
                           !.finalPSEQ = IF isEnd(PSEQ(w)) THEN PSEQ(w) ELSE @]
<1>1. ~isEnd(PSEQ(w))
  BY HeaderFields
<1>2. Put(c.outOfOrder, w) \subseteq Words
  BY DEF Put, SDUCache
<1>3. d \in SDUCache /\ d.finalPSEQ = 0
  BY <1>1, <1>2 DEF SDUCache, Good
<1>4. Contiguous(d)
  BY DEF Good, Contiguous, First, SDUCache
<1>5. Merged(d)
  BY DEF Good, Merged, Put, SDUCache
<1>. QED  BY <1>3, <1>4, <1>5 DEF Good, First, SDUCache

LEMMA InOrderGood ==
  ASSUME NEW c \in SDUCache, Good(c), NEW w \in Words,
         SSEQ(w) = c.SSEQ, PSEQ(w) = c.expected
  PROVE  LET d == AppendAndMerge(c, w)
         IN  /\ d \in SDUCache
             /\ Good(d)
             /\ d.timer = c.timer /\ d.SSEQ = c.SSEQ /\ First(d) = First(c)
<1>. DEFINE d == AppendAndMerge(c, w)
            e == c.expected + 1
            n == MergeEnd(c.outOfOrder, e)
            m == [k \in 1..(n - e) |-> Stored(c.outOfOrder, e + k - 1)]
            L == Len(c.buffer)
            b == (c.buffer \o <<w>>) \o m
<1>0. /\ c.outOfOrder \subseteq Words /\ c.buffer \in Seq(Words) /\ c.expected \in Expecteds
      /\ c.SSEQ \in SSEQs /\ c.timer \in Nat \ {0} /\ c.finalPSEQ = 0
  BY DEF SDUCache, Good
<1>1. e \in Int /\ 1 <= e /\ e <= 128
  BY <1>0, HeaderFields, NumberRanges
<1>2. n \in e..128 /\ n \notin Keys(c.outOfOrder) /\ e..(n-1) \subseteq Keys(c.outOfOrder)
  BY <1>0, <1>1, MergeStops
<1>3. n \in Int /\ e <= n /\ n <= 128
  BY <1>1, <1>2
<1>. HIDE DEF n, e
<1>4. ASSUME NEW k \in 1..(n - e)
      PROVE  /\ m[k] \in c.outOfOrder
             /\ PSEQ(m[k]) = e + k - 1
  <2>1. e + k - 1 \in Keys(c.outOfOrder)
    BY <1>1, <1>2, <1>3
  <2>. QED  BY <2>1, StoredWord
<1>5. m \in Seq(Words) /\ Len(m) = n - e
  <2>1. m \in [1..(n - e) -> Words]
    BY <1>0, <1>4
  <2>2. n - e \in Nat
    BY <1>1, <1>3
  <2>. HIDE DEF m
  <2>. QED  BY <2>1, <2>2
<1>. HIDE DEF m
<1>6. L \in Nat /\ L > 0
  BY <1>0 DEF Good, Contiguous
<1>7. /\ b \in Seq(Words)
      /\ Len(b) = L + 1 + (n - e)
      /\ \A i \in 1..L : b[i] = c.buffer[i]
      /\ b[L + 1] = w
      /\ \A i \in (L + 2)..Len(b) : b[i] = m[i - L - 1] /\ i - L - 1 \in 1..(n - e)
  <2>. DEFINE a == c.buffer \o <<w>>
  <2>1. /\ a \in Seq(Words) /\ Len(a) = L + 1 /\ a[L + 1] = w
        /\ \A i \in 1..L : a[i] = c.buffer[i]
    BY <1>0, <1>6
  <2>. HIDE DEF a, L
  <2>2. /\ a \o m \in Seq(Words) /\ Len(a \o m) = L + 1 + (n - e)
        /\ \A i \in 1..(L + 1) : (a \o m)[i] = a[i]
    BY <1>1, <1>3, <1>5, <1>6, <2>1
  <2>3. ASSUME NEW i \in (L + 2)..Len(a \o m)
        PROVE  (a \o m)[i] = m[i - L - 1] /\ i - L - 1 \in 1..(n - e)
    BY <1>1, <1>3, <1>5, <1>6, <2>1, <2>2
  <2>4. \A i \in 1..L : i \in 1..(L + 1)
    BY <1>6
  <2>5. L + 1 \in 1..(L + 1)
    BY <1>6
  <2>. QED  BY <2>1, <2>2, <2>3, <2>4, <2>5 DEF a
<1>7a. Len(b) = L + 1 + (n - e)
  BY <1>7
<1>. HIDE DEF b, L
<1>8. d = [c EXCEPT !.expected = n, !.buffer = b, !.finalPSEQ = 0,
                    !.outOfOrder = {x \in c.outOfOrder : PSEQ(x) \notin e..(n-1)}]
  BY <1>0, HeaderFields DEF AppendAndMerge, n, e, m, b, SDUCache
<1>. HIDE DEF d
<1>9. /\ d.expected = n /\ d.buffer = b /\ d.finalPSEQ = 0
      /\ d.outOfOrder = {x \in c.outOfOrder : PSEQ(x) \notin e..(n-1)}
      /\ d.timer = c.timer /\ d.SSEQ = c.SSEQ
  BY <1>8 DEF SDUCache
<1>10. d \in SDUCache
  <2>1. n \in Expecteds
    BY <1>1, <1>3 DEF Expecteds
  <2>. QED  BY <1>0, <1>7, <1>8, <2>1, NumberRanges DEF SDUCache
<1>11. First(d) = First(c) /\ First(c) \in Int /\ c.expected = First(c) + L
  <2>1. c.buffer[1] \in Words
    BY <1>0, <1>6 DEF L
  <2>2. First(c) \in Int
    BY <2>1, HeaderFields, NumberRanges DEF First
  <2>3. b[1] = c.buffer[1]
    BY <1>6, <1>7
  <2>4. c.expected = First(c) + L
    BY DEF Good, Contiguous, L
  <2>. QED  BY <1>9, <2>2, <2>3, <2>4 DEF First
<1>12. Contiguous(d)
  <2>1. d.expected = First(d) + Len(b)
    <3>1. e = First(c) + L + 1
      BY <1>11 DEF e
    <3>. QED  BY <3>1, <1>1, <1>3, <1>6, <1>7a, <1>9, <1>11
  <2>2. ASSUME NEW i \in 1..Len(b)
        PROVE  SSEQ(b[i]) = c.SSEQ /\ PSEQ(b[i]) = First(c) + i - 1
    <3>1. CASE i \in 1..L
      BY <1>7, <3>1 DEF Good, Contiguous, L
    <3>2. CASE i = L + 1
      BY <1>7, <1>11, <1>6, <3>2
    <3>3. CASE i \in (L + 2)..Len(b)
      <4>1. /\ b[i] \in c.outOfOrder
            /\ PSEQ(b[i]) = e + (i - L - 1) - 1
        BY <1>4, <1>7, <3>3
      <4>2. SSEQ(b[i]) = c.SSEQ
        BY <4>1 DEF Good, Merged
      <4>3. PSEQ(b[i]) = First(c) + i - 1
        BY <4>1, <1>0, <1>6, <1>11, NumberRanges DEF e
      <4>. QED  BY <4>2, <4>3
    <3>. QED  BY <1>3, <1>1, <1>6, <1>7, <3>1, <3>2, <3>3
  <2>3. Len(b) > 0
    BY <1>1, <1>3, <1>6, <1>7
  <2>. QED  BY <1>9, <1>11, <2>1, <2>2, <2>3 DEF Contiguous
<1>13. Merged(d)
  <2>1. ASSUME NEW x \in d.outOfOrder
        PROVE  PSEQ(x) > n /\ SSEQ(x) = c.SSEQ
    <3>1. x \in c.outOfOrder /\ PSEQ(x) \notin e..(n-1)
      BY <1>9
    <3>2. PSEQ(x) # n
      BY <1>2, <3>1 DEF Keys
    <3>3. PSEQ(x) > c.expected /\ SSEQ(x) = c.SSEQ /\ PSEQ(x) \in Int
      BY <1>0, <3>1, HeaderFields, NumberRanges DEF Good, Merged
    <3>. QED  BY <3>1, <3>2, <3>3, <1>0, <1>1, <1>3, NumberRanges DEF e
  <2>. QED  BY <1>9, <2>1 DEF Good, Merged
<1>. QED  BY <1>9, <1>10, <1>11, <1>12, <1>13 DEF Good, d

-----------------------------------------------------------------------------
(* The inductive invariant.  TypeOK alone is not inductive: that the buffer *)
(* and the timers stay well typed follows from Good and from the timer of   *)
(* each session being one that exists.                                      *)

SessionsGood == \A s \in Sensors : Live(s) => Good(caches[s])

\* finalize is out of reach: the bit that isEnd tests is masked away, whatever arrives.
NotFinalized == sduCh = <<>>

IInv == TypeOK /\ SessionsGood /\ LiveSessionHasTimer /\ NotFinalized

\* Setting the state of a timer changes nothing else about the timers.
LEMMA SetTimerState ==
  ASSUME NEW ts \in Seq(Timer), NEW i \in DOMAIN ts,
         NEW st \in {"armed", "stopped", "fired", "unlocked", "done"}
  PROVE  LET us == [ts EXCEPT ![i].state = st]
         IN  /\ us \in Seq(Timer) /\ DOMAIN us = DOMAIN ts
             /\ \A j \in DOMAIN ts : j # i => us[j] = ts[j]
<1>. DEFINE t == [ts[i] EXCEPT !.state = st]
<1>1. ts[i] \in Timer
  OBVIOUS
<1>2. t \in Timer
  BY <1>1 DEF Timer
<1>. HIDE DEF t
<1>3. [ts EXCEPT ![i].state = st] = [ts EXCEPT ![i] = t]
  BY DEF t
<1>. QED  BY <1>2, <1>3

LEMMA StopTimer ==
  ASSUME NEW ts \in Seq(Timer), NEW i \in DOMAIN ts
  PROVE  /\ Stopped(ts, i) \in Seq(Timer) /\ DOMAIN Stopped(ts, i) = DOMAIN ts
         /\ \A j \in DOMAIN ts : j # i => Stopped(ts, i)[j] = ts[j]
<1>. DEFINE st == IF ts[i].state = "armed" THEN "stopped" ELSE ts[i].state
<1>0. ts[i] \in Timer
  OBVIOUS
<1>1. st \in {"armed", "stopped", "fired", "unlocked", "done"}
  BY <1>0 DEF Timer
<1>. HIDE DEF st
<1>2. Stopped(ts, i) = [ts EXCEPT ![i].state = st]
  BY DEF Stopped, st
<1>. DEFINE us == [ts EXCEPT ![i].state = st]
<1>3. /\ us \in Seq(Timer) /\ DOMAIN us = DOMAIN ts
      /\ \A j \in DOMAIN ts : j # i => us[j] = ts[j]
  BY <1>1, SetTimerState, Zenon
<1>. HIDE DEF us
<1>4. Stopped(ts, i) = us
  BY <1>2 DEF us
<1>. QED  BY <1>3, <1>4

\* A session without the end of its SDU is not handed over.
LEMMA NotHandedOver ==
  ASSUME NEW s, NEW c, NEW ts, Good(c), finalize(s, c, ts)
  PROVE  caches' = [caches EXCEPT ![s] = c] /\ timers' = ts /\ sduCh' = sduCh
BY DEF finalize, Finalized, Good

\* An acknowledgement is well typed.
LEMMA AckType ==
  ASSUME NEW s \in Sensors, NEW ok \in BOOLEAN, NEW q \in SSEQs, NEW p \in PSEQs,
         sendAck(s, q, ok, p)
  PROVE  reply' \in Ack \cup {None}
BY DEF sendAck, Ack

\* Putting a good session in the place of another with the same timer, SSEQ and
\* first fragment keeps everything that concerns sessions and timers.
LEMMA ReplaceSession ==
  ASSUME IInv, NEW s \in Sensors, Live(s), NEW d \in SDUCache, Good(d),
         d.timer = caches[s].timer, d.SSEQ = caches[s].SSEQ, First(d) = First(caches[s]),
         caches' = [caches EXCEPT ![s] = d], UNCHANGED timers
  PROVE  /\ caches' \in [Sensors -> SDUCache \cup {None}]
         /\ SessionsGood' /\ LiveSessionHasTimer'
<1>1. caches' \in [Sensors -> SDUCache \cup {None}]
  BY DEF IInv, TypeOK
<1>2. /\ caches'[s] = d
      /\ \A r \in Sensors \ {s} : caches'[r] = caches[r]
  BY DEF IInv, TypeOK
<1>3. SessionsGood'
  BY <1>2 DEF IInv, SessionsGood, Live
<1>4. LiveSessionHasTimer'
  BY <1>2 DEF IInv, LiveSessionHasTimer, Live, TimerInFlight
<1>. QED  BY <1>1, <1>3, <1>4

\* Forgetting the session of a sensor keeps all of it too, as long as the only
\* timer that changes is one of that sensor's.
LEMMA ForgetSession ==
  ASSUME IInv, NEW s \in Sensors, NEW i \in DOMAIN timers, timers[i].sensor = s,
         caches' = [caches EXCEPT ![s] = None],
         DOMAIN timers' = DOMAIN timers,
         \A j \in DOMAIN timers : j # i => timers'[j] = timers[j]
  PROVE  /\ caches' \in [Sensors -> SDUCache \cup {None}]
         /\ SessionsGood' /\ LiveSessionHasTimer'
<1>1. caches' \in [Sensors -> SDUCache \cup {None}]
  BY DEF IInv, TypeOK
<1>2. /\ caches'[s] = None
      /\ \A r \in Sensors \ {s} : caches'[r] = caches[r]
  BY DEF IInv, TypeOK
<1>3. SessionsGood'
  BY <1>2 DEF IInv, SessionsGood, Live
<1>4. ASSUME NEW r \in Sensors, caches'[r] # None
      PROVE  r # s /\ Live(r) /\ caches[r].timer \in DOMAIN timers /\ caches[r].timer # i
  BY <1>2, <1>4 DEF IInv, LiveSessionHasTimer, Live
<1>5. LiveSessionHasTimer'
  BY <1>2, <1>4 DEF IInv, LiveSessionHasTimer, Live, TimerInFlight
<1>. QED  BY <1>1, <1>3, <1>5

THEOREM InitInvariant == Init => IInv
BY DEF Init, IInv, TypeOK, SessionsGood, LiveSessionHasTimer, NotFinalized, Live

\* Steps that leave sessions and timers alone keep what concerns them.
LEMMA SessionsUntouched ==
  ASSUME IInv, UNCHANGED <<caches, timers>>
  PROVE  /\ caches' \in [Sensors -> SDUCache \cup {None}] /\ timers' \in Seq(Timer)
         /\ SessionsGood' /\ LiveSessionHasTimer'
BY DEF IInv, TypeOK, SessionsGood, LiveSessionHasTimer, Live, TimerInFlight

LEMMA StartSessionStep ==
  ASSUME IInv, StartSession PROVE IInv'
<1>. DEFINE s == cur.sensor
            w == cur.two
            i == Len(timers) + 1
            t == [sensor |-> s, sseq |-> SSEQ(w), pseq |-> PSEQ(w), state |-> "armed"]
            c == NewSession(w, i)
<1>1. s \in Sensors /\ w \in Words
  BY DEF IInv, TypeOK, StartSession, Whole, Frame
<1>2. SSEQ(w) \in SSEQs /\ PSEQ(w) \in PSEQs /\ isStart(PSEQ(w))
  BY <1>1, HeaderFields
<1>3. timers \in Seq(Timer) /\ Len(timers) \in Nat /\ DOMAIN timers = 1..Len(timers)
  BY DEF IInv, TypeOK
<1>4. i \in Nat \ {0} /\ i \notin DOMAIN timers
  BY <1>3
<1>5. t \in Timer
  BY <1>1, <1>2 DEF Timer
<1>6. /\ c \in SDUCache /\ Good(c)
      /\ c.SSEQ = SSEQ(w) /\ First(c) = PSEQ(w) /\ c.timer = i
  <2>. HIDE DEF w, i
  <2>. QED  BY <1>1, <1>4, NewSessionGood
<1>7. /\ caches' = [caches EXCEPT ![s] = c]
      /\ timers' = Append(timers, t)
      /\ sduCh' = sduCh
  <2>1. finalize(s, c, Append(timers, t))
    BY <1>2 DEF StartSession
  <2>. HIDE DEF s, c, t
  <2>. QED  BY <2>1, <1>6, NotHandedOver
<1>. HIDE DEF s, w, t, c
<1>8. /\ timers' \in Seq(Timer)
      /\ \A j \in DOMAIN timers : j \in DOMAIN timers' /\ timers'[j] = timers[j]
      /\ i \in DOMAIN timers' /\ timers'[i] = t
  BY <1>3, <1>5, <1>7
<1>. HIDE DEF i
<1>9. /\ caches' \in [Sensors -> SDUCache \cup {None}]
      /\ caches'[s] = c
      /\ \A r \in Sensors \ {s} : caches'[r] = caches[r]
  BY <1>1, <1>6, <1>7 DEF IInv, TypeOK
<1>10. TypeOK'
  <2>1. reply' \in Ack \cup {None}
    <3>1. sendAck(s, SSEQ(w), isStart(PSEQ(w)), PSEQ(w))
      BY DEF StartSession, s, w
    <3>. QED  BY <1>1, <1>2, <3>1, AckType
  <2>. QED  BY <2>1, <1>7, <1>8, <1>9 DEF StartSession, IInv, TypeOK
<1>11. SessionsGood'
  BY <1>6, <1>9 DEF IInv, SessionsGood, Live
<1>12. LiveSessionHasTimer'
  <2>1. ASSUME NEW r \in Sensors \ {s}, caches'[r] # None
        PROVE  /\ caches[r].timer \in DOMAIN timers'
               /\ timers'[caches[r].timer].state \in {"armed", "fired"}
               /\ timers'[caches[r].timer].sensor = r
               /\ timers'[caches[r].timer].sseq = caches[r].SSEQ
               /\ timers'[caches[r].timer].pseq = First(caches[r])
    BY <1>8, <1>9, <2>1 DEF IInv, LiveSessionHasTimer, Live, TimerInFlight
  <2>2. /\ t.sensor = s /\ t.sseq = SSEQ(w) /\ t.pseq = PSEQ(w) /\ t.state = "armed"
    BY DEF t
  <2>. QED  BY <1>6, <1>8, <1>9, <2>1, <2>2 DEF LiveSessionHasTimer, Live, TimerInFlight
<1>. QED  BY <1>7, <1>10, <1>11, <1>12 DEF IInv, NotFinalized

LEMMA RestartStep ==
  ASSUME IInv, Restart PROVE IInv'
<1>. DEFINE s == cur.sensor
            i == caches[s].timer
<1>1. s \in Sensors /\ Live(s) /\ isStart(PSEQ(cur.two))
  BY HeaderFields DEF IInv, TypeOK, Restart, Whole, Frame
<1>2. i \in DOMAIN timers /\ timers[i].sensor = s /\ timers \in Seq(Timer)
  BY <1>1 DEF IInv, TypeOK, LiveSessionHasTimer
<1>3. /\ timers' = Stopped(timers, i)
      /\ caches' = [caches EXCEPT ![s] = None]
      /\ UNCHANGED <<up, cur, reply, sduCh>>
  BY <1>1 DEF Restart
<1>. HIDE DEF s, i
<1>4. /\ timers' \in Seq(Timer) /\ DOMAIN timers' = DOMAIN timers
      /\ \A j \in DOMAIN timers : j # i => timers'[j] = timers[j]
  BY <1>2, <1>3, StopTimer
<1>5. /\ caches' \in [Sensors -> SDUCache \cup {None}]
      /\ SessionsGood' /\ LiveSessionHasTimer'
  BY <1>1, <1>2, <1>3, <1>4, ForgetSession
<1>. QED  BY <1>3, <1>4, <1>5 DEF IInv, TypeOK, NotFinalized

LEMMA SameSessionStep ==
  ASSUME IInv, Duplicate \/ Ahead \/ InOrder PROVE IInv'
<1>. DEFINE s == cur.sensor
            w == cur.two
            c == caches[s]
<1>1. s \in Sensors /\ w \in Words /\ Live(s) /\ SSEQ(w) = c.SSEQ
  BY DEF IInv, TypeOK, Duplicate, Ahead, InOrder, SameSession, Whole, Frame
<1>2. c \in SDUCache /\ Good(c)
  BY <1>1 DEF IInv, TypeOK, SessionsGood, Live
<1>3. reply' \in Ack \cup {None} /\ cur' = None /\ up' = up
  <2>1. sendAck(s, SSEQ(w), TRUE, PSEQ(w)) /\ cur' = None /\ up' = up
    BY DEF Duplicate, Ahead, InOrder
  <2>. HIDE DEF s, w
  <2>. QED  BY <2>1, <1>1, HeaderFields, AckType
<1>4. CASE Duplicate
  <2>1. UNCHANGED <<caches, timers, sduCh>>
    BY <1>4 DEF Duplicate
  <2>. QED  BY <1>3, <2>1, SessionsUntouched DEF IInv, TypeOK, NotFinalized
<1>5. ASSUME NEW d \in SDUCache, Good(d), d.timer = c.timer, d.SSEQ = c.SSEQ, First(d) = First(c),
             caches' = [caches EXCEPT ![s] = d], UNCHANGED <<timers, sduCh>>
      PROVE  IInv'
  <2>. HIDE DEF s
  <2>1. /\ caches' \in [Sensors -> SDUCache \cup {None}]
        /\ SessionsGood' /\ LiveSessionHasTimer'
    BY <1>1, <1>5, ReplaceSession
  <2>. QED  BY <1>3, <1>5, <2>1 DEF IInv, TypeOK, NotFinalized
<1>6. CASE Ahead
  <2>. DEFINE d == [c EXCEPT !.outOfOrder = Put(@, w),
                             !.finalPSEQ = IF isEnd(PSEQ(w)) THEN PSEQ(w) ELSE @]
  <2>1. PSEQ(w) > c.expected
    BY <1>6 DEF Ahead
  <2>2. /\ d \in SDUCache /\ Good(d)
        /\ d.timer = c.timer /\ d.SSEQ = c.SSEQ /\ First(d) = First(c)
    <3>. HIDE DEF c, w
    <3>. QED  BY <1>1, <1>2, <2>1, AheadGood
  <2>3. caches' = [caches EXCEPT ![s] = d] /\ UNCHANGED <<timers, sduCh>>
    BY <1>6, <1>1 DEF Ahead, IInv, TypeOK
  <2>. HIDE DEF d, c, s
  <2>. QED  BY <1>5, <2>2, <2>3
<1>7. CASE InOrder
  <2>. DEFINE d == AppendAndMerge(c, w)
  <2>1. PSEQ(w) = c.expected /\ finalize(s, d, timers)
    BY <1>7 DEF InOrder
  <2>2. /\ d \in SDUCache /\ Good(d)
        /\ d.timer = c.timer /\ d.SSEQ = c.SSEQ /\ First(d) = First(c)
    <3>. HIDE DEF c, w
    <3>. QED  BY <1>1, <1>2, <2>1, InOrderGood
  <2>. HIDE DEF d, c, s
  <2>3. caches' = [caches EXCEPT ![s] = d] /\ UNCHANGED <<timers, sduCh>>
    BY <2>1, <2>2, NotHandedOver
  <2>. QED  BY <1>5, <2>2, <2>3
<1>. QED  BY <1>4, <1>6, <1>7

LEMMA TimeoutStep ==
  ASSUME IInv, NEW i \in DOMAIN timers, Timeout(i) PROVE IInv'
<1>1. timers \in Seq(Timer) /\ timers[i] \in Timer
  BY DEF IInv, TypeOK
<1>2. CASE Fire(i)
  <2>1. /\ timers' = [timers EXCEPT ![i].state = "fired"]
        /\ UNCHANGED <<up, cur, caches, reply, sduCh>>
    BY <1>2 DEF Fire
  <2>2. /\ timers' \in Seq(Timer) /\ DOMAIN timers' = DOMAIN timers
        /\ \A j \in DOMAIN timers : j # i => timers'[j] = timers[j]
    BY <1>1, <2>1, SetTimerState
  <2>3. timers'[i] = [timers[i] EXCEPT !.state = "fired"]
    BY <1>1, <2>1
  <2>4. /\ timers'[i].state = "fired" /\ timers'[i].sensor = timers[i].sensor
        /\ timers'[i].sseq = timers[i].sseq /\ timers'[i].pseq = timers[i].pseq
    BY <1>1, <2>3 DEF Timer
  <2>5. LiveSessionHasTimer'
    BY <2>1, <2>2, <2>4 DEF IInv, LiveSessionHasTimer, Live, TimerInFlight
  <2>6. SessionsGood'
    BY <2>1 DEF IInv, SessionsGood, Live
  <2>. QED  BY <2>1, <2>2, <2>5, <2>6 DEF IInv, TypeOK, NotFinalized
<1>3. CASE TimerDiscard(i)
  <2>1. /\ timers' = [timers EXCEPT ![i].state = "unlocked"]
        /\ caches' = [caches EXCEPT ![timers[i].sensor] = None]
        /\ UNCHANGED <<up, cur, reply, sduCh>>
    BY <1>3 DEF TimerDiscard
  <2>2. /\ timers' \in Seq(Timer) /\ DOMAIN timers' = DOMAIN timers
        /\ \A j \in DOMAIN timers : j # i => timers'[j] = timers[j]
    BY <1>1, <2>1, SetTimerState
  <2>3. timers[i].sensor \in Sensors
    BY <1>1 DEF Timer
  <2>4. /\ caches' \in [Sensors -> SDUCache \cup {None}]
        /\ SessionsGood' /\ LiveSessionHasTimer'
    BY <2>1, <2>2, <2>3, ForgetSession
  <2>. QED  BY <2>1, <2>2, <2>4 DEF IInv, TypeOK, NotFinalized
<1>4. CASE TimerNack(i)
  <2>1. /\ timers' = [timers EXCEPT ![i].state = "done"]
        /\ sendAck(timers[i].sensor, timers[i].sseq, FALSE, timers[i].pseq)
        /\ timers[i].state = "unlocked"
        /\ UNCHANGED <<up, cur, caches, sduCh>>
    BY <1>4 DEF TimerNack
  <2>2. /\ timers' \in Seq(Timer) /\ DOMAIN timers' = DOMAIN timers
        /\ \A j \in DOMAIN timers : j # i => timers'[j] = timers[j]
    BY <1>1, <2>1, SetTimerState
  <2>3. reply' \in Ack \cup {None}
    <3>1. timers[i].sensor \in Sensors /\ timers[i].sseq \in SSEQs /\ timers[i].pseq \in PSEQs
      BY <1>1 DEF Timer
    <3>. QED  BY <2>1, <3>1, AckType
  <2>4. \A s \in Sensors : Live(s) => caches[s].timer # i
    BY <2>1 DEF IInv, LiveSessionHasTimer, TimerInFlight
  <2>5. LiveSessionHasTimer'
    BY <2>1, <2>2, <2>4 DEF IInv, LiveSessionHasTimer, Live, TimerInFlight
  <2>6. SessionsGood'
    BY <2>1 DEF IInv, SessionsGood, Live
  <2>. QED  BY <2>1, <2>2, <2>3, <2>5, <2>6 DEF IInv, TypeOK, NotFinalized
<1>. QED  BY <1>2, <1>3, <1>4 DEF Timeout

THEOREM StepInvariant == IInv /\ [Next]_vars => IInv'
<1>. SUFFICES ASSUME IInv, [Next]_vars PROVE IInv'
  OBVIOUS
<1>1. ASSUME NEW f \in Frame, Receive(f) PROVE IInv'
  BY <1>1, SessionsUntouched DEF Receive, IInv, TypeOK, NotFinalized
<1>2. CASE Panic
  BY <1>2, SessionsUntouched DEF Panic, IInv, TypeOK, NotFinalized
<1>3. CASE HeaderTooShort \/ DataOverrun
  <2>1. UNCHANGED <<caches, timers, up, sduCh>> /\ cur' = None
    BY <1>3 DEF HeaderTooShort, DataOverrun
  <2>2. cur.sensor \in Sensors /\ cur.two \in Words
    BY <1>3 DEF HeaderTooShort, DataOverrun, IInv, TypeOK, Frame
  <2>3. reply' \in Ack \cup {None}
    BY <1>3, <2>2, HeaderFields, NumberRanges, AckType DEF HeaderTooShort, DataOverrun
  <2>. QED  BY <2>1, <2>3, SessionsUntouched DEF IInv, TypeOK, NotFinalized
<1>4. CASE UNCHANGED vars
  BY <1>4, SessionsUntouched DEF vars, IInv, TypeOK, NotFinalized
<1>. QED
  BY <1>1, <1>2, <1>3, <1>4, StartSessionStep, RestartStep, SameSessionStep, TimeoutStep
     DEF Next, Handle

-----------------------------------------------------------------------------
(* The bound on sessions: with a frame in hand there is room for one more. *)

Bounded ==
  /\ Len(timers) <= MaxSessions
  /\ cur # None => Len(timers) < MaxSessions

LEMMA BoundedStep ==
  ASSUME IInv, Bounded, [Next]_vars PROVE Bounded'
<1>1. timers \in Seq(Timer) /\ Len(timers) \in Nat /\ timers' \in Seq(Timer) /\ MaxSessions \in Nat
  <2>1. IInv'
    BY StepInvariant
  <2>. QED  BY <2>1, BoundAssumption DEF IInv, TypeOK
<1>2. ASSUME NEW f \in Frame, Receive(f) PROVE Bounded'
  BY <1>1, <1>2 DEF Receive, Bounded
<1>3. CASE UNCHANGED timers /\ (cur' = cur \/ cur' = None)
  BY <1>1, <1>3 DEF Bounded
<1>4. CASE StartSession
  <2>1. /\ cur # None /\ cur' = None
        /\ \/ Len(timers') = Len(timers) + 1
           \/ Len(timers') = Len(timers)
    <3>. DEFINE c == NewSession(cur.two, Len(timers) + 1)
                t == [sensor |-> cur.sensor, sseq |-> SSEQ(cur.two),
                      pseq |-> PSEQ(cur.two), state |-> "armed"]
    <3>1. cur.two \in Words /\ cur # None /\ cur' = None
      BY <1>4 DEF StartSession, Whole, IInv, TypeOK, Frame
    <3>2. Good(c)
      <4>1. Len(timers) + 1 \in Nat \ {0}
        BY <1>1
      <4>. QED  BY <3>1, <4>1, NewSessionGood
    <3>3. finalize(cur.sensor, c, Append(timers, t))
      BY <1>4, <3>1, HeaderFields DEF StartSession
    <3>. HIDE DEF c, t
    <3>4. timers' = Append(timers, t)
      BY <3>2, <3>3, NotHandedOver
    <3>. QED  BY <1>1, <3>1, <3>4
  <2>. QED  BY <1>1, <2>1 DEF Bounded
<1>5. CASE DOMAIN timers' = DOMAIN timers /\ (cur' = cur \/ cur' = None)
  <2>1. Len(timers') = Len(timers)
    BY <1>1, <1>5
  <2>. QED  BY <1>1, <1>5, <2>1 DEF Bounded
<1>6. CASE Restart
  <2>1. cur.sensor \in Sensors /\ Live(cur.sensor) /\ isStart(PSEQ(cur.two))
    BY <1>6, HeaderFields DEF IInv, TypeOK, Restart, Whole, Frame
  <2>2. DOMAIN timers' = DOMAIN timers /\ cur' = cur
    <3>1. caches[cur.sensor].timer \in DOMAIN timers
      BY <2>1 DEF IInv, LiveSessionHasTimer
    <3>. QED  BY <1>1, <1>6, <2>1, <3>1, StopTimer DEF Restart
  <2>. QED  BY <1>5, <2>2
<1>7. CASE Duplicate \/ Ahead \/ HeaderTooShort \/ DataOverrun \/ Panic \/ UNCHANGED vars
  BY <1>3, <1>7 DEF Duplicate, Ahead, HeaderTooShort, DataOverrun, Panic, vars
<1>8. CASE InOrder
  <2>. DEFINE c == AppendAndMerge(caches[cur.sensor], cur.two)
  <2>1. /\ cur.sensor \in Sensors /\ cur.two \in Words
        /\ caches[cur.sensor] \in SDUCache /\ Good(caches[cur.sensor])
        /\ SSEQ(cur.two) = caches[cur.sensor].SSEQ
        /\ PSEQ(cur.two) = caches[cur.sensor].expected
    BY <1>8 DEF InOrder, SameSession, Whole, IInv, TypeOK, Frame, SessionsGood, Live
  <2>2. Good(c)
    BY <2>1, InOrderGood
  <2>3. finalize(cur.sensor, c, timers) /\ cur' = None
    BY <1>8 DEF InOrder
  <2>. HIDE DEF c
  <2>4. timers' = timers
    BY <2>2, <2>3, NotHandedOver
  <2>. QED  BY <1>3, <2>3, <2>4
<1>9. ASSUME NEW i \in DOMAIN timers, Timeout(i) PROVE Bounded'
  <2>1. DOMAIN timers' = DOMAIN timers /\ cur' = cur
    BY <1>1, <1>9 DEF Timeout, Fire, TimerDiscard, TimerNack
  <2>. QED  BY <1>5, <2>1
<1>. QED
  BY <1>2, <1>4, <1>6, <1>7, <1>8, <1>9 DEF Next, Handle

-----------------------------------------------------------------------------
(* What a session holds, and what each way of handling a fragment adds.    *)

\* The numbers held: the run up to expected, and those kept aside.
LEMMA HeldShape ==
  ASSUME NEW c \in SDUCache, Good(c)
  PROVE  /\ First(c) \in Int /\ c.expected \in Int
         /\ First(c) < c.expected
         /\ Held(c) = First(c)..(c.expected - 1) \cup Keys(c.outOfOrder)
<1>. DEFINE L == Len(c.buffer)
            run == {PSEQ(c.buffer[i]) : i \in 1..L}
<1>1. /\ c.buffer \in Seq(Words) /\ L \in Nat /\ L > 0 /\ c.expected \in Int
      /\ c.expected = First(c) + L
      /\ \A i \in 1..L : PSEQ(c.buffer[i]) = First(c) + i - 1
  BY NumberRanges DEF SDUCache, Good, Contiguous
<1>2. First(c) \in Int
  <2>1. c.buffer[1] \in Words
    BY <1>1
  <2>. QED  BY <2>1, HeaderFields, NumberRanges DEF First
<1>3. Held(c) = run \cup Keys(c.outOfOrder)
  BY DEF Held
<1>. HIDE DEF L
<1>4. ASSUME NEW x \in First(c)..(c.expected - 1) PROVE x \in run
  <2>1. x - First(c) + 1 \in 1..L /\ x = First(c) + (x - First(c) + 1) - 1
    BY <1>1, <1>2
  <2>. QED  BY <2>1, <1>1
<1>5. ASSUME NEW x \in run PROVE x \in First(c)..(c.expected - 1)
  BY <1>1, <1>2
<1>6. run = First(c)..(c.expected - 1)
  <2>. HIDE DEF run
  <2>. QED  BY <1>4, <1>5
<1>. QED  BY <1>1, <1>2, <1>3, <1>6

LEMMA NewSessionHeld ==
  ASSUME NEW w \in Words, NEW i \in Nat \ {0}
  PROVE  /\ Held(NewSession(w, i)) = {PSEQ(w)}
         /\ NewSession(w, i).expected = PSEQ(w) + 1
<1>. DEFINE c == NewSession(w, i)
<1>1. c \in SDUCache /\ Good(c) /\ First(c) = PSEQ(w)
  BY NewSessionGood
<1>2. c.outOfOrder = {} /\ c.expected = PSEQ(w) + 1
  BY DEF NewSession
<1>. HIDE DEF c
<1>3. Keys(c.outOfOrder) = {}
  BY <1>2 DEF Keys
<1>4. Held(c) = First(c)..(c.expected - 1) \cup Keys(c.outOfOrder)
  BY <1>1, HeldShape
<1>5. PSEQ(w) \in Int
  BY HeaderFields, NumberRanges
<1>6. First(c)..(c.expected - 1) = {PSEQ(w)}
  BY <1>1, <1>2, <1>5
<1>. QED  BY <1>2, <1>3, <1>4, <1>6 DEF c

LEMMA AheadHeld ==
  ASSUME NEW c \in SDUCache, Good(c), NEW w \in Words,
         SSEQ(w) = c.SSEQ, PSEQ(w) > c.expected,
         NEW d, d = [c EXCEPT !.outOfOrder = Put(@, w),
                              !.finalPSEQ = IF isEnd(PSEQ(w)) THEN PSEQ(w) ELSE @]
  PROVE  Held(d) = Held(c) \cup {PSEQ(w)} /\ d.expected = c.expected
<1>1. d.outOfOrder = Put(c.outOfOrder, w) /\ d.expected = c.expected
  BY DEF SDUCache
<1>2. d \in SDUCache /\ Good(d) /\ First(d) = First(c)
  BY AheadGood
<1>3. Keys(Put(c.outOfOrder, w)) = Keys(c.outOfOrder) \cup {PSEQ(w)}
  BY DEF Keys, Put
<1>4. /\ Held(c) = First(c)..(c.expected - 1) \cup Keys(c.outOfOrder)
      /\ Held(d) = First(d)..(d.expected - 1) \cup Keys(d.outOfOrder)
  BY <1>2, HeldShape
<1>. QED  BY <1>1, <1>2, <1>3, <1>4

\* Appending and merging adds one number, and leaves the first one missing.
LEMMA InOrderHeld ==
  ASSUME NEW c \in SDUCache, Good(c), NEW w \in Words,
         SSEQ(w) = c.SSEQ, PSEQ(w) = c.expected
  PROVE  LET d == AppendAndMerge(c, w)
         IN  /\ Held(d) = Held(c) \cup {PSEQ(w)}
             /\ d.expected \in c.expected..(c.expected + 128)
             /\ d.expected \notin Held(d)
             /\ c.expected..(d.expected - 1) \subseteq Held(d)
             /\ PSEQ(w) \notin Held(c)
<1>. DEFINE d == AppendAndMerge(c, w)
            e == c.expected + 1
            n == MergeEnd(c.outOfOrder, e)
<1>1. c.expected \in Int /\ 1 <= c.expected /\ c.expected <= 127 /\ c.outOfOrder \subseteq Words
  BY HeaderFields, NumberRanges DEF SDUCache
<1>2. n \in e..128 /\ n \notin Keys(c.outOfOrder) /\ e..(n-1) \subseteq Keys(c.outOfOrder)
  <2>1. e \in Int /\ 1 <= e /\ e <= 128
    BY <1>1
  <2>. HIDE DEF e
  <2>. QED  BY <2>1, <1>1, MergeStops
<1>3. d.expected = n /\ d.outOfOrder = {x \in c.outOfOrder : PSEQ(x) \notin e..(n-1)}
  BY DEF AppendAndMerge, SDUCache
<1>4. d \in SDUCache /\ Good(d) /\ First(d) = First(c)
  BY InOrderGood
<1>. HIDE DEF n, d
<1>5. Keys(d.outOfOrder) = Keys(c.outOfOrder) \ e..(n-1)
  BY <1>3 DEF Keys
<1>6. /\ Held(c) = First(c)..(c.expected - 1) \cup Keys(c.outOfOrder)
      /\ Held(d) = First(c)..(n - 1) \cup Keys(d.outOfOrder)
      /\ First(c) \in Int /\ First(c) < c.expected
  BY <1>3, <1>4, HeldShape
<1>7. Held(d) = Held(c) \cup {c.expected}
  <2>1. First(c)..(n - 1) = First(c)..(c.expected - 1) \cup {c.expected} \cup e..(n-1)
    BY <1>1, <1>2, <1>6
  <2>. QED  BY <2>1, <1>2, <1>5, <1>6
<1>8. n \notin Held(d) /\ c.expected..(n - 1) \subseteq Held(d)
  BY <1>1, <1>2, <1>5, <1>6
<1>9. c.expected \notin Held(c)
  <2>1. c.expected \notin Keys(c.outOfOrder)
    BY <1>1 DEF Good, Merged, Keys
  <2>. QED  BY <2>1, <1>1, <1>6
<1>10. n \in c.expected..(c.expected + 128)
  BY <1>1, <1>2
<1>. QED  BY <1>3, <1>7, <1>8, <1>9, <1>10 DEF d

-----------------------------------------------------------------------------
(* The session of the frame in hand, after each way of handling it.        *)

LEMMA FrameInHand ==
  ASSUME IInv, Whole
  PROVE  cur.sensor \in Sensors /\ cur.two \in Words
BY DEF IInv, TypeOK, Whole, Frame

LEMMA SessionInHand ==
  ASSUME IInv, SameSession
  PROVE  /\ cur.sensor \in Sensors /\ cur.two \in Words /\ Live(cur.sensor)
         /\ caches[cur.sensor] \in SDUCache /\ Good(caches[cur.sensor])
         /\ SSEQ(cur.two) = caches[cur.sensor].SSEQ
<1>1. Whole /\ Live(cur.sensor) /\ caches[cur.sensor].SSEQ = SSEQ(cur.two)
  BY DEF SameSession
<1>2. cur.sensor \in Sensors /\ cur.two \in Words
  BY <1>1, FrameInHand
<1>. QED  BY <1>1, <1>2 DEF IInv, TypeOK, SessionsGood, Live

LEMMA StartedSession ==
  ASSUME IInv, StartSession
  PROVE  LET i == Len(timers) + 1
         IN  /\ i \in Nat \ {0}
             /\ caches' = [caches EXCEPT ![cur.sensor] = NewSession(cur.two, i)]
<1>. DEFINE i == Len(timers) + 1
            c == NewSession(cur.two, i)
            ts == Append(timers, [sensor |-> cur.sensor, sseq |-> SSEQ(cur.two),
                                  pseq |-> PSEQ(cur.two), state |-> "armed"])
<1>1. cur.two \in Words /\ i \in Nat \ {0}
  BY FrameInHand DEF StartSession, IInv, TypeOK
<1>2. Good(c)
  <2>. HIDE DEF i
  <2>. QED  BY <1>1, NewSessionGood
<1>3. finalize(cur.sensor, c, ts)
  BY <1>1, HeaderFields DEF StartSession
<1>. HIDE DEF c, ts
<1>4. caches' = [caches EXCEPT ![cur.sensor] = c]
  BY <1>2, <1>3, NotHandedOver
<1>. QED  BY <1>1, <1>4 DEF c

LEMMA AheadSession ==
  ASSUME IInv, Ahead
  PROVE  caches' = [caches EXCEPT ![cur.sensor] =
            [caches[cur.sensor] EXCEPT
                !.outOfOrder = Put(@, cur.two),
                !.finalPSEQ = IF isEnd(PSEQ(cur.two)) THEN PSEQ(cur.two) ELSE @]]
BY SessionInHand DEF Ahead, IInv, TypeOK

LEMMA InOrderSession ==
  ASSUME IInv, InOrder
  PROVE  caches' = [caches EXCEPT ![cur.sensor] = AppendAndMerge(caches[cur.sensor], cur.two)]
<1>. DEFINE c == caches[cur.sensor]
            d == AppendAndMerge(c, cur.two)
<1>1. /\ c \in SDUCache /\ Good(c) /\ cur.two \in Words
      /\ SSEQ(cur.two) = c.SSEQ /\ PSEQ(cur.two) = c.expected
  BY SessionInHand DEF InOrder
<1>2. Good(d)
  <2>. HIDE DEF c
  <2>. QED  BY <1>1, InOrderGood
<1>3. finalize(cur.sensor, d, timers)
  BY DEF InOrder
<1>. HIDE DEF d
<1>4. caches' = [caches EXCEPT ![cur.sensor] = d]
  BY <1>2, <1>3, NotHandedOver
<1>. QED  BY <1>4 DEF d

\* What AckedDataHeld asks of a step.
AckHeld ==
  Replied /\ reply'.ok =>
    LET c == caches'[cur.sensor] IN
      /\ reply'.sensor = cur.sensor
      /\ c # None
      /\ c.SSEQ = reply'.sseq
      /\ reply'.pseq >= First(c) => reply'.pseq \in Held(c)

\* A session of the acknowledged SSEQ that holds the number is all it takes.
LEMMA AckOfSession ==
  ASSUME NEW s \in Sensors, NEW w \in Words, s = cur.sensor,
         NEW d \in SDUCache, d.SSEQ = SSEQ(w), caches'[s] = d,
         sendAck(s, SSEQ(w), TRUE, PSEQ(w)),
         PSEQ(w) >= First(d) => PSEQ(w) \in Held(d)
  PROVE  AckHeld
<1>1. d # None
  BY NoneAssumption
<1>2. reply'.sensor = s /\ reply'.sseq = SSEQ(w) /\ reply'.pseq = PSEQ(w)
  BY DEF sendAck
<1>. QED  BY <1>1, <1>2 DEF AckHeld

LEMMA AckStep ==
  ASSUME IInv, [Next]_vars PROVE AckHeld
<1>. DEFINE s == cur.sensor
            w == cur.two
            c == caches[s]
<1>1. CASE HeaderTooShort \/ DataOverrun
  BY <1>1 DEF HeaderTooShort, DataOverrun, sendAck, AckHeld
<1>2. CASE StartSession
  <2>. DEFINE i == Len(timers) + 1
              d == NewSession(w, i)
  <2>1. s \in Sensors /\ w \in Words
    BY <1>2, FrameInHand DEF StartSession
  <2>2. i \in Nat \ {0} /\ caches' = [caches EXCEPT ![s] = d]
    BY <1>2, StartedSession
  <2>3. sendAck(s, SSEQ(w), TRUE, PSEQ(w))
    BY <1>2, <2>1, HeaderFields DEF StartSession
  <2>. HIDE DEF i, s, w
  <2>4. d \in SDUCache /\ d.SSEQ = SSEQ(w) /\ PSEQ(w) \in Held(d)
    BY <2>1, <2>2, NewSessionGood, NewSessionHeld
  <2>. HIDE DEF d
  <2>5. caches'[s] = d
    BY <2>1, <2>2 DEF IInv, TypeOK
  <2>6. s = cur.sensor
    BY DEF s
  <2>. QED  BY <2>1, <2>3, <2>4, <2>5, <2>6, AckOfSession
<1>3. CASE Restart
  BY <1>3, FrameInHand, HeaderFields DEF Restart, AckHeld, Replied
<1>4. CASE Duplicate \/ Ahead \/ InOrder
  <2>1. /\ s \in Sensors /\ w \in Words /\ c \in SDUCache /\ Good(c) /\ SSEQ(w) = c.SSEQ
        /\ sendAck(s, SSEQ(w), TRUE, PSEQ(w))
    BY <1>4, SessionInHand DEF Duplicate, Ahead, InOrder
  <2>2. PSEQ(w) \in Int
    BY <2>1, HeaderFields, NumberRanges
  <2>3. CASE Duplicate
    <3>1. PSEQ(w) < c.expected /\ caches' = caches
      BY <2>3 DEF Duplicate
    <3>. HIDE DEF s, w, c
    <3>2. PSEQ(w) >= First(c) => PSEQ(w) \in Held(c)
      BY <2>1, <2>2, <3>1, HeldShape
    <3>. QED  BY <2>1, <3>1, <3>2, AckOfSession DEF s, c
  <2>4. CASE Ahead
    <3>. DEFINE d == [c EXCEPT !.outOfOrder = Put(@, w),
                               !.finalPSEQ = IF isEnd(PSEQ(w)) THEN PSEQ(w) ELSE @]
    <3>1. PSEQ(w) > c.expected /\ caches' = [caches EXCEPT ![s] = d]
      BY <2>4, AheadSession DEF Ahead
    <3>. HIDE DEF c, w
    <3>2. d \in SDUCache /\ d.SSEQ = c.SSEQ
      BY <2>1, <3>1, AheadGood
    <3>. HIDE DEF d
    <3>3. PSEQ(w) \in Held(d)
      <4>1. d = [c EXCEPT !.outOfOrder = Put(@, w),
                          !.finalPSEQ = IF isEnd(PSEQ(w)) THEN PSEQ(w) ELSE @]
        BY DEF d
      <4>2. Held(d) = Held(c) \cup {PSEQ(w)}
        BY <2>1, <3>1, <4>1, AheadHeld
      <4>. QED  BY <4>2
    <3>. HIDE DEF s
    <3>4. caches'[s] = d /\ s = cur.sensor
      BY <2>1, <3>1 DEF IInv, TypeOK, s
    <3>. QED  BY <2>1, <3>2, <3>3, <3>4, AckOfSession
  <2>5. CASE InOrder
    <3>. DEFINE d == AppendAndMerge(c, w)
    <3>1. PSEQ(w) = c.expected /\ caches' = [caches EXCEPT ![s] = d]
      BY <2>5, InOrderSession DEF InOrder
    <3>. HIDE DEF c, w
    <3>2. d \in SDUCache /\ d.SSEQ = c.SSEQ /\ PSEQ(w) \in Held(d)
      BY <2>1, <3>1, InOrderGood, InOrderHeld
    <3>. HIDE DEF d, s
    <3>4. caches'[s] = d /\ s = cur.sensor
      BY <2>1, <3>1 DEF IInv, TypeOK, s
    <3>. QED  BY <2>1, <3>2, <3>4, AckOfSession
  <2>. QED  BY <1>4, <2>3, <2>4, <2>5
<1>5. ASSUME NEW f \in Frame, Receive(f) PROVE AckHeld
  BY <1>5 DEF Receive, AckHeld, Replied
<1>6. CASE Panic \/ UNCHANGED vars
  BY <1>6 DEF Panic, vars, AckHeld, Replied
<1>7. ASSUME NEW i \in DOMAIN timers, Timeout(i) PROVE AckHeld
  BY <1>7 DEF Timeout, Fire, TimerDiscard, TimerNack, AckHeld, Replied
<1>. QED
  BY <1>1, <1>2, <1>3, <1>4, <1>5, <1>6, <1>7 DEF Next, Handle

-----------------------------------------------------------------------------
(* The refinement of OrderedReceiver.                                      *)

\* The abstract state: what OrderedReceiver sees of the sessions.
heldNow == [s \in Sensors |-> IF Live(s) THEN Held(caches[s]) ELSE {}]
nextNow == [s \in Sensors |-> IF Live(s) THEN caches[s].expected ELSE 0]

\* When the session of one sensor changes, the abstract state of that one changes.
LEMMA SessionChanged ==
  ASSUME IInv, NEW s \in Sensors, NEW d \in SDUCache, caches' = [caches EXCEPT ![s] = d]
  PROVE  /\ heldNow' = [heldNow EXCEPT ![s] = Held(d)]
         /\ nextNow' = [nextNow EXCEPT ![s] = d.expected]
<1>1. d # None
  BY NoneAssumption
<1>2. /\ caches'[s] = d
      /\ \A r \in Sensors \ {s} : caches'[r] = caches[r]
  BY DEF IInv, TypeOK
<1>3. heldNow' = [r \in Sensors |-> IF r = s THEN Held(d) ELSE heldNow[r]]
  BY <1>1, <1>2 DEF heldNow, Live
<1>4. nextNow' = [r \in Sensors |-> IF r = s THEN d.expected ELSE nextNow[r]]
  BY <1>1, <1>2 DEF nextNow, Live
<1>5. heldNow = [r \in Sensors |-> heldNow[r]] /\ nextNow = [r \in Sensors |-> nextNow[r]]
  BY DEF heldNow, nextNow
<1>. QED  BY <1>3, <1>4, <1>5

\* Forgetting a session closes it.
LEMMA SessionForgotten ==
  ASSUME IInv, NEW s \in Sensors, caches' = [caches EXCEPT ![s] = None]
  PROVE  Promise!Next \/ UNCHANGED <<heldNow, nextNow>>
<1>1. /\ caches'[s] = None
      /\ \A r \in Sensors \ {s} : caches'[r] = caches[r]
  BY DEF IInv, TypeOK
<1>2. CASE ~Live(s)
  <2>1. \A r \in Sensors : caches'[r] = caches[r]
    BY <1>1, <1>2 DEF Live
  <2>. QED  BY <2>1 DEF heldNow, nextNow, Live
<1>3. CASE Live(s)
  <2>1. heldNow[s] # {}
    <3>1. caches[s] \in SDUCache /\ Good(caches[s])
      BY <1>3 DEF IInv, TypeOK, SessionsGood, Live
    <3>2. First(caches[s]) \in Held(caches[s])
      BY <3>1, HeldShape
    <3>. QED  BY <1>3, <3>2 DEF heldNow
  <2>2. heldNow' = [r \in Sensors |-> IF r = s THEN {} ELSE heldNow[r]]
    BY <1>1 DEF heldNow, Live
  <2>3. nextNow' = [r \in Sensors |-> IF r = s THEN 0 ELSE nextNow[r]]
    BY <1>1 DEF nextNow, Live
  <2>4. heldNow = [r \in Sensors |-> heldNow[r]] /\ nextNow = [r \in Sensors |-> nextNow[r]]
    BY DEF heldNow, nextNow
  <2>5. heldNow' = [heldNow EXCEPT ![s] = {}] /\ nextNow' = [nextNow EXCEPT ![s] = 0]
    BY <2>2, <2>3, <2>4
  <2>. QED  BY <2>1, <2>5 DEF Promise!Next, Promise!Close, heldNow, nextNow
<1>. QED  BY <1>2, <1>3

\* A fragment that starts a session opens it.
LEMMA StartOpens ==
  ASSUME IInv, StartSession
  PROVE  Promise!Next
<1>. DEFINE s == cur.sensor
            w == cur.two
            i == Len(timers) + 1
            d == NewSession(w, i)
<1>1. s \in Sensors /\ w \in Words /\ ~Live(s)
  BY FrameInHand DEF StartSession
<1>2. i \in Nat \ {0} /\ caches' = [caches EXCEPT ![s] = d]
  BY StartedSession
<1>. HIDE DEF i, s, w
<1>3. d \in SDUCache /\ Held(d) = {PSEQ(w)} /\ d.expected = PSEQ(w) + 1
  BY <1>1, <1>2, NewSessionGood, NewSessionHeld
<1>. HIDE DEF d
<1>4. /\ heldNow' = [heldNow EXCEPT ![s] = {PSEQ(w)}]
      /\ nextNow' = [nextNow EXCEPT ![s] = PSEQ(w) + 1]
  BY <1>1, <1>2, <1>3, SessionChanged
<1>5. heldNow[s] = {}
  BY <1>1 DEF heldNow
<1>6. PSEQ(w) \in {PSEQ(x) : x \in Words}
  BY <1>1
<1>. QED  BY <1>1, <1>4, <1>5, <1>6 DEF Promise!Next, Promise!Open, heldNow, nextNow

\* A fragment that is appended or kept aside is accepted, unless its number is
\* already held.
LEMMA KeptAccepts ==
  ASSUME IInv, Ahead \/ InOrder
  PROVE  Promise!Next \/ UNCHANGED <<heldNow, nextNow>>
<1>. DEFINE s == cur.sensor
            w == cur.two
            c == caches[s]
<1>1. /\ s \in Sensors /\ w \in Words /\ Live(s) /\ c \in SDUCache /\ Good(c)
      /\ SSEQ(w) = c.SSEQ
  BY SessionInHand DEF Ahead, InOrder
<1>2. heldNow[s] = Held(c) /\ nextNow[s] = c.expected
  BY <1>1 DEF heldNow, nextNow
<1>3. heldNow[s] # {}
  <2>. HIDE DEF c
  <2>1. First(c) \in Held(c)
    BY <1>1, HeldShape
  <2>. QED  BY <1>2, <2>1
<1>4. PSEQ(w) \in Int /\ c.expected \in Int
  BY <1>1, HeaderFields, NumberRanges DEF SDUCache
<1>5. ASSUME NEW d \in SDUCache, caches' = [caches EXCEPT ![s] = d],
             Held(d) = Held(c) \cup {PSEQ(w)}, PSEQ(w) \notin Held(c), PSEQ(w) >= c.expected,
             d.expected \in c.expected..(c.expected + 128),
             d.expected \notin Held(d), c.expected..(d.expected - 1) \subseteq Held(d)
      PROVE  Promise!Next
  <2>. HIDE DEF s, w, c
  <2>1. /\ heldNow' = [heldNow EXCEPT ![s] = heldNow[s] \cup {PSEQ(w)}]
        /\ nextNow' = [nextNow EXCEPT ![s] = d.expected]
    BY <1>1, <1>2, <1>5, SessionChanged
  <2>2. heldNow'[s] = Held(d)
    BY <1>1, <1>2, <1>5, <2>1 DEF heldNow
  <2>3. Promise!FirstMissing(d.expected, nextNow[s], heldNow'[s])
    BY <1>2, <1>4, <1>5, <2>2 DEF Promise!FirstMissing
  <2>4. d.expected \in nextNow[s]..(nextNow[s] + 128)
    BY <1>2, <1>5
  <2>5. PSEQ(w) >= nextNow[s] /\ PSEQ(w) \notin heldNow[s]
    BY <1>2, <1>5
  <2>6. PSEQ(w) \in {PSEQ(x) : x \in Words}
    BY <1>1
  <2>. QED  BY <1>1, <1>3, <2>1, <2>3, <2>4, <2>5, <2>6
            DEF Promise!Next, Promise!Accept, heldNow, nextNow
<1>6. CASE Ahead
  <2>. DEFINE d == [c EXCEPT !.outOfOrder = Put(@, w),
                             !.finalPSEQ = IF isEnd(PSEQ(w)) THEN PSEQ(w) ELSE @]
  <2>1. PSEQ(w) > c.expected /\ caches' = [caches EXCEPT ![s] = d]
    BY <1>6, AheadSession DEF Ahead
  <2>. HIDE DEF c, w, s
  <2>2. d \in SDUCache
    BY <1>1, <2>1, AheadGood
  <2>3. d = [c EXCEPT !.outOfOrder = Put(@, w),
                      !.finalPSEQ = IF isEnd(PSEQ(w)) THEN PSEQ(w) ELSE @]
    OBVIOUS
  <2>. HIDE DEF d
  <2>4. Held(d) = Held(c) \cup {PSEQ(w)} /\ d.expected = c.expected
    BY <1>1, <2>1, <2>3, AheadHeld
  <2>5. CASE PSEQ(w) \in Held(c)
    <3>1. /\ heldNow' = [heldNow EXCEPT ![s] = heldNow[s]]
          /\ nextNow' = [nextNow EXCEPT ![s] = nextNow[s]]
      <4>1. Held(d) = Held(c)
        BY <2>4, <2>5
      <4>. QED  BY <1>1, <1>2, <2>1, <2>2, <2>4, <4>1, SessionChanged
    <3>. QED  BY <3>1 DEF heldNow, nextNow
  <2>6. CASE PSEQ(w) \notin Held(c)
    <3>1. c.expected \notin Held(c)
      <4>1. c.expected \notin Keys(c.outOfOrder)
        BY <1>1, <1>4 DEF Good, Merged, Keys
      <4>2. Held(c) = First(c)..(c.expected - 1) \cup Keys(c.outOfOrder) /\ First(c) \in Int
        BY <1>1, HeldShape
      <4>. QED  BY <1>4, <4>1, <4>2
    <3>2. d.expected \notin Held(d)
      BY <1>4, <2>1, <2>4, <3>1
    <3>3. c.expected..(d.expected - 1) \subseteq Held(d)
      BY <1>4, <2>4
    <3>4. d.expected \in c.expected..(c.expected + 128) /\ PSEQ(w) >= c.expected
      BY <1>4, <2>1, <2>4
    <3>5. Promise!Next
      BY <1>5, <2>1, <2>2, <2>4, <2>6, <3>2, <3>3, <3>4
    <3>. QED  BY <3>5
  <2>. QED  BY <2>5, <2>6
<1>7. CASE InOrder
  <2>. DEFINE d == AppendAndMerge(c, w)
  <2>1. PSEQ(w) = c.expected /\ caches' = [caches EXCEPT ![s] = d]
    BY <1>7, InOrderSession DEF InOrder
  <2>. HIDE DEF c, w, s
  <2>2. d \in SDUCache
    BY <1>1, <2>1, InOrderGood
  <2>3. /\ Held(d) = Held(c) \cup {PSEQ(w)}
        /\ d.expected \in c.expected..(c.expected + 128)
        /\ d.expected \notin Held(d)
        /\ c.expected..(d.expected - 1) \subseteq Held(d)
        /\ PSEQ(w) \notin Held(c)
    BY <1>1, <2>1, InOrderHeld
  <2>. HIDE DEF d
  <2>4. PSEQ(w) >= c.expected
    BY <1>4, <2>1
  <2>5. Held(d) = Held(c) \cup {PSEQ(w)} /\ PSEQ(w) \notin Held(c)
    BY <2>3
  <2>6. /\ d.expected \in c.expected..(c.expected + 128) /\ d.expected \notin Held(d)
        /\ c.expected..(d.expected - 1) \subseteq Held(d)
    BY <2>3
  <2>. QED  BY <1>5, <2>1, <2>2, <2>4, <2>5, <2>6
<1>. QED  BY <1>6, <1>7

LEMMA PromiseStep ==
  ASSUME IInv, [Next]_vars
  PROVE  Promise!Next \/ UNCHANGED <<heldNow, nextNow>>
<1>1. CASE UNCHANGED caches
  BY <1>1 DEF heldNow, nextNow, Live
<1>2. CASE StartSession
  BY <1>2, StartOpens
<1>3. CASE Ahead \/ InOrder
  BY <1>3, KeptAccepts
<1>4. CASE Restart
  <2>1. cur.sensor \in Sensors /\ caches' = [caches EXCEPT ![cur.sensor] = None]
    BY <1>4, FrameInHand, HeaderFields DEF Restart
  <2>. QED  BY <2>1, SessionForgotten
<1>5. ASSUME NEW i \in DOMAIN timers, TimerDiscard(i)
      PROVE  Promise!Next \/ UNCHANGED <<heldNow, nextNow>>
  <2>0. timers[i] \in Timer
    BY DEF IInv, TypeOK
  <2>1. /\ timers[i].sensor \in Sensors
        /\ caches' = [caches EXCEPT ![timers[i].sensor] = None]
    BY <1>5, <2>0 DEF TimerDiscard, Timer
  <2>. QED  BY <2>1, SessionForgotten
<1>6. \/ UNCHANGED caches \/ StartSession \/ Ahead \/ InOrder \/ Restart
      \/ \E i \in DOMAIN timers : TimerDiscard(i)
  BY DEF Next, vars, Receive, Panic, Handle, HeaderTooShort, DataOverrun, Duplicate,
         Timeout, Fire, TimerNack
<1>. QED  BY <1>1, <1>2, <1>3, <1>4, <1>5, <1>6

-----------------------------------------------------------------------------
(* The results.                                                            *)

\* In every reachable state, for any sensors and any frames, every variable has
\* its type, every session's buffer is a gapless run of one SDU with nothing
\* mergeable left aside, and every session has a timer that will end it.
THEOREM Invariance == Spec => []IInv
BY InitInvariant, StepInvariant, PTL DEF Spec

\* The types hold, for every value of the constants.
THEOREM TypeCorrect == Spec => []TypeOK
BY Invariance, PTL DEF IInv

\* ProcessFrame's buffer never has a gap, a repetition or an inversion.
THEOREM BufferAlwaysContiguous == Spec => []BufferContiguous
<1>1. IInv => BufferContiguous
  BY DEF IInv, SessionsGood, Good, BufferContiguous
<1>. QED  BY <1>1, Invariance, PTL

\* The merge loop never leaves anything aside that could be appended.
THEOREM MergeAlwaysComplete == Spec => []NothingMergeableLeft
<1>1. IInv => NothingMergeableLeft
  BY DEF IInv, SessionsGood, Good, NothingMergeableLeft
<1>. QED  BY <1>1, Invariance, PTL

\* Restarts, stale callbacks and new sessions never leave a session untimed.
THEOREM SessionsAlwaysTimed == Spec => []LiveSessionHasTimer
BY Invariance, PTL DEF IInv

\* What ProcessFrame acknowledges is held by the session of that SSEQ, unless it
\* precedes the session's first fragment: whatever was lost, repeated or reordered.
THEOREM AckedAlwaysHeld == Spec => AckedDataHeld
<1>1. IInv /\ [Next]_vars => [AckHeld]_vars
  BY AckStep
<1>. QED  BY <1>1, Invariance, PTL DEF Spec, AckedDataHeld, AckHeld

\* Each sensor's session is an ordered receiver: the buffer, the map of fragments
\* kept aside, the merge loop, the timers and the restarts implement a set of
\* numbers that grows one at a time, and the first one missing.
THEOREM ImplementsOrderedReceiver == Spec => OrderedReceiver
<1>1. Init => Promise!Init
  BY DEF Init, Promise!Init, Live
<1>2. IInv /\ [Next]_vars => [Promise!Next]_<<heldNow, nextNow>>
  BY PromiseStep
<1>. QED
  BY <1>1, <1>2, Invariance, PTL DEF Spec, OrderedReceiver, Promise!Spec, heldNow, nextNow

\* Every timer is within the bound on sessions.
THEOREM WithinBound == Spec => []Bounded
<1>1. Init => Bounded
  BY BoundAssumption DEF Init, Bounded
<1>2. IInv /\ Bounded /\ [Next]_vars => Bounded'
  BY BoundedStep
<1>. QED  BY <1>1, <1>2, Invariance, PTL DEF Spec
=============================================================================
