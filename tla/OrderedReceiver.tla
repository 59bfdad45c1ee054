--------------------------- MODULE OrderedReceiver ---------------------------
(***************************************************************************)
(* What reassembly promises for each sender, in terms of sets only: a set  *)
(* of received fragment numbers that grows one at a time, and the number   *)
(* up to which the fragments can be delivered in order.  It says nothing   *)
(* of buffers, merging, timers or locks.                                   *)
(***************************************************************************)
EXTENDS Integers

CONSTANTS
  Sensors,
  Numbers     \* the fragment numbers

VARIABLES
  held,       \* per sensor, the numbers received in the current session
  next        \* per sensor, the first number not deliverable yet (0: no session)

Init ==
  /\ held = [s \in Sensors |-> {}]
  /\ next = [s \in Sensors |-> 0]

\* The first fragment to arrive opens a session and is deliverable.
Open(s, p) ==
  /\ held[s] = {}
  /\ held' = [held EXCEPT ![s] = {p}]
  /\ next' = [next EXCEPT ![s] = p + 1]

\* n is the least number from m on that is not in H.
FirstMissing(n, m, H) == n >= m /\ n \notin H /\ m..(n - 1) \subseteq H

\* A later fragment is kept, and next moves to the first missing number.
Accept(s, p) ==
  /\ held[s] # {}
  /\ p >= next[s]
  /\ p \notin held[s]
  /\ held' = [held EXCEPT ![s] = @ \cup {p}]
  /\ \E n \in next[s]..(next[s] + 128) :
        /\ FirstMissing(n, next[s], held'[s])
        /\ next' = [next EXCEPT ![s] = n]

\* A session ends, by timeout, restart or completion.
Close(s) ==
  /\ held[s] # {}
  /\ held' = [held EXCEPT ![s] = {}]
  /\ next' = [next EXCEPT ![s] = 0]

Next ==
  \E s \in Sensors :
    \/ Close(s)
    \/ \E p \in Numbers : Open(s, p) \/ Accept(s, p)

Spec == Init /\ [][Next]_<<held, next>>
=============================================================================
