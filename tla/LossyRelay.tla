----------------------------- MODULE LossyRelay -----------------------------
(***************************************************************************)
(* What the uplink promises: messages may be lost, but what is forwarded   *)
(* was published, once, and in the order of publication.  Messages are     *)
(* numbered in that order.                                                 *)
(***************************************************************************)
EXTENDS Naturals

VARIABLES
  published,   \* how many messages have been published
  last         \* the number of the message forwarded last (0: none)

Init == published = 0 /\ last = 0

Publish == published' = published + 1 /\ UNCHANGED last

Forward(k) ==
  /\ k > last /\ k <= published
  /\ last' = k
  /\ UNCHANGED published

Next == Publish \/ \E k \in 1..published : Forward(k)

Spec == Init /\ [][Next]_<<published, last>>
=============================================================================
