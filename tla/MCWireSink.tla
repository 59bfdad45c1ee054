----------------------------- MODULE MCWireSink -----------------------------
(***************************************************************************)
(* A small instance of WireSink for TLC: one sensor whose sessions follow  *)
(* each other, one write request, one connection loss.                     *)
(***************************************************************************)
EXTENDS WireSinkProps, TLC

CONSTANTS s1, w1, d1

\* The first fragments of two SDUs.
MCWords == {1024, 2048}

MCWork == w1 :> [op |-> "write", device |-> d1, resources |-> <<"Reset_Set">>,
                 params |-> 1]
=============================================================================
