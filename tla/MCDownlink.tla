----------------------------- MODULE MCDownlink -----------------------------
(***************************************************************************)
(* A small instance of Downlink for TLC, all requests for one device: a    *)
(* write of two commands with a plain resource between them, one of two    *)
(* commands, one of a command with two values, and a read.                 *)
(***************************************************************************)
EXTENDS DownlinkProps, TLC

CONSTANTS w1, w2, w3, rd, d1, parser

Write(resources, params) == [op |-> "write", device |-> d1, resources |-> resources, params |-> params]

MCWork ==
  (w1 :> Write(<<"Time_Parameter_Set", "plain", "Reset_Set">>, 3))
  @@ (w2 :> Write(<<"ID_Query", "topologyDiagramQuery">>, 2))
  @@ (w3 :> Write(<<"Reset_Set">>, 2))
  @@ (rd :> [op |-> "read", device |-> d1, resources |-> <<"plain">>, params |-> 0])
=============================================================================
