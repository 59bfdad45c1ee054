------------------------------ MODULE MCUplink ------------------------------
(***************************************************************************)
(* Small instances of Uplink for TLC.                                      *)
(***************************************************************************)
EXTENDS UplinkProps

Whole(kind, handler, params) ==
  [decodable |-> TRUE, known |-> TRUE, sound |-> TRUE,
   kind |-> kind, handler |-> handler, params |-> params]

Data == Whole("data", "none", <<"value", "internal">>)

\* One message of each kind the code tells apart.
MCMessagesAll ==
  { Data,
    [Data EXCEPT !.decodable = FALSE],
    [Data EXCEPT !.known = FALSE],
    [Data EXCEPT !.sound = FALSE],
    Whole("data", "none", <<"nothing", "internal">>),
    Whole("data", "none", <<"value", "overrun">>),
    Whole("control", "params", <<"value", "value">>),
    Whole("control", "plain", <<>>),
    Whole("control", "cut", <<>>),
    Whole("control", "calibrate", <<>>),
    Whole("control", "none", <<>>),
    Whole("other", "none", <<"value">>),
    Whole("fragment", "none", <<"value">>),
    Whole("fragment", "cut", <<>>) }
=============================================================================
