--------------------------- MODULE MCDeviceTables ---------------------------
(***************************************************************************)
(* A small instance of DeviceTables for TLC: two listed devices with an    *)
(* "eid" resource, like Data-Demo and Sink-Node, one with an "EID"         *)
(* resource, like Edge-Proxy; the first is in the preset mapping.          *)
(***************************************************************************)
EXTENDS DeviceTablesProps, TLC

CONSTANTS demo, sink, proxy, e1, e2, e3

MCProfile == (demo :> <<"eid", "parameter">>) @@ (sink :> <<"state", "eid">>)
             @@ (proxy :> <<"EID">>)
MCEidOf   == (demo :> e1) @@ (sink :> e2) @@ (proxy :> e3)
MCPreset  == (e1 :> demo) @@ (e2 :> None) @@ (e3 :> None)
=============================================================================
