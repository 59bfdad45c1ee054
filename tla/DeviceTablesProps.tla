-------------------------- MODULE DeviceTablesProps --------------------------
(***************************************************************************)
(* What holds of the shared tables, and what their comments promise.       *)
(***************************************************************************)
EXTENDS DeviceTables

\* What is left to do of a frame in hand.
Todos == Frames \cup {<<"print">>, <<Param>>, <<"response">>}

\* Every variable has its type.
TypeOK ==
  /\ up \in BOOLEAN
  /\ ValuesMap \in [Devices -> (SUBSET Resources) \cup {None}]
  /\ mapping \in [Eids -> Devices \cup {None}]
  /\ start \in {"init", "parsing", "mapping", "done"}
  /\ owed \subseteq Devices /\ seen \subseteq Devices
  /\ found \in Devices \cup {None}
  /\ cb \in [op : {"none", "init", "remove"}, dev : Devices \cup {None},
            step : Nat, early : BOOLEAN]
  /\ cb = Idle \/ (cb.op # "none" /\ cb.dev \in Devices)
  /\ calls \in 0..MaxCallbacks
  /\ status \in [Devices -> {"in", "out", "failed", "early", "clean"}]
  /\ parser \in [dev : Devices \cup {None}, eid : Eids \cup {None}, todo : {<<>>} \cup Todos]
  /\ \/ parser \in {NoFrame, Printing}
     \/ parser.dev \in Devices /\ parser.eid \in Eids /\ parser.todo \in Todos \ {<<"print">>}
  /\ nameless \in Eids \cup {None} /\ deleted \subseteq Devices

\* When Start has ended and metadata has not interfered, the EID of every listed
\* device that has an "eid" resource leads to a device with that EID, although the
\* parser has been filling ValuesMap all the while.
StartMapsEveryDevice ==
  (start = "done" /\ calls = 0) =>
    \A d \in Listed : "eid" \in Range(Profile[d]) =>
      LET m == mapping[EidOf[d]] IN m # None /\ EidOf[m] = EidOf[d]

\* Once a device has been removed, and the frame that may have been in hand is
\* done, nothing is stored for it any more and no frame is taken for it, until
\* metadata announces it again.
QuietAfterRemove ==
  [][\A d \in Devices :
       (status[d] = "clean" /\ status'[d] = "clean" /\ parser.dev # d)
         => ValuesMap'[d] = ValuesMap[d] /\ parser'.dev # d]_vars

\* What such a frame leaves behind is never mistaken for the device: of a removed
\* device at most the values of one frame are there, none of its profile.
OnlyLeftovers ==
  \A d \in Devices : status[d] = "clean" =>
    ValuesMap[d] = None \/ ValuesMap[d] \subseteq {Stamp, Param}

\* Once Start has ended, the process can be killed only while RemoveDevice deletes the
\* mapping entries just when the parser reads the mapping, and not by frames, known or
\* not, against updates of devices.
KilledOnlyByRemove ==
  (~up /\ start = "done") =>
    /\ cb.op = "remove" /\ cb.step = 1
    /\ parser = NoFrame \/ Head(parser.todo) \in {"print", "response"}

\* A device of EID e has been taken off the tables since the frame in hand was looked
\* up, or RemoveDevice has deleted its values and is about to delete its mapping.
RemovedMeanwhile(e) ==
  \E d \in Devices : EidOf[d] = e /\
    (d \in deleted \/ (cb.op = "remove" /\ cb.dev = d /\ cb.step = 1))

\* A response is stored under no name only if a device of its EID was removed between
\* the two lookups (parser.go:44, param_table_parser_response.go:149), also while
\* UpdateSensorMapping empties the preset mapping and makes it anew from a table that
\* the parser and the callbacks are writing.
NamelessOnlyIfRemoved ==
  nameless # None => RemovedMeanwhile(nameless)

-----------------------------------------------------------------------------
(* What comments of config/ say, which the code does not do.               *)

\* config.go:194 "delete all run-time values of the device" (and the log line at
\* wiresinkdriver.go:274): a removed device has no values.
RemovedHasNoValues ==
  \A d \in Devices : status[d] = "clean" => ValuesMap[d] = None
=============================================================================
