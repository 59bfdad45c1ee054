# device-wiresink-go in TLA+

device-wiresink-go is an EdgeX device service. On one side it talks over MQTT to
a *sink*, the gateway of a network of wireless sensors that speak the frames of
Q/GDW 12184-2021; on the other side it is driven by the EdgeX device SDK. Frames
come up from the sink, are checked and parsed into values, kept per device in
memory and reported to EdgeX; write commands of EdgeX go down as frames.

This directory holds TLA+ modules of that program (everything under
`src/internal/`), TLC configurations that check them on small instances, and
proofs, checked by TLAPS, that most of the safety properties hold for all
instances.

## 1. The system

```
  sink --MQTT--> sinkMsgHandler --SinkRawDataCh(128)--> StartParser --asyncCh(16)--> SDK
                 (paho goroutine)                        |  |  |
                                      ProcessFrame <-----+  |  +--> data statuses, acks
                                      + timeout callbacks   |            |
                                                            v            v
  SDK callbacks --> AddDevice/... ------------>  ValuesMap, mapping   SendFrame -> MQTT -> sink
  SDK requests  --> HandleRead/WriteCommands ----^  ------------------^
  health check (ticker) -------------------------^
```

| component (source) | state | operations | interacts with |
|---|---|---|---|
| fragment reassembly (`frameparser/sharding.go`) | `sduCaches` under `cacheMu`: SSEQ, buffer, map of fragments out of order, timer | `ProcessFrame`, the `AfterFunc` callback, `sendAck`, `finalize` | called by the parser; acknowledges through `relay` |
| frame parser (`frameparser/parser.go`, `parser_response.go`) | the frame in hand | `StartParser` (CRC, lookup, dispatch, parameter loop), `SendDataStatus` | `SinkRawDataCh`, the tables, `asyncCh` |
| control responses (`config/param_table_parser_response.go`, `config/tool.go`) | `Resources1`, `ResourcesFlag`, `WriteChan` | `common_para_response`, time, reset and calibration answers | run by the parser |
| reporting (`driver/cmdupload.go`) | - | `AsyncReporting` | waits for room in `asyncCh`, which the SDK reads |
| device tables (`config/config.go`, `config/idToDevice.go`) | `ValuesMap` (`Mu`), `SensorIDToDeviceName` (`mu1`) | initialise, set, delete; rebuild, look up, delete | every goroutine |
| driver (`driver/wiresinkdriver.go`) | `locker` | `Initialize`, `Start`, `Stop`, `Add/Update/RemoveDevice`, read and write requests, coercion of values | the SDK calls it from several goroutines |
| write commands (`driver/command.go`) | - | eight handlers that build and send one frame | under `locker`; `relay` |
| health check (`driver/status_check.go`) | - | every second: copy names, read two values of each, write `state` | tables |
| MQTT link (`mqttclient/mqttclient.go`, `relay/egress.go`) | the client, one subscription | `NewClient`, `SubscribeSinkData`, `PublishSinkCommand`, `SendFrame`, `Close` | paho client, broker |
| frame builders (`frameparser/*_ctl.go`) | - | pure functions | write commands |
| parameter tables (`config/param_table*.go`) | constant tables | pure parsers of values, `parseTopo` | parser |
| CRC16 (`frameparser/crc.go`, `config/tool.go`) | constant tables, twice | pure | parser, builders |
| control listener (`driver/listener.go`) | - | a poll loop that nothing starts | - |

What is hard here: five kinds of goroutines (the paho callback, the parser, the
timeout callbacks, the health check, the SDK's callbacks and requests) share two
maps, one lock per map that three functions forget, a channel that drops when full
and two that block; a link that loses, repeats, reorders and damages; timeouts that
race restarts; a publication that may never return while a lock is held; lengths,
counts and types that are bytes of a frame.

What makes each part correct:

- *reassembly*: the buffer is a gapless run of one SDU; what is acknowledged is
  held; a session always has a timer of its own and ends; a timeout is reported.
- *uplink*: a report has values of one sound frame; order is kept and nothing is
  doubled; each data frame is answered once, with the truth; an accepted frame gets
  through unless the parser is stuck for good.
- *frames*: what is sent passes the receiver's checks; what is damaged does not;
  what is read is what was written, or nothing; an answer finds its handler.
- *tables*: after `Start` every listed device is reachable; a removed device is
  quiet; nothing of a removed device but the frame in hand can come back; the
  accesses without a lock meet nobody, but for one.
- *values*: a reading is the stored number in the declared type, or an error with a
  reason; the values of an answer are of one moment; no value of a profile is lost.
- *commands*: requests do not mix; nothing is skipped, repeated or tried after a
  failure; every request is answered.
- *the service*: a publication that hangs holds up those it must, and nobody else;
  an acknowledgement is still true when it leaves.

`PROJECT.json` lists every component with its status and every hazard with the
line where it bites and the property that watches it.

## 2. Modules

Each component has a module with its state and actions, a `...Props` module with
its properties, an `MC...` module with the values of an instance, a `.cfg` per
question, and, where proved, a `...Proofs` module. Operators that end in
`_something` and are marked *mutant* are wrong versions of the definition whose
name they begin with; none is used by a specification. They stand for bugs the
properties were tried against, each property with at least one.

```
  OrderedReceiver <~~ Reassembly --+                     LossyRelay <~~ Uplink
                                   +--> WireSink
                      Downlink   --+           Crc --> Codec --> Frames
                      DeviceTables             Coerce --> Readings
```
(`-->` used by, `<~~` implemented by)

### Reassembly (`Reassembly`, `ReassemblyProps`, `ReassemblyProofs`, `OrderedReceiver`)

`caches` is `sduCaches`, `timers` the `AfterFunc` timer of every session so far,
`cur` the fragment `ProcessFrame` works on, `reply` the last acknowledgement,
`sduCh` what was put on `SDUCh`. The code between `cacheMu.Lock` and `Unlock` is
one action, one per branch of `ProcessFrame`: `HeaderTooShort`, `DataOverrun`,
`StartSession`, `Restart` (another SSEQ), `Duplicate`, `Ahead`, `InOrder`
(append, merge loop, perhaps `finalize`). `Panic` is the slice of a PDU with fewer
than two bytes. A timer goes *armed* -> *fired* (`Fire`: the runtime has started
the callback, `Stop` no longer helps) -> *unlocked* (`TimerDiscard`: the callback
has deleted the sensor's session) -> *done* (`TimerNack`: it has sent the negative
acknowledgement, outside the lock). `Receive` may hand in any frame at any time,
which covers loss, repetition and reordering.

A fragment is its 16-bit header word: from it `SSEQ`, `PSEQ`, `isStart` and
`isEnd` are computed as in the code, shifts and masks written as `\div` and `%`;
the data bytes behind it are carried by the word's identity. `outOfOrder` is the
set of words kept (at most one per PSEQ), `MergeEnd` says without recursion where
the merge loop stops.

`OrderedReceiver` is the abstract specification: per sensor a set of numbers that
grows, and the first one missing; no buffer, merging, timer or lock. The
refinement maps `held` to the PSEQs in buffer and map, `next` to `expected`.

### Uplink (`Uplink`, `UplinkProps`, `UplinkProofs`, `LossyRelay`)

From `sinkMsgHandler` over `SinkRawDataCh`, the parser loop and `AsyncReporting` to
the SDK. A message is a record of what the code tells apart: whether it decodes,
its sensor is known, its CRC is right, which kind of frame and handler, and per
parameter what the parse loop makes of it (a reported value, a value of a type
`AsyncReporting` skips, nothing, or a length beyond the end of the frame). `pc` is
where the parser is between the points at which others see it: `Take`, `Check`
(length, lookup, CRC), the two publications, `SendDataStatus` of a data frame and the
acknowledgement in `ProcessFrame` of a fragment, each of which either returns or leaves
`pc` at *stuck* for good, `ParseParams`, the control handlers
(`common_para_response`, `PlainControl`, `resetCommands`), then `ReportControl` or
`ReportParams`, with `AsyncReporting` waiting for room. `Resources1` and
`ResourcesFlag` keep their values between frames as the globals do. `Panic` is the
death of the process: an index into an answer cut short, or a send to
`WriteChan` after `Stop` has closed it. `RemoveDevice` takes the device of the control frame
in hand away (`gone`): the handler, which looks it up again for every value, drops what it
reads from then on. `Consume` is the SDK's reader (external); `taken` is a history
variable, the frames that have left `SinkRawDataCh`.

`LossyRelay` is the abstract specification: what is forwarded was published, once,
and in order; messages may be lost.

### Frames (`Crc`, `Codec`, `Frames`, `FramesProps`, `CodecProofs`, `FramesProofs`)

The same way down and up for one frame, byte by byte. `Crc` has the two tables of
`crc.go` and the loop over them, next to the polynomial computed bit by bit (`Xor`
and `Shift` are arithmetic on bits, no module of bit operations). `Codec` has the
layout: head byte, control byte, parameter entries, all builders that have a caller
(`ControlFrame` is what they share), `sendAck` and `SendDataStatus`, the table of
parameter types with its eight readers, `parseTopo` among them. In `Frames` the service sends a
request or a sensor reports; the answer or report may be cut short, may have a wrong
count, and one of its bytes may be damaged; `Refuse`, `AcceptData`,
`AcceptResponse` and `AcceptOther` are the checks and the dispatch through
`ResponseMap`, `ReadParam` one iteration of either parameter loop, with the ends
they have: `LoopEnds`, `LengthMissing` (panic), `DataMissing` (the response loop's check),
`Overrun` (the other loop has none: it panics, or reads what lies behind the frame,
whichever the slice's capacity allows).
What a sensor means by an entry is kept apart from how it is read: `Means` and `Fits`
are the values of a kind of parameter and the lengths its flag can tell, `Entry` the record,
`IsReport` the lists of entries that a frame can be about; `NodeBytes` and `TopologyBytes` are
the layout of a topology, `WordBytes` that of a list of numbers.

### Device tables (`DeviceTables`, `DeviceTablesProps`, `DeviceTablesProofs`)

`ValuesMap` and `mapping` against `Start` (`InitDeviceResources`, then, with the
parser already running, `ClearMapping`, `ReadEid`, `WriteMapping`, `UnlockMapping`
of `UpdateSensorMapping`), one SDK callback at a time (`Begin`, `DeviceInit` per
resource, `DeleteDeviceValues`, `DeleteSensorIDMappingsByDevice`) and the parser
(`LookupDeviceName`, `PrintMapping` for an EID it does not find, `StoreValue`, and
`StoreResponse`, where the handler looks the name up a second time; the EID under which
it stores when there is none is `nameless`, and `deleted` are the devices removed since the
lookup of the frame in hand). A section under a lock is one step. Go's map
iteration visits in any order and may or may not meet entries added meanwhile:
`owed` are the entries it must visit. Each goroutine's next access is a record of
map, kind and lock (`StartAccesses`, `CallbackAccesses`, `ParserAccesses`); two that
race may be noticed by the runtime: `ConcurrentMapAccess` is its fatal error, one of the
outcomes; the other, that both go on, is in the interleavings.

### Values (`Coerce`, `Readings`, `ReadingsProps`, `ReadingsProofs`)

`Coerce` is `coerceTo` with `toInt64`, `toUint64`, `toFloat64` and `parseDefaultValue`,
on values `[go |-> type, as |-> form of a text, n |-> number]`; floats count in
halves. Widths are parameters: integers wrap at them, floats round to a number of
digits (`Rounded`, to the nearest and between two to the even one; `ParseFloat` for texts). What Go leaves to the machine (a float out of range turned into an integer)
is a choice. In `Readings` the table holds such values: callbacks store defaults one
at a time (`DeviceInit`), the parser the time stamp and then the values of a frame
(`onDataReceived`, `SetDeviceValue`; `parseTopo` sets a list that all devices share), the
health check writes `state` (`Tick`, `ReadValues`, `WriteState`), and a read request
copies the device's values and converts one after the other. `written` is a history variable: the
same table with the time of the frame that each value came from.

### Commands (`Downlink`, `DownlinkProps`, `DownlinkProofs`)

Requests (`Call`, `Lock`, `HandleReadCommands`, `HandleWriteCommands` with
`HandleCommand` for its eight handlers, `Return` with the deferred unlock), and
publications (`Publish`, `PublishDropped`, `PublishStuck`; `Resume` is `SendFrame`,
which ignores the error; `sent` and `dropped` keep those of the requests) by requests and by the goroutines that publish without the
driver's lock (`Senders`, `SendStatus`). `link`
is the status of the paho client. As vendored, the client connects with a clean
session and reconnects by itself; a QoS 0 publication made while it reconnects
is thrown away and its token completed without error, one made while it takes
the old connection down gets a token that is never completed; hence the three
outcomes. What the table holds of a device (`holds`: nothing, values, values with an `eid`) comes
and goes with `DeviceChanged` (its causes are in `DeviceTables`); a read fails for certain
only when there is nothing, a write at its first command without an `eid`, or at once when it has
another number of values than of resources (`Mismatched`). All frames go to the fixed EID 238A0841D828, whatever the
device; the destination is therefore no part of a publication (it is in `Frames`).

### The service (`WireSink`, `WireSinkProps`, `WireSinkProofs`)

`Reassembly` and `Downlink` side by side, by INSTANCE, with the parser and every
timeout callback as senders of `Downlink`, and one more variable, `cacheMu`. `Process`
is a branch of `ProcessFrame` up to its `sendAck`, which keeps `cacheMu`; `SendFrame` is
the publication, after which `cacheMu` is given back, unless it is stuck.
`Refuse` acknowledges before the lock is taken, `Nack` after it was given back,
`Discard` needs it. Requests know nothing of it: they have the driver's lock.

## 3. Runs

| run | what it asks | instance |
|---|---|---|
| `reassembly_sessions` | `BufferContiguous`, `NothingMergeableLeft`, `LiveSessionHasTimer`, `AckedDataHeld`, and the refinement `OrderedReceiver` | 1 sensor, PSEQ 0-3 of one SSEQ, the last one with the end mark, PSEQ 0 and 127 of another, 3 sessions |
| `uplink_reports` | `ReportOfOneFrame`, `OnlySoundFramesReported`, `StatusesMatch`, the refinement `LossyRelay`; `AcceptedIsForwarded` under fairness | 14 kinds of messages, 3 of them, capacities 2, 1, 1 |
| `frames` | `SentIsSound`, `TablesMatchPolynomial`, `DamageRefused`, `ReportsRead`, `TopologyOfWholeNodes`, `AnswersRead`, `AnswerToItsHandler` | all 8 requests, acknowledgements; reports and answers with each kind of parameter, alone, in pairs, cut, miscounted, one with 512 bytes; any byte damaged |
| `tables` | `StartMapsEveryDevice`, `OnlyLeftovers`, `KilledOnlyByRemove`, `NamelessOnlyIfRemoved`, `QuietAfterRemove` | 3 devices (two listed, one of them preset, one with "EID"), 3 callbacks |
| `readings` | `AnswersOfOneMoment`, `NothingMissing`, `ReadFaithful`, `RefusedForAReason` | 1 device, a profile for each declared type with defaults at its limit, beyond it and of another form; 5 kinds of frames, 1 callback, the health check, 3 requests of 3 resources, 2 ticks |
| `downlink_requests` | `RequestsDoNotMix`, `TriedUpToHere`; `RequestAnswered` under fairness | 1 device; 2 writes, 1 write with a value too many, 1 read, 1 status, 1 loss |
| `wiresink_service` | `AckTrueWhenSent`; `RequestsGetThrough`, `UplinkGoesOn`, `SessionsEnd`, `TimeoutsGetThrough` under fairness | 1 sensor, 2 sessions with their callbacks, 1 write, 2 publications of each sender, 1 loss |
| `tables_removed` | `RemovedHasNoValues`: **violated** | 1 listed device, 1 callback |
| `downlink_subscribed` | `SubscribedAgain`: **violated** | as `downlink_requests` |
| `reassembly_stale` | `OnlyOwnTimeoutDiscards`: **violated** | 1 sensor, 2 SSEQs, PSEQ 0 and 127, 3 sessions |
| `reassembly_handover` | `CompleteHandedOver`: **violated** | 1 sensor, an SDU of two fragments |
| `readings_state` | `StateJudged`: **violated** | the profile of a sensor, 4 ticks, no callback |

`reassembly_sessions`, `tables` and `downlink_requests` also check the type invariant of
their module. The five violated properties say what a comment or a log line says:

1. `config.go:142`: the frame in hand while its device is removed brings the device
   back (`config.go:194`: all its values are deleted).
2. `mqttclient.go:62`: nobody subscribes again after the automatic reconnection
   that `mqttclient.go:22` announces.
3. `sharding.go:79,101`: a callback that already runs when its session is restarted
   deletes the new session (`sharding.go:28`: what is not complete in time is discarded).
4. `sharding.go:185` tests bit 7 of a number that line 61 has masked to 7 bits: no fragment
   is ever the last one, and a complete SDU is thrown away by its timeout and refused, where
   `sharding.go:36,149` hand it over to `SDUCh`.
5. `status_check.go:34` wants the period as uint32, but a default declared `Uint32` stays text
   (`parseDefaultValue`) and no frame brings another: no device is ever judged, where
   `status_check.go:38,44` and the profiles have its state say whether it is silent.

What the models show without contradicting a text word by word, or contradict
in a way that a run would only repeat:

- `egress.go:15` drops the error of a publication (`PublishDropped`): a request succeeds, and
  logs that the command has been sent (`command.go:48`), although it was thrown away.
  `TriedUpToHere` therefore says *tried*, and would not notice.
- `param_table_parser_response.go:99` reads a two-byte length in the other byte order than
  `topo_data_ctl.go:121` writes down: of an array of 512 bytes two are stored, and its next
  bytes are read as a parameter. `AnswersRead`, checked and proved, is what holds all the
  same: nothing before the first array of an answer is read wrongly, however long the
  answer; nor anything behind it in one of up to 256 bytes, where a length is below 256
  and, read the other way round, is still 0 or ends the loop.
- `sharding.go:113`: a first fragment overtaken by the second is acknowledged as a
  repetition and lost (the exception in `AckedDataHeld`).
- `parser.go:110`: after `ProcessFrame` a fragment falls through to the parameter loop
  and is reported as if it were whole (`m.kind` in `OnlySoundFramesReported`).
- `tool.go:73`: calibration commands go to `WriteChan`, which nothing reads; the 101st
  blocks the parser for good (the exception in `AcceptedIsForwarded`).
- `param_table_parser_response.go:81`: the last parameter of a response is never read (`Due`
  excepts it).
- `param_table_parser_response.go:154`: of the time only the first byte is stored, and an answer cut
  short kills the process (`AcceptOther`, `Panic`).
- `{2,144}` and `{2,207}` are both named nitrogen: two values of one frame overwrite each
  other in the table.
- `mqttclient.go:126` logs that other message types are skipped, and queues them.
- `idToDevice.go:65` looks up "eid" where its comment and four profiles say "EID": those devices
  are never mapped. A removal begun before `Start` has ended may be undone by
  `UpdateSensorMapping` (status `early`).

### Bounds, and why they are enough

- *Reassembly*: sessions of one sensor interact only by succeeding each other and
  with each other's timers; three allow a restart, a stale callback of the first
  and a session that it hits. The merge loop needs a gap and two fragments behind
  it: PSEQ 0-3. PSEQ 127 exercises the largest `expected`, 128. Sensors interact only
  through `cacheMu` and, in the model, the variable `reply`; the runs have one, the
  proofs hold for any number of them. `MaxSessions` bounds the sessions; the proofs hold for any.
- *Uplink*: three messages fill a channel of two and drop the third, or leave the
  values of a first and a second in `Resources1` when the third comes; with
  capacities 1 every blocking point blocks. In the code they are 128, 16 and 100;
  the proofs hold for any. Any publication may be the one that never returns.
- *Frames*: an iteration of a parameter loop depends on the entry at hand and on what is
  left; lists of one, two and three entries put every kind before, between and after others,
  and cuts of up to five bytes fall into data, length and header. A damage adds 1 or 128 to a byte (a
  carry through the low bits, and the top bit), at every place. The ids differ by one
  bit, so that a damaged one may be another's. One list has an array of 512 bytes, whose
  length needs its second byte, behind a value that must survive it.
- *Tables*: three callbacks are remove, add, remove, or a removal of each device.
- *Values*: widths 3, 4, 5 and 7 stand for 8, 16, 32 and 64 bits, 5 and 6 digits for the
  two floats, in the order the real ones have: an uint16 fits into a float32, an
  uint32 does not, nor an int64 into a float64. Each declared type has a default at its
  limit, one beyond it and one of another form, and frames bring values on both
  sides of each limit of the narrow types. Two ticks of the clock are two frames, or a frame and a health
  check, which is what an answer could mix.
- *Downlink*: three writers and a reader contend for the lock; one loss puts the
  client through all its states; requests of two commands can be cut in half. Devices
  interact through nothing but the lock and the link, which the requests share: one is enough.
- *WireSink*: one publication of each kind can be stuck (the one loss), and each
  sender has one more after it, so that the parser restarts a session and a callback refuses
  the first while something is stuck.

`CHECK_DEADLOCK FALSE` is in every cfg: the bounds end the behaviours, the process
may have panicked, a frame is read to its end, and requests are finitely many.

### Fairness, and why the code justifies it

- `Reassembly` has none: its steps are taken under `cacheMu`, and `sendAck` waits in
  `token.Wait` with that lock held and without a timeout (`sharding.go:86,115`,
  `mqttclient.go:205`). That sessions end is asked of `WireSink`, where this wait is modelled.
- `Uplink`: `WF(Parser)` (a runnable goroutine runs) and `WF(Consume)` (the SDK's
  loop reads `asyncCh` for ever). A step that publishes has two outcomes, it returns or the
  parser is stuck, so fairness of the step does not say that it returns. No fairness for
  arrivals, removals or `Stop`. `AcceptedIsForwarded` excepts what may keep a frame back (`Lost`): the
  parser stuck in a publication or in a calibration request, a dead process, the device gone
  while a control frame of it is in hand.
- `Downlink`: WF of each request's steps (a `sync.Mutex` does not starve; requests
  are finite here, so it becomes free for good), of each publication, and of
  `Reconnect` (the paho client retries for ever). `RequestAnswered` excepts
  requests behind a publication that gets stuck: `token.Wait` has no timeout.
- `WireSink`: the same, and SF of each callback's `Discard`: `cacheMu` may be taken and given
  back by the parser without end, and a `sync.Mutex` hands over to a waiter that has been
  overtaken for a millisecond. The exceptions name the publication that hangs: a
  request is held up by requests only, the parser by its own publication only, a
  callback by its own and by the parser's under `cacheMu`. So `SessionsEnd` is: a session of an armed
  timer ends, unless its callback or the parser with `cacheMu` is stuck; and `TimeoutsGetThrough`: a
  timeout that has fired gets to publish the refusal of the fragment that began its session.
- `DeviceTables`, `Frames`, `Readings`: no liveness is claimed, so no fairness.

## 4. Proofs

`tlapm` proves everything in `ReassemblyProofs`, `UplinkProofs`, `CodecProofs`, `FramesProofs`,
`DeviceTablesProofs`, `ReadingsProofs`, `DownlinkProofs` and `WireSinkProofs`. TLC checked each fact on the instances first.
Assumptions are the named ASSUMEs of the modules, which TLC evaluates in every run:
what a word, a message, a profile, a request is, that bounds and capacities are
numbers, and that `None` is none of the values it stands beside.

**Reassembly**, for any sensors, any 16-bit header words, any `MaxSessions`: `TypeCorrect`,
`BufferAlwaysContiguous`, `MergeAlwaysComplete`, `SessionsAlwaysTimed`,
`AckedAlwaysHeld`, `ImplementsOrderedReceiver`. The inductive invariant is
`IInv`: types, every live session *good* (`finalPSEQ = 0`, contiguous, merged), every
live session timed, nothing handed over (`NotFinalized`: what the code does, see finding 4, and
the other parts need it). They hold only together: that the merge
loop keeps the buffer contiguous needs that the map holds one fragment per PSEQ,
all of this SSEQ and beyond `expected`; that `finalize` never runs needs
`HeaderFields` (a 7-bit PSEQ has no bit 7) and that no session has a `finalPSEQ`.
`MergeStops` shows that the loop stops at a number in range: PSEQ 128 does not
exist, so the set of missing numbers is not empty and has a least element.
`AheadGood`, `InOrderGood` and `NewSessionGood` treat the three ways a session
changes, `SetTimerState`, `StopTimer`, `ReplaceSession` and `ForgetSession` the ways
timers and table change. The last two theorems need what a session *holds*: by
`HeldShape` it is the run up to `expected` and the keys of the map; `NewSessionHeld`,
`AheadHeld` and `InOrderHeld` say that each way of handling a fragment adds exactly its
number, so an acknowledged fragment is there (`AckStep`), and each step is a step of
`OrderedReceiver` or changes nothing it sees (`PromiseStep`).

**Uplink**, for any messages and capacities: `TypeCorrect`, `OfOneFrame`,
`OnlySound`, `StatusesCorrect`, `ImplementsRelay`. `IInv` adds to the types `Waiting` (the numbers
in `rawCh` increase and are beyond the frame in hand), `InHand` (what the checks have
shown of the frame in hand, by `pc`; the values in hand are its own), `Replies`
(statuses are true and of frames up to the one in hand), `Ordered` (reports are of frames
before what is still to be reported), `AllReported` (each report has what the
properties ask of it), `TakenSoFar` (the frame in hand is the newest one taken) and `AllAnswered`
(the frames with a status are those to be answered, `ToAnswer`). `StepToAnswer` is the heart of the last
one: of all steps only `SendDataStatus` changes that set, by the frame in hand. That stale values of `Resources1` are never reported needs that its
flag is set only between the handler that has just replaced them and the report.

**The codec** (`CodecProofs`). What the loops of the code compute is defined by recursive functions
here, so every fact about it is an induction over data, and there is no scheme to apply that the provers can
instantiate. The module makes do with sets: `LeastElement` (the library's) gives
`Induction`, a set of numbers that has 0 and the successor of each member has all. A recursive
definition is the run of a list of functions: `Runs` says so, `RunExists` that there is
one, `RunIs` that it is the function the recursion defines; `Chain` is the same for byte strings
put together (with `ChainGrows`, `ChainsAgree`), `Descent` for a scan that goes forward to
its end. All later modules' recursions, `CRC16`, `List`, `Values`, `TopologyBytes`, `parseTopo`, are brought into one
of these forms once (`CrcOfRun`, `ListOfRun`, ...) and then treated as what they are.
On the CRC itself there are two results, for byte lists of every length. `OneByteSpoils`: no
frame with one byte changed passes, since each step of the loop is injective in the register
and in the byte (`StepInjective`: the low table has no value twice), so registers once
apart stay apart (`CrcStaysApart`). `SameCrc`: the loop over the tables computes the polynomial.
Xor is followed down to the bits of half bytes and up again (`NibbleAlgebra`, `ByteAlgebra`,
`WordAlgebra`), a shift is linear (`ShiftLinear`), the tables hold what eight shifts make of a byte
(`TablesAreShifts`: of a single bit by computation, of the rest because tables and
shifts are linear), and so a step by the tables is eight shifts (`StepIsShift`).

**Frames**, for any ids, time stamp, damages and reports (`IdsAreIds`, `TimeIsFourBytes`,
`DamageChanges`, `ReportsAreReports`): `SentSound`, `DamageNeverPasses`, `TablesAreThePolynomial`, `AnswersFindTheirHandler`,
`ReportsAreRead`, `TopologiesAreWhole`, `AnswersAreRead`. The reports may have any number of entries of any types and
lengths, cut anywhere, with any count: what is written is read again, whatever stands between. There are
two invariants. `Inv` is about the frame: what is under way passes the checks
as long as it is not damaged and never after, a request has a form (`IsRequest`) that leads its
answer to its own handler, a status has the count of its frame. `ReadInv` is about the loop: what has
arrived carries the body that was meant (`Carried`), and the loop stands before the entry after
those it has read, with exactly their values found (`BeforeEntry`), or behind the cut, with at
most one value more (`BehindCut`), or it may have been misled, in a long answer
(`Misleading`); when it ends, `Done` is what the properties ask of reports, of topologies and of answers of up to 256 bytes. `ArrayInv` is about answers of any
length: until the loop comes to an entry with a two-byte length it stands before the next one, and what
it then makes of the rest only adds to what it has found. `ReadInv` is inductive only with
`Inv`, which says that only what was sent gets as far as the loop. One iteration is `EntryRead` or `CutRead`:
the entry ahead lies in the body (`EntryInBody`), its header tells type, flag and length (`HeaderIs`, `LengthIs`),
and the reader for its type gives back the value: `PlainIsRead` for numbers, `TopologyRead` for the nodes
of a topology, whose `$` the code looks for at a fixed place behind a node (`NodeRead`), also when the end of
the last one is missing (`TailIs`).

**DeviceTables**, for any devices, profiles, preset mapping and number of callbacks:
`TypeCorrect`, `EveryDeviceMapped`, `NothingButLeftovers`, `KilledOnly`, `Quiet`,
`NamelessOnly`. `IInv`: `Callbacks` (what a callback has done by its step), `Removed` (a cleanly removed device
has no mapping entry, and a value only of the frame in hand), `Filled` (what `InitDeviceResources`
stored is there until a callback), `Mapped` (how far `UpdateSensorMapping` is with the
entries it owes). `NamelessOnly` has a hypothesis that the program text satisfies,
`PresetListed`: the preset mapping leads to listed devices under their own EIDs;
`Grounded` says that then the EID of a frame in hand always leads somewhere, or will when
the mapping is done, unless a device of it was removed since the frame was taken
(`RemovedMeanwhile`).

**Readings**, for any devices, profiles, updates, frames, requests and number of callbacks:
`NothingIsLost`, `AnswersAreOfOneMoment`, `ReadingsAreFaithful`,
`RequestsFailForAReason`. `ProfileAssumption` and `ReportAssumption` come from the shipped
profiles and from `paramMap`: a resource `state` is Uint8 with default 0, defaults are texts, no parameter type has
the name of a state, a period or a time stamp, and a frame brings only what the eight readers return.
The first invariant, `Kept`, says that a
name of a profile has a value or is among those the callback has yet to store
(`NoneLost`), that the table holds no state but the default and no period of type uint32 (`Silent`),
and the same of the period that the health check has read (`InHand`). The second, `Timed`, is about
the history `written`: in `Moments` no value of a device is later than its time stamp, nor later
than what its report brings before it; `Storing` keeps this true in the middle of a frame: what has
been stored of it has the frame's time, or 0 where a callback has put a default since, or is gone;
`OfOneCopy` is the same of a request's copy. `HeldAfter` says what one `Store` changes, and all the
steps that store anything go back to it.

The last two theorems hold for all widths, precisions and limits that `WidthAssumption`,
`FloatAssumption` and `UlpAssumption` admit: each width is at least the one before and the 64-bit one twice the
32-bit one, steps of floats are powers of 2, a float32 is no more precise than a
float64 and all integers are below its limit; the clock fits an int64 (`TimeAssumption`).
`Ulp` chooses: `UlpExists` and `UlpIs` show that there is such a step for every finite number,
by the least element of those that are large enough. Then rounding is off by half a step
(`NearestIs`, `RoundedNear`), keeps exact numbers, and what goes to a float32 by way of a float64, as in
`toFloat32`, is rounded twice but still off by no more than one step of a float32 (`RoundedTwice`).
For integers, what int64 cannot hold becomes a number beyond every narrower type,
so the checks of `coerceTo` refuse it there (`SignedSaid`, `UnsignedSaid`); at 64 bits nothing
refuses it, and `SaysTheNumber` says exactly what comes out of which value. `Coerced` puts the types together,
`NotRefused` is its converse: what can be said has an answer. Two more invariants carry this to the
requests: `Typed` (the table and a request's copy hold nothing but values of the kinds of Go that
`parseDefaultValue` and the readers return, and each answer is what `coerceTo` makes of its value) and
`Served` (until a first callback begins, every device is there with its whole profile, in the table and in
each copy, so a request cannot miss anything).

**Downlink**, for any requests, lists of resources, devices, senders and bounds: `TypeCorrect`
(with the lock: exactly the working request holds it), `NoMixing`, `TriedExactly`,
`NoRepetition`. `IInv` adds `Places` (how far a request is, by what it does), `Numbered` (a caller's
number is beyond those of its publications: so a new one is neither sent nor
dropped yet and comes after its predecessors) and `Left` (a request after which
another one has published is done: so it cannot publish again, which is what
keeps requests from mixing). `Left` follows from the lock: the publisher holds it,
the other request has a number above 1, so it has begun, and as it does not hold
the lock it has ended.

**WireSink**, for any instances of its components: `ServiceReassembles` and `ServiceCommands`, the service implements
`Reassembly` and `Downlink` (each step is a step of the one, of the other, of both, or
of neither; that a callback is one of the senders needs `Bounded`, proved with
`Reassembly`); so, by `ServiceKeepsPromises`, what is proved of them holds of it; and
`AckStaysTrue`, the invariant `AckTrueWhenSent`. Its inductive form `AckInv` adds that
whoever claims to hold a fragment holds `cacheMu`: then no step changes a session
(`NothingClaimed`) between the decision, which `AckedAlwaysHeld` says is right, and the end
of the publication. The theorems of the components come in through instances of their proof modules, `RT`
and `DT`; `SameReassembly` and `SameDownlink` say that these are the specifications that
`WireSink` composes.

**Only model-checked.** Everything under fairness (`SessionsEnd`,
`AcceptedIsForwarded`, `RequestAnswered`, `RequestsGetThrough`, `UplinkGoesOn`, `TimeoutsGetThrough`): liveness and
ENABLED are out of the prover's reach. No module uses RECURSIVE operators. `NoRepetition` and the
`TypeCorrect` of `Uplink` are proved without a run that asks for the property.

## 5. What is not modelled

- Logging, JSON, hex, names of resources beyond what `Codec` needs, the wording of values.
- `cmd/main.go` (two lines), the SDK and the paho client beyond what the driver sees of
  them: `Call`, `Consume`, `Begin`, `ConnectionLost`, `Reconnect`, `DeviceChanged` are their external actions.
- `ShardingParser` reads `SDUCh`, where nothing ever arrives (finding 4).
- Code without a caller: `Close`, `AddMapping`, `DeleteMapping`, `UpdateMapping`,
  `BuildMonitoringDataQueryFrame1`, `BuildGeneralParamFrame` with the table of `param_table.go` that only
  it reads, `routing_information.go`, and the control listener, which nothing starts.
- A `Start` or `Initialize` that fails half way: the process ends.
- Which device a frame's values belong to is in `DeviceTables`, their bytes in `Frames`, their use in
  `Readings`, their report in `Uplink`; these are not composed. They meet in one goroutine,
  and the tables' steps are the same accesses under `Mu` in each, so a composition would add
  states and no interleaving that the parts leave out.

What could come next: `Uplink` and `Reassembly` under one parser, so that the reports of a
fragment and its acknowledgement are steps of the same frame.
