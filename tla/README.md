# TLA+ specifications of the NMEA 0183 → DDS gateway

The gateway reads NMEA 0183 sentences from serial, TCP and UDP sources, parses them, maps
them to typed samples and publishes those on Fast DDS (and optionally ROS 2). A Qt console
connects sources, offers the flows it sees for conversion and edits what is published while
the workers run. These specifications model its concurrent and stateful parts; TLC checks
them on small instances and TLAPS proves the central results for all parameters.

Paths below are relative to the repository (`src/pipeline/…` is the repository's `src/`).

## 1. Inventory of the system

| Component | State it keeps | Operations | Interacts through |
|---|---|---|---|
| **Pipeline** `src/pipeline/Pipeline.*` | owner: `thread_`; shared: `stop_`, `state_`, effective values; worker: `DdsCtx` (participant, publisher, table of writers), `last_active` | `start`, `stop`, `worker_loop`; `get_or_create`, `reconcile`, `cleanup` | thread; atomics; reads `PublishPlan`; calls source, parser, mapper, backend, `on_sentence` |
| **PublishPlan** `src/pipeline/PublishPlan.*` | `(talker, formatter)` → `device_id`, QoS, under a mutex | `add`, `remove`, `resolve`, `contains`, `active_formatters` | written by the UI thread, read by every worker |
| **Parser** `src/parser/*` | state, fixed buffers, tokens, checksum | `consume`, `reset`, `sentence` | called by the worker byte by byte, and by BaudDetector |
| **Registry** `src/registry/*` | table formatter → category and fields | `builtin`, `lookup`, `add` | read-only after start-up; read by mapper, generator and panels |
| **Mapper**, **FieldParse** `src/mapper/*` | cache of dynamic types | `resolve`, `type_for`, `populate`, `map` | called by the worker and the console |
| **Publication arms** `src/publish/*`, `idl/*` | last type support / generated types | `prepare`, `write` | behind `ITypeBackend`, one of two in a pipeline |
| **Generator** `tools/idl_from_registry.cpp` | the files under `idl/` | `emit`, `--check` | run by a developer and, as `check_idl`, by every build of the static arm |
| **Sources** `src/capture/*Source.*` | a descriptor | `open`/`connect`, `read`, `close` | `ISource::read`: data, 0 on time-out, −1 on error |
| **BaudDetector** `src/capture/BaudDetector.*` | none | `detect` | detached thread of the interfaces panel; opens the same port a source may have |
| **GatewayController** `src/ui/GatewayController.*` | pipelines by source, allowlist, rate trackers, monitor participant, sample stream | connect/disconnect, conversions, `pollPipelines`, scan, sample stream | UI thread; workers and DDS listeners post queued events |
| **Panels and models** `src/ui/panels`, `src/ui/models` | tree of talkers and sentences, conversions table, topic table, selection | signal handlers and buttons | Qt signals, UI thread |
| **RosPublisher** `src/ros/*` | targets and publishers under a mutex | `enable`, `disable`, `onSentence` | UI thread and workers |
| **QoSRecommender**, **QoSPanel** `src/ui/QoSRecommender.*`, `src/ui/panels/QoSPanel.*` | library of profiles, values shown | `recommend`; pick, edit, new, save | called on selection; read by "Convertir" |
| **IdlPreviewPanel** `src/ui/panels/IdlPreviewPanel.*` | ROS tick and topic, IDL text | `configureRos`, tick, topic, save | set up on selection; read by "Convertir" |
| **PublishProbe**, **measurement_run** `src/instrument`, `tools/` | sample buffer, counters, window | `record`, `clear`, `dump_csv`; driver main | generator thread, worker, main thread |

What is hard here, and hard to test:

* The **allowlist is edited while workers publish**. A worker resolves a target, then
  looks for a writer, then writes; an edit can fall between any two. Writers are kept by
  formatter, the allowlist by talker and formatter, and the worker deletes the writers of
  removed formatters only when two looks at the allowlist differ.
* **DDS calls fail** half-way through a set-up or a replacement of a writer, and each
  early return must delete exactly what exists.
* **Life cycle across threads**: the state is published by the worker, the flag by the
  owner, the join blocks the UI thread, and a worker may end by itself.
* **Noise on the line**: the parser starts in mid-sentence and lives with fixed buffers.
* **Queued events** outlive the thing they are about (a disconnected source, a scanned
  domain), and the panels repeat state the controller also keeps.
* **Measurement**: counters and probe are read one after the other while generator and
  worker run.
* **A terminal is shared**: a read is a `select()` with a time-out followed by a read that
  blocks, and the automatic detection opens, from a detached thread, a port a pipeline may
  be reading. Speed and input belong to the terminal, not to the descriptor.
* **Two arms, one registry**: the static arm is compiled from files generated earlier. The
  registry is edited, a generation stops half-way, a write is cut without an error being
  seen, and the arms must still make the same sample of a sentence.
* **Panels keep what was proposed for the previous flow**: device id, profile, ROS tick and
  topic each live in a panel of their own, and a click takes all of them together.

What makes each component correct: for the pipeline, that samples carry exactly a target
the operator allowed, that its entity table and DDS agree, and that `stop()` returns and
leaves nothing; for the parser, that it recognises exactly the well-formed sentences since
the last delimiter and never leaves its buffers; for the console, that what it shows and
refuses agrees with what is connected and converted; for the arms, that both publish the
same values for a sentence and that a mask bit tells a value from an absence; for the
generator, that its check accepts current files only; for the sources, that no descriptor
is lost and no live source given up; for the detection, that it names the device's speed
and always gives its button back; for the panels, that a conversion carries what was
proposed for its own flow; for the monitor, that counts belong to the domain shown; for the
measurement, that nothing published in a window was not offered in it.

`PROJECT.json` lists every component with its status and every hazard with its line.

## 2. Modules

| Module | Models |
|---|---|
| `PublishPlan` | the allowlist: a function from flows to targets and its five operations |
| `WriterQos` | `build_writer_qos`, and when `get_or_create` takes two profiles for the same |
| `SelectivePublication` | the abstract promise: a sample carries one target its flow had when it was taken; one sample in flight |
| `Pipeline` | the owner and the worker of one pipeline, with the allowlist between them |
| `MCPipeline` | its instances for TLC |
| `PipelineProofs` | theorems about `Pipeline` |
| `SentenceGrammar` | what a sentence is, without a state machine; checksum and fields by definition |
| `Parser` | `Parser::consume`, one action per case |
| `MCParser` | its instance for TLC |
| `ParserProofs` | theorems about `Parser` |
| `Console` | `GatewayController` with the interfaces, devices and conversions panels: connections, queued sentence events, conversions, ROS targets |
| `MCConsole` | its instance for TLC |
| `ConsoleProofs` | theorems about `Console` |
| `DdsMonitor` | the scan of a domain, reports from DDS threads, the aggregated table, the sample stream |
| `MCDdsMonitor` | its instance for TLC |
| `DdsMonitorProofs` | theorems about `DdsMonitor` |
| `MeasurementRun` | generator, worker and main thread of `tools/measurement_run.cpp`, with the probe between them |
| `MeasurementProofs` | theorems about `MeasurementRun` |
| `SentenceRegistry` | the 40 built-in definitions as sequences of field types; `lookup`, `add` |
| `TypeArms` | a source tree with its registry and generated files, generator, check and build; the samples of both arms |
| `MCTypeArms` | its instance for TLC |
| `TypeArmsProofs` | theorems about `TypeArms` and the registry |
| `Capture` | a serial, TCP or UDP source with its worker and the console, and the detection of the speed of a port |
| `MCCapture` | its instance for TLC |
| `SpeedDetection` | the abstract promise of the detection: one press of the button, one answer, and the button again |
| `CaptureProofs` | theorems about `Capture` |
| `ConvertDesk` | what "Convertir" takes from the panels: proposals, profile library, ROS options |
| `MCConvertDesk` | its instance for TLC |
| `ConvertDeskProofs` | theorems about `ConvertDesk` |

### How `Pipeline` corresponds to the code

The owner is whoever calls `start`, `stop` and edits the allowlist (the UI thread). Each
of its calls is an action; `stop` is two, because it blocks: `Stop` raises the flag, `Join`
is the return of `thread_.join()`. `StartTerminates` is the assignment to a joinable
`std::thread`.

The worker is a program counter `wpc` over `worker_loop`. One action runs from one access
to shared state (or one call that can fail) to the next: `CreateParticipant`,
`ParticipantFails`, `CreatePublisher`, `PublisherFails`, `StaticArmMissing`, `Ready`;
`CheckStop`; `Read`, `SourceFails`; `BadChecksum`, `Complete` (with `plan->resolve`);
`ReuseWriter`, `CreateWriter`, `WriterFails` (the three outcomes of `get_or_create`);
`Write`, `WriteFails`; `Reconcile`, `SkipReconcile`; `Cleanup`.

Abstractions: bytes and parser are "this chunk completes `left` more sentences"; a sentence
is its flow; the order of the vector `active_formatters` returns is open, so two looks with
equal sets may compare different after the table was restructured. `topics` and
`datawriters` are what is alive in DDS, `writers` what `DdsCtx` remembers: the
invariants relate the two. When `worker_loop` returns, `LeaveScope` ends the variables of
`DdsCtx`, which has no destructor; the kinds of entity nothing deleted go to `leaked`, the
entities alive in the process that nothing points to any more. On the return without the
generated arm these are all there are (`Held`); after `ctx.cleanup()` they are what it cannot
reach (`Undeleted`: what no entry of the table remembers, and its parents). `NoEntities` asks
for both: nothing held and nothing leaked.
`stale` and `wire` are history: outdated samples of a flow since its last edit, and the last
sample DDS accepted. Not modelled: `sentences_ok/err`, the probe, the text of
`error_message()`.

### How `Parser` corresponds to the code

`buf` and `tokens` are the filled parts of `buf_` and `tokens_`. Each branch of `consume`
is an action; `Delimiter` includes `reset()`. Bytes are classed as delimiters, line
ends, `*`, `,` and payload, with hexadecimal digits among the payload. `stream` is history:
the bytes since the last delimiter, which is all a verdict may depend on.

### How `Console` corresponds to the code

Everything but the workers runs in the UI thread, one event at a time, so an action is a
whole handler with the slots its signals call: `Convert` is `addConversion`,
`markConverted`, `onConversionAdded` and, with the ROS box checked, `enableRos` and
`markRos`; `Delete` is `removeConversion` with what it emits; `DisconnectInterface` joins
the worker, erases pipeline and rate, and removes the nodes of the source from the tree.
Between two handlers comes `Deliver`, the head of the event queue. A worker is three states
and posts `Sentence` events while it runs.

`twice` is history: the flows that were converted while they had a row, until their last row
goes. `rows` is the table in its order, because the panels act on the *first* row of a flow;
`nodes` is the tree, by source and flow; `selected` is `sel_talker_` and `sel_formatter_`.
Where Qt may select another item after the current one is deleted, `RemoveInterface` leaves
it open. Not modelled: displayed values, the "sin datos" marks, measured rates, and raw
sentences (no panel keeps them). What the panels propose for a selection is `ConvertDesk`.

### How `DdsMonitor` corresponds to the code

`Discovered` and `Removed` are the callbacks of `MonitorListener`, in threads of Fast DDS:
they queue a report. `Deliver` is the queued event; `Scan` is `onScanClicked` with
`stopScan` and `scanDomain`; `StartSampleStream` chooses how far the creation of the reader
comes and what the error path takes back. The dialog of the stream is modal: with it open
only events and its own button are served. `ghosts` counts the reports in the queue that an
earlier scan posted (they are at its front), `misplaced` those delivered since this one
began; both are history and no action reads them for anything else.

### How `MeasurementRun` corresponds to the code

The main thread is a program counter over `main()`, from `pipe.start()` to its return codes.
The generator sends, *then* counts; the worker publishes, *then* records. The probe is an
unprotected vector, so `record` is two actions, and an append that `clear()` fell into may
start from the cleared vector or from the old end. The socket holds a few datagrams and
loses the rest, and may fail, which the driver does not notice.

### How `SentenceRegistry` and `TypeArms` correspond to the code

A definition is the sequence of the types of its fields: `Builtin` is `Registry::builtin()`
formatter by formatter, and a position stands for a name. A tree has a registry and three
kinds of generated file: `idl` (one per formatter of the campaign), `populate` and
`dispatch`. Each is modelled by what it *declares*, a sequence of types or of conversion
calls, so that the three translations of a field type (`ToKind` of the mapper, `IdlType`
and `ParseCall` of the generator) are separate definitions that must agree. Initially the
tree is the repository: `CommittedIdl`, `CommittedPopulate` and `CommittedDispatch` are
transcribed from `idl/`, not generated.

`EditRegistry` and `EditByHand` are a developer; `Start`, `EmitIdl`, `EmitPopulate`,
`EmitDispatch`, `Refuse`, `CannotOpen`, `CutFile` and `Finish` are `main()` of the generator
in its order of files, with its early returns and with the writes whose result it does not
see; `CheckIdl`, `CheckPopulate`, `CheckDispatch` are `--check`; `Build` follows the
dependency of the static target on `check_idl`, and refuses what does not compile.
`Publish` gives one sentence to both arms: `DynamicSample` is `Mapper::resolve`, the type
and `populate`; `StaticSample` dispatches on the formatter and runs the compiled files. A
value is a token with the conversion it went through, and what does not parse is the
default. Names of members, header comments and `device_id` are left out; so is the type
cache, since nothing edits the registry of a running gateway.

### How `Capture` corresponds to the code

The kernel is modelled as the code meets it: one speed and one queue of input per terminal,
dropped with the last descriptor; a stream or datagrams for a socket. An item of the queue
counts the sentences it completes; what arrives at a wrong speed is worth none.
`ConnectSerial`, `ConnectUdp`, `ConnectFails`/`Undo` and the loop over addresses of
`TcpSource::connect` (`ConnectTcp`, `NoSocket`, `Socket`, `Refused`, `Accepted`,
`NoAddressLeft`) are the ways in, `Disconnect`/`Join` the way out. The worker is the loop
flag – `select()` – `read()`: between the last two is where another thread may take the
bytes. `AutoDetect`, `OpenCandidate` … `PostResult` are the detached thread of the
interfaces panel, `Deliver` its queued result. `counts` and `disturbed` are history: the
sentences of each candidate, and who shared the terminal. What the pipeline does with the
bytes is `Pipeline`'s. For `SpeedDetection` the answer is the queued result, and `shared` says
that the detector is among the `disturbed`.

### How `ConvertDesk` corresponds to the code

`Select` is the slot of the tree with the connections of `MainWindow.cpp`: it proposes the
device id (kept only if the text is neither empty nor marked "auto"), a profile with its
values (added to the library only if the name is new) and the ROS topic and tick. `Deselect`
leaves the other panels as they are. The operator types, edits, picks, saves and creates
profiles, ticks; `Convert` takes what the panels show, except that the ROS message comes
from the static `last_category`, which is `shown`. `touched` is history: what was changed
since the selection. The recommender is translated with its rounding, though the rate it
gets from a selection is always 0.

## 3. What is checked

Each run of `PROJECT.json`, with its bounds.

| Run | Shows | Bounds |
|---|---|---|
| `pipeline_safety` | type invariant; `TableMatchesDds`; `LeaksOnlyWithoutStaticArm`; `RunningImpliesReady`; `StoppedIsQuiescent`; `AtMostOneStaleSample`; `Pipeline` implements `SelectivePublication` | 4 flows: two talkers of one formatter, a second formatter, an unknown address; 2 targets that differ in device and in one QoS field; 5 configurations; `MaxChunk` = 2 |
| `pipeline_liveness` | `StopReturns`, `EndReleasesEntities`, `DelistedWriterGoes` under `FairSpec` | 2 flows of different formatters, 1 target |
| `pipeline_orphan_writer` | *violated*: `WritersWithinAllowlist` | as `pipeline_safety`, selective configuration |
| `parser_frames` | type invariant; `TokensTileTheBuffer`; `ResultMatchesGrammar`; `FieldsAreTheSplit` | 3 stored bytes, 1 field, 7 bytes after a delimiter |
| `console` | `OneRowUnlessTwice`; `RowsShowTarget`; `RosAsShown`; `MarkedAreConverted`; `SelectionIsInTree`; `StoppedSourceIsSilent` | 2 sources that both bring one flow, one of them a second flow; 2 devices, 2 profiles; `MaxQueue` = 2, `MaxRows` = 2 |
| `console_ghost` | *violated*: `DisconnectedLeaveTheTree` | the same |
| `convert_desk` | `ConvertedWithOwnProfile`; `DeviceIsOfSelection`; `RosMessageFits` | 3 flows: one for each ROS message, one without a talker, one category without a message; 1 edited QoS, 1 typed id and a cleared edit, 1 name and 1 topic of the operator's own |
| `type_arms` | `PresenceIsContent`; `ArmsAgree`; `AcceptedTreeIsCurrent` | the real registry and the 5 formatters of the campaign; 7 edits, 7 addresses, field lists of 0–3, 5, 14 and 16 fields; `MaskBits` = 14, `MaxFaults` = 2 |
| `capture` | `DescriptorsAreHeld`; `FailedOnlyWhenGone`; `ResultIsFirstBest`; `DetectedIsDeviceSpeed`; `ReadsFindInput`; `Capture` implements `SpeedDetection`; `ButtonComesBack` and `DisconnectReturns` under `FairSpec` | 3 candidate speeds, a device with the middle one or another; `MinValid` = 1, `MaxRoom` = 2, `MaxRx` = 2, `MaxValid` = 2, `MaxAddresses` = 2 |
| `capture_join` | *violated*: `DisconnectAlwaysReturns` | the same |
| `measurement` | `ExcessIsInFlight`; `ReturnsJoined`; `RunEnds` under `FairSpec` | `SocketRoom` = 2, `Capacity` = 3, `MaxSent` = 5 |
| `dds_monitor` | `ErrorWithinMisplaced`; `RowsAreAggregates`; `OnlyTheStreamLives` | 2 domains, 4 endpoints, 2 topics, `MaxEvents` = 3 |

Why the bounds are enough. The pipeline keeps no counter: two talkers of one formatter are
what makes writers collide, a second formatter is what makes `reconcile` and the order of
the vector matter, two targets are what makes a profile change, and two sentences in a
chunk let a formatter be published and removed inside one. Profiles that differ in the
*last* compared field exercise the whole comparison. Without entities the worker starts
over, so longer runs repeat states. The parser's limits are small so that both are passed:
seven bytes hold a full body with its comma, `*` and two digits; the three payload bytes
are chosen so that right checksums exist with and without a comma (`0*30`, `/,*03`).
Symmetry: the two talkers of the shared formatter are interchangeable and no property
names them; the liveness run of the pipeline uses no symmetry.

The console's questions are about one flow in two places: two sources with a flow in
common make a node appear and disappear independently, two rows are what makes "the first
row" and "the row" differ, and a queue of two lets an event of each source cross a
disconnection. Devices and profiles are interchangeable there (and only in safety
properties); sources and flows are not. In the monitor one topic lives in both domains, so
that a late report of one is counted for the other; three waiting reports let an addition
and its removal straddle a scan. The measurement run's probe can be full (three samples),
the socket can overflow, and five sentences are enough to have some before, inside and
after the window at the same time.

The arms are checked with the real definitions, none shortened; only the mask is narrower
than the code's 32 bits, just wide enough for the largest formatter, so that one edit passes
it. The seven edits add a field, change a type, swap two, pass the mask, restore, and add a
formatter outside the campaign. Addresses include one that is a formatter as it stands, one
whose rest is unknown, and one resolved only whole. Two faults let a cut file meet a second
cut or an edit by hand. The files are compared one by one, so more campaign formatters would
repeat the same step. In `capture` three candidates make a tie between two that are not
adjacent possible, and two waiting items let a read take more than one. How much arrives is
not bounded, in a sampling window as little as outside: `valid` stops counting at `MaxValid`
instead, so that a line that never pauses has infinite behaviours over finitely many states.
Two is one more than the minimum, so that none, enough and better are distinct, and what is
counted beyond it decides no comparison that smaller counts do not. Last, two addresses let a connection fail and then succeed. In
`convert_desk` nothing counts, so the set of flows is what matters: each of the ways a
category is treated.

Fairness. `FairSpec` asks weak fairness of the worker (its thread is scheduled, `read()`
has a time-out of 100 ms at Pipeline.cpp:304, DDS calls return) and of `Join`. Nothing is
asked of the operator, of the source or of which sentence arrives. A worker whose source
always delivers still returns to the flag after each chunk. `FairSpec` of
`MeasurementRun` asks weak fairness of its three threads: sleeps end, reads time out, and
the generator never blocks. Nothing is asked of the failure of the socket. `FairSpec` of
`Capture` asks weak fairness of the UI thread's own steps, of the worker, of the detector
and of the end of its sampling time, and strong fairness of `Deliver`: a result in the event
queue is served before later clicks, though clicks keep the UI thread busy in between.
Nothing is asked of the operator, the device or the peer: a silent line stays silent and one
that never pauses never does, which only the detector's own look at the clock
(`DetectorCheck`) ends.

The three violated runs are disagreements between a comment or document and the code;
`PROJECT.json` quotes both. A formatter enabled and disabled between two looks at the
allowlist leaves a writer no `reconcile` removes. A sentence event that crosses a
disconnection puts a source that is gone back into the tree. And a detection on the port of
a connected source can take the bytes the worker's `select()` announced, so that its read
has no time-out and the disconnection, which joins the worker in the UI thread, need not
return; `ReadsFindInput` and `DisconnectReturns` in `capture` show that nothing else makes a read
wait or keeps the disconnection from returning.

The other findings are recorded without a run. In the pipeline: two talkers of one formatter
with different QoS delete and recreate the writer at every alternation; `start()` is guarded
by a state the worker publishes late; the return without the generated arm leaks participant
and publisher (the invariant `LeaksOnlyWithoutStaticArm` isolates it); selective mode drops
sentences the documents promise to publish raw. In the console: a flow converted twice keeps
a row after its removal (`OneRowUnlessTwice` says that nothing else leads there, and
`RowsShowTarget` what its rows show until then); `markConverted` does not reach nodes created later; the selection
hands on a rate of 0; the proposed device id comes from the sentence; conversions do not
tell two sources of a flow apart. In the monitor: reports of an earlier scan are counted for
the next domain (`ErrorWithinMisplaced` bounds the error), and the "discovery only"
participant holds a reader while a sample is shown. In the arms: a receive time of 0 becomes
the clock in one arm only (`ArmsAgree` excepts it), the header has a fourth member, and the
generator does not notice a cut header (`AcceptedTreeIsCurrent` shows that the check does).
In the sources: the rest of a long datagram is lost, and a detection changes the speed of a
source in use. In the measurement: a window may count as published what it did not count as
offered (`ExcessIsInFlight` bounds it).

## 4. What is proved

All constants are arbitrary within `PlanAssumption` and `PipelineAssumption`
(`GrammarAssumption` and `XorAssumption` for the parser, `ConsoleAssumption`,
`MonitorAssumption`, `MeasurementAssumption`, `CaptureAssumption`, `DeskAssumption`), which
say only that sets have the types their names suggest and that the markers for "none" are
not values (`StreamAssumption`: the one for "no delimiter yet" is no sequence of bytes).
Every invariant and action property of a passing run is stated by a theorem here, and so are
both refinements. `TypeArmsAssumption` says in addition that no formatter of the campaign is the
empty name or `RawSentence`, the name of the type of raw samples.

`PipelineProofs`:

* `TypeCorrect`, `EntityTable`, `LeakFreedom`, `RunningReady`, `Quiescence`, `StaleBound`:
  the six invariants of `pipeline_safety` hold of `Spec`.
* `Refinement`: `Spec => Abstract!Spec`.

`Quiescence` says that after `stop()` no thread runs and no entity is alive, leaked ones
included. It excepts the configuration whose generated arm is missing, where the code leaves
participant and publisher alive (Pipeline.cpp:283-290) and the sentence is false;
`EndReleasesEntities` excepts it as well, and `LeakFreedom` says that nothing else is leaked,
nor on any other path. `NothingUndeleted` is why: with the table and DDS in agreement,
`cleanup` reaches every entity.

The inductive invariant `IInv` adds to the type invariant four facts the properties do not
mention and rest on: `LifeCycle` (how `opc`, `joinable`, `wpc` and `state` go
together, and at which places of the worker which entities exist: `Released`, `NoWriters`), `InHand` (a sentence in
hand has a flow and a resolved target exactly between `Complete` and `Write`; at `write`
the writer found has the profile of that target), `TableMatchesDds` itself, and
`OneOutdated` (a flow has one outdated sample behind it only if the sample in hand is not
another outdated one of that flow). TLC checked `IInv` before the proof was begun.
`TableMatchesDds` alone is not inductive: `cleanup` and the failure paths keep it only
because entities exist at no other places. The stale bound needs that the worker resolves
again for every sentence: after one outdated write, the next target is taken from the
edited table.

The refinement maps `Enable` and `Disable` to `Edit`, `Complete` of an enabled flow to
`Take`, `Write` to `Emit`, and the failures and the end of the process to `Drop`; set-up,
reading, re-use and creation of writers, reconciliation and cleanup stutter. That the
writer's QoS is the one of the target in hand is `InHand` and `TableMatchesDds`.

`ParserProofs`, for any alphabet, any size of the buffers and any number of bytes:

* `BufferBounds` (the type invariant: no byte sequence takes the parser out of its buffers)
  and `TokensTile`. The strengthening is that at the second digit `expected` is a multiple of
  16 at most 240, so that the byte does not overflow.
* `FramesRecognized`: after each byte the verdict is the one `SentenceGrammar` gives of the
  bytes since the last delimiter. The inductive invariant `FrameInv` ties each state of the
  parser to that history. In `Body` the history is an *open* body: `checksum` is its
  `Checksum`, `buf` has as many bytes as it has of payload, `tokens` as many entries as it has
  commas (`Open`). At the digits it is a *closed* body followed by `*` and then by a digit
  (`AfterStar`, `AfterDigit`). In `WaitStart` it is *spent*: nothing that extends it is a
  frame, because it is one already or contains a line end, a bad digit or more than fits. The
  lemmas `OpenIsNoFrame`, `ClosedIsFrame`, `StarPlace`, `Overfull`, `EolBreaks` and
  `DigitBreaks` say so of sequences alone; then each action has a lemma (`DelimiterHistory`
  … `SecondDigitHistory`) that takes the history from one case to the next.
* `FieldsSplit`: the same invariant says that the tokens, joined by commas, with the field
  still open, are the body so far.

`Checksum`, `Count` and `JoinedByCommas` are recursive functions on sequences. No induction
over sequences can be instantiated by the prover, so their equations (`ChecksumAppend`,
`CountAppend`, `JoinAppend`, …) go another way: `RecursionExists` and `RecursionUnique` prove,
with *sets* of numbers and their least element (`LeastNatural`, `UpTo`), that a function
unrolled along one sequence exists and is the only one.

`ConsoleProofs`: `TypeCorrect`, `OneRow`, `TargetShown`, `RosShown`,
`MarkedConverted`, `SelectionShown`: the types and the invariants of the run `console`, for tables and
queues of any length. The work is in sequences: `RemoveAtElements` says what `RemoveAt`
returns, and `RowsWithElements`, `EditedElements`, `RemovedElements` what each operation does
to the table, with `LeastElement` for the first row of a flow. All but one invariant are
inductive with the type invariant. `OneRow` leaves out the flows of `twice`, and holds of the
others because a flow enters it with its second row and leaves it with its last.
`RosAsShown` is not inductive: from a table whose *second* row of a
flow is marked, `Delete` would remove the first, disable ROS and leave the mark. The
strengthening `RosInv` adds `RosOnFirstRow`: the mark of a flow is on its first row, which
is the one `setRos` writes and `onConversionRemoved` takes. `StoppedIsSilent` is an action
property: it needs `WorkersAreConnected` (whoever may still post belongs to a connected
source, because a disconnection joins first), and `PostedByAnother` and `DeliverTakesOne` for
what one step does to the number of events of a source in the queue.

`DdsMonitorProofs`: `TypeCorrect` (the counters stay natural numbers because of the lower
bound), `RowsAgree` and `StreamLives`. `OnlyTheStreamLives` needs that a scan cannot happen
while a stream is open, which in the code is the modal dialog.

`ErrorBounded` is about numbers of endpoints that no variable holds. The invariant
`Accounted` says that there is a history of sets of endpoints, one for each place of the
queue behind the reports of earlier scans: it ends in what is known now, each waiting report
leads from one set to the next and says something new (`Replay`), and the first set is what
the reports taken so far speak of (`CountsFit`: its cardinalities are `Reported`, and the
counts shown differ from them by at most `misplaced`). That each report is news keeps the
lower bound of the counter from hiding anything: a removal removes an endpoint that
`Reported` counts. `PostedAccounted` appends a set for a discovery or a removal and
`TakenAccounted` drops one for a delivery; a report of an earlier scan moves what is shown by
one, and `misplaced` with it.

`CaptureProofs`, for any candidates, speeds and bounds:

* `DescriptorsHeld`: needs `Roles`, that an attempt to connect and a connected source, and a
  detection and its result, exclude each other, so that the sum counts nobody twice.
* `FailedWhenGone`: nothing revives a source while a worker reads it.
* `FirstBest`: the invariant `Tally` says of the detector that `best` is the *first* of the
  largest counts so far and that candidates to come have none; `Posted` carries it to the
  queued result.
* `DeviceSpeed`: the invariant `Own` says that a detector that shared the terminal with
  nobody finds no sentence in the queue at a wrong speed. It rests on `RxHeld` (a queue that
  is not empty belongs to somebody): the input of a candidate is dropped with its
  descriptor, which is why the next is not credited with it.
* `ReadsFound`: a read after `select()` does not wait. It needs `Marked` (a detector and a
  worker on one terminal are both in `disturbed`), the exclusions of `Roles` and `Own`, and,
  for closing, that an attempt to connect never runs beside a connected source.
* `DetectionRefined`: `Spec => Detection!Spec`. `AutoDetect` maps to `Press`, `PostResult` to
  `Answer` (allowed by `ResultIsFirstBest` and `DetectedIsDeviceSpeed` of the next state),
  `Deliver` to `Show`; connecting, failing to connect or opening a candidate beside another
  map to `Share`; the rest stutters. `Roles` excludes a second press, and a result that
  replaces one not yet shown.

`TypeArmsProofs`, for any registry edits, campaign, sentences and mask:

* `BuiltinTyped`: the built-in definitions are sequences of the five field types.
* `AcceptedCurrent`: `CheckedSoFar` says which files the check has compared, all against one
  registry; `Running` that nothing it may change is taken for checked meanwhile.
* `SameSamples` and `PresenceContent`: `Built` carries the accepted tree into the gateway,
  and the lemma `ArmsMake` shows that with current files both arms make the *same* sample,
  written once as `Expected`. It rests on the agreement of the three tables of conversions
  and on the refusal of formatters the mask is too small for.

`ConvertDeskProofs`: `OwnProfile`, `DeviceOfSelection`, `RosFits`. The last needs `TickFits`:
the tick is on only while the category shown has a message, which a selection keeps by
clearing it and `ToggleRos` by asking.

`MeasurementProofs`: `JoinedAtReturn` (on every exit `main` joined both threads) and
`ExcessBounded`. The latter needs `Conserved`: every sentence is once in the socket, in hand
or in the probe, so what the probe has since the opening is at most what was in flight then
and what was sent since; `Counted` relates what was sent to what was counted.

`TypeCorrect` is proved in every module; outside `Pipeline` and `Parser` the type invariant is
there for the proofs and is no property of a run.

Only model-checked: the liveness properties `StopReturns`, `EndReleasesEntities`,
`DelistedWriterGoes`, `RunEnds`, `ButtonComesBack` and `DisconnectReturns`, since fairness and
`ENABLED` are out of the prover's reach; and the three violations.

## 5. Plan

Built: the pipeline with its allowlist, the parser, the console, the monitor, the
measurement run, the registry with generator and both arms, the sources with the detection,
and the panels behind a conversion. Left, in this order:

1. **Composition**: several pipelines on one allowlist (the stale bound then is one sample per
   flow and source), by instantiating `Pipeline` for each source, with the proof from the
   theorems on one.
2. **The "sin datos" marks** of devices and conversions panels, added to `Console` with a
   clock: what is marked while sentences arrive, and what stays marked.
3. **An abstract console**: the conversions an operator sees as one set, implemented by table,
   tree, ROS targets and allowlist together.

## 6. Not modelled

* The "sin datos" marks and measured rates: they compare wall-clock times and no other state
  depends on them. Network diagnosis and its messages, for the same reason.
* The conversion of fields to ROS messages in `RosPublisher::onSentence`, which is arithmetic
  on values the models keep abstract, under the mutex `enable` and `disable` take.
* The contents of measurement files, latencies and sequence numbers; `sentences_ok/err`.
* Names, units and IDL text: what a generated file declares is modelled, how it is laid out
  is not. The rendering of panels and the style.
* The benches, probes and manual checks under `tools/` other than the generator and the
  measurement driver: programs nothing else depends on.
* The build options other than `GATEWAY_STATIC_ARM`, and DDS itself: discovery, matching,
  history and delivery are outside, DDS calls succeed or fail at will and at most one topic
  of a name exists in a participant.

## 7. Running

    tlc -config PipelineSafety.cfg MCPipeline.tla
    tlc -config PipelineLiveness.cfg MCPipeline.tla
    tlc -config PipelineOrphan.cfg MCPipeline.tla      # violated
    tlc -config ParserFrames.cfg MCParser.tla
    tlc -config ConsoleSafety.cfg MCConsole.tla
    tlc -config ConsoleGhost.cfg MCConsole.tla         # violated
    tlc -config ConvertDesk.cfg MCConvertDesk.tla
    tlc -config TypeArms.cfg MCTypeArms.tla
    tlc -config Capture.cfg MCCapture.tla
    tlc -config CaptureJoin.cfg MCCapture.tla          # violated
    tlc -config Measurement.cfg MeasurementRun.tla
    tlc -config DdsMonitor.cfg MCDdsMonitor.tla

    tlapm PipelineProofs.tla        tlapm TypeArmsProofs.tla
    tlapm ParserProofs.tla          tlapm CaptureProofs.tla
    tlapm ConsoleProofs.tla         tlapm ConvertDeskProofs.tla
    tlapm DdsMonitorProofs.tla      tlapm MeasurementProofs.tla
