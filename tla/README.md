# Benny512: TLA+ models, checks and proofs

Benny512 is a lighting tool: it discovers RDM devices behind Art-Net nodes,
reads and writes their parameters, and drives DMX universes over Art-Net and
sACN.  The server is written in Go (`internal/...`), the user interface in
JavaScript.  This directory keeps TLA+ models of the server, the TLC
configurations that check them and the proofs that TLAPS checks.

Paths below are relative to the repository (`src/` in `PROJECT.json`).

## 1. Inventory

| part | state it keeps | what is hard |
|---|---|---|
| RDM controller: command life cycle (`internal/session/rdmcontroller.go`, `rdmacktimer.go`) | a queue per node port with one command in flight, transaction numbers, UIDs held for an ACK_OVERFLOW, a timer and a deadline per command | callbacks that fired and wait for the mutex; answers lost, late or repeated; a hold or a slot that leaks stops a port |
| QUEUED_MESSAGE drains (`rdmqueued.go`) | one pass per device | the pass lives on the completion of its own commands |
| circuit breaker (`rdmproxy.go`, decision 0001) | `deviceHealth` per device, `linkEvidence` per port | an outage of a whole node must not open every breaker; stale evidence; the way back |
| discovery (`rdmdiscovery.go`) | table, discovery and identity of each port | blocks out of order or repeated, superseding, clearing in the middle |
| DMX output engine (`dmxout.go`) | arm state, lease, layers, live and held streams, tick chain | a tick that already fired when the engine is disarmed and armed again; darkness on every way out |
| Art-Net session, node configuration (`artnetsession.go`, `nodeconfig.go`) | node table, poll chain, waiters | rekeying, expiry and replies that race a configuration call |
| device registry, automatic reads (`internal/registry`, `internal/autoread`) | device table, ledger of attempts | events that are dropped; clears that race a pass |
| rig walk (`internal/walk`, `internal/web/walk.go`) | a session in a file | overlapping requests, identifies that fail, restarts |
| transport, demultiplexer, capture (`demux.go`, `internal/transport`, `internal/capture`) | bounded channels | what does not fit is dropped and must be counted |
| speculative GETs (`internal/params/introspect.go`) | what each responder supports | flights that are cancelled or forgotten |
| parameter descriptors and values (`introspect.go`, `internal/web/device.go`) | a cache per manufacturer, a record per device | look-ups that cross, a reset between them; values cut to a type |
| show, settings, sACN and library files (`internal/patch/durable.go`, `internal/sacn/settings.go`, ...) | a file and its backup each | a crash, a failure or damage between any two steps |
| findings of a patch (`internal/patch/collision.go`, `asfound.go`, `internal/walk/sort.go`) | pure, over entries and readings | overlaps at the ends of a universe; a reading that is not there against one that is nought |
| editing the show, reconciliation (`internal/web/patch.go`, `reconcilecommit.go`, `showguard.go`) | entries, readings, the show token | requests drawn from another show; readings that went stale |
| programmer and faders (`internal/patch/programmer*.go`, `faders.go`) | selection, values, highlight, groups, commands | edits that reach it between its steps |
| fixture library (`internal/library`) | records | a merge must lose nothing |
| fixture model (`internal/patch/programmer_model.go`) | pure | masters, parts and cells of any geometry tree |
| tests: Rig Check, patterns, fades, sequences (`internal/patch/rigcheck*.go`, `testpattern.go`, `patternfade.go`, `internal/web/tests.go`) | selection, claims, frame, sequence timer | late ticks and timers around a show switch |
| layout (`internal/web/layout.go`) | layers and placements | automatic against hand placement |
| packets (`internal/bytesio`, `internal/artnet`, `internal/rdm`) | pure | datagrams cut short anywhere |

How they interact.  The web server and the automatic reads submit requests to
the RDM controller and get a `Command` whose `Done` channel delivers one result.
The controller sends through the transport, which the demultiplexer shares with
the Art-Net session and the DMX engine; discovery, breaker and drains live
inside the controller under its one mutex.  Controller and session publish
events on bounded channels; the registry listens, and notifies the automatic
reader.  Programmer, faders and Rig Check hand frames to the DMX engine as
sources.  Every engine takes time from `Clock`, whose callbacks run on
goroutines of their own and take the engine's mutex first.  All requests that
change the show pass the show guard.

What each part owes is listed under `hazards` in `PROJECT.json`, at the line
where it bites, with the properties that watch it.

## 2. The modules and the code

Every handler of an engine runs under that engine's mutex, so each is one
action with everything it calls; code that releases a lock on the way is one
action for each stretch.  What interleaves is the order in which handlers,
callbacks and datagrams get the mutex.  A timer has three states: armed, fired
(its callback waits for the mutex and can no longer be stopped) and gone.

| module | models | run |
|---|---|---|
| `DeviceHealth` | `deviceHealth`, as operators on the record | (used by the next two) |
| `SilenceBreaker` | one port with the breakers of its devices; outcomes of commands in any order | `silence_breaker` |
| `CommandService` | what a submitter is promised: commands move forward, end once, one per port on the wire, in order per device | `rdm_shared` |
| `RDMController` | the whole client: queues, transactions, retries, ACK_TIMER collection, ACK_OVERFLOW, backoff, breaker, drains, Stop | `rdm_*` |
| `ToDDiscovery` | discoveries and table of one port | `tod` |
| `MasterArm` | what the operator is promised: levels move only while armed, a held look has no transient level, disarmed is dark | `dmx` |
| `DMXOutput` | the output engine: one action per exported method, and the tick | `dmx` |
| `NodeSession` | node table, poll chain, sweep, configuration calls | `node_side` |
| `DeviceReads` | registry, ledger, reader, clears | `node_side` |
| `RigWalk` | walk requests with their identifies, and the file | `node_side` |
| `LiveFeed` | socket reader, demultiplexer, capture ring, subscribers | `node_side` |
| `Filters` | the loop that leaves elements out of a list | (used by the two before) |
| `ShowStore` | a replaced file and its backup, every step and every failure, for four kinds of file | `show_side` |
| `ShowEdits` | two browsers that edit, reconcile and switch shows | `show_side` |
| `Programmer` | selection, values, highlight, faders, commands, and what is published | `show_side` |
| `PatchReview` | the findings of a patch; an entry against its device, with the requests that read, push and decommit it; the order of a walk | `show_side` |
| `LibraryMerge` | upsert, import, delete, verification of library records | `data_side` |
| `FixtureModel` | the intensity model of a profile | `data_side` |
| `ProbeGate` | what a responder is asked and what it is spared | `data_side` |
| `ParamDescriptors` | what a parameter looks like, and who is asked for it; a value on its way to the device and back | `data_side` |
| `ByteFields`, `ArtNetPackets`, `RDMPackets`, `WirePath` | field tables, the packets made of them, and a datagram between two codecs | `data_side` |
| `RigCheckEngine` | start, stop, selection, walk, claims, tick of Rig Check | `bench_side` |
| `TestPatterns`, `TestFades` | what the tests put on the wire, and how it fades | `bench_side` |
| `TestsLayer` | the Tests API, its sequence timer and the show guard over Rig Check | `bench_side` |
| `ShowLayout` | layers, placements, automatic derive | `bench_side` |

Variables have the names of the fields they stand for; the map in
`PROJECT.json` gives the lines of every definition.  `MC...` modules hold the
instances; four of them (`MCNodeSide`, `MCShowSide`, `MCDataSide`, `MCBenchSide`) put components that do not meet into one run, where a
behaviour moves one of them, so that the states add up instead of multiplying.
Operators that a comment calls *seeded bug* are not part of any specification:
each stands before the definition it spoils, and shows that the property it is
paired with would notice.

What the models abstract:

- *Time.*  Durations are gone: any armed timer may fire at any moment, in any
  order with everything else.  Cool-downs survive as counters.
- *Data.*  A payload is its PID and the transaction that fetched it; a UID, a
  name, a profile or a table is a model value or a set of them; a byte of a
  packet is the name of the value it carries and which byte of it; a DMX
  universe has one slot in `DMXOutput`, since composition, ownership and holding
  are decided slot by slot, and a handful in `TestPatterns`.
- *The network.*  Any request sent may be answered any number of times, in any
  order, or never; a block of any table the node has may arrive at any time.
- *Repetition.*  A frame sent three times is sent once; sequence numbers, bursts
  and keep-alives are not state.
- *Configuration.*  `RDMController` models the defaults: `ScopeNodePort`,
  `CollectQueuedMessageFirst`, `DrainOnProxyRecovery`.
- Statistics, events to the browser and logs are left out unless a property is
  about them.

## 3. The runs

Every bound is a CONSTANT.  `MaxCmds`, `MaxReplies`, `MaxLate`, `MaxAnswers`,
`MaxArrivals`, `MaxChains`, `MaxSaves`, `MaxFaults`, `MaxRequests`, `MaxEdits`,
`MaxGen`, ... bound a behaviour; the others (`Retries`, `ProxyBreakerTrip`, the
channels' sizes, ...) are the code's parameters, made small.

| run | instance | asks |
|---|---|---|
| `silence_breaker` | a port with two devices, refusal trip 1, silence trip 2, 3 answers | may an outage strike twice, may a breaker open or probe on evidence that is gone, does a listed device get its way back |
| `rdm_exchange` | one command, 4 responses, 1 retry, 2 collections, 1 backoff | can the command always go on, does its answer find it, is the data its own |
| `rdm_shared` | two responders on a port, 3 commands | is every handler a step of `CommandService`, through `requeueBehind` and fail-fast |
| `rdm_live` | one responder behind two ports, 2 commands, a response, a drain | do queues, holds and drains keep live owners, does every command end |
| `tod` | two discoveries, tables {u1} and {u1,u2}, one UID per block, 3 packets | superseding, late expiries, mixed tables, clearing, Stop |
| `dmx` | one show universe on Art-Net and sACN, two browsers, a command, at most two ticks under way | darkness, held look, transients, tick chain, `MasterArm` |
| `node_side` | two addresses and two binds with two configuration calls; two ports and a device; two fixtures to walk, three requests; a feed with channels of one | do waiters, binds and polls agree; is what counts as read on record; is every stray identify recorded; is nothing dropped uncounted |
| `show_side` | four kinds of file, 4 saves, 2 faults; two browsers, two shows, 4 requests; a programmer of two fixtures; patches of two entries at the edges of two universes; an entry, two devices and a request that reads or pushes while a hand sets the first of them; walks of three devices | what a restart opens; may an edit reach another show; may a stale reading be committed; are browsers told of what they see; are overlaps found, is a difference one, has a walk one order |
| `data_side` | libraries of two records; a head, a module, two pixels and a ring in 216 geometry trees; two requests about one responder; two editors with every parameter of one device, and with one parameter of two; every value at the edges of every numeric type; every packet cut at every byte | does a merge lose anything; does each master reach its parts and each cell; is a responder spared; how often is a layout asked for; is a value read back; what does a short packet read as |
| `bench_side` | three entries, two tests, a two-step sequence, two shows; five tests on three fixtures; layouts of two fixtures and a group | does output belong to the active show and the step that runs; does a change of the selection jump; do hand placements stay |

Two actors are enough where a property relates two: a striking device and its
answering neighbour, the owner of a hold and the command of another port, a
superseded discovery and its successor, the browser that turned Isolate on and
the one that keeps the lease, a request and the one that overtakes it.
`TNs = 16` is more transactions than a behaviour has, so a number is never
reused while an answer to it is on its way: that is the code's own assumption
for one byte; the wrap is listed among the hazards.  `MaxReplies = 4` reaches
the longest exchange the code distinguishes (ACK_TIMER, collection, overflow
block, last block).  `MaxLate = 1` allows one callback to wait beside the
running handler, `MaxArrivals = 3` a repeated block after a completed table of
two, `MaxFaults = 2` a failure and a second one while recovering from it.
`MaxChains = 2` stops Arm, not the ticks.
`ByteSize = 4` stands for 256: the types keep their number of bytes and their signs, and
the values typed lie on both sides of every edge of each.  `MaxWalk = 3` is what
transitivity needs; `MaxEntries = 2` what an overlap needs.  With one entry in
comparison one request at a time is enough, because what it may be overtaken by (the
device set by hand, the entry committed anew) is a step of its own.  Runs say `CHECK_DEADLOCK FALSE` where
a bounded component really comes to an end.

Two runs find a comment of the code violated:

- `one_flashing`: two overlapping walk requests leave two devices identifying,
  although "exactly one fixture is ever flashing" (`internal/web/walk.go:3`).
- `short_reply`: a poll reply that ends inside an optional field gives those
  bytes to the next one-byte field (`internal/artnet/packet.go:86` says absent
  fields are zero).

`findings` in `PROJECT.json` lists the other disagreements met while modelling,
each with the two lines: a SET issued again after a refused retransmission, a
transmission into an overflow sequence from another port, a repeated block that
replaces a complete table, a second tick chain after Disarm and Arm, one device's
time-out remembered as its manufacturer's layout, and so on.

## 4. Fairness

Safety is checked without fairness.  Liveness uses weak fairness of what the
runtime guarantees: an armed timer fires, a callback that fired gets the mutex
(Go's mutex is starvation-free), a goroutine that can run does.  Nothing is
assumed of responders, callers, browsers or the network.

- `EveryCommandEnds` needs only the timers: the deadline is armed when a command
  first reaches the wire, and the queue in front of it is finite.
- `EveryDiscoveryEnds`: each quiet period ends; that blocks stop arriving is the
  bound `MaxArrivals` (the code has no deadline for a discovery whose node
  never stops sending).
- `SilenceHoldEnds` also assumes that a command in flight ends (that is
  `EveryCommandEnds`), that the table goes on listing the device, and strong
  fairness of `Start`, which stands for the FIFO queue that `SilenceBreaker`
  leaves out.
- `LeaseLossSettles`: ticks fire and run.
- `PendingSettles`: the reader's goroutine runs (`ReadsFairness`).

## 5. The proofs

All proofs are for every value of the constants that satisfies the named
assumptions, in particular any number of devices, ports, commands, tables,
shows or universes.

`DeviceHealth_proofs` (from `HealthAssumption`): one lemma per transition of a
health record, so that an action of either user only has to name its transition.

`SilenceBreaker_proofs` (from `HealthAssumption`, `PortAssumption`,
`IdleAssumption`):

- `OutageSafe`: `OutageStrikesOnce` is not inductive, since that a second strike
  cannot count follows from where the two marks stand.  `OutageInv` adds that
  after a strike the strike mark stands at the present count of answers (and the
  opening mark too while the breaker is open for silence or half-open), and that
  the command in flight was let through by a closed breaker unless it is a drain.
- `SilenceOpenIsEarned` and `HoldExcludesProbe`, by one invariant (`OpenInv`)
  over the records alone; `BreakersAreSound` puts them and `TypeCorrect`
  together.
- `CooldownSpared`: the action property `OutageKeepsCooldown`, from `OutageInv`.

`RDMController_proofs` (from `ControllerAssumption`, `HealthAssumption`): one
invariant, `ControllerInv`, over all of the controller's state, inductive for
every handler.  Beyond what its theorems say it needs

- `CmdOK`: what a command's state says about its other fields (only a command on
  the wire has timers, a done one has a result, a collecting one is below its
  limit);
- `QueueOK`, in five parts: `QueuesConsistent` and that the commands of one device
  wait in the order they were submitted, and `OrderOK`: nothing later to a device
  is ahead of its pending command.  `requeueBehind` keeps both (`RequeueKeeps`);
- `PassOK`: a drain's command is a request for queued messages to its own responder,
  which the pump therefore never ends unsent, so a pass never loses its command.

The parts take the variables as arguments, because `pumpLocked` runs inside almost
every handler on values that the handler has changed.  `PumpIsPumped` describes the
pump from the commands' side (each queue loses the first of its commands, of which
only the last may go on the wire), `PumpedKeeps` keeps the parts through that, and
one lemma for each thing a handler does to its command (`LocalKeeps`, `IssueKeeps`,
`FinishKeeps`, `SubmitKeeps`) serves all the handlers, which have a lemma each.

- `TypeCorrect`, `QueuesStayConsistent`, `HoldOwnersLive`, `WireCommandsWake`,
  `DrainsGoOn`: five of the six parts of `ControllerInvariant`, whatever the numbers;
- `ServiceImplemented`: the controller implements `CommandService`, step by step.

The same module goes on to the answers.  Transaction numbers are one byte, given in turn
without a look at those in use, so what follows cannot hold for every history: with
256 transactions between an issue and its answer a number is given twice (a hazard of
`PROJECT.json`).  Both theorems state what they need of the numbers, as a condition on
every state of the behaviour:

- `AnswersFindCommands`, with `NumbersFresh` (the numbers the next pump may give are
  not those of commands on the wire): the sixth part of `ControllerInvariant`,
  `RegisteredUnlessBackingOff`, and so all of it.  `RegInv` adds that a registration's
  command is on the wire with that number and that at most one waiting callback is
  still current, and then no timer runs.  `Numbered` says which numbers the pump gives
  (those that follow, at most one per unsent command), and is kept through the pump by
  `PumpKeeps`, which is proved with the rest.
- `AnswersAreOwn`, with `NumbersLast` (they have not wrapped yet): `AnswerIsOwn`.
  `AnsInv` follows a command from its submission: the parameter that is pinned is that
  of every block collected, and the blocks' numbers increase and are below the current
  transaction's.  Own parameter and single parameter do not depend on the numbers; the
  order of the blocks does.

With `TNs` above the number of transactions a configuration reaches, TLC finds both
conditions invariant in the state spaces of `rdm_exchange`, `rdm_shared` and `rdm_live`.

`DeviceData_proofs`, about discoveries (from `ToDAssumption`):

- `TypeCorrect`, `RegisteredRuns`, `TimeoutIsQuiet`, `IdentityKept`, together
  `RegistrationIsSound`: one invariant, `DiscoveryInv`.  That a timeout is quiet
  needs `Periods`: no late expiry has a generation beyond the discovery's, and
  one of the current generation fired after the last block.
- `CompleteTable`: with `BlocksOfTables` (what a discovery and the cache hold is part
  of the union of the tables heard, and the total is the largest of theirs), a
  count that reaches the total of one table is that table.

about the probe gate (from `ProbeAssumption`), for any requests, responders and
parameters:

- `ProbesAreExplained`, by `ProbeIInv`: a record's flight names the request that leads
  it and a waiting request's record has a flight; what was asked in vain has been
  counted, except for the one silence a flight may still add (`SpendBy`); and a request
  that comes from a flight without a cancellation finds a list, or a record that says why
  there is none (`ToldBy`).  A forgotten record lives on as long as a request holds it, so
  the invariant is about both records of a device.  It takes requests, records and counts
  as arguments: the end of a flight changes all three one after the other, and
  `FlightEnds` says what each change leaves true.

about the library (from `EmptyNamesFirst`), for any names, any channel maps and a
library of any size:

- `LibraryLoadsAgain`, by `LibOK`.  That no two records have one key is not inductive: a
  merge gives a record without a manufacturer or a model the other's, which may be the
  key of a third.  `Distinct` says what of a third record would have to be so, and that
  it is not, since the record that was put in would have matched that one; this is how
  the code's search order (`matchLocked`) keeps the file loadable.
- `UpsertsSettle`: the record that was put in is the first match afterwards, and merges
  into itself (`MergedAgain`), whether it was inserted or merged.
- `LibraryNeverLoses`.  What an insertion and a deletion leave at each position
  (`InsertedAt`, `DeletedAt`) are lemmas; that a search finds the least of its candidates
  (`LeastMember`) rests on the library's least-number principle.

about parameter descriptors (from `EditorAssumption`), for any devices of a manufacturer, any
parameters and any finite number of requests:

- `DescriptorsAreShared`, by `EditorInv`.  `AsksAreShared` alone is not inductive: nothing in it
  says how many requests may still ask.  `Shared` counts them.  While the cache has no
  layout of a parameter, it was asked at most as often as requests are now asking; once it
  has one, what was asked and the requests at the gate, which looked before it was
  there, are together no more than there are requests.  The steps rest on what one
  request more or less makes of a count (`OneLeaves`, `OthersCount`).

about a value on its way (from `ExchangeAssumption`), for any value, any descriptor and any even
number of values of a byte:

- `ValuesReadBack`: a number is cut by a remainder (`EncodeByDataType`) and read by another, with
  the upper half negative for a signed type.  `ModuloIs` says what a remainder is, where
  the solver has only the division it is defined by; `SpansAre` gives the three widths,
  and `TypeHolds` that each type's range is one span of consecutive numbers, signed or
  not.  A range that reaches beyond its type is not checked by the code against the type,
  and `Bounded` excludes it: the value is then cut silently.

about the intensity model (from `ModelConstants`, `TreesAreTrees`), for any geometry tree:

- `MasterCountsOnce`: `MasterTimesPart`.  `Ancestors` is a recursive function; that ancestors
  of ancestors are ancestors, and that of two places above one place one is above the
  other (`Hangs`), is proved by induction over its steps, and that each walk ends at the
  root within as many steps as there are geometries is the pigeonhole principle.  From
  there on only `Hangs` and `ModelOK` are used: light passes one outermost dimmer of a
  part (`OutermostIsAlone`, `OutermostIsThere`, by the number of its ancestors), and
  a master channel that light passes is above everything it passes (`MasterIsAbove`).
- `CellsAreSeen`: `CellsCanBeSeen`, by `HighlightOpens`.
- Both proofs first failed, and TLC gave the geometries with five instances: the
  properties held of the four instances checked before.  `PartsApart` now also excludes
  emitters below a cell whose name is a number, and `CellsApart` says which cells the
  code's rule can open.  What they exclude is listed under the findings: a cell with a
  dimmer of its own under its part's dimmer, in a fixture with a master, stays dark.

`DMXOutput_proofs` (from `OutputAssumption`).  `StepShapes` sorts every step by
what it does to the output: it leaves state and held look alone, arms, disarms,
or holds; the proofs below are then about four cases and `Pass`.

- `LitIsTransmitted`, `DisarmedIsDark`: that a disarmed engine is dark is not
  inductive, since Disarm and a retiring pass darken the streams they know of.
  `Lights` adds that every lit stream was sent and is still active, and that an
  sACN stream that was sent still has the socket its last frames need.
- `TicksAlwaysGoOn`: `Ticks` adds that a disarmed engine has no timer (so that
  Arm starts a chain whenever there is none).

- `TransientsEndWithArm`: `Layers` says that the command layer is exactly what the
  commands in flight claim, that the isolate layer is empty without an owner and
  that no other source has their levels.
- `TransientsAlwaysLeave`: the code has no rule that a transient level leaves the
  wire; it follows because a pass sends the universes whose claims changed and
  the streams whose owner changed.  `Shown` (a stream with a transient level
  carries its universe, and the layer still claims it) is what such a pass
  (`PassShown`) preserves; it needs `Lights`, since a stream that cannot be sent
  would keep its level.
- `HeldLookIsClean`: by `Shown`, a frame that is kept for the hold has no
  transient level, and by `LayersDropped` one that is composed has none.
- `OutputIsSound`, and from all of these `EngineKeepsPromise`: each of the four
  shapes of a step is a step of `MasterArm` or a stutter.

`ShowSide_proofs`, about the files (from `StoreBounds`, `ValuesApart`):

- `RestartOpensSaved`: what a restart would open (`Reloaded`) changes from what
  was saved to what is being saved at one step, the rename, whatever happens
  before or after it.  `StoreInv` says so by the step an operation has reached,
  and adds that the operation is one the store can be in (`OpFits`, `ClearFits`)
  and that the marker names the active show, or the one about to be installed
  (`MarkedIsActive`).
- `DamagedFileStays`, the action property, and `OneSpoiltFileIsRecoverable`, with
  `Copies`: what is copied to a backup could be read, and as long as one file was
  spoilt no file and no backup are both.

and about the requests (from `EditConstants`), for any shows, browsers, entries and
devices and any likeness of entry and device:

- `EditsTypeCorrect`: the types, and what the token is worth.  The guard compares
  numbers; that the number stands for a show is the invariant `EditInv`: the show's
  revision and its era (which counts the switches) never part, a page holds the token
  of the era it was drawn in, and so does a request that waits for the lock.
- `EditsLandOnOwnShow`: a request that is admitted has compared its token under the
  lock it keeps, so `EditInv` makes its era the present one.
- `IntentionsBelong`: `EntryStep` says what any handler may make of an entry that
  stays (`Keeps`: its intention is untouched, or was read off its own device).  There is
  one lemma for each kind of handler; those that go through a list of devices or rows
  need what a row of the reconciliation can be (`RowTypes`).

about the findings of a patch (from `ReviewAssumption`), for any entries and a patch of any length:

- `OverlapsAreFound` and `CleanPatchesAreSound`: the code compares the ends of two ranges; that
  this is right is `SharedSlots`, the first and the last slot two ranges share.

about an entry and its device (from `DiffAssumption`), for any rig, settings and requests:

- `ComparisonIsTrue`, by `DiffInv`.  That a line of the comparison is true is not inductive,
  since a request writes and reads a device long before it stores anything.  `DiffKnows`
  says what is known meanwhile: readings, stored or on their way, are those of the device
  they are attributed to, and as it is set now unless somebody set it since they were
  taken.  Each stage of a request has its part in it (`RequestKeepsDiff`, `SetStep`,
  `EntryKeeps`); `LineIs` then takes one line of the comparison apart.

about the order of a walk (from `WalkAssumption` of `PatchReview`), for any devices:

- `WalkHasOneOrder`: every order compares keys one after the other and ends in the UID, so
  it is total (`KeysDecide`) and transitive (`KeysChain`), the orders by address with
  what has no address at the end.

- `ShowSideIsSound`: `ShowSideInvariant` of the composition.  A step of another part is
  a stutter (`SidesStep`), so what holds of each specification holds beside the others.

`NodeSide_proofs` (from `SessionAssumption`, `ReadsAssumption`, `WalkAssumption`,
`FeedAssumption`), for any nodes, calls, devices, fixtures, browsers and capacities:

- `WaitersAreSound`, `NodesMoveWhole`, from `SessionInv`: the parts are inductive except
  the one about targets.  `TargetInv` adds that the stage of a call says whether it asked
  for an address and that a key no call claims has no target left over.
- `LedgerIsSound`, from `ReadsInv`: a pending device is in the queue once and no other
  is.  That this survives a Forget rests on what `Without` returns, which is a function
  that recurs over the length of the list.  `WithoutKeeps` and `WithoutIncreases` prove
  it (it keeps exactly the others, none twice, in order) by `NatSetInduction`: a set of
  numbers that has 0 and the successor of each member is `Nat`, from the library's facts
  about well-founded relations.
- `ReadsAreOnRecord`, with `RecordInv`: between the registry's half of a clear and the
  ledger's, a device whose record is gone is in `clearing`; and what holds of a device
  that is read holds already of the one whose pass has its answer and will file it.
- `StraysAreRecorded`, for `Overlap = 1`: `OpOK` says what a request in flight has done so
  far at each of its stages, and which copy of the session it will store; between
  requests nothing is left of it but `StrayIsRecorded`.  With two requests at a time it
  is false, which is the finding of `one_flashing`.
- `FeedReachesBrowsers`, from `FeedInv`: a Publish goes on with the ring it copied while
  the ring moves beside it.  `PubOK` relates the two (what the ring still has up to the
  newest entry of the copy, the copy has too), so that the entries a mark jumps over are
  in the batch; `BrowserOK` puts the batch above all that was given before.
- `NodeSideIsSound`: `NodeSideInvariant` of the composition, as in `ShowSide_proofs`.

`TestsLayer_proofs` (from `EngineConstants`, `LayerConstants`, `NoneIsApart`):

- `EngineIsSound`: Rig Check by itself, under any calls.  `EngineOK` has one lemma per
  method.  Many methods change the selection first and claim afterwards, so the
  invariant is in two parts: `Prepared` is what holds in between (the universes of the
  new selection have started), and the claim follows it at the next composition.
- `LayerIsSound`, from `LayerInv`: what a run is and what it was started from
  (`RunInv`), what the guard has done at each of its steps (`ReqInv`: once a switch has
  forgotten the tests, nothing drives the layer until the request ends), and that a
  timer of the present generation was armed on the present visit (`TimerInv`).
- `TimersAdvanceOwn`: `AdvancesOwnStep`, from `TimerInv`, for every order of callbacks.
- `OutputFollowsShow` and `LayerFollowsTests`: `OutputsActiveShow` and
  `LayerShowsActive`, under `~TimerInGap` and `~TakeoverInGap`.  `ShownInv` adds that an
  engine the Tests API drives shows what was pushed last, that outside the guard's gap
  this is what a push would make now, and that an engine it does not drive shows only
  entries of the present patch, and nothing where the patch is about to change.  The two
  conditions are needed: a callback that gets the tests lock after the guard has reset
  the engine and before it has reset the tests pushes a step of the show that is being
  left, and a takeover may clear the tests while another request's handler edits the
  show they run on.  Both windows are in the code (`showguard.go:40-47` and `:20`), where
  the timing makes them rare; the constants say which claims rest on them.  With both
  constants FALSE TLC checks the same instance in `bench_side`.

Only model-checked.  Liveness, which TLAPS does not prove under fairness:
`EveryCommandEnds`, `EveryDiscoveryEnds`, `SilenceHoldEnds`, `LeaseLossSettles`,
`PendingSettles`.  What passes over sequences compute that are written with the folds
of the library, which take an operator as a parameter: the programmer
(`ProgrammerInvariant`, `RevisionTells`), the fades and the layout (`PatternInvariant`,
`EditsNeverJump`, `HandStays`, the part of `BenchInvariant` about the layout, whose other
parts are `EngineIsSound` and `LayerIsSound`), and the packets (`WireInvariant`, over all
the tables of fields; so `DataSideInvariant` as a whole, whose other parts are
`LibraryLoadsAgain`, `UpsertsSettle`, `DescriptorsAreShared` and `ValuesReadBack`).

## 6. Not modelled

`PROJECT.json` gives the reason for each part.  Sockets, files' bytes, the clock
and the browser are environment; the JavaScript user interface, the demo rig and
the wiring in `cmd/` are out of scope; handlers that only read are left out;
one-line parameter readers and writers, address notes, exports and names are data no
property tells apart.
