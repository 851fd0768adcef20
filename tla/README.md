# Formal models of the somfy-rs controller

TLA+ modules, model-checking configurations and machine-checked proofs for the
firmware in `src/crates`: a controller that drives Somfy RTS motors by radio,
keeps their rolling codes in flash, estimates where each shade is by dead
reckoning, and is commanded over HTTP, over an MQTT broker and by the wall
remotes it overhears.

Run a configuration with `tlc -config X.cfg M`, check a proof module with
`tlapm M.tla`. `PROJECT.json` lists the runs, which line of the source each
definition translates, a mutated definition for every property (so that each
property is known to be able to fail), the hazards and the theorems.

## 1. Inventory

| Component | Source | State | Operations | What is hard | What makes it correct |
|---|---|---|---|---|---|
| Rolling-code store | `somfy-store/src/{slots,record,store}.rs`, `firmware/src/store.rs` | a ring of records in flash, a sequence counter | mount, load, commit | torn writes, failed erases, the counter's wrap, damage | a commit is atomic and durable, the region never wedges |
| First codes | `somfy-store/src/seed.rs`, `firmware/src/main.rs` | damage counted at boot | survey, seed each shade, seed on add | a lost code must not be replaced by a low one | no motor is sent a code it has heard |
| Transmit path | `somfy-store/src/transmit.rs`, `somfy-tasks/src/{state,queue,radio}.rs` | a channel of frames, the next codes | dispatch, commit then queue, send | a cut or failure between the steps, a full channel | the code is stored before its frame goes out |
| Shade | `somfy-domain/src/{shade,motion,types}.rs` | estimate, armed stop, favourite, doubt | commands, tick, overhear, reconfigure, calibrate | commands between ticks, a stop sent early, movements of several legs | the estimate is of what the motor was told; what is begun ends |
| Controller, registry | `somfy-domain/src/{controller,registry}.rs` | shades, groups, table of movements | command a shade or a group, tick, receive, add and remove | a table of four, partial failure, ids used again | one plan for a shade; a refusal moves nothing |
| Command limiter | `somfy-tasks/src/limit.rs` | one second per shade | admit | saturation, groups | the rate, and the wait a refusal names |
| RPC seam | `firmware/src/rpc.rs` | a semaphore, a request and a reply signal | call, next, answer | timeouts, dropped futures, stale answers | one's own answer, once |
| State task | `firmware/src/tasks.rs`, `edits.rs` | owns all of the above and the shade table | select over commands, edits, requests, frames, ticks | the order of its arms, staleness of boot-time facts | what it told others agrees with what it holds |
| Shade catalog | `somfy-config/src/{catalog,shade}.rs`, `firmware/src/shades.rs` | which shades exist, which the broker holds | add, remove, announced, retired, debounced write | a crash between broker and flash, orphaned entities | no entity is forgotten |
| Table and estate records | `somfy-config/src/{record,shade,estate}.rs`, `firmware/src/{shades,estate}.rs` | rows in four layouts, links, rooms, groups | encode, decode, validate, boot | old layouts, rows that point at other rows | what is written is what boot reads |
| Configuration records | `somfy-config/src/{mqtt,credentials}.rs`, `firmware/src/config.rs` | a second ring of records | load, save either half | a torn save | only one half moves |
| Trial of credentials | `somfy-config/src/trial.rs`, `firmware/src/{trial,net}.rs` | candidate and stored credential | try, confirm, fall back | a reset in the middle, a client asking twice | only a proved credential is stored, and the device is reachable again |
| Backup and restore | `somfy-backup`, `firmware/src/restore.rs` | staged pages and their marks | export, upload, check, apply at boot | a cut while staging or applying | all of the file or nothing |
| Firmware update | `somfy-ota`, `firmware/src/ota` | two slots, a selector, a self-test | begin, page, finish, self-test, roll back | a cut at every step | the running image is kept, an unproved one does not stay |
| Broker session | `firmware/src/mqtt.rs`, `somfy-mqtt/src/lifecycle.rs` | connection, its own shade list, what is retained | connect, announce, retire, acknowledge | loss of the session in between | the broker holds what the table has |
| Setup form | `somfy-mqtt/src/{flow,setup}.rs`, `mqtt.rs` | draft, effects, what the broker shows | every press and typed value, the drain | the shade changed from elsewhere, a lost session | what is read, held and stored agree |
| Pairing addresses | `somfy-domain/src/pairing.rs` | an address range | next address | addresses used again | |
| Radio frames | `somfy-rts` | window of frames heard | encode, decode, deduplicate | bits lost, clocks apart, wrap of the millisecond clock | what is heard is what was sent, once a press |
| Transceiver | `somfy-rmt`, `somfy-tasks/src/radio.rs`, `firmware/src/radio.rs` | keyed, idle or receiving | burst, receive, cancel | a bus that fails, a reception cut in the middle | it always listens again |
| Reconnection | `somfy-tasks/src/backoff.rs`, `firmware/src/{net,mqtt,sntp,mdns}.rs` | link, lease, session, clock | attempt, report, wait | outages in any combination | retries back off, and a good network is rejoined |
| Migration | `somfy-migrate`, `somfy-config/src/import.rs` | none | parse, map, refuse or warn | old versions, addresses that collide | the table means what the backup meant |
| Log, panic record | `firmware/src/diag.rs` | memory that a reset keeps | log, read, panic, dismiss | a reset between any two stores | whole lines; the last panic is kept |
| Web API | `firmware/src/api` | sessions of uploads | routes | handlers dropped by their client | (in the parts it drives) |
| Boot, memory, user interface, build | `firmware/src/{main,heap}.rs`, `ui`, `xtask` | | | | |

They interact so. The state task owns the controller, the store, the catalog
and the sending end of the frame channel. HTTP tasks and the broker session
reach it through the RPC seam (one request at a time, answered between two
awaits) and through channels of commands and edits; it answers the session with
events, and the session acknowledges what the broker now holds. The radio task
takes frames from the channel, and puts what it hears into another. Commands of
people pass the limiter; what the clock plans does not. Every planned frame
goes through `transmit`, which commits the next code before it queues the
frame. All tasks run on one executor, so whatever lies between two awaits is
atomic; interrupts, power cuts and dropped futures are not bound by that.

## 2. Modules

| Module | Models | State and actions |
|---|---|---|
| `SlotRing` | `slots.rs` | no state: where the next record goes, which is the newest |
| `CodeStore` | `store.rs` (the trait) | abstract store: a table of codes and the commit under way; `Begin`, `Land`, `Succeed`, `Fail`, `Refuse`, `PowerCut` |
| `FlashStore` | `firmware/src/store.rs` | the slots of the flash, the commit's step; `Aim`, `Erase`, `Program`, `Verify`, `ReadFails`, `StepFails`, `PowerCut`. Refines `CodeStore` |
| `SeedStore` | seeding, over `FlashStore` | boot progress, the survey's answer, shades; `Survey`, `SeedNext`, `Press`, `AddShade`, `RemoveShade`, `Rot`, `Cut` |
| `TransmitPath` | dispatch, channel, radio task | stored codes, channel, frame on the air, what each motor heard; commit and send steps, failures, cuts |
| `Motion` | `motion.rs` | no state: estimate, arrival, remaining time in the code's integer arithmetic |
| `Shade` | `shade.rs` | no state: each operation as a function from a shade to a shade, its frames and its movement |
| `Controller` | `controller.rs`, `registry.rs` | registry, table of movements, group, what each motor was told; one action per entry point, `Tick`, `TimePasses` |
| `CommandLimiter` | `limit.rs` | the schedule of each shade, the last refusal, an observer's window; `Admit`, `Refuse` |
| `Rpc` | `rpc.rs` | phase of each caller, tickets, permit, both signals; `AskAtOnce`, `AskAndQueue`, `AskRefused`, `Acquire`, `Serve`, `Receive`, `Timeout`, `Drop` |
| `ShadeTable` | `catalog.rs`, `edits.rs`, the edits of `tasks.rs` | registry, bits of what is announced, pending write, record in flash; one action per edit and acknowledgement, `Persist`, `Boot` |
| `BrokerSession` | `mqtt.rs`, `lifecycle.rs`, over `ShadeTable` | the session's list, its plan of steps, events and acknowledgements in flight, what the broker retains in each namespace |
| `ConfigStore` | `config.rs` | the ring of configuration records, over `SlotRing`; what a save, failed or cut, may leave |
| `WifiTrial` | `trial.rs` (both), `net.rs`, the settings routes | the live trial, the handler's save, the link, the restarter, over `ConfigStore` |
| `Backup` | `somfy-backup`, `restore.rs`, its routes | export by chunks, upload, staged marks, the applier step by step, the boots |
| `Update` | `somfy-ota`, `ota/`, its route | slots, otadata, self-test, upload session, restarter; the bootloader is external |
| `TableRecord` | `record.rs`, `shade.rs`, `estate.rs` of `somfy-config` | no state: what a row of each layout holds, what decoding accepts |
| `Import` | `somfy-migrate`, `import.rs` | no state: the table and the caveats a backup of the C++ firmware becomes |
| `Provision` | `tasks.rs`, `shades.rs`, `estate.rs`, `pairing.rs`, over `TableRecord` and `Import` | registry with configurations, links, rooms and groups, both regions; every description edit, calibration, imports, boots |
| `RtsFrame`, `RtsSignal` | `frame.rs`, `command.rs`, `pulse.rs`, `rx.rs`, `somfy-rmt` | no state: bytes, bits, symbols, the decoder edge by edge |
| `AirTrip` | both, end to end | one frame at its real width, a number of repeats and a receiver's clock |
| `RadioLoop` | `radio.rs` of `somfy-tasks` and `firmware`, `rx.rs`, `somfy-rmt` | chip mode, decoder, both channels; `Edge` by edge reception, bursts, faults, cancellation |
| `RxDeduper` | `dedupe.rs` | the window of frames, a clock that wraps, what passed |
| `SetupForm` | `flow.rs`, `setup.rs`, the drain in `mqtt.rs` | draft and phase, effects, what the broker shows, the shades it made |
| `DiagLog` | `diag.rs` | ring header and bytes, panic record, the stores of the operation under way; a reset between any two |
| `Uplink` | `net.rs`, `mqtt.rs`, `sntp.rs`, `mdns.rs`, `backoff.rs` | each loop's place, delay and wait, the network's health |
| `MC*` | | instances: small sets and profiles for TLC |
| `*Proofs` | | theorems and their proofs (section 4) |

`MCChannels`, `MCUpkeep` and `MCParts` put several components in one run. These
meet in nothing, or only in the restart that each of them has, so their product
would multiply states and show nothing more; a behaviour is of one `part`, chosen
at the start, and the others keep their initial state. Where components do meet
they are composed: `SeedStore` over `FlashStore` over `SlotRing`, `Controller`
over `Shade` over `Motion`, `BrokerSession` over `ShadeTable`, `WifiTrial` over
`ConfigStore`, `Provision` over `TableRecord` and `Import`, `AirTrip` over
`RtsFrame` and `RtsSignal`.

How state corresponds to code, where it is not one variable for one field:

- `FlashStore.flash` holds, slot by slot, blank, damaged or a record with a
  sequence number and a table. Damage stands for whatever `Record::decode`
  rejects: a wrong checksum, a torn record, bits ANDed into an old one. The
  scan is not state: the code rescans before each operation.
- `TransmitPath` splits a commit in two (begun, landed), because power can fail
  in between; the flash below is replaced by its promise, which
  `FlashStore` is shown to keep.
- `Motion` holds `elapsed` for `now_ms - move_start_ms`. A tick advances the
  clock by a unit, and the state task ticks once in each; commands come in
  between, before or after the tick of their unit.
- `Controller.told` is not in the code: the last frame each motor was sent by
  the controller or by its wall remote, if every planned frame arrives. It is
  what the estimate is compared with. A motor at rest takes `My` as the recall
  of the favourite it holds itself (`Hears`).
- `CommandLimiter.window` and `since` are an observer that starts to count at
  any moment. `Uplink.gap` and `row` are one too: the time since a loop's last
  attempt, and its failures in a row.
- `Rpc.served` and `got` record what was carried out and what was returned; a
  signal is a set of at most one call.
- `BrokerSession` puts the publications of one shade in one step, and its
  tombstones in another: an entity is on the broker from its first discovery
  config to its last tombstone, which is when a lost session can leave it.
  `excused`, `cutShort` and the counters of what was dropped say which losses
  the code itself accepts.
- `ConfigStore` makes a save one step with a choice among the rings that an
  error or a cut may leave, since it is one synchronous call of the state task;
  in `Update` and `Backup` the two writes of a mark are steps of their own,
  because the order of the two is what they are about.
- `DiagLog` models a checksum as what it was taken over. It matches exactly
  when that has not changed since, which leaves out accidental collisions.
- In `Backup` a shade stands for its address, and rows are in their order.

## 3. Runs

A bundle such as `RingSafe` is the conjunction of the invariants in brackets;
each is stated by itself in its module.

| Run | Instance | Shows |
|---|---|---|
| `flash` | 2 sectors of 2 slots, sequence numbers modulo 12, 2 addresses, 2 codes, symmetry of addresses | `RingSafe` [the ring never aims at a torn slot, `NeverOntoWreckage`; never erases the record it would need, `NewestOutlivesErase`; keeps the live numbers within half the counter, `OneWindow`], never becomes unreadable once it holds a code, and implements `CodeStore` (`KeepsPromise`) |
| `seed_boot` | the same flash, codes 0 to 2, one completed record lost | without a loss no address goes back to a code its motor has heard, whatever boots, presses, removals, re-additions and cuts come (`NoCodeGoesBack`); with one, the region is not taken for empty (`SeedSafe`) |
| `transmit` | 2 motors, channel of 2, dispatches of up to 3, codes modulo 4 from just below the wrap | `TransmitSafe` [a later code is stored before a frame is queued or sent; codes leave in order]; each dispatch ends and a full channel drains |
| `shade` | 1 shade, positions 0 to 2, 3 units of travel, a start lag and a vent band of 1, every command, every overheard frame | a shade has one pending plan (`OneMovement`), the estimate moves only as the motor was told (`EstimateIsCommanded`), the clock only continues a run (`ClockOnlyContinues`), what was begun ends (`SequencesEnd`) |
| `shade_group` | 2 shades, one narrow, a table of one movement, removal, re-addition, reconfiguration | `RefusalsAreWhole` [a refused command sends nothing; a gated group command changes no member] |
| `uplink` | retry waits of 1 to 4 units, images with the link and one service each | no loop attempts sooner than its failures in a row call for (`RetriesBackOff`); a signal strength is of the link that is up (`UplinkSafe`); a network that stays good is rejoined by itself (`Rejoins`) |
| `broker` | 3 units for 2 slots, 4 events, 1 acknowledgement, 3 edits, 2 namespaces, one trouble (lost connection, failed write or restart) | `BrokerSafe` [when the session has said everything, what is retained is what the table has; a seed lives no longer than its shade]; the bit in flash outlives the entity (`BitOutlivesEntity`); the orphans boot finds are cleared; no handler waits for ever |
| `channels` | rpc: 3 callers of 2 calls, a queue of 1. radio: frames of 4 and 6 bits, channels of 1, one request, one fault | `SeamSafe` [answers are not crossed, nothing is served twice], every call ends; `RadioSafe` [a controller that waits listens, unless the bus failed as it was parked; the first frame of a press is heard whatever came before], every request is served however much there is to hear |
| `upkeep` | trial: 2 networks, 2 requests, one broken write. backup: 3 addresses, 2 pages, 2 edits, 2 uploads, 2 faults. update: slots of 2 pages, 2 uploads, 2 faults | `TrialSafe` [only a proved credential is stored; the device is not left off every network], `OneHalfMoves`, `UnconfirmedEnds`; `RestoreSafe` [only a whole file is staged; shades and estate are of one table; codes resume from the file], `NobodyForgotten`, `RestoreEnds`; `UpdateSafe` [the running slot is kept; an untested image does not settle; the resets end], `UpdateComesToRest` |
| `parts` | limiter: 2 shades and their group, bursts of 2, a clock past saturation. table: 2 shades, every layout, 3 changes. log: a ring of 5 bytes, 2 lines, 2 resets. trip: every command at 56 and 80 bits, three clocks. dedupe: 3 remotes, a window of 2, a clock modulo 6. form: 3 inputs, one trip elsewhere, one break | `LimiterSafe` [the rate; the wait that is named suffices], `TableSafe` [what is written is read; boot restores it; an import means its backup], `BitsLeaveByAnswer`, `LogSafe` [whole lines, no line invented, the panic kept], `HeardIsSent`, `DedupeSafe` [one event a press; only repeats dropped], `FormSafe` [shown is held; nothing is left; stored is held; none is incomplete] |
| `shade_stop`, `estate_rows` | the instances of `shade` and of `broker` | what the source says and does not do (section 5) |

Bounds, and why they are enough. The smallest sectors in which a commit can
meet a blank slot, a torn slot and a sector boundary have two slots; with two
sectors a lap erases the older half while the newest record is in the other.
Twelve sequence numbers are just above twice the five live positions the
assumption asks for, so that wraps happen in every long behaviour. Two
addresses show whether a commit disturbs the other's code. A channel of two and
dispatches of three give a full channel inside a dispatch. Three units of
travel with a lag of one separate the early stop from the arrival; positions 0
to 2 have one that is no limit. A table of one movement is full as soon as two
shades want one. Retry waits of 1 to 4 double twice, so that a wait is below, at
and held at the cap. Three units on two slots reuse an id for another shade; one
trouble falls at every step of every handler; two namespaces are one change of
broker settings, after which the entities of the former have to be told from
the latter's. A frame of four bits is a prefix of one of six with the same
checksum, which is what makes the decoder's guess of width hard; the trip
uses the real widths instead. Two requests are one more than a trial admits.
Three addresses on two pages put a page boundary inside a table. Two faults give
a fault while recovering from the first. A ring of five bytes is overrun by the
second line. A clock modulo 6 with a window of 2 wraps in any long behaviour.

Deadlock is checked except in `broker`, `channels`, `upkeep` and `parts`: there
the number of calls, edits, requests or inputs is bounded, and all of it may be
used up.

Fairness, and why the code justifies it. No run assumes that a flash operation,
a burst, a network or a caller succeeds, and none asks anything of people.

- `transmit`: the executor polls the state task whenever it can go on, and the
  radio task, which the channel's wakers give. The radio task's fairness is
  strong, because a power cut takes its work away again and again.
- `shade`: time passes and the ticker's arm of the state task's `select4` is
  taken; the comment at that `select4` argues that no earlier arm can be
  continuously ready.
- `channels`: the timer of a waiting caller fires and a woken caller is polled;
  nothing is asked of the state task, so `EveryCallEnds` holds with one that has
  stopped. The radio task is stepped when it has a request, a burst in progress
  or something left in its buffer; that another remote transmits is not assumed.
- `broker`: the state task takes acknowledgements, ages and writes its record,
  the session carries out its plan and takes events, and a broker that can be
  reached is reached. A connection may still be lost at any step.
- `upkeep`: the Wi-Fi task, the watcher, the clock, the state task's write, the
  handler's end and the restarter each run when they can; boot and the applier
  of a restore wait for nobody; the bootloader, boot and the self-test's legs go
  on, each leg with either answer. Uploads, clients and the radio's access point
  have none.
- `uplink`: each loop runs, the DHCP server answers a link that stays, and time
  passes. `Rejoins` assumes a network that is good from some moment on, and
  nothing before it.

## 4. Proofs

TLC checks small instances; these hold for every value of the constants. The
assumptions are the named `ASSUME`s of the modules, which the runs evaluate. In
each module the inductive invariant is a conjunction of named parts, and the
step lemma has one case per action.

- `RingProofs` has lemmas only, of the arithmetic that the rolling-code store and
  the configuration records share: in a region whose records are in order one
  pass finds the newest, a write aims past it, an erase before that write spares
  it, and the record that is written is the newest in a region in order again.
- `StoreProofs`: `RingSafety`, `NeverUnreadable`, `StorePromise`. The
  invariant is about one record, the newest: every other is behind it by no more
  than its slot is (`BehindNewest`), so one pass in index order finds it; a commit
  aims at the slot after it, or at the sector after its own (`Aimed`); and what
  a cut leaves of a commit is either that record or none (`LandsNewest`).
  `RingSafe` by itself says nothing of where the older records stand, so it could
  not show that the next erase spares the newest. With the invariant each step
  maps to a step of `CodeStore` or a stutter, which is `StorePromise`: the
  conclusion of the refinement that `flash` checks on four slots.
- `StoreProofs`, of seeding: `SeedSafety`, `CodesOnlyRise`. Over the ring's invariant it
  adds that a region that once held a table does not look empty
  (`NeverTakenForEmpty`), that a lost record spares one that is damaged or newer
  (`Spared`) and, while nothing was lost, that what a boot reads is at least what
  each motor has heard (`Rising`).
- `OutboundProofs`, of the transmit path: `TransmitSafety`, `PersistBeforeTransmit`, `SentInOrder`.
  The invariant adds three facts: the ticket, if there is one, is the frame whose
  successor the store is committing (`TicketMatchesCall`); a stored code is ahead
  of its motor (`StoreAhead`); and every frame on its way carries an earlier code
  than the ticket (`TicketLast`). Without them the step that queues a frame
  could not be shown to keep the order, nor the step that lands a commit to
  leave the frames before it spent. Codes wrap, and the proof compares them by
  their distance from the code the motor heard last; the guard of `StartCommit`
  that stops a motor from missing a whole turn of the counter is what makes that
  distance an order.
- `OutboundProofs`, of the broker: `BrokerSafety`, `BitsOutlive`. The promise is of a
  session that has nothing left to say, so the invariant follows one edit from
  the table to the broker. A shade the session does not have right has an event
  in the queue that says so (`Belief`). An entity that is to be there is on the
  broker, or the plan shows it (`HereOK`); one that is to be gone is gone, or the
  plan hides it, or no boot could name it (`GoneOK`); and one under an earlier
  namespace is on the list that the next resynchronization clears (`StaleOK`).
  Each allows for what the code loses: a dropped event (`missed`) and a plan cut
  half way (`cutShort`). An acknowledgement is told by who sent it and what the
  inventory then holds (`AcksOK`), which is what keeps a late one from clearing
  the bit of a shade that has taken the slot since. What each step of a plan
  means for the steps behind it is in `PlanOK` and `ClearedOK`; the lemmas of
  plans (`Retire`, `Resync`, `Announcement`) say what a handler has still to do
  after any of its steps. The invariant was checked by TLC with three slots and
  three namespaces before it was proved; with three slots it also showed that
  `BitOutlivesEntity` as first stated was false: a restart goes back to the bits
  that were written, so the property is now of the time between restarts. The
  theorems suppose a device that was provisioned with distinct addresses, no more
  than it has slots for (`TableAssumption`);
  the decoder of the shade record refuses any other table.
- `ControllerProofs`, of plans: `OneMovementSafety`, `RefusalsWhole`. Every operation of a
  shade yields either a movement for the table or an armed stop and never both
  (`OnePlan`, one lemma for each operation); with it the table and the shades
  never plan twice for one shade (`OnePlanEach`), a group's members are there
  (`MembersThere`), and a group command, whose fan-out is a recursive function
  over its members, is shown by the least member at which it would fail.
- `ControllerProofs`, of types: `ControllerTypes`. That every position stays between
  the limits and every wait within a traverse is arithmetic of products and
  quotients of `Motion`, proved in lemmas of their own (`CoveredPosition`,
  `AdvancedMotion`). A shade keeps its bands narrower than its travel times
  (`SoundShade`), without which a vent could wait longer than a traverse; each
  operation then yields a sound shade, a frame at most and a movement of the table
  (`Yields`).
- `ControllerProofs`, of where estimates go: `EstimatesFollow`, `ClockContinues`. An
  estimate that moves goes the way of the last frame, or its motor was stopped and it
  coasts: no more than the start lag remains, and the position as last advanced is
  not ahead of what the clock now makes of it (`Coasting`). The second half is what
  makes it inductive, since what remains is reckoned from that position. What the clock will send is told by
  what was sent before: an armed stop follows an Up or a Down, slats part after a
  Down, their stop follows an Up, and an anchored seek turns at the limit it was
  sent to (`Begun`); a shade whose slats part is thought to rest (`Held`). Neither
  property is a theorem of the whole specification, because the code has three ways
  of parting the estimate from its motor, and the theorems suppose that these do not
  happen, each only what it needs: a command is refused after its shade has acted on
  it (`NothingDropped`, both), a shade is reconfigured in the last lag of a run it
  was stopped in (`NoneEditedCoasting`, the first), and an id is given again while a
  movement of its last shade is in the table (`NoneReplaced`, the second). Without
  any one of them TLC finds a trace on an instance of two shades; in the run `shade`
  all three hold, since its one shade always fits the table and is never edited.
  Edits at any other moment are covered, and both invariants were checked by TLC with
  two shades, edits and removals before they were proved.
- `PartsProofs`, of the limit: `LimiterSafety`, `RateBound`, `RetryAdmitted`. In a
  window that began at second w, the schedule of a shade admitted k times since
  is at least w + k * REFILL, and never above now + BURST * REFILL; the two
  bounds together are the rate. Both hold while the clock is far enough from
  `u32::MAX` seconds, which is what `Unsaturated` in the property says.
- `PartsProofs`, of the form: `FormSafety`. Its promises are of moments at which the
  session has nothing left to do, so the invariant says at every other moment what
  is still to come that makes them true. An open form is on the broker, or its
  publication is in the plan, or an opening waits, and a close that waits has an
  opening behind it (`Held`, `Reopens`); of a closed one nothing is there, or its
  clearing is in the plan, or a close waits, or the broker is tidied after the next
  connection (`Left`); the row of the shade stood at is the draft, or an amendment
  waits or is being asked (`Stored`). A lost session empties the plan, so the first
  is said only of one that is past its resynchronization.
- `PartsProofs`, of the table: `TableSafety`, `BitsLeave`. Three places are compared:
  the registry, what a boot would make of flash, and the backup last imported. The
  invariant is one rule for a registry, each description within what a record can
  say, no two addresses alike, no list too long and the lists together within
  the pool (`SoundRegistry`); the same rule for what a record is read as
  (`SoundTable`), which holds of a table of any layout and any content that a boot
  finds, because one that breaks it is refused whole; and that flash is what the
  import wrote until something is edited (`FromBackup`). That a list of remotes comes
  back in its order is shown by where each remote stands in the packed record
  (`Spread`): the places of a row ascend, and picking them out again by row is the
  inverse of laying the rows end to end. The operators that pack and pick are
  functions (`Ascending`, `Kept`, `Packed`) and no folds, so that this can be said.
- `ChannelsProofs`, of the seam: `SeamSafety`. While a caller is in the exchange it alone holds the
  permit and both signals hold nothing but its call (`Paired`); that no call is
  raised before it begins (`NoneEarly`) and none of the queue's has been raised
  (`NotYet`) make it inductive, since a request left behind by a caller that gave
  up may still be served.
- `ChannelsProofs`, of reconnection: `UplinkSafety`, `BacksOff`. The delay a `Backoff` stands at is
  what one more failure will cost (`DelayOK`), and what is left of a wait with the
  time since the last attempt makes up what the failures so far cost (`LinkOK`,
  `SessionOK`, `TimeOK`, `NameOK`, one for each loop, since each waits in its own
  way); so no loop attempts before it has paid, which is the action property.
- `ChannelsProofs`, of the repeats of a press: `DedupeSafety`. Every pair in the
  map is there with the time it was last let through (`Remembered`), and a pair
  that was let through and is in the map no longer has been crowded out by as
  many others since as the map has places (`CrowdedOut`), since what is thrown
  out is the oldest. Both speak of all frames heard, so a second event of one
  press is excused whenever it comes. The theorem supposes `WithinAWrap`: the
  map forgets nothing by itself, so a pair that it has held for the 49 days in
  which the millisecond clock comes round would be taken for a fresh one.
- `ChannelsProofs`, of the radio task: `RadioSafety`. Whatever is keyed is keyed for
  a request (`Keying`), which makes `NeverDeaf` inductive; and a decoder is between
  frames or short of the end of one after any number of pulses of any lengths
  (`PumpTypes`). The pump is a recursive function, so that it is defined at all is
  shown by the least number of pulses for which it would not be (`PumpExists`), and
  what it computes by the least one at which it would differ. `FirstIsHeard` needs to
  follow a frame through the air. Whatever state a decoder is in, the wakeup
  leaves it between frames with nothing counted (`Hearers`). From there on what
  the decoder is after each merged pulse (`Feels`) is set against where in the rendered
  frame that pulse ends (`Standing`): the syncs are counted up to the limit
  (`Counted`), which gives the width away; then each pair of halves adds
  its bit (`Has`), whether or not the halves of neighbours were merged; and the
  last one ends in the silence or in the end marker, which is split off or put back
  before it is fed. All of it is shown for any receiver's clock from 80 to 120
  hundredths of the sender's, and for repeats too when the decoder begins afresh
  (`MeasuredIsHeard`). Of the frames the theorem supposes only that they are bits of
  either width (`RadioAssumption`).
- `ChannelsProofs`, of a frame's trip: `TripSafety`, at the real widths, for every
  command, key, code, address, repeat and clock. Of the air it needs, beside
  `MeasuredIsHeard`, that a frame fits the peripheral, or it is not sent: of the
  rendered pulses no three in a row are of one level and no two outlast an entry
  (`RenderIsBrief`), so a segment joins two at the most (`JoinedSoFar`) and there are
  no more symbols than places (`FrameFits`). Of the bytes it needs their
  arithmetic. `RtsFrame` has no operator of the library's for the exclusive or,
  which is recursive there, but the eight bits themselves; that it is undone by
  doing it again, in any order, is shown bit by bit (`XorTwice`, `XorSwap`). Then
  a checksum in the low nibble makes the sum nought (`SummingBalances`), the
  obfuscation is undone (`SealOpens`), and the tail of a command makes its value of
  the nibble in the head again, whatever the repeat (`TailTells`).
- `ResetProofs`, of an update: `UpdateSafety`. A proved slot holds a whole image and a settled
  record, and there always is one (`Proven`); a selected slot that is not proved
  has a record that sends boot to a self-test or back (`Doubted`), so no unproved
  image is left running by itself (`Answered`). The resets are paid for in
  advance, by the attempt of a power-on, the self-test under way and the
  unconfirmed records (`Owing`). The first three hold as long as no failure is
  `excused` and no upload overlaps a self-test, which is what the property says.
- `ResetProofs`, of the log: `LogSafety`. While a line is written the ring holds
  a part of it, under a checksum of the header as it was before: fewer lines were
  dropped then, or as many and fewer characters held (`Stale`). A ring that checks
  out is therefore at rest, and a ring at rest holds the last of all that was
  logged, from the start of a line (`Told`, `Resting`). An eviction takes one line
  that ends, because no line is as long as the ring; without that assumption a
  ring could begin in the middle of its only line. Of the panic record, each store
  keeps what those before it left (`Stage`), so it is whole when signed.

- `UpkeepProofs`, of the trial: `TrialSafety`, `HalvesMoveApart`. The ring of
  configuration records stays in order through every save, failed or cut
  (`RingInOrder`), so what is loaded afterwards is what was loaded or what was
  saved; the candidate on trial is on the air (`OnTrial`), a confirmation on its
  way came over the network the station is on (`CameThrough`), and there is one
  thing at a time: a request, a trial on its way to the radio, or a trial on it
  and perhaps its save (`OneAtATime`). The last fails when a second candidate is
  let in (`doubled`), as the property does.
- `UpkeepProofs`, of the backup: `RestoreSafety`, `EntitiesRemembered`. The
  invariant follows a code through the file. The walk of the export sends every
  shade in its place, and the places stay while nobody edits (`Walking`, which
  counts the shades before each); so the file holds codes no lower than they
  were (`FileKeeps`), and a shade that was restored had a code of its own, has
  one as high, or has none and a seed as high (`Resuming`). The two records
  differ only while a staged file that can be read waits to be applied again
  (`Together`).

The assumptions are about sizes: that the ring has two sectors and a counter of
more than twice its slots (`RingAssumption`), that widths, places, deadlines and
limits are numbers, and those that divide or begin a count not zero; and that what
stands for nothing is none of the things it is told from. The firmware
asserts the first when it builds the region, and the others are constants of it.
Of what a boot finds in flash and of a backup `ProvisionAssumption` says only which
type each field has, none of them that a value is in range; of the addresses a
controller gives, that they stop short of what no remote can have, which the range
of a base is chosen for.

Only model-checked, and why:

- every liveness property, which needs ENABLED.

Every invariant that a passing run checks is stated by a theorem.

## 5. Divergences

Where the code departs from what a comment, a document or a test of it says. The
first two have a run of their own; each of the others is stated in its module as
the property in front of it, marked `(Violated.)`, and can be put into a
configuration to see the trace.

- `StopHalts` (run `shade_stop`): "a stop halts whatever is in flight"
  (shade.rs). A stop pressed while a vent separates is not sent, and ends the
  movement whose stop was due: the motor runs on to fully open.
- `GroupKeepsItsShades` (run `estate_rows`): groups name rows of the shade
  record. A removal moves the rows below it up and rewrites that record alone;
  after a restart the group commands another shade.
- `NoPartialFanOut`: "no partial fan-out" (controller.rs). When the table of
  movements fills in the middle of a group command, the frames of all members
  are dropped but the first members keep their movement, and the clock later
  sends its next leg to shades that were never sent the first.
- `StopStillAhead`: a reconfiguration keeps a move "honest"
  (shade.rs:589-590). One whose own tick reaches the target swallows the
  arrival, and the armed stop is never sent.
- `NewShadeAtRest`: a shade added to the slot of one removed part-way through a
  movement inherits that movement (controller.rs:134 against 458-466).
- `AddNeverReplants`: with damage a missing code is refused (seed.rs:35-38). An
  added shade is seeded as if the region were intact (tasks.rs:1195-1203): a
  lost higher code of its address is replaced by the first one.
- `AnnouncementRecovers`: an event dropped from a full queue is recovered by the
  next full announcement (edits.rs:62-68). The session announces from its own
  copy of the list, which only events change (tasks.rs:1489-1500).
- `OrphanIsFound`: a removal that is written names its orphan, which the next
  boot finds (catalog.rs:17-35). An entity announced and not yet acknowledged in
  flash is removed without its name being written anywhere (200-212).
- `DeadlineReverts`: after a write that failed, the confirmation deadline reverts
  the device (routes.rs:867-871). The confirmation has already ended the wait for
  that deadline (trial.rs:324-331): the candidate stays on the radio.
- A second candidate is let in while the first waits out its settle delay, when
  the slot holds neither a request nor a trial; the radio can then be left on a
  credential that no trial undoes. `NeverStranded` excepts it (`doubled`).
- `ComesBack`: an image that fails its self-test comes back on its own
  (upload.rs:560-565). An upload begun during a self-test clears the count of
  attempts, and a self-test that passes marks whatever otadata selects by then:
  an untested image can settle. `UntestedNeverSettles` excepts it (`overlapped`).
- `ExportIsSnapshot`: the file is a snapshot of the table as the download
  started (restore.rs:817-829). The records are pinned, but the codes are not:
  they are counted in the first chunk and found by their place in each chunk, so
  an edit in between shifts them and leaves a shade of the file without its code.
- `MigratedTimesAreSupplied`: a time a person typed on the old device counts as
  supplied by the operator (types.rs:302-303). The import leaves every source at
  the factory default (import.rs:1148-1150).
- `RepeatIsHeard`: whatever a truncated burst leaves, the next opens with a
  preamble that resynchronises (somfy-rmt source.rs:48-54). A burst cut inside its preamble leaves
  its sync pulses counted, those of a repeat add to them, and the width of the
  frame is guessed from their number (rx.rs:138). `FirstIsHeard` shows that it
  is true of the first frame of a press.
- `DeletesOnlyItsOwn`: the form removes a shade it made. When that shade is
  removed and another takes its slot before the form's effect is carried out, it
  removes the other. It takes two changes from elsewhere (`MaxVisits` = 2).
- `ConfirmedIsKept`: likewise a shade that an operator confirmed on the web page
  meanwhile (flow.rs:671-682).
- `FormOnlyWhileRunning`: the form's entities exist while a setup runs. An opening
  that is carried out late, after its setup was over, leaves them
  (mqtt.rs:1579-1582).
- `UnusableIsSaid`: a value the form cannot use leaves the draft alone and says so
  in `Next step` (flow.rs:599-601). Only a name too long does: an unknown kind and
  times that do not parse leave the message as it was (623-649).
- `PanicIsGenuine`: a panic record that a reset interrupted is discarded
  (diag.rs:46-54). `boot` ages any record that has the magic number and takes its
  checksum anew without having checked it (721-733): an interrupted record then
  checks out, and is shown.
- `OnlyASessionResets`: only a session that lasted resets the broker's wait
  (mqtt.rs:152-166). The time is taken from before the connect (963-978), and an
  attempt that nobody answers lasts until the socket's timeout (187), which is
  longer than a session has to be.
- `KissIsHeeded`: a Kiss-o'-Death takes the wait to its most (sntp.rs:318-322).
  The failure that follows doubles the wait as any other.

Three smaller things show in `Controller` and have no property of their own.
`SetMy` returns no movement and so ends the one its shade is part-way through,
where the comment calls it a pure state change. A command refused because the
table is full has already retargeted its shade and disarmed its stop, although
it is refused "rather than half-applied". And a `My` pressed in the start lag
after the early stop of a seek is a second `My` for a motor that has stopped,
which takes it as the recall of its own favourite.

## 6. Not modelled

Discovery payloads, state topics and JSON, the web API's parsing, origin check,
assets and event stream, and the texts of the form: formatting, which no property
here tells apart. Which of the payloads are retained, and for which shade, is
modelled. Byte offsets and checksums of the records (`somfy-store/record.rs`,
`somfy-config/record.rs`): a record is valid or damaged. The packets of NTP with
its eras, and of mDNS with its burst of announcements. The registers of the
CC1101 and of the RMT. `heap.rs` accounts for memory, and the browser
application and the build helper keep no state of the controller.

Within modelled parts: the deltas sent to web clients, a shade's tilt and
pairing buttons on the broker, the `known` topics of its state, renames of its
label, and the payload of a calibration. Motors that miss frames are modelled in
`TransmitPath` alone. The flash loses a completed record only in `SeedStore`.
Doubt is modelled as the code computes it and not compared with a physical
position. A checksum that matches by accident is not modelled.

## 7. Order of the work, and what is next

The order was that of what matters to a person whose shades these are: the code
store and its promise, seeding, the transmit path, the shade and its controller,
the limiter, the seam; then the table and the broker, what an operator does over
the network, the air, and the loops that keep the device reachable.

Next: `Motion` against exact rational motion; the deltas and the snapshot of the
web clients as a second copy of the registry, as `BrokerSession` is of the table.
