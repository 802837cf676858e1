# A TLA+ model of the Solaris Packet Protocol

This directory models the Solaris Packet Protocol (SPP), a packet framework for
small flight computers, in TLA+: the packet pool, the publish/subscribe bus with
its deferred queue, the bridge that turns log lines into packets, the service
registry, the sensor tasks and the superloop that drives them all, the drivers
of the motion sensor and of the barometer, the data logger, and the ESP32 port
below them. TLC checks the modules on small instances; TLAPS proves theorems
about them for every value of their constants.

## The system

SPP is single-threaded C for a microcontroller. The application boots the core,
registers its modules, and then runs a loop for ever:

    SPP_CORE_boot(&port);
    SPP_SERVICES_register(&g_icm20948Module, &icm);  ...
    for (;;) { SPP_SERVICES_callProducers(); SPP_SERVICES_callConsumers(); }

There are no threads and no locks. What is hard is elsewhere: GPIO interrupts
set flags between any two instructions; calls nest deeply (a publish on a full
queue logs, the log line is a packet that is published on the same full queue,
a synchronous subscriber of it may publish again); the packet pool, the queue,
the subscriber table and the registry are all of fixed size; callbacks fail half
way, as do transfers to a sensor and writes to a card; a processor restarts while
its sensors go on; progress through a packet is kept as an index into a table that may move.

| component | source | state | operations | talks to |
|---|---|---|---|---|
| databank | `services/databank` | stack of free packets, `freeCount`, `s_initialized` | init, getPacket, returnPacket, packetData | everybody that makes a packet |
| pubsub | `services/pubsub` | sorted table `s_subs`, ring `s_queue`/`s_head`/`s_tail`/`s_qCount`, `s_overflowCount` | init, subscribe, publish, callConsumers, overflowCount | calls handlers, the databank and the log |
| log | `services/log` | `s_level`, `s_outFn` | init, setLevel, setOutput, emit | calls the output callback |
| core | `core/core.c` | port pointer, `s_logBusy`, `s_logSeq` | boot, init, coreLogOutput | log -> core -> databank, pubsub |
| service registry | `services/service.c` | `s_registry`, `s_count` | register, callProducers, callConsumers | module callbacks, pubsub, log |
| icm20948 | `services/icm20948` | DRDY flag, sequence number, `dataReady`, selected bank; in the device FIFO and DMP memory | init, start, produce | SPI, interrupt, databank, pubsub |
| bmp390 | `services/bmp390` | DRDY flag, sequence number, static calibration and raw values | init, waitDrdy, produce, getAltitude | SPI, clock, interrupt, databank, pubsub |
| datalogger | `services/datalogger` | file, `is_open`, `logged_packets` | init, onPacket, flush, deinit | storage, pubsub, log |
| HAL dispatch | `hal` | pointer to the registered port | forwarders | the port |
| ESP32 port | `ports/hal/esp32` | `s_busInitialized`, `s_spiDevCount`, `s_spiHandles`, ISR table, `s_sdMounted` | SPI set-up and transfers, interrupts, clock, mount | hardware |
| packet, CRC, errors | `core/packet.h`, `util/crc.c`, `core/error.c` | last error | pure functions | - |
| kalman | `services/kalman` | matrices of an EKF | - | nothing: not built, not called |

What makes each part correct:

* databank: a packet is in the free stack or leased, never both, never twice in
  the stack; returnPacket accepts exactly the leased packets of the pool.
* pubsub: every packet is shown once to each matching subscriber, in order of
  publication and priority, and returned once; drops are counted; the ring and
  the table keep their shape across wrap-around, overflow and nested calls.
* core and log: a log line never recurses, and never silences the log for good.
* registry: a module whose callback fails leaves nothing behind; one that is
  registered is wired up.
* motion sensor: whatever transfer fails and whenever the processor restarts,
  registers are accessed in the selected bank, the sensor's own processor (the
  DMP) never runs without its firmware, and samples are neither left waiting
  unannounced, nor published twice, nor cut out of the FIFO across packets.
* barometer: a service that registered talks to a BMP390 that measures and
  interrupts; no reading uses coefficients that were not all read; a reading mixed
  from two samples is announced again; no reset value is delivered twice; waits
  are long enough and end, also when the clock wraps.
* port: a handle of the wrong device is noticed; a card is given back.
* datalogger: a power failure costs less than a flush period of records, the
  handler never touches a closed file, and the logger does not feed itself.
* tasks and interrupts: no data-ready edge is lost, no packet is lost on an
  error path, and every task and every packet gets its turn.

## Modules

| module | models | main correspondence |
|---|---|---|
| `Databank` | `databank.c` | `p_freePackets`, `freeCount`, `s_initialized`; actions `databankInit`, `getPacket`, `returnPacket`. `leased` is a history variable: handed out and not returned |
| `DatabankProofs` | | theorems about `Databank` |
| `DataLemmas` | | lemmas about numbers and sequences that the proofs share |
| `Log` | `log.c` | the level filter; only whether a callback is installed |
| `PubSub` | `pubsub.c`, `core.c` | extends both; see below |
| `Delivery` | the comment of `pubsub.h` | the abstract promise of the bus: sets of subscriptions, a queue of packets, who has seen what |
| `MCPubSub` | | instances of `PubSub` for TLC |
| `PubSubProofs` | | theorems about who owns a packet, the ring and the table |
| `DispatchProofs` | | theorems about how calls nest and who is served; `PubSub` implements `Delivery` |
| `Superloop` | `service.c`, the tasks of `bmp390.c` and `icm20948.c`, the interrupt | extends `PubSub` |
| `MCSuperloop` | | instances of `Superloop` |
| `SuperloopProofs` | | theorems about `Superloop` |
| `Icm20948Init` | `configDmpInit` and its helpers | the sequence of transfers as a constant: `configDmpInit`, one definition per phase |
| `Icm20948Device` | the motion sensor (external) | register bank, power and DMP bits, DMP memory, FIFO, interrupt cause; what a write, a read and the DMP do to them |
| `Icm20948` | `icm20948.c` | runs the sequence transfer by transfer, then `icm20948Task` and `checkFifoData` |
| `Icm20948Proofs` | | theorems about `Icm20948` and its start sequence |
| `HalEsp32` | SPI, pins and clock of `halEsp32.c` behind `dispatch.c` | forwarders `hal...`, port functions `esp...`; a handle is the index of its slot in `s_spiHandles` |
| `HalEsp32Storage` | the card, likewise | `s_sdMounted` (what the port believes) beside `vfsMounted` (what is) |
| `Bmp390Device` | the pressure sensor (external) | which configuration it has, data registers, the current sample, the factory coefficients |
| `Bmp390` | `bmp390.c` | extends `HalEsp32` and `Bmp390Device`; init as a sequence of transfers and delays, then the task, `waitDrdy` and `getAltitude` a register at a time |
| `MCBmp390` | | the coefficients of two sensors and the raw values of the samples |
| `Bmp390Proofs` | | theorems about `Bmp390` |
| `Datalogger` | `datalogger.c` | extends `HalEsp32Storage`; a step per fprintf group, flush, mount or unmount |
| `DataloggerProofs` | | theorems about `Datalogger` |

Calls are explicit in `PubSub`: the variable `stack` holds a frame per call in
progress (publish, log, callConsumers, a handler), innermost first, and a step
runs the innermost call to the next call it makes or to its return. So whatever
a nested call does between two statements of its caller is a behaviour of the
model. Frames of the superloop (`register`, the `init` and `start` callbacks it
runs, `task`, `reading`, `failed`) are added by `Superloop`, where the interrupt may
come between any two steps, so also between two log lines of a callback.
Handlers are application code: a handler logs or publishes what it likes, at
most `HandlerCalls` times per activation.

`Icm20948` stands beside these modules: `Superloop` has the task as one read
that ends with a sample or without, `Icm20948` has that read transfer by
transfer, with the device, and only the choice whether the sample gets a packet
of the pool. A transfer that fails may or may not have reached the device. A
failed start may be tried again; the processor may restart anywhere, and the
device keeps its state; `fifoRst`, the reset bit that holds the FIFO empty, is part of
it. `sent` (samples handed to publish), `cut` and `skipped` (a failed transfer has left
a packet torn, or samples behind) and `stuck` (a reset of the FIFO, whose result
`checkFifoData` ignores, has failed half way) are history variables.

`Bmp390` stands beside `Superloop` in the same way. Its clock is a pair: `start`,
what was last read, and `waited`, the time since, so that elapsed time is known
although the clock wraps. `from` (the samples whose bytes are in the reading) and
`stale` (readings of reset values since the registration) are history variables.

`Datalogger` sees of the bus a queue with one deferred subscriber, itself, whose
head stays in it until the call after the one that served it, which is what
`PubSub` does with such a subscriber. Its log lines come back through that queue.
`phase` says where the handler or init is. `unflushed` (records written since the last
successful flush), `lines` (log lines of this activation of the handler) and
`unmountFailed` are history variables; `calm` ends the calls of the application.

Array indices start at 1 in the subscriber table and the registry, at 0 in the
ring. `dispatched` (which handlers a packet was given to), `tried` (what was
registered once) and `unread` (data became ready and was not read) are history
variables; no guard of translated code reads the first and the last.

What a definition whose name ends in `_something` after a "Fault" comment says
is not what the code does: it is the plausible slip that shows the property it
is paired with to be able to fail.

## Abstractions and assumptions

* A payload, a CRC and the text of a log line are left out. A packet is its
  identity and its APID; an APID is a set of bits.
* `CounterMax` stands for 0xFFFF, where overflow counters saturate, and
  `SeqMod` for 2^16. `MaxSubscribers`, `QueueSize`, `DatabankSize`,
  `MaxServices` are the constants of `util/macros.h`; the queue size is a power
  of two, as macros.h demands and the mask in pubsub.c needs.
* Pointers that are NULL make every function return an error at once; only
  `returnPacket` is modelled with them.
* Handlers do not call `callConsumers`, `subscribe` or `register` (the API
  does not forbid it, no code does it). `LateSpec` adds subscribing from the
  loop, `RebootSpec` booting again.
* A handler subscribes once, a module is registered once.
* The DMP memory is scaled: an image of 7 bytes over three memory banks of four
  cells, loaded from cell 2, so that the load starts inside a bank and crosses
  two boundaries as the real one (from 0x90, in banks of 256) does. All parameters
  are two cells: the output switch, below the image, and one the image covers.
  `dmpWrite16` and `dmpWrite32` are one step each, which may stop after any of
  three transfers (bank, address, data).
* Of the sensor it is assumed that a reset leaves it asleep and empty, that its
  memory takes no write while it sleeps or LP_EN is set (the comment at
  `icm20948.c:422`), that the DMP appends whole packets, and that a FIFO held in
  reset loses what is appended. A restart of the processor resets none of this.
* In `Superloop` the read of a sensor is one step that succeeds or fails, with up to
  two log lines for the motion sensor, and an init or start callback writes at most
  `CallbackLines` log lines, of level INFO or ERROR, in any step of its run.
* In `Bmp390`, `Byte` (4) stands for 256 and `TimeMod` (4) for 2^32; coefficients
  and raw values keep their number of bytes and their signs. Of the floating-point
  compensation only the powers that are computed in integers are kept. A loop reads the
  clock at least every `PollGap` units. A frame that a crossed handle sends to the
  motion sensor has no effect in the model beyond the chip id, which is where
  `configCheck` stops. After a failed write the delay is left out: init has
  already failed. The static calibration is shared by all instances; the port has
  a chip select for one BMP390, so there is one.
* The functions of a port may be NULL in general; those of the ports here are not.
* In `Datalogger`, `CounterMod` stands for 2^32 and `FlushEvery` for
  `K_FLUSH_EVERY`. There is one logger, as `datalogger.h` has it, and init
  is called when it is closed. Once an operation on the stream has failed, its
  error indicator stays set and any later write may report failure; `BoundedLoss`
  promises nothing from then on. A log line may find the pool empty and vanish.

## Runs

Passing:

| run | shows |
|---|---|
| `databank` | pool of 5 packets, NULL and foreign pointers, every order of calls: types, `Partition`, `Conservation`, `ReturnGuardExact` |
| `pubsub` | pool 4, ring 2, table 2 with three modules that want to subscribe, counters that saturate at 1: `RingConsistent`, `SubsSorted`, `HandlerPacketLive`, `OwnedOnce`, `LogGuard`, `StackBounded`, `NoSilentDrop`, and that `PubSub` implements `Delivery` (`ImplementsDelivery`) |
| `superloop` | pool 2 and ring 2, so that a task may find the pool empty: two sensors, a SYNC consumer and the SD logger, three registry entries for four modules, callbacks of up to two log lines that may fail: `AllAccounted`, `EdgeKept`, `OnlyRegisteredSubscribed`, and, with a processor that keeps running, `FlagServed`, `PacketRetired`, `CallsReturn` |
| `icm` | the motion sensor with packets of 4 bytes, a reset threshold of 10 and five samples: `BankRight`, `DmpHasFirmware`, `StartedDelivers`, `NoLostWakeup`, `SentOnce`, `FramedUnlessCut` |
| `bmp390` | three slots, devices set up in any order, two possible sensors, three samples, a wait of 2 and delays of 1 on a clock modulo 4: `StartedMeasures`, `Calibrated`, `WholeOrFlagged`, `StaleOnce`, `WaitsInFull`, `CallsEnd` |
| `datalogger` | flush every 4, a counter modulo 10, a queue of 3, a card that stops and starts to work at any time: `BoundedLoss`, `OpenOnCard`, `ReleasedCard`, `FeedbackBounded`, `StormEnds` |

Violated, each a statement of the repository that the code does not keep:

| run | statement | what happens |
|---|---|---|
| `pubsub_late` | "Dispatch the next pending deferred subscriber" (`pubsub.h:119`) | a subscription made while the head packet is half served shifts the table under `nextSubIdx`; a subscriber gets the packet twice |
| `pubsub_reboot` | init is "Safe to call multiple times" (`pubsub.h:77`) | packets that wait in the ring never return to the pool |
| `pubsub_cumulative` | "Cumulative number of dropped packets" (`pubsub.h:138`) | counters saturate, their 16-bit sum wraps |
| `superloop_table` | "Registration automatically wires up pub/sub subscriptions" (`service.h:10`) | the error of a full subscriber table is discarded |
| `icm_framing` | "fifoBuffer[0..23]: DMP packet" (`icm20948.c:1406`) | after a transfer that fails inside a packet the next task parses 24 bytes that begin in the middle of one, and goes on so until the FIFO is drained or reset |
| `bmp390_powers` | the service "reads raw ADC data over SPI, compensates it" (`bmp390/README.md:3`) | the square and the cube of the 24-bit raw pressure are computed in 32 bits and wrap before they become floats |

`log/README.md:65` also says that a nested log call is dropped. The guard covers
only the publication of a line: what a deferred subscriber logs is published, also
when it was handed a log line. `FeedbackBounded` and `StormEnds` show that the one
subscriber which logs, the data logger, cannot flood the bus that way.

Why the bounds suffice. In `pubsub` four packets allow two in the ring, one in
publication and one log line about it, the deepest nesting two publishers reach on a
full ring; with one packet less a drop could not log. A ring of two wraps and has the
states empty, partly filled and full. Three subscriptions give one of each kind the
code tells apart: SYNC, a deferred one with a filter, a deferred one for everything; a
table of two is too small for them. One API call per activation of a handler is enough
to nest without end were it not for the pool. In `superloop` two packets are few enough
for a task to find none left; drops on a full ring are the matter of `pubsub`, where
`StackBounded` bounds the chain of a drop, its log line, the publication of that line and
the next drop: with two packets, as `superloop` has, that chain cannot form, so
`CallsReturn` speaks of the other chains. The lines of one registration, up to five,
fill ring and pool, so a callback that logs more meets nothing new. Two
sensors differ in when they take their packet. Priorities between HIGH and LOW are
alike to the code, and so are levels between WARN and VERBOSE.

In `icm` five samples of four bytes give every case of the FIFO: empty, one
packet, two (several packets in one task), three (over the threshold, so that
the FIFO is reset), and samples after a reset or a torn packet. Failures, retries
and restarts are not bounded.

In `bmp390` three samples let a reading of six transfers mix all of them, and leave
one for after it. The third slot is the one no chip select exists for. The clock
wraps at 4, so that every wait starts before every possible wrap; PollGap 1 still
lets a loop read the clock late. One sensor has all bits of its coefficients set, so
that every signed one is -1, the other a different value in neighbouring registers,
so that a coefficient put together from the wrong ones shows. In `datalogger` the
flush period does not divide the counter's range, and a queue of three
holds the head, a packet and the lines about them, or is full.

Deadlock is checked in every run: some call is always possible.

`FreeDistinct` (no packet is twice in the free stack) is not a property of a run: it
follows from `Partition` and `Conservation` and is proved with them.

## Fairness

`SysSpec` assumes `WF_sysVars(ThreadNext)`: the processor keeps executing the
program outside interrupts. Interrupts get none. Nothing is assumed about the
choice between calls: there is one thread, and where the model has a choice (a
callback succeeds or fails, a handler logs or returns) either outcome may recur
for ever. A handler makes at most `HandlerCalls` calls and returns, which is what
keeps an activation finite. An interrupt that interrupts at every step could
starve a real processor; weak fairness of `ThreadNext` excludes that.

`BmpSpec` assumes `WF_bmpVars(DriverStep)`, the processor runs the driver's loops, and
`WF_bmpVars(clockTick)`, the clock goes on; samples, restarts and the application
get none. `DlSpec` assumes `WF_dlVars(LoopStep)`: the superloop calls callConsumers for
ever and the handler runs on. Nothing forces the card to work, or the application to
stop publishing: `StormEnds` speaks of what happens once both are so.

## Proofs

TLAPS proves every safety invariant and every safety action property of the passing
runs, and the refinement of `Delivery`, for all values of the constants.

| module | theorems, with the property of a run each proves |
|---|---|
| `DatabankProofs` | `BankInvariant`, `PoolTyped` (`BankTypeOK`), `PoolPartition` (`Partition`), `PoolConservation` (`Conservation`), `ReturnExact` (`ReturnGuardExact`) |
| `PubSubProofs` | `BusTyped` (`TypeOK`), `RingSound` (`RingConsistent`), `EveryPacketOwnedOnce` (`OwnedOnce`), `TableSorted` (`SubsSorted`) |
| `DispatchProofs` | `LogNeverRecurses` (`LogGuard`), `HandlersReadLivePackets` (`HandlerPacketLive`), `NestingBounded` (`StackBounded`), `DropsAreCounted` (`NoSilentDrop`), `BusDelivers` (`ImplementsDelivery`) |
| `SuperloopProofs` | `LoopTyped` (`SysTypeOK`), `TasksLoseNoPacket` (`AllAccounted`), `NoEdgeLost` (`EdgeKept`), `RolledBackUnsubscribed` (`OnlyRegisteredSubscribed`) |
| `Bmp390Proofs` | `BmpTyped` (`BmpTypeOK`), `RegisteredMeasures` (`StartedMeasures`), `CompensationCalibrated` (`Calibrated`), `ReadingsWhole` (`WholeOrFlagged`), `ResetValuesOnce` (`StaleOnce`), `WaitsNotCutShort` (`WaitsInFull`) |
| `Icm20948Proofs` | `IcmSound`, `IcmTyped` (`IcmTypeOK`), `BankAlwaysRight` (`BankRight`), `FirmwareBeforeDmp` (`DmpHasFirmware`), `StartedSensorDelivers` (`StartedDelivers`), `NoSampleUnannounced` (`NoLostWakeup`), `PublishedOnce` (`SentOnce`), `PacketsWhole` (`FramedUnlessCut`) |
| `DataloggerProofs` | `CardInvariant`, `LoggerTyped` (`DlTypeOK`), `OpenFileOnCard` (`OpenOnCard`), `ClosedReleasesCard` (`ReleasedCard`), `LossBounded` (`BoundedLoss`), `OneLinePerPacket` (`FeedbackBounded`) |

`DataLemmas` holds what several of them need about numbers and sequences: the least
element of a set of naturals, cardinalities, the frames of a stack after a push and
a pop, division with remainder, the digits of a number, the time elapsed on a
clock that wraps. Each proof has one lemma per action, and a conjunct of the
invariant at a time below it.

Assumed are the named assumptions on the constants, no more. They say of what kind each
constant is, and a few things the code relies on: the ring's size is a power of two, a
priority is one of the four of `pubsub.h` (`PubSubAssumption`), NULL is not a packet,
an index or a device (`PointersAssumption`, `HalAssumption`), a packet of the DMP has an
even number of bytes (`DeviceAssumption`), delays and the wait are shorter than the
clock's range (`Bmp390Assumption`), the flush period is smaller than its counter's
range (`DataloggerAssumption`). TLC evaluates them in the runs.

### The pool

`BankInv` is the conjunction of `BankTypeOK`, `FreeDistinct`, `Partition` and
`Conservation`. None of the last three is inductive without the others: that a get takes
the packet out of the free set needs the stack to be distinct, that a return keeps
it distinct needs the double-return scan to see all of it, and that the stack never
overflows when a leased packet comes back needs the count of the leased ones.

### The bus

The invariants of the bus are stated over the stack of calls: `BusInv(F, W)` for
calls with a name in F and an owner in W. `PubSub` itself uses it with its five calls
(`CoreInv`), `Superloop` with its own added (`SysInv`), and the lemma of each operation
of the bus serves both. Its parts need each other:

* `OwnInv` says without counting that the owners of a packet, slots and calls, are
  all different. `OwnedOnce` alone is not inductive: that a return leaves the other
  packets owned once needs to know that no one else holds this one.
* `RingConsistent` is about the slots that hold a packet; `OwnInv` adds that they hold
  different ones, so that taking the head removes one packet and no other.
* `BankInv`, since a packet that is taken from the pool must have had no owner.
* `ResetInv`: before boot the bus is empty, so that boot, which empties the ring without
  returning its packets, loses nothing. `pubsub_reboot` shows that a second one would.

`DispatchProofs` adds two invariants. `NestInv` says how the calls nest: a handler runs
inside the publish of its packet or inside callConsumers for the head; callConsumers is
at the bottom; a publish that is dropping has found a full ring, and the ring stays
full while it does; there is one log frame exactly when `s_logBusy` is set.
`StackBounded` follows by counting: every publish is about a packet of its own, has at
most one handler right above it, and one log line is all there can be. `ServeInv` says
who has been called: for each publish, for the call of callConsumers and for each slot of
the ring, exactly the subscribers up to its index. It is inductive only with the
sorted table (`TableInv`), because the SYNC entries must come before the others, and
only while nobody subscribes once the loop runs, which `pubsub_late` shows.

`BusDelivers` is a refinement proof: the initial states agree (`InitRefines`), and every
step is of one of a few kinds (`StepKinds`), a packet that arrives, a SYNC or a deferred
subscriber served, a packet accepted, refused or released, a subscription, a boot, or a
step inside a call. Each kind is mapped to its step of `Delivery`, the last to a stutter.

### The superloop

`SysInv` puts at most one call of the loop at the bottom of the stack (`LoopStack`), with
what its progress has established: up to its subscription a module that is being
registered, or whose callback runs (`Registers`), has none, so that a rollback leaves
nothing behind. `EdgeInv` says that edges
come only once the interrupt is attached, after init has cleared the flag; `EdgeKept`
needs it, for otherwise registration could clear the flag of an unread sample.

### The barometer

`BmpInv` follows init by what is over (`StartInv`) and the calibration register by
register (`CalibInv`): the bytes received are the first of the sensor's, and `s_inited`
covers both sets of parameters. `WholeInv` says in the middle of a reading that the
interrupt has set the flag or all that was read is of the present sample; that three
bytes put together are the raw value again is the lemma `Digits`, for every size of a byte.
`StaleInv` follows the one reading of reset values that may come. `WaitsInFull` rests on
the lemma `Elapsed`: the difference of two readings of the clock modulo its range.

### The motion sensor

The configuration is a program of transfers whose length depends on the image. What
the driver may rely on before each of them (the bank; after the reset also power, control
bits, output switch and whether the firmware is in) is computed from the program alone
(`After`), and `Allowed` is what makes a transfer right. `Runs` says that a part of the
program is allowed throughout and what it ends with; there is one lemma for each phase
of `configDmpInit`, joined by `RunsOn` into `ConfigRuns`. `IcmInv` then says that the
device is as known at the next transfer (`KnownInv`). A FIFO that is held in
reset is empty (`HeldInv`), and the program ends by releasing it (`Releases`), so that
after a start only a reset in progress, or one that failed since, holds it. `LoadInv` is the load of the image,
byte by byte and bank by bank. `StreamInv` is what carries the reading: the packet being
read and the FIFO are a contiguous piece of the stream of bytes that the DMP has made.
`SentInv`, `AlignedInv` and `AnnouncedInv` speak of positions in that stream: what was
published lies before it, it begins with a packet unless a transfer has cut one, and
outside of what a burst will still read a whole packet has been announced.

Where an argument goes by induction along the program, the proof takes the least
counterexample instead: the library's induction theorems cannot be instantiated here, the
existence of least elements can be.

### The logger

`CardInv` says for every phase who holds the card. `OpenOnCard` alone is not
inductive: it needs that the handler runs only for an open file and that init waits for
fopen on a mounted card without one. `LossInv` bounds the unflushed records by the
remainder of `logged_packets`, because that is what the next flush depends on. A
wrap of the counter only makes a flush come early (`Wraps`, `ModOfZero`), so the
period need not divide the range. `ModStep` and `ModTop`, on how a remainder grows, are
proved from division with a remainder.

### What is only model-checked

Liveness: `FlagServed`, `PacketRetired`, `CallsReturn`, `CallsEnd` and `StormEnds`. They
rest on weak fairness, hence on ENABLED, which the prover does not reason about. The
six statements that are violated have their counterexamples from TLC.

## Not modelled

* `kalman.c`: floating-point code that nothing calls and CMake does not build.
* The stub port: constants for host tests.
* The text of a record in the log file. A write that fails inside a record leaves its
  line open and the next record goes on in it; nothing in the repository reads
  the file back.
* The compensation of the barometer to pressure and altitude, in floats.
* Two loggers on the one mount flag of the port, and init of an open logger: in
  both the card can be unmounted under an open file. The hazard list names them.
* The conversions of `icm20948.c` to g and quaternion, and the numbers it writes
  as rates, scales and matrices. What the device does with the parameters that
  are written with LP_EN set (`icm20948.c:1304-1325`) is not in the repository;
  `StartedDelivers` holds because they repeat earlier ones.
* A FIFO of the motion sensor that overflows because the loop comes round too late:
  what the device drops then is not in the repository. The model's sensor stops at
  `MaxSamples`; what waits beyond the threshold makes the next read reset the FIFO.
* `error.c`, `crc.c`: pure functions; nothing in the repository checks the CRC that
  is stored in a packet.
* `stop` and `deinit` of a module through the registry: no code calls them. The
  logger's own `deinit` is an action of `Datalogger`.
* The DMP image, `dmpImage.h`: the vendor's firmware as data.

## Plan

1. (done) `Databank`, `Log`, `PubSub`, `Delivery`, `Superloop`, `Icm20948`, and
   the proofs about the pool.
2. (done) The port (`HalEsp32`, `HalEsp32Storage`), the barometer (`Bmp390`), the
   logger (`Datalogger`) and its proofs.
3. (done) Proofs of all safety properties of the runs and of the refinement of
   `Delivery`.
4. Next proofs: what holds of a port whose card fails, as theorems of
   `HalEsp32Storage` of its own; that a sorted insertion keeps the order of equal
   priorities, so that subscribers of one priority are called in the order they came;
   that a deferred subscriber that subscribes before the loop misses no later packet.
5. The CRC against its bitwise definition, by TLC.
