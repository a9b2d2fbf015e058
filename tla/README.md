# Verification of the embedded software qualification harness

This directory models the controller firmware (`src/`, `include/`, `firmware/`)
and the host qualification tools (`tools/`, `scripts/verify.sh`) in TLA+. TLC
checks the models on small instances; TLAPS proves the central properties for
all values of the constants. Line numbers below refer to the files of the
repository.

## 1. The system

| Component | State | Operations | Modules |
|---|---|---|---|
| Frame queue (`src/queue.c`) | eight slots, `head`, `tail`, `count` | init, push, pop | `FrameQueue`, abstract: `FrameFifo` |
| Periodic clock (`src/controller.c:190-201`) | `elapsed_ms`, three release counters, two 8-bit countdowns | counting half of `tick`, reset by `init` | `PeriodCounters` |
| Controller (`src/controller.c`) | mode, fault bitmap, self-test and heartbeat flags, last heartbeat time, last command sequence, setpoint, counters, SPI registers, telemetry sequence, queue, clock | init, self-test, heartbeat, setpoint, latch fault, recover, tick, receive, SPI write, telemetry | `Controller`, `TelemetryLink`, abstract: `ControllerModes` |
| Configuration (`src/config.c`) | none | default, validity test | in `Controller`, `Firmware` |
| Frame codec and CRC (`src/frame.c`, `src/crc.c`) | none | encode, decode, wire size, CRC-16 | `Ports`, `FrameCodec`, `FrameLink` |
| Firmware image (`firmware/`) | program counter around one static controller | reset handler, boot, self-test, loop, exceptions | `Firmware` |
| Reconciliation (`tools/qualification.py`) | local variables of a run, four files | load, reconcile, report, check traceability | `Reconciliation`, `Loading`, `Qualification` |
| Command lines (`tools/qualification_runner.py`, `tools/traceability_check.py`) | none | refuse or hand on options | `Qualification` |
| `scripts/verify.sh`, CI | captured results, exit status | build, capture, run the tools in order | `Verification` (`verify_host` only) |
| Linker script, toolchain, CMake, C and Python tests, requirement data, documents | | | not modelled (section 8) |

**Interaction.** The controller owns its queue, clock and configuration and
calls them directly. All C code is sequential: there is no thread and no
interrupt handler, so a public function is one atomic step and the whole
concurrency is the order in which the environment calls. The codec does not
touch the controller; the application hands decoded frames to
`esqh_controller_receive` and takes them back with `esqh_queue_pop`. The
firmware calls init once, the self-test once and then `tick` for ever; it sends
the controller no heartbeat. On the host, `verify.sh` captures the JSON output
of the C test executable, lets `qualification_runner.py` judge it and, on
success, runs `traceability_check.py` on the same documents. These tools
communicate through files, and there the steps of other processes, crashes and
stale files matter.

**What is hard.** Sequences of legal calls, rather than single calls: which
evidence is still valid after a recovery, what a fault does in each mode, when
the last sequence number is gone. Arithmetic at its edges: the 32-bit watchdog
difference, 8-bit countdowns, 16-bit sequences, ring indices. Damaged messages.
Records whose counters wrap and get lost. Files read twice, reports written in
two steps, results and reports left by an earlier invocation. The list, line by line, is
`hazards` in `PROJECT.json`.

## 2. Modules and how they correspond to the code

Variables carry the names of the C fields or Python variables wherever they
stand for one. Calls that the code refuses without changing anything (NULL
arguments, a refused recovery, `esqh_spi_read`) are stuttering steps.

* `FrameFifo` is the promise: a bounded first-in first-out buffer with `Put`,
  `Take` and `Clear`. `FrameQueue` is `queue.c`: `QueueInit`, `Push` and `Pop`
  are the three functions; `delivered` is the frame copied to the caller.
  `Contents` reads the ring from `head`; under this mapping `FrameQueue`
  implements `FrameFifo`.
* `PeriodCounters` is the clock with the widths of its counters as constants.
  `Advance` is `controller.c:190-201`, `Start` the clock fields of init.
* `Controller` instantiates both and has one action for each public function.
  The fault bitmap is the set of the names of its bits; `UNNAMED` stands for
  all bits without a name, which the code treats alike (non-recoverable).
  `modeVars`, `armVars` and so on group the fields for `UNCHANGED`. `Latch`
  is the body of `esqh_controller_latch_fault`, which six other functions call
  in their own step. `Ports` holds the interface numbers, the payload limits
  and `Admits`, the test `esqh_controller_receive` makes on a frame.
* `ControllerModes` is the transition table of `docs/SSDD.md:57-74` as the code
  means it: four modes and two conditions, no time, no bitmap.
* `ControllerProperties` states what must hold of `Controller`.
  `ControllerHistory` adds history variables that restrict nothing: the number
  of ticks of silence (counted to 2^32 and not modulo it), frames drained and
  register writes accepted, the evidence for operation since the last recovery,
  the frames refused and the faults these refusals should have latched. They let
  a property compare the program's wrapped arithmetic and its flags with what
  really happened. `TelemetryLink` does the same for a receiver of
  telemetry: `RecordArrives` and `RecordIsLost` are both
  `esqh_controller_telemetry`, and `since` and `lost` count what the receiver
  can only reckon from the records. The receiver is not part of the repository;
  it is told of initialisations, which no record shows.
* `Firmware` puts `startup.c` and `firmware_main` around the controller.
  `HardwareReset` may happen in any state and leaves RAM as it is, so that
  `ResetHandler` must really clear it; `Exception` is `Default_Handler`.
* `FrameCodec` is encoding, decoding and CRC on sequences of bytes, statuses in
  the order the C code tests them. The CRC register is the set of its one bits;
  `ShiftCrc` is one turn of the inner loop, `ShiftEight` the whole of it. The
  outer loop is a recursive function that halves a span of bytes instead of walking
  it, so that evaluating it does not nest as deep as a message is long; that it
  does what the loop does is proved (`CrcOfRun`).
  `FrameLink` sends a frame over a line that flips bits, cuts or appends a byte,
  to a receiver that may decode for any interface. `IsFrame` says what a C frame
  can hold: fields of 16 bits and as many payload bytes as `payload_length` says.
* `Reconciliation` is the computing part of `qualification.py` as operators on
  sets of records, the two reports included; `Rendered` is what the Markdown
  shows of a report. `Loading` is the way there: a JSON document is a record of
  the keys that are present, and `RequirementsIssues`, `ProceduresIssues` and
  `ResultsIssues` are what the three loaders refuse, with every alternative key,
  every spelling of a method or status, and the order of the checks (`a ?? b`
  keeps a check from being made where an earlier one failed).
* `Qualification` is `run_qualification` and `check_traceability` as processes:
  one action for each file operation, `Kill` between any two, `Edit` by another
  program at any time, `Crash` where an exception escapes. What a run reads for
  the second time is read from the file again, as the code does.
  `QualificationRunner` is the command line in front of it. The input files and
  the two reports survive a process; so do `report` and `c_document`, which
  tests and properties get as return value and argument.
* `Verification` is `verify_host` around these processes, with `set -e` as
  `Fails`, over any number of invocations. The file of captured results survives
  an invocation. Preparation, build and tests are one action that may fail.
* Modules whose names begin with `MC` give TLC its inputs. Modules ending in
  `Proofs` hold theorems: `FrameQueueProofs`, `PeriodCountersProofs`,
  `ControllerProofs` and `FrameLinkProofs` about the module of that name,
  `CrcProofs` about the checksum in `FrameCodec`, `ControllerUsersProofs` about
  the three modules around the controller (`ControllerHistory`, `TelemetryLink`
  and `Firmware`), `QualificationProofs` about everything from `Reconciliation` to
  `Verification`. `NumberLemmas` has what they share: remainders, for counters
  that wrap, and induction, for loops.

Each module keeps, just before the definitions, a few *defective variants*: a
missing wrap, a forgotten check, a comparison off by one. No action uses them.
Putting one in the place of the right definition must make a property fail;
`mutants` in `PROJECT.json` lists which variant breaks which property.

## 3. What the runs check

| Run | Configuration | Question |
|---|---|---|
| `ring` | `FrameQueue.cfg` | Do `head`, `tail` and `count` agree through wraps and resets, and is every frame delivered once, in order? |
| `clock` | `PeriodCounters.cfg` | Is a release ever lost, doubled or out of phase, also when counters wrap? |
| `commands` | `Commands.cfg` | Can any order of calls contradict modes, faults, arming flags, sequence numbers and setpoint? |
| `reception` | `Reception.cfg` | Are frames admitted, refused, counted, stored and drained consistently, also across a reinitialisation? |
| `watchdog` | `Watchdog.cfg` | Does the watchdog trip exactly past its timeout, and does silence always end in SAFE? |
| `telemetry` | `Telemetry.cfg` | Can a receiver that misses records still tell what happened between two that it got? |
| `firmware` | `Firmware.cfg` | What does the image as shipped do: INIT for 100 ticks, SAFE from tick 101, after any reset? |
| `codec` | `Codec.cfg` | Is every small damage refused on every interface, does decoding invert encoding at every limit, is nothing else accepted, and does the controller draw the same limits? |
| `qualification` | `Qualification.cfg` | Can a report say HOST_PASS without its evidence, or disagree with the files, the exit status or the other tool? |
| `verification` | `Verification.cfg` | Can `verify.sh` print its PASS line for anything but what the executable did in this invocation? |
| `stale_heartbeat` | `StaleHeartbeat.cfg` | Finding 1 below: a violation is expected. |
| `empty_mask` | `EmptyMask.cfg` | Finding 2 below: a violation is expected. |

All runs but the two findings pass. The properties are stated, with the code
they are about, in the modules; the ones that took most thought:

* `OperationIsEarned`: OPERATIONAL is entered only from a fault-free INIT, and
  only when both a self-test was reported and a heartbeat accepted since the last
  recovery or initialisation. The history variable `evidence` notes the two as the
  calls happen; the controller's own flags are not asked, so a flag that survived
  a recovery would show.
* `RefusalIsLatched` and `RefusalsOnRecord`: each way of refusing a frame counts it
  and adds its own fault, and touches neither queue nor acceptance counters (the
  first); and no later call loses a refusal from the counter, or before a recovery
  its fault from the bitmap (the second, against the history variables `refusals`
  and `causes`).
* `EffectsNeedFreshSequence`: heartbeats and setpoints act only by moving the
  common sequence counter up, so that a replayed or late command never acts.
* `WatchdogNeverEarly` and `WatchdogNeverLate`: the 32-bit difference against
  the true number of silent ticks. Late is excepted at a silence of 2^32 ms or
  more, which is reachable only if supervision begins that late: a self-test
  reported after 49 days without a heartbeat.
* `FramesAccountedFor`: acceptance counters = frames waiting + frames drained +
  SPI register writes, modulo 2^32.
* `AcceptedIsCanonical`: whatever the decoder accepts, encoding gives back.
* `CodecAndControllerAgree`: interface, length and identifier are tested in
  `frame.c` and again in `controller.c`; a frame that one takes the other takes.
* `ReceiverReckonsRight`: differences of the truncated fields, modulo 2^16, are
  the true numbers of events, and the gap in the sequence is the number of lost
  records, as long as each is below 2^16.
* `VerdictIsAboutTheFiles`: a verdict names the identity of the very files it
  judged and all their records, if nobody edited them meanwhile.
* `RecordsHaveTheirRows`: in such a verdict every record has a row of its own. The
  tools look cases and requirements up by id; an id given twice, under two of the
  keys a loader knows or with two statuses, would let one record answer for
  another.
* `ToolsAgree`: the checker takes unedited documents exactly if the runner found
  no fault but with cases and the exit status.
* `PassLineIsEarned`: the PASS line of `verify.sh` rests on an execution in this
  invocation, status 0 and two reports of just its cases. It holds although the
  script goes on with an old file of results when it cannot open a new one
  (`verify.sh:60-62`): the shell's status 1 is handed on and fails the run.

### Findings

1. `OperationalMeansCurrent` fails. `docs/SRS.md:31` requires of OPERATIONAL that
   "a valid heartbeat is current". `controller.c:77` asks only whether a heartbeat
   was ever seen. A heartbeat, more ticks than the timeout (not supervised before
   the self-test), then the self-test: the controller is OPERATIONAL with an
   expired heartbeat and accepts setpoints until the next tick.
2. `DegradedNeverOperatesDirectly` fails. `esqh_controller_latch_fault` with an
   empty mask and not critical makes the controller DEGRADED with an empty
   bitmap (`controller.c:160-164`); the next heartbeat or self-test makes it
   OPERATIONAL, while recovery is refused. `docs/SSDD.md:57-74` has no such
   transition. Inside the repository nobody passes an empty mask, and the runs
   and theorems about modes say so as a premise.

Some further observations are not counted as findings, because no text of the
repository says otherwise. `docs/SRS.md:83-85` words
the watchdog without a condition, the code supervises only after the self-test,
and `docs/SSDD.md:63-71` says so. Recovery does not reset `last_heartbeat_ms`, so
the self-test after a late recovery is followed by SAFE at the next tick unless a
new heartbeat comes first. And a file edited between the two readings of
`qualification.py:1000-1016` can yield a report that names one baseline and
judges another; the checked property excludes edits and the model shows why. An
input that is not UTF-8 ends `run_qualification` with a traceback and status 1,
the status of a failed qualification, and leaves the reports of an earlier run
as they are (`qualification.py:129-134, 1034`); so does a usage error with status
2. `"verification_methods": null` hides a `verification_method` beside it, and an
empty list permits every method (`qualification.py:353-369`).

## 4. Bounds, and why they are enough

* **Widths.** `U8`, `U16` and `U32` stand for 2^8, 2^16 and 2^32. A small width
  makes wraps happen early. The command and watchdog runs use `U32 = 6` with a
  timeout of 2, so that the clock wraps with every relation of age and timeout;
  `U16 = 4` leaves three usable sequence numbers, enough for accepted, repeated,
  reordered and exhausted ones. In `Reception.cfg`, where neither age nor sequence
  is the subject, the counters have a range of 2 and wrap at once, the numbers of
  the records (`U16`) are left out with 1, and a frame, a register, both faults of
  refusals and a critical one, so that SAFE is there too, fit in one run. The run
  checks sums of counters by their parity only; the theorems have any width. In `Telemetry.cfg` the counters have twice the
  range of the fields that show them (`U32 = 6`, `U16 = 3`), so that truncation and
  both wraps occur, and true numbers are counted up to the first that a field
  cannot show; one interface suffices, since the five fields are alike.
* **The clock** runs with its real periods and countdown width. 2^32 is 96 modulo
  100 and 6 modulo 10; `U32 = 96` wraps at the same phases.
* **The ring** runs at its real capacity with two frames: it never looks into a
  frame. Inside the controller capacity 1 or 2 reaches empty, partly full, full
  and wrapped.
* **Periods 1** in the controller runs: there the clock's releases matter to
  nothing else, and `PeriodCounters` checks them alone.
* **Frames**: for every interface one at each limit and one just past it, and two
  interface numbers that do not exist. **Configurations**: one valid and one for
  each way of being invalid; for reception two valid ones that enable disjoint
  interfaces. **Setpoints**: both sides of both limits.
* **Fault masks**: one recoverable, one critical, one unnamed, each critical or
  not. Larger masks are unions of these, which successive calls build.
* **Firmware** runs with its real timeout and periods; 128 clock values leave room
  for tick 101 and wrap all counters.
* **Codec**: all pairs of flipped bits in messages of at most 11 bytes; payload
  lengths 0, 1 and both sides of each limit, cut, extended and intact; buffers
  that just fit the shortest messages, miss them by one, and fit all. Three wrong
  bits, and wrong bits in long messages, are left to the proofs.
* **Qualification**: two baselines, results that are no text, a document with a
  record that is no object, an unknown status and a repeated id, an unknown
  requirement, a method mismatch, missing, unknown, failed and incomplete cases,
  under different keys and spellings, a case reported twice with two statuses; any number of runs, kills, crashes and
  edits, unbounded. A verdict of zero requirements would need three empty
  documents: that there is none is proved (`LoadedRequirements`).
* **Verification**: the same inputs and a requirements file that is not UTF-8,
  three documents of results, one of them cut off, and exit status 0 and 1; any
  number of invocations.

## 5. Fairness

Safety runs assume none. `HFairSpec` assumes weak fairness of the tick only:
the firmware's loop (`firmware/main.c:91-93`) calls nothing else and never ends.
It promises neither heartbeats nor recoveries. `FirmwareSpec` assumes that a call
whose turn it is returns: each call is finite straight-line code, and an
exception or reset, which may come at any time, disables it. `LoopEndsInSafe`
accordingly lets the hardware take the processor away.

## 6. What is proved

Every safety invariant and every action property that a passing run checks is
proved for all values of the constants. Only liveness is left to TLC.

| Theorem | States |
|---|---|
| `FrameQueueProofs!RingTypeCorrect`, `RingInvariant` | types, `IndicesAgree`, `LiveSlotsWritten`, any capacity |
| `FrameQueueProofs!RingImplementsFifo` | the ring implements `FrameFifo`, any capacity and frames |
| `PeriodCountersProofs!ClockTypeCorrect`, `ClockInvariant` | countdowns in range and in phase, any periods of which one divides the other |
| `PeriodCountersProofs!SlowReleaseIsFastRelease` | the slow task is released only together with the fast one |
| `PeriodCountersProofs!NoReleaseIsLost` | `ReleaseAccounting`, across every wrap of the counters |
| `ControllerProofs!TypeCorrect` | `TypeOK`, including the queue's and the clock's |
| `ControllerProofs!ModesAreConsistent` | `ModeConsistency`, premise `NamedFaults` |
| `ControllerProofs!SafeAbsorbs`, `FaultsStayLatched` | only init leaves SAFE; only recovery or init removes a fault |
| `ControllerProofs!NoCommandActsTwice` | `EffectsNeedFreshSequence` |
| `ControllerProofs!SetpointStaysWithinLimits`, `SetpointMovesUnderAuthority` | the setpoint's value and when it moves (the second under `NamedFaults`) |
| `ControllerProofs!ControllerFollowsModes` | the controller implements `ControllerModes`, premise `NamedFaults` |
| `ControllerProofs!QueueStaysAdmissible`, `ControllerKeepsOrder` | reception: what waits is admissible under the configuration in force, and leaves in the order it came (the controller implements `FrameFifo`) |
| `ControllerUsersProofs!HistoryIsController`, `LinkIsController` | the history variables and the receiver only observe |
| `ControllerUsersProofs!OperationMustBeEarned` | `OperationIsEarned`, premise `NamedFaults` |
| `ControllerUsersProofs!RefusalsAreLatched` | `RefusalIsLatched` and `RefusalsOnRecord` |
| `ControllerUsersProofs!EveryFrameIsAccountedFor` | `FramesAccountedFor`, across wraps |
| `ControllerUsersProofs!WatchdogIsNeverEarly`, `WatchdogIsNeverLate` | the watchdog against the true silence, any timeout and clock width |
| `ControllerUsersProofs!ReckoningIsRight` | `ReceiverReckonsRight`, premise `WidthsNest` |
| `ControllerUsersProofs!ImageRunsInitialised`, `ImageTripsAtTick101` | the two safety properties of the image, premise `ClockPassesTimeout` |
| `FrameLinkProofs!WireDeterminesFrame` | encoding is injective over all interfaces, the markerless CAN layout included |
| `FrameLinkProofs!IntactFramesArrive`, `AcceptedMessagesAreCanonical` | decoding undoes encoding, and accepts nothing that encoding does not write |
| `FrameLinkProofs!CodecAgreesWithController` | codec and controller draw the same limits |
| `FrameLinkProofs!MessagesFit` | the encoder writes the bytes it reports, as many as `esqh_wire_size` says, within the buffer |
| `FrameLinkProofs!MessagesArePrefixFree` | no message begins with the message of another frame |
| `CrcProofs!TwoBytesShow`, `ValidIsEven`, `TwoBitsShow` | how two messages with right checksums cannot differ: within two adjacent bytes, in an odd number of bits, in two bits of fewer than 32767 |
| `FrameLinkProofs!ResizingIsDetected` | `DamageIsDetected` of messages cut short or lengthened |
| `FrameLinkProofs!OddDamageIsDetected`, `BurstsAreDetected`, `TwoWrongBitsAreDetected` | `DamageIsDetected` of any odd number of wrong bits, of any within two adjacent bytes, of two anywhere; any number of flips otherwise |
| `FrameLinkProofs!AllDamageIsDetected` | `DamageIsDetected`, premise `MaxFlips \in 0 .. 3` |
| `FrameLinkProofs!ConfusionNeedsUndetectedDamage` | `NoInterfaceConfusion` wherever `DamageIsDetected` holds |
| `FrameLinkProofs!InterfacesAreNeverConfused` | `NoInterfaceConfusion`, premise `MaxFlips \in 0 .. 3` |
| `QualificationProofs!ReportIsSupported` | `build_report` never says HOST_PASS without the evidence, any input; nor does the Markdown |
| `QualificationProofs!PassIsAlwaysSupported` | nor does any report file, whatever is killed, edited or repeated |
| `QualificationProofs!RunsEndInReports` | `EndedRunsReport`: two reports that agree with each other and with the exit status |
| `QualificationProofs!VerdictsAreAboutTheFiles` | `VerdictIsAboutTheFiles`, for all documents |
| `QualificationProofs!RecordsKeepTheirRows` | `RecordsHaveTheirRows`, for all documents |
| `QualificationProofs!RunnerAndCheckerAgree` | `ToolsAgree`, for all documents |
| `QualificationProofs!PassLinesAreEarned` | `PassLineIsEarned`, for all files, captured results, exit statuses and earlier invocations |
| `QualificationProofs!ScriptKeepsReports` | `PassIsSupported` and `EndedRunsReport` inside the script |

**Assumptions.** The named `ASSUME`s of the modules: positive sizes, periods that
fit their countdowns and divide one another, inputs of the C types
(`FrameAssumption` for the codec), lists in documents that are sequences, as JSON
arrays are (`DocumentAssumption`), and in `Verification` that "no option" and "no
capture" are neither an exit status nor a captured result. TLC evaluates each of
them on every run of its module. Single theorems have a premise of their own, in
their statement:

* `NamedFaults`: no caller passes `latch_fault` an empty mask. Finding 2 shows
  that it is needed.
* `WidthsNest`: the width of the counters is a multiple of that of the record
  fields, as 2^32 is of 2^16. With any other pair of widths the truncated counter
  would jump when the long one wraps.
* `ClockPassesTimeout`: the clock of the image counts past the default timeout
  of 100, as 2^32 does. The image never changes its configuration.
* `MaxFlips \in 0 .. 3`: the line makes at most three bits of a message wrong. Four
  can be enough to turn one message with a right checksum into another: the
  polynomial itself has four ones. So no more can be promised of scattered bits;
  odd numbers and bursts are covered without this premise.

**Arguments.** For the ring the invariant is its own strengthening: a push writes
the slot just after the live ones only because `tail = Wrap(head + count)`, and
that, with `LiveSlotsWritten`, carries the refinement. The clock's `TypeOK` is not
inductive for the coincidence of releases: `PhaseLocked` is added, from which a
slow countdown at 1 means a fast countdown at 1. `ReleaseAccounting` is inductive
beside it, a tick at a time, with sums modulo the width from `NumberLemmas`.

For the controller `TypeOK` is inductive because each call writes typed values and
the queue's and clock's own step lemmas apply to the parts. `ModeConsistency` is
inductive together with it: its third part (INIT is not fully armed) is what makes
every entry into OPERATIONAL one from INIT (`OperationStartsFaultFree`), and gives
the refinement of `ControllerModes`. The action properties go through the actions
one by one; `Bystander` collects those that touch no command field. The reception
theorems take the queue from `FrameQueueProofs` as lemmas about `Contents`, and
add that a configuration changes only where the queue is emptied.

For the observers it is first shown that they add nothing to the controller, so
that every theorem about it holds for them. `OperationIsEarned` rests on
`EvidenceHeld`: an arming flag is set only if its event happened since the last
recovery or initialisation; with `ModeConsistency` after the step, by which an
operating controller has both flags, both events did. `RefusalsOnRecord` is
inductive beside `TypeOK`: faults go only where the refusals are forgotten too, and
OPERATIONAL is entered only with an empty bitmap. The watchdog then needs `SilenceIsAge`:
while the silence is below the clock's range, the wrapped difference of the two
times *is* the silence. The receiver needs, for every counter of a record, that
the counter cut to 16 bits is the recorded value plus the true number of events.
For the image `ImageInvariant` says from which program point on the controller is
initialised; before that nothing is known of it, because RAM may hold anything.

For the layout of messages the checksum is opaque: all that is used is that it is
a function of the bytes and a 16-bit number (`CrcType`). `WireLayout` says which
byte is where, `RoundTrip` and `BodyIsCanonical` that encoder and decoder are
inverse to each other, and the interfaces are told apart by their first byte: a CAN
identifier is at most 2047, so the first byte of a CAN frame is at most 7, and no
marker is.

For damage the checksum is opened. `DamageInvariant` keeps the account of what the
line did: the bits of the message on its way are those of the message sent, but for
the bits in `flipped`, or it is a piece of that message, or that message and a
byte more. A damaged message that is accepted is then a second message with a right
checksum, and `CrcProofs` says how two of them differ:

1. *The register.* A run is a function that gives the register after every byte;
   one exists for every message (`RunExists`), and `Crc16` is its last value
   (`CrcOfRun`). Shifting is linear: the exclusive or of two runs develops like a
   register fed with the bits in which the messages differ. A message with its
   checksum leaves the register empty (`Residue`).
2. *Two adjacent bytes.* Before the first byte that differs the registers agree,
   after the last they must agree again, and a shift loses no difference
   (`ShiftKeeps`); two bytes fill exactly the sixteen bits of the register.
3. *Odd numbers.* A shift changes the number of ones in the register by an even
   number, so that number has the parity of the ones of the message so far, and
   at the end it is 0 (`ValidIsEven`).
4. *Two bits.* Each leaves the difference `Powers` describes: its lowest bit,
   shifted as often as there are bits after it. The two cancel only if they are a
   multiple of the period apart. That the period is 32767 is proved by squaring:
   doubling the number of shifts squares the register as a polynomial
   (`PowerDoubled`), so the register after 217, 1057, 4681 and 32767 shifts takes
   some forty steps, and 32767 = 7 * 31 * 151 leaves no smaller period
   (`PowersReturnLate`). The longest message has 2128 bits (`WireIsShort`).
5. *Other lengths.* Length and marker tests alone refuse them, since no message
   begins with another (`MessagesArePrefixFree`); the checksum is not needed.

One and three wrong bits are odd, two are two: `AllDamageIsDetected`.

For qualification the evidence invariant adds that the report about to be written
is supported in both forms, and what the loaders guarantee of the records a report
is computed from: at least one requirement (`LoadedRequirements`), procedures that
name a case (`LoadedProcedures`), cases of the three statuses (`LoadedCases`),
whatever the documents hold. The outcome invariant says which file is written
when, and that a process still at work has no verdict. Both hold of `Step`, which
covers the steps of `Qualification` and of `Verification`. `FilesInvariant` says
what a run has in memory as long as nobody has edited the files: their records,
and that every check so far passed. A failure report therefore means a document
that the checker refuses too, and an answer a verdict on just these files. For
`RecordsHaveTheirRows`, `DistinctRequirements` and its two siblings follow the
loops of the loaders: a record that passes has an id not seen before it, and all
records passed.
`ScriptInvariant` follows results, exit status and verdict from stage to stage of
the script: either the results at hand were captured in this invocation, or the
status is 1 and no report made from it can pass.

**Induction.** The provers cannot use an induction rule whose predicate is a
parameter. Where a loop needs induction, the proof takes the set of numbers for
which the claim holds and shows that it has no least number outside
(`LeastElement`, `Induction`), which speaks of sets only. `RecursionExists` gives
in the same way the successive values of a loop (`Iterates`), and `Crc16`, which
is defined by recursion on the length of a span, is shown to be the last of them.

**Only model-checked.** Liveness (`SilenceEndsInSafe`, `ExhaustionEndsInSafe`,
`LoopEndsInSafe`), because fairness and `ENABLED` are out of the provers' reach.
Their safety half is proved: a tick past the timeout trips the watchdog
(`WatchdogIsNeverLate`), no command has an effect without a fresh sequence number
(`NoCommandActsTwice`), and only an initialisation leaves SAFE (`SafeAbsorbs`).

## 7. Plan

Done: queue, clock, controller with modes, faults, commands, reception, watchdog
and telemetry with a receiver; firmware; codec, what its checksum detects, and its
agreement with the controller; loaders, qualification, command lines and
`verify_host`; the theorems above. What could follow:

1. The image as an implementation of the controller, so that the theorems of
   `ControllerProofs` carry over to it after every boot.
2. Exactly which patterns of four wrong bits go unnoticed in a message of each
   interface, which no property of today asks.
3. The statuses and references of a report against those of the documents, beyond
   the ids and rows that are proved exact.

An application loop from line to controller is not planned: the repository has
none, and `CodecAndControllerAgree` states what such a loop would rely on.

## 8. Not modelled

The linker script, CMake and CI files describe builds. The link-contract code of
`firmware/main.c` runs only when a volatile variable that nothing sets is not
zero, and exists to keep symbols in the image; `memcpy` and `memset` there are
plain loops. `esqh_spi_read` and refusals on NULL change nothing. The character
loops of `config.c` are abstracted to whether version and baseline match. Of a
telemetry record the copies of mode, bitmap, setpoint and register are left out.
Of the Python tools, printing, titles and messages, the order of lists, summary
counts, paths and the Markdown layout are left out; a list in place of a document
is refused for its missing identity before its records matter. The C test
executable is a fixed sequence of test cases; its output is an input here. Two
invocations of `verify.sh` at the same time are not modelled, nor what its build
and test commands do, nor `verify_arm`, a list of independent greps over build
output.
