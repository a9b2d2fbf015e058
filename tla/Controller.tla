------------------------------ MODULE Controller ------------------------------
(***************************************************************************)
(* src/src/controller.c: the controller object and every function of its   *)
(* interface, over the frame queue (FrameQueue) and the clock              *)
(* (PeriodCounters).  The program is sequential: each call is one step and *)
(* the environment chooses which call comes next and with what arguments.  *)
(* A call that changes nothing (a NULL argument, esqh_spi_read, a recovery *)
(* or a setpoint refused with ESQH_ERR_STATE) is a stuttering step.        *)
(***************************************************************************)
EXTENDS Integers, Sequences, Ports

CONSTANTS
  QueueCapacity, SpiRegisterCount,      \* sizes: 8 and 16 in the code
  Period10, Period100, U8, U16, U32,    \* see PeriodCounters; U16 is 2^16
  Configs, Frames, SequenceNumbers, Setpoints,   \* what callers may pass
  FaultMasks, SpiAddresses, SpiValues,
  Unwritten                             \* content of memory not written yet

VARIABLES
  config, state, fault_bitmap,
  self_test_passed, heartbeat_seen, last_heartbeat_ms,
  last_command_sequence, setpoint,
  accepted,            \* counters.*_accepted, by interface number
  rejected, spi_registers,
  telemetry_sequence,
  entries, head, tail, count, delivered,          \* see FrameQueue
  elapsed_ms, task_1ms_count, task_10ms_count,    \* see PeriodCounters
  task_100ms_count, scheduler_10ms, scheduler_100ms

Queue == INSTANCE FrameQueue WITH Frame <- Frames, Capacity <- QueueCapacity
Clock == INSTANCE PeriodCounters

modeVars == <<state, fault_bitmap>>
armVars == <<self_test_passed, heartbeat_seen, last_heartbeat_ms>>
commandVars == <<last_command_sequence, setpoint>>
portVars == <<accepted, rejected>>
queueVars == <<entries, head, tail, count, delivered>>
clockVars == <<elapsed_ms, task_1ms_count, task_10ms_count, task_100ms_count,
               scheduler_10ms, scheduler_100ms>>
vars == <<config, modeVars, armVars, commandVars, portVars, spi_registers,
          telemetry_sequence, queueVars, clockVars>>

-------------------------------------------------------------------------------
(* Types and inputs                                                        *)

States == {"INIT", "OPERATIONAL", "DEGRADED", "SAFE"}
Recoverable == {"INTERFACE", "QUEUE_OVERFLOW", "SEQUENCE", "COMMAND_RANGE"}
\* "UNNAMED" stands for the bits of the bitmap that have no name.
Faults == Recoverable \cup {"WATCHDOG", "CRITICAL", "UNNAMED"}

Registers == 0 .. SpiRegisterCount - 1

\* esqh_config_is_valid.  The interface mask is the set of its bit numbers.
IsValidConfig(c) ==
  /\ c.watchdog_timeout_ms \in 1 .. 1000
  /\ c.minimum_setpoint < c.maximum_setpoint
  /\ c.enabled_interface_mask # {} /\ c.enabled_interface_mask \subseteq 0 .. 3
  /\ c.version_matches /\ c.baseline_matches

ValidConfigs == {c \in Configs : IsValidConfig(c)}

ASSUME ConfigAssumption ==
  \A c \in Configs :
    /\ c.minimum_setpoint \in Int /\ c.maximum_setpoint \in Int
    /\ c.watchdog_timeout_ms \in Nat
ASSUME InputAssumption ==
  /\ SequenceNumbers \subseteq 0 .. U16 - 1
  /\ Setpoints \subseteq Int /\ 0 \in Int
  /\ FaultMasks \subseteq SUBSET Faults
  /\ SpiAddresses \subseteq Nat
  /\ \A f \in Frames : f.interface_type \in Nat /\ f.payload_length \in Nat
                       /\ f.message_id \in Nat
  /\ Unwritten \notin Frames
ASSUME SizeAssumption ==
  /\ QueueCapacity \in Nat \ {0} /\ SpiRegisterCount \in Nat \ {0}
  /\ U16 \in Nat \ {0}
  /\ U8 \in Nat /\ U32 \in Nat /\ U32 > 1
  /\ Period10 \in 1 .. U8 - 1 /\ Period100 \in 1 .. U8 - 1

-------------------------------------------------------------------------------
(* Defective variants of the definitions below, used by no action: each is *)
(* the plausible slip one of the properties is there to catch.             *)

ModeAfterFaultForgetsSafe(mask, critical) ==
  IF critical \/ ~(mask \subseteq Recoverable) THEN "SAFE" ELSE "DEGRADED"
ModeAfterFaultIgnoresMask(mask, critical) ==
  IF critical \/ state = "SAFE" THEN "SAFE" ELSE "DEGRADED"
FreshSequenceAllowsRepeat(s) == s # 0 /\ s >= last_command_sequence
MayOperateIgnoresFaults == state # "SAFE"
AgeAtSaturating(now) == IF now < last_heartbeat_ms THEN 0 ELSE now - last_heartbeat_ms
AgeAtSinceStart(now) == now
ExpiredLate(now) == (now - last_heartbeat_ms) % U32 > config.watchdog_timeout_ms + 1
WithinLimitsUpperOnly(v) == v <= config.maximum_setpoint
RecordSaturates ==
  LET Low(n) == IF n < U16 THEN n ELSE U16 - 1
  IN  [sequence |-> (telemetry_sequence + 1) % U16,
       accepted |-> [i \in Interfaces |-> Low(accepted[i])], rejected |-> Low(rejected)]

-------------------------------------------------------------------------------
(* Steps shared by several functions                                       *)

\* esqh_controller_latch_fault: SAFE absorbs every later recoverable fault.
ModeAfterFault(mask, critical) ==
  IF critical \/ state = "SAFE" \/ ~(mask \subseteq Recoverable)
  THEN "SAFE" ELSE "DEGRADED"

\* Defective: the newest fault replaces the older ones.
LatchLastOnly(mask, critical) ==
  fault_bitmap' = mask /\ state' = ModeAfterFault(mask, critical)

Latch(mask, critical) ==
  /\ fault_bitmap' = fault_bitmap \cup mask
  /\ state' = ModeAfterFault(mask, critical)

\* esqh_controller_accept_sequence: heartbeats and setpoints share one counter
\* that only Initialise sets back; it does not wrap.
FreshSequence(s) == s # 0 /\ s > last_command_sequence

\* A stale or repeated sequence is a fault of its own.
RefuseSequence(s) ==
  /\ ~FreshSequence(s)
  /\ Latch({"SEQUENCE"}, FALSE)
  /\ UNCHANGED <<config, armVars, commandVars, portVars, spi_registers, telemetry_sequence,
                 queueVars, clockVars>>

\* The test both functions that enter OPERATIONAL make on state and bitmap.
MayOperate == state # "SAFE" /\ fault_bitmap = {}

\* Milliseconds since the last accepted heartbeat, as the watchdog computes
\* it: a 32-bit subtraction.
AgeAt(now) == (now - last_heartbeat_ms) % U32
Age == AgeAt(elapsed_ms)

\* The watchdog's comparison: the timeout itself is still in time.
Expired(now) == AgeAt(now) > config.watchdog_timeout_ms

WithinLimits(v) == v \in config.minimum_setpoint .. config.maximum_setpoint

Admissible(f) == Admits(config.enabled_interface_mask, f)

-------------------------------------------------------------------------------
(* Initial state and actions                                               *)

\* A controller in static storage after its first esqh_controller_init.
Init ==
  /\ config \in ValidConfigs
  /\ state = "INIT" /\ fault_bitmap = {}
  /\ self_test_passed = FALSE /\ heartbeat_seen = FALSE /\ last_heartbeat_ms = 0
  /\ last_command_sequence = 0 /\ setpoint = 0
  /\ accepted = [i \in Interfaces |-> 0] /\ rejected = 0
  /\ spi_registers = [r \in Registers |-> 0]
  /\ telemetry_sequence = 0
  /\ Queue!Init /\ Clock!Init

\* esqh_controller_init on a controller in use.  An invalid configuration is
\* ignored without a word, so it is no step at all.
Initialise(c) ==
  /\ IsValidConfig(c)
  /\ config' = c
  /\ state' = "INIT" /\ fault_bitmap' = {}
  /\ self_test_passed' = FALSE /\ heartbeat_seen' = FALSE /\ last_heartbeat_ms' = 0
  /\ last_command_sequence' = 0 /\ setpoint' = 0
  /\ accepted' = [i \in Interfaces |-> 0] /\ rejected' = 0
  /\ spi_registers' = [r \in Registers |-> 0]
  /\ telemetry_sequence' = 0
  /\ Queue!QueueInit /\ Clock!Start

\* esqh_controller_mark_self_test_passed
MarkSelfTestPassed ==
  /\ state # "SAFE"
  /\ self_test_passed' = TRUE
  /\ state' = IF heartbeat_seen /\ MayOperate THEN "OPERATIONAL" ELSE state
  /\ UNCHANGED <<config, fault_bitmap, heartbeat_seen, last_heartbeat_ms, commandVars,
                 portVars, spi_registers, telemetry_sequence, queueVars, clockVars>>

\* esqh_controller_heartbeat
Heartbeat(s) ==
  \/ /\ FreshSequence(s)
     /\ last_command_sequence' = s
     /\ heartbeat_seen' = TRUE
     /\ last_heartbeat_ms' = elapsed_ms
     /\ state' = IF self_test_passed /\ MayOperate THEN "OPERATIONAL" ELSE state
     /\ UNCHANGED <<config, fault_bitmap, self_test_passed, setpoint, portVars,
                    spi_registers, telemetry_sequence, queueVars, clockVars>>
  \/ RefuseSequence(s)

\* esqh_controller_setpoint: the sequence is spent before the value is looked
\* at, so an out-of-range setpoint uses up its sequence.
Setpoint(s, v) ==
  /\ state = "OPERATIONAL"
  /\ \/ /\ FreshSequence(s)
        /\ last_command_sequence' = s
        /\ \/ /\ WithinLimits(v)
              /\ setpoint' = v
              /\ UNCHANGED modeVars
           \/ /\ ~WithinLimits(v)
              /\ Latch({"COMMAND_RANGE"}, FALSE)
              /\ UNCHANGED setpoint
        /\ UNCHANGED <<config, armVars, portVars, spi_registers, telemetry_sequence, queueVars,
                       clockVars>>
     \/ RefuseSequence(s)

\* esqh_controller_latch_fault, called from outside.
LatchFault(mask, critical) ==
  /\ Latch(mask, critical)
  /\ UNCHANGED <<config, armVars, commandVars, portVars, spi_registers, telemetry_sequence,
                 queueVars, clockVars>>

\* Defective: an old heartbeat still counts after the recovery.
RecoverKeepsHeartbeat ==
  /\ state = "DEGRADED"
  /\ fault_bitmap # {} /\ fault_bitmap \subseteq Recoverable
  /\ fault_bitmap' = fault_bitmap \ Recoverable
  /\ state' = "INIT" /\ self_test_passed' = FALSE
  /\ UNCHANGED <<config, heartbeat_seen, last_heartbeat_ms, commandVars, portVars,
                 spi_registers, telemetry_sequence, queueVars, clockVars>>

\* esqh_controller_recover, when it returns ESQH_OK.
Recover ==
  /\ state = "DEGRADED"
  /\ fault_bitmap # {} /\ fault_bitmap \subseteq Recoverable
  /\ fault_bitmap' = fault_bitmap \ Recoverable
  /\ state' = "INIT"
  /\ self_test_passed' = FALSE /\ heartbeat_seen' = FALSE
  /\ UNCHANGED <<config, last_heartbeat_ms, commandVars, portVars, spi_registers,
                 telemetry_sequence, queueVars, clockVars>>

\* esqh_controller_tick: the clock, then the watchdog on the advanced clock.
Tick ==
  /\ Clock!Advance
  /\ IF self_test_passed /\ Expired(elapsed_ms')
     THEN Latch({"WATCHDOG"}, TRUE)
     ELSE UNCHANGED modeVars
  /\ UNCHANGED <<config, armVars, commandVars, portVars, spi_registers, telemetry_sequence,
                 queueVars>>

\* Defective: a frame the full queue refuses is not counted.
ReceiveUncounted(f) ==
  \/ /\ Admissible(f)
     /\ Queue!Push(f)
     /\ accepted' = [accepted EXCEPT ![f.interface_type] = (@ + 1) % U32]
     /\ UNCHANGED <<config, modeVars, armVars, commandVars, rejected, spi_registers,
                    telemetry_sequence, clockVars>>
  \/ /\ \/ ~Admissible(f) /\ Latch({"INTERFACE"}, FALSE) /\ rejected' = (rejected + 1) % U32
        \/ /\ Admissible(f) /\ count >= QueueCapacity
           /\ Latch({"QUEUE_OVERFLOW"}, FALSE) /\ UNCHANGED rejected
     /\ UNCHANGED <<config, armVars, commandVars, accepted, spi_registers, telemetry_sequence,
                    queueVars, clockVars>>

\* esqh_controller_receive
Receive(f) ==
  \/ /\ Admissible(f)
     /\ Queue!Push(f)
     /\ accepted' = [accepted EXCEPT ![f.interface_type] = (@ + 1) % U32]
     /\ UNCHANGED <<config, modeVars, armVars, commandVars, rejected, spi_registers,
                    telemetry_sequence, clockVars>>
  \/ /\ \/ ~Admissible(f) /\ Latch({"INTERFACE"}, FALSE)
        \/ Admissible(f) /\ count >= QueueCapacity /\ Latch({"QUEUE_OVERFLOW"}, FALSE)
     /\ rejected' = (rejected + 1) % U32
     /\ UNCHANGED <<config, armVars, commandVars, accepted, spi_registers, telemetry_sequence,
                    queueVars, clockVars>>

\* The application taking a frame off the queue with esqh_queue_pop.
Drain ==
  /\ Queue!Pop
  /\ UNCHANGED <<config, modeVars, armVars, commandVars, portVars, spi_registers,
                 telemetry_sequence, clockVars>>

\* esqh_spi_write: shares its acceptance counter with SPI frames; a refused
\* address is a fault but not a rejected frame.
SpiWrite(a, v) ==
  \/ /\ a \in Registers
     /\ spi_registers' = [spi_registers EXCEPT ![a] = v]
     /\ accepted' = [accepted EXCEPT ![SPI] = (@ + 1) % U32]
     /\ UNCHANGED <<config, modeVars, armVars, commandVars, rejected, telemetry_sequence,
                    queueVars, clockVars>>
  \/ /\ a \notin Registers
     /\ Latch({"INTERFACE"}, FALSE)
     /\ UNCHANGED <<config, armVars, commandVars, portVars, spi_registers, telemetry_sequence,
                    queueVars, clockVars>>

\* What a telemetry record says of the frames: its own number and the counters,
\* of which it keeps the low 16 bits.  The mode, bitmap, setpoint and register
\* it also shows are copies.
Record ==
  [sequence |-> (telemetry_sequence + 1) % U16,
   accepted |-> [i \in Interfaces |-> accepted[i] % U16],
   rejected |-> rejected % U16]

\* esqh_controller_telemetry; its caller gets Record.
Telemetry ==
  /\ telemetry_sequence' = (telemetry_sequence + 1) % U16
  /\ UNCHANGED <<config, modeVars, armVars, commandVars, portVars, spi_registers,
                 queueVars, clockVars>>

Next ==
  \/ \E c \in Configs : Initialise(c)
  \/ MarkSelfTestPassed
  \/ \E s \in SequenceNumbers : Heartbeat(s)
  \/ \E s \in SequenceNumbers, v \in Setpoints : Setpoint(s, v)
  \/ \E mask \in FaultMasks, critical \in BOOLEAN : LatchFault(mask, critical)
  \/ Recover
  \/ Tick
  \/ \E f \in Frames : Receive(f)
  \/ Drain
  \/ \E a \in SpiAddresses, v \in SpiValues : SpiWrite(a, v)
  \/ Telemetry

Spec == Init /\ [][Next]_vars
===============================================================================
