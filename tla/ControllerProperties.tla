------------------------- MODULE ControllerProperties -------------------------
(* What makes the controller correct: invariants, action properties and    *)
(* refinements of Controller.                                              *)
EXTENDS Controller

Reinitialised == \E c \in Configs : Initialise(c)

\* Types of the controller's fields (src/include/esqh/esqh.h:83-102).  The
\* configuration in use is always one esqh_config_is_valid accepts.
TypeOK ==
  /\ config \in ValidConfigs
  /\ state \in States
  /\ fault_bitmap \subseteq Faults
  /\ self_test_passed \in BOOLEAN /\ heartbeat_seen \in BOOLEAN
  /\ last_heartbeat_ms \in 0 .. U32 - 1
  /\ last_command_sequence \in 0 .. U16 - 1
  /\ setpoint \in Setpoints \cup {0}
  /\ accepted \in [Interfaces -> 0 .. U32 - 1] /\ rejected \in 0 .. U32 - 1
  /\ spi_registers \in [Registers -> SpiValues \cup {0}]
  /\ telemetry_sequence \in 0 .. U16 - 1
  /\ Clock!TypeOK /\ Queue!TypeOK

\* The mode, the fault bitmap and the two arming flags are kept in separate
\* fields by seven functions; they must never contradict each other: an
\* operating controller is armed and free of faults, a degraded one has
\* something to recover from, a fatal fault means SAFE (controller.c:74-184).
ModeConsistency ==
  /\ state \in {"INIT", "OPERATIONAL"} => fault_bitmap = {}
  /\ state = "DEGRADED" => fault_bitmap # {} /\ fault_bitmap \subseteq Recoverable
  /\ ~(fault_bitmap \subseteq Recoverable) => state = "SAFE"
  /\ state = "OPERATIONAL" => self_test_passed /\ heartbeat_seen
  /\ state = "INIT" => ~(self_test_passed /\ heartbeat_seen)

\* No call but a new initialisation leaves SAFE, in whatever order recovery,
\* self-test, heartbeats and lesser faults follow (SSDD.md:66-74).
SafeIsAbsorbing ==
  [][state = "SAFE" /\ state' # "SAFE" => Reinitialised]_vars

\* A latched fault stays until it is recovered from, and a recovery takes
\* away all recoverable faults or is refused (controller.c:160, 168-184).
FaultsLatched ==
  [][~(fault_bitmap \subseteq fault_bitmap') => Reinitialised \/ Recover]_vars

\* Heartbeats and setpoints take effect only with a sequence number above all
\* accepted before, so a repeated or reordered command never acts twice: the
\* counter never goes back and every effect moves it (controller.c:83-97).
EffectsNeedFreshSequence ==
  [][\/ Reinitialised
     \/ /\ last_command_sequence' >= last_command_sequence
        /\ \/ setpoint' # setpoint
           \/ last_heartbeat_ms' # last_heartbeat_ms
           \/ heartbeat_seen' /\ ~heartbeat_seen
           => last_command_sequence' > last_command_sequence]_vars

\* The setpoint moves only while the controller operates and stays operating,
\* and only to a value inside the limits of the configuration in use; between
\* moves it stays inside them or at its initial 0 (controller.c:122-150).
SetpointWithinLimits ==
  setpoint = 0 \/ setpoint \in config.minimum_setpoint .. config.maximum_setpoint
SetpointAuthority ==
  [][setpoint' # setpoint /\ ~Reinitialised
       => state = "OPERATIONAL" /\ state' = "OPERATIONAL" /\ fault_bitmap = {}]_vars

\* Every stored frame is one the current configuration admits, also after the
\* controller was initialised again with other interfaces (controller.c:223-255).
QueueHoldsAdmissibleFrames ==
  \A i \in 1 .. count : Admissible(Queue!Contents[i])

\* The frames wait in the controller exactly as in a bounded FIFO buffer that
\* only reception fills, the application drains and initialisation empties.
Fifo == INSTANCE FrameFifo
          WITH Frame <- Frames, Capacity <- QueueCapacity, fifo <- Queue!Contents
FramesKeepOrder == Fifo!Spec

\* The controller implements the transition table of its design document
\* (docs/SSDD.md:57-74) as ControllerModes states it.
Modes == INSTANCE ControllerModes
           WITH mode <- state, selfTested <- self_test_passed, heartbeat <- heartbeat_seen
FollowsModes == Modes!Spec

-------------------------------------------------------------------------------
(* Statements of the documents that the code does not keep                 *)

\* docs/SRS.md:31, "self-test passed and a valid heartbeat is current".
OperationalMeansCurrent ==
  state = "OPERATIONAL" => Age <= config.watchdog_timeout_ms

\* docs/SSDD.md:57-74: the table has no step from DEGRADED to OPERATIONAL.
DegradedNeverOperatesDirectly ==
  [][state = "DEGRADED" => state' # "OPERATIONAL"]_vars
===============================================================================
