------------------------------- MODULE Firmware -------------------------------
(***************************************************************************)
(* The firmware image: src/firmware/startup.c and firmware_main around one *)
(* controller in static storage.  Its environment is the hardware, which   *)
(* may raise an exception or reset the processor between any two calls.    *)
(* The image never feeds the controller a heartbeat, a command or a frame. *)
(***************************************************************************)
EXTENDS Controller

VARIABLE pc  \* "reset", "boot", "self_test", "loop" or "halted"

firmwareVars == <<vars, pc>>

\* All bits zero, as a configuration.
ZeroConfig ==
  [watchdog_timeout_ms |-> 0, minimum_setpoint |-> 0, maximum_setpoint |-> 0,
   enabled_interface_mask |-> {}, version_matches |-> FALSE, baseline_matches |-> FALSE]

\* Defective variants: a default configuration that was never filled in, and a
\* main loop that waits for the controller to operate before it ticks.
DefaultConfigUnset == ZeroConfig
LoopWhileOperational ==
  pc = "loop" /\ (IF state = "INIT" THEN UNCHANGED vars ELSE Tick) /\ UNCHANGED pc

\* What esqh_config_default fills in.
DefaultConfig ==
  [watchdog_timeout_ms |-> 100, minimum_setpoint |-> -1000, maximum_setpoint |-> 1000,
   enabled_interface_mask |-> 0 .. 3, version_matches |-> TRUE, baseline_matches |-> TRUE]

\* Static storage after the .bss loop of Reset_Handler: every field is zero,
\* the two countdowns included, and state 0 is INIT.
Zeroed ==
  /\ config' = ZeroConfig
  /\ state' = "INIT" /\ fault_bitmap' = {}
  /\ self_test_passed' = FALSE /\ heartbeat_seen' = FALSE /\ last_heartbeat_ms' = 0
  /\ last_command_sequence' = 0 /\ setpoint' = 0
  /\ accepted' = [i \in Interfaces |-> 0] /\ rejected' = 0
  /\ spi_registers' = [r \in Registers |-> 0]
  /\ telemetry_sequence' = 0
  /\ entries' = [i \in Queue!Slots |-> Unwritten]
  /\ head' = 0 /\ tail' = 0 /\ count' = 0 /\ UNCHANGED delivered
  /\ elapsed_ms' = 0 /\ task_1ms_count' = 0 /\ task_10ms_count' = 0
  /\ task_100ms_count' = 0 /\ scheduler_10ms' = 0 /\ scheduler_100ms' = 0

\* Power-on, with RAM that happens to hold zeroes; a later reset finds in it
\* whatever the program left there.
FirmwareInit ==
  /\ pc = "reset"
  /\ config = ZeroConfig
  /\ state = "INIT" /\ fault_bitmap = {}
  /\ self_test_passed = FALSE /\ heartbeat_seen = FALSE /\ last_heartbeat_ms = 0
  /\ last_command_sequence = 0 /\ setpoint = 0
  /\ accepted = [i \in Interfaces |-> 0] /\ rejected = 0
  /\ spi_registers = [r \in Registers |-> 0]
  /\ telemetry_sequence = 0
  /\ entries = [i \in Queue!Slots |-> Unwritten]
  /\ head = 0 /\ tail = 0 /\ count = 0 /\ delivered = Unwritten
  /\ elapsed_ms = 0 /\ task_1ms_count = 0 /\ task_10ms_count = 0
  /\ task_100ms_count = 0 /\ scheduler_10ms = 0 /\ scheduler_100ms = 0

\* Reset_Handler up to its call of firmware_main.
ResetHandler == pc = "reset" /\ pc' = "boot" /\ Zeroed

\* esqh_config_default and esqh_controller_init, which ignores a configuration
\* it does not accept and lets the program go on.
Boot ==
  /\ pc = "boot" /\ pc' = "self_test"
  /\ IF IsValidConfig(DefaultConfig) THEN Initialise(DefaultConfig) ELSE UNCHANGED vars

SelfTest == pc = "self_test" /\ pc' = "loop" /\ MarkSelfTestPassed

\* One turn of the for (;;) of firmware_main.
Loop == pc = "loop" /\ Tick /\ UNCHANGED pc

\* Default_Handler: every exception but reset spins for ever.
Exception == pc # "halted" /\ pc' = "halted" /\ UNCHANGED vars

\* The reset line, or a power cycle.
HardwareReset == pc' = "reset" /\ UNCHANGED vars

FirmwareNext ==
  ResetHandler \/ Boot \/ SelfTest \/ Loop \/ Exception \/ HardwareReset

\* The processor keeps executing: a call whose turn it is returns.
FirmwareSpec ==
  /\ FirmwareInit /\ [][FirmwareNext]_firmwareVars
  /\ WF_firmwareVars(ResetHandler) /\ WF_firmwareVars(Boot)
  /\ WF_firmwareVars(SelfTest) /\ WF_firmwareVars(Loop)

-------------------------------------------------------------------------------
(* Properties                                                              *)

\* The main loop only ever ticks a controller that was really initialised:
\* with zeroed countdowns the first 10 ms release would come after 256 ticks
\* (controller.c:45-47, 192-201; firmware/main.c:87-93).
LoopIsInitialised ==
  pc = "loop" => /\ config = DefaultConfig /\ IsValidConfig(config)
                 /\ self_test_passed
                 /\ Clock!TypeOK

\* A run of the image that is not reset is in INIT for its first 100 ticks and
\* in SAFE, for good, from tick 101 on, also when the clock wraps; it never
\* operates, because nothing in the image sends a heartbeat
\* (firmware/main.c:89-93; controller.c:202-210; docs/SSDD.md:68-71).
TripsAtTick101 ==
  [][pc = "loop" /\ pc' = "loop" =>
       \/ state = "INIT" /\ state' = "INIT" /\ elapsed_ms' \in 1 .. 100
       \/ state = "INIT" /\ state' = "SAFE" /\ elapsed_ms' = 101
       \/ state = "SAFE" /\ state' = "SAFE" /\ fault_bitmap' = {"WATCHDOG"}]_firmwareVars

\* Once in its loop the image reaches SAFE unless the hardware takes the
\* processor away from it (firmware/main.c:91-93, startup.c:55-58).
LoopEndsInSafe == pc = "loop" ~> (state = "SAFE" \/ pc # "loop")
===============================================================================
