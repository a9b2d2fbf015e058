----------------------------- MODULE MCController -----------------------------
(* Inputs for the model checker: values on both sides of every boundary    *)
(* the controller tests.                                                   *)
EXTENDS ControllerProperties

Config(timeout, low, high, mask, version) ==
  [watchdog_timeout_ms |-> timeout, minimum_setpoint |-> low,
   maximum_setpoint |-> high, enabled_interface_mask |-> mask,
   version_matches |-> version, baseline_matches |-> TRUE]

AllPorts == 0 .. 3

\* A valid configuration and one for each way of being invalid.
CommandConfigs ==
  {Config(2, -1, 1, AllPorts, TRUE), Config(0, -1, 1, AllPorts, TRUE),
   Config(1001, -1, 1, AllPorts, TRUE), Config(2, 1, 1, AllPorts, TRUE),
   Config(2, -1, 1, {}, TRUE), Config(2, -1, 1, {0, 4}, TRUE),
   Config(2, -1, 1, AllPorts, FALSE)}
OneConfig == {Config(2, -1, 1, AllPorts, TRUE)}
\* A watchdog that small clocks never reach.
PatientConfig == {Config(1000, -1, 1, AllPorts, TRUE)}
\* Two ways of enabling interfaces, to initialise from one into the other.
PortConfigs == {Config(1000, -1, 1, {0, 2}, TRUE), Config(1000, -1, 1, {1, 3}, TRUE)}

Frame(i, id, length) ==
  [interface_type |-> i, message_id |-> id, payload_length |-> length]

\* Interface 0 and 5 do not exist; each other frame is at or one past a limit.
PortFrames ==
  {Frame(0, 1, 0), Frame(5, 1, 0), Frame(UART, 1, 64), Frame(UART, 1, 65),
   Frame(SPI, 1, 32), Frame(SPI, 1, 33), Frame(CAN, 2047, 8), Frame(CAN, 2047, 9),
   Frame(CAN, 2048, 8), Frame(ETHERNET, 2048, 256), Frame(ETHERNET, 1, 257)}
NoFrames == {}
NoMask == {}

NamedMasks == {{"INTERFACE"}, {"CRITICAL"}, {"UNNAMED"}}
EmptyMask == {{}}
RecoverableMask == {{"INTERFACE"}}
FatalMask == {{"CRITICAL"}}
Values == {-2, -1, 1, 2}
===============================================================================
