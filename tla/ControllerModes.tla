--------------------------- MODULE ControllerModes ---------------------------
(***************************************************************************)
(* The controller as its users see it: four modes and the two conditions   *)
(* that let it operate.  Time, command sequences, the fault bitmap and the *)
(* frame queue are hidden.  Controller is shown to implement this module.  *)
(***************************************************************************)
VARIABLES
  mode,        \* "INIT", "OPERATIONAL", "DEGRADED" or "SAFE"
  selfTested,  \* the self-test was reported since the last recovery
  heartbeat    \* a heartbeat was accepted since the last recovery

vars == <<mode, selfTested, heartbeat>>

Init == mode = "INIT" /\ selfTested = FALSE /\ heartbeat = FALSE

\* OPERATIONAL is entered from INIT only, by whichever condition comes second.
SelfTest ==
  /\ mode # "SAFE"
  /\ selfTested' = TRUE
  /\ mode' = IF mode = "INIT" /\ heartbeat THEN "OPERATIONAL" ELSE mode
  /\ UNCHANGED heartbeat

Heartbeat ==
  /\ heartbeat' = TRUE
  /\ mode' = IF mode = "INIT" /\ selfTested THEN "OPERATIONAL" ELSE mode
  /\ UNCHANGED selfTested

RecoverableFault ==
  /\ mode # "SAFE"
  /\ mode' = "DEGRADED"
  /\ UNCHANGED <<selfTested, heartbeat>>

FatalFault == mode' = "SAFE" /\ UNCHANGED <<selfTested, heartbeat>>

\* Recovery makes the controller earn both conditions again.
Recovery ==
  /\ mode = "DEGRADED"
  /\ mode' = "INIT" /\ selfTested' = FALSE /\ heartbeat' = FALSE

Reset == mode' = "INIT" /\ selfTested' = FALSE /\ heartbeat' = FALSE

Next ==
  SelfTest \/ Heartbeat \/ RecoverableFault \/ FatalFault \/ Recovery \/ Reset

Spec == Init /\ [][Next]_vars
==============================================================================
