------------------------------ MODULE MCHistory ------------------------------
(* The inputs of MCController for the controller with history variables.   *)
EXTENDS MCController, ControllerHistory
===============================================================================
