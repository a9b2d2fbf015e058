----------------------------- MODULE MCTelemetry -----------------------------
(* The inputs of MCController for the controller with a receiver.          *)
EXTENDS MCController, TelemetryLink

\* SPI frames and SPI register writes count in the same field.
SpiFrame == {Frame(SPI, 1, 32)}
===============================================================================
