-------------------------------- MODULE Ports --------------------------------
(***************************************************************************)
(* Interface numbers and frame limits, which the codec and the controller  *)
(* share, and the test the controller makes on a frame.                    *)
(***************************************************************************)
EXTENDS Integers

UART == 1
SPI == 2
CAN == 3
ETHERNET == 4
Interfaces == UART .. ETHERNET

\* esqh_internal_payload_limit, in bytes.
PayloadLimit(i) ==
  CASE i = UART -> 64 [] i = SPI -> 32 [] i = CAN -> 8 [] i = ETHERNET -> 256
    [] OTHER -> 0

\* Defective: 29-bit identifiers, which CAN has too but this codec has not.
AdmitsExtendedId(mask, f) ==
  /\ f.interface_type \in Interfaces
  /\ f.payload_length <= PayloadLimit(f.interface_type)
  /\ f.interface_type - 1 \in mask

\* The three refusals esqh_controller_receive makes before it tries the queue.
Admits(mask, f) ==
  /\ f.interface_type \in Interfaces
  /\ f.payload_length <= PayloadLimit(f.interface_type)
  /\ f.interface_type = CAN => f.message_id <= 2047
  /\ f.interface_type - 1 \in mask
===============================================================================
