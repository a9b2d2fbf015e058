---------------------------- MODULE TelemetryLink ----------------------------
(***************************************************************************)
(* Controller with a telemetry receiver outside src/: some records reach   *)
(* it, the others are lost or refused for their checksum.  The variables   *)
(* restrict no call; since and lost are what the receiver wants to know    *)
(* and can only reckon from the records.                                   *)
(***************************************************************************)
EXTENDS Controller

VARIABLES
  received, \* the last record that arrived
  since,    \* true events since that record: by interface the frames and
            \* register writes accepted, under Refused the frames refused
  lost      \* records lost since that record; both counted up to U16

link == <<received, since, lost>>

Refused == 0
NoEvents == [e \in Interfaces \cup {Refused} |-> 0]

UpToU16(n) == IF n < U16 THEN n ELSE U16

\* One more event, of interest once there is a record to reckon from.
Happens(event) ==
  since' = IF received = Unwritten THEN since
           ELSE [since EXCEPT ![event] = UpToU16(@ + 1)]

LinkInit == Init /\ received = Unwritten /\ since = NoEvents /\ lost = 0

\* The receiver has to be told of an initialisation, for no record tells it.
Restart ==
  /\ \E c \in Configs : Initialise(c)
  /\ received' = Unwritten /\ since' = NoEvents /\ lost' = 0

FrameComes ==
  /\ \E f \in Frames :
       /\ Receive(f)
       /\ Happens(IF Admissible(f) /\ count < QueueCapacity THEN f.interface_type
                  ELSE Refused)
  /\ UNCHANGED <<received, lost>>

RegisterWrite ==
  /\ \E a \in SpiAddresses, v \in SpiValues :
       /\ SpiWrite(a, v)
       /\ IF a \in Registers THEN Happens(SPI) ELSE UNCHANGED since
  /\ UNCHANGED <<received, lost>>

RecordArrives ==
  /\ Telemetry
  /\ received' = Record /\ since' = NoEvents /\ lost' = 0

RecordIsLost ==
  /\ Telemetry
  /\ lost' = IF received = Unwritten THEN 0 ELSE UpToU16(lost + 1)
  /\ UNCHANGED <<received, since>>

OtherCall ==
  /\ \/ MarkSelfTestPassed
     \/ \E s \in SequenceNumbers : Heartbeat(s)
     \/ \E s \in SequenceNumbers, v \in Setpoints : Setpoint(s, v)
     \/ \E mask \in FaultMasks, critical \in BOOLEAN : LatchFault(mask, critical)
     \/ Recover \/ Tick \/ Drain
  /\ UNCHANGED link

LinkNext ==
  Restart \/ FrameComes \/ RegisterWrite \/ RecordArrives \/ RecordIsLost \/ OtherCall

LinkSpec == LinkInit /\ [][LinkNext]_<<vars, link>>

-------------------------------------------------------------------------------
\* A receiver that gets only some of the records can still reckon: what the
\* 16-bit fields of two records differ by, modulo 2^16, is what happened in
\* between, if that is less than 2^16, and their numbers tell how many were
\* lost, wraps of either width notwithstanding (controller.c:20, 223-281,
\* 291-317; ICD.md:102-123).
ReceiverReckonsRight ==
  [][RecordArrives /\ received # Unwritten =>
       /\ \A i \in Interfaces : since[i] < U16 =>
            (received'.accepted[i] - received.accepted[i]) % U16 = since[i]
       /\ since[Refused] < U16 =>
            (received'.rejected - received.rejected) % U16 = since[Refused]
       /\ lost < U16 - 1 =>
            (received'.sequence - received.sequence) % U16 = lost + 1]_<<vars, link>>
===============================================================================
