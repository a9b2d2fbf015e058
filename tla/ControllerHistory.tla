-------------------------- MODULE ControllerHistory --------------------------
(***************************************************************************)
(* Controller with history variables: what an observer outside the program *)
(* counts while the calls happen.  They restrict no step; they let a       *)
(* property speak of real silence and of real frames, where the program    *)
(* itself only has 32-bit numbers that wrap.                               *)
(***************************************************************************)
EXTENDS Controller

VARIABLES
  silence,  \* ticks since the last accepted heartbeat or initialisation,
            \* counted up to U32 and no further
  drained,  \* frames the application took off the queue (modulo U32)
  written,  \* register writes the SPI model accepted (modulo U32)
  evidence, \* of "self_test" and "heartbeat", those reported and accepted since
            \* the last recovery or initialisation
  refusals, \* frames refused since the last initialisation (modulo U32)
  causes    \* faults these refusals are to latch, since the last recovery

outflow == <<drained, written>>
noted == <<refusals, causes>>
observed == <<silence, outflow, evidence, noted>>

\* A frame must be refused if the controller does not admit it or has no room.
MustRefuse(f) == ~Admissible(f) \/ count >= QueueCapacity
CauseOf(f) == IF Admissible(f) THEN "QUEUE_OVERFLOW" ELSE "INTERFACE"

HInit ==
  /\ Init
  /\ silence = 0 /\ drained = 0 /\ written = 0
  /\ evidence = {} /\ refusals = 0 /\ causes = {}

ObserveInitialise ==
  /\ \E c \in Configs : Initialise(c)
  /\ silence' = 0 /\ drained' = 0 /\ written' = 0
  /\ evidence' = {} /\ refusals' = 0 /\ causes' = {}
ObserveSelfTest ==
  /\ MarkSelfTestPassed
  /\ evidence' = evidence \cup {"self_test"}
  /\ UNCHANGED <<silence, outflow, noted>>
ObserveHeartbeat ==
  /\ \E s \in SequenceNumbers :
       /\ Heartbeat(s)
       /\ IF FreshSequence(s)
          THEN silence' = 0 /\ evidence' = evidence \cup {"heartbeat"}
          ELSE UNCHANGED <<silence, evidence>>
  /\ UNCHANGED <<outflow, noted>>
ObserveRecover ==
  /\ Recover
  /\ evidence' = {} /\ causes' = {}
  /\ UNCHANGED <<silence, outflow, refusals>>
ObserveTick ==
  /\ Tick
  /\ silence' = IF silence < U32 THEN silence + 1 ELSE silence
  /\ UNCHANGED <<outflow, evidence, noted>>
ObserveReceive ==
  /\ \E f \in Frames :
       /\ Receive(f)
       /\ IF MustRefuse(f)
          THEN refusals' = (refusals + 1) % U32 /\ causes' = causes \cup {CauseOf(f)}
          ELSE UNCHANGED noted
  /\ UNCHANGED <<silence, outflow, evidence>>
ObserveDrain ==
  Drain /\ drained' = (drained + 1) % U32 /\ UNCHANGED <<silence, written, evidence, noted>>
ObserveSpiWrite ==
  /\ \E a \in SpiAddresses, v \in SpiValues :
       SpiWrite(a, v) /\ written' = IF a \in Registers THEN (written + 1) % U32 ELSE written
  /\ UNCHANGED <<silence, drained, evidence, noted>>
ObserveOther ==
  /\ \/ \E s \in SequenceNumbers, v \in Setpoints : Setpoint(s, v)
     \/ \E mask \in FaultMasks, critical \in BOOLEAN : LatchFault(mask, critical)
     \/ Telemetry
  /\ UNCHANGED observed

HNext ==
  \/ ObserveInitialise \/ ObserveSelfTest \/ ObserveHeartbeat \/ ObserveRecover
  \/ ObserveTick \/ ObserveReceive \/ ObserveDrain \/ ObserveSpiWrite \/ ObserveOther

HSpec == HInit /\ [][HNext]_<<vars, observed>>

\* The firmware's loop never stops calling esqh_controller_tick
\* (firmware/main.c:91-93); nothing else is promised to happen.
HFairSpec == HSpec /\ WF_<<vars, observed>>(ObserveTick)

-------------------------------------------------------------------------------
(* Properties                                                              *)

\* OPERATIONAL is entered only by a fault-free controller in INIT, and only on
\* new evidence: since the last recovery or initialisation a self-test was
\* reported and a heartbeat accepted.  Nothing older counts, though a recovery
\* keeps the time of the last heartbeat and the sequence counter
\* (SRS.md:86-88; controller.c:74-81, 103-120, 168-184).
OperationIsEarned ==
  [][state # "OPERATIONAL" /\ state' = "OPERATIONAL"
       => /\ state = "INIT" /\ fault_bitmap = {}
          /\ evidence' = {"self_test", "heartbeat"}]_<<vars, observed>>

\* The watchdog never trips early: when a tick latches its fault, more than
\* the configured time has really passed without an accepted heartbeat,
\* whatever the 32-bit clock did meanwhile (controller.c:190, 202-210).
WatchdogNeverEarly ==
  [][Tick /\ "WATCHDOG" \in fault_bitmap' \ fault_bitmap
       => silence' > config.watchdog_timeout_ms]_<<vars, observed>>

\* The watchdog is never late: the first supervised tick past the timeout ends
\* in SAFE.  A silence of a whole clock period (2^32 ms) is the one exception,
\* for by then the 32-bit difference is small again (controller.c:202-210).
WatchdogNeverLate ==
  [][Tick /\ self_test_passed /\ silence' > config.watchdog_timeout_ms /\ silence' < U32
       => state' = "SAFE"]_<<vars, observed>>

\* No accepted frame is lost or delivered twice: the acceptance counters add
\* up to the frames waiting, the frames drained and the register writes that
\* share the SPI counter (controller.c:20, 255-280; queue.c).
FramesAccountedFor ==
  (accepted[UART] + accepted[SPI] + accepted[CAN] + accepted[ETHERNET]) % U32
    = (count + drained + written) % U32

\* Every way of refusing a frame, before the queue or by the queue, counts it,
\* adds its own fault to those latched, degrades a controller that is not in
\* SAFE, and touches neither the queue nor an acceptance counter.  A frame
\* that need not be refused is stored and changes neither mode nor faults
\* (controller.c:223-281).
RefusalIsLatched ==
  [][\A f \in Frames : Receive(f) =>
       IF MustRefuse(f)
       THEN /\ rejected' = (rejected + 1) % U32
            /\ fault_bitmap' = fault_bitmap \cup {CauseOf(f)}
            /\ state' = IF state = "SAFE" THEN "SAFE" ELSE "DEGRADED"
            /\ UNCHANGED <<accepted, queueVars>>
       ELSE count' = count + 1 /\ UNCHANGED <<modeVars, rejected>>]_<<vars, observed>>

\* What the refusals left behind outlives every other call: the counter is the
\* number of refusals since initialisation, and until a recovery each of their
\* faults stays latched and keeps the controller out of normal operation
\* (controller.c:160-165, 168-184, 223-262).
RefusalsOnRecord ==
  /\ rejected = refusals
  /\ causes \subseteq fault_bitmap
  /\ causes # {} => state \in {"DEGRADED", "SAFE"}

-------------------------------------------------------------------------------
(* Liveness, under the fairness of the tick                                *)

\* Under supervision silence is not survivable: again and again either a
\* heartbeat was just accepted, or the controller is in SAFE, or it waits for
\* its self-test (controller.c:202-210).
SilenceEndsInSafe == []<>(state = "SAFE" \/ ~self_test_passed \/ silence = 0)

\* Once the last sequence number is used no heartbeat is ever accepted again,
\* so a supervised controller ends in SAFE unless it recovers or is initialised
\* in time (controller.c:87, 202-210).
ExhaustionEndsInSafe ==
  (last_command_sequence = U16 - 1 /\ self_test_passed)
    ~> (state = "SAFE" \/ ~self_test_passed)
===============================================================================
