--------------------------- MODULE ControllerProofs ---------------------------
(***************************************************************************)
(* Theorems about Controller, for every set of configurations, frames,     *)
(* sequence numbers, setpoints and faults and for every counter width.     *)
(***************************************************************************)
EXTENDS ControllerProperties, TLAPS

USE DEF modeVars, armVars, commandVars, portVars, queueVars, clockVars

-------------------------------------------------------------------------------
(* Type correctness                                                        *)

\* A counter incremented modulo its width keeps its type.
LEMMA ModularCounter ==
  ASSUME NEW n \in Nat \ {0}, NEW x \in Nat
  PROVE  x % n \in 0 .. n - 1
OBVIOUS

LEMMA CountOne == \A x \in 0 .. U32 - 1 : (x + 1) % U32 \in 0 .. U32 - 1
<1>1. U32 \in Nat \ {0} /\ \A x \in 0 .. U32 - 1 : x + 1 \in Nat
  BY SizeAssumption
<1>. QED  BY <1>1, ModularCounter

LEMMA CountOneFrame ==
  ASSUME NEW counters \in [Interfaces -> 0 .. U32 - 1], NEW i
  PROVE  [counters EXCEPT ![i] = (@ + 1) % U32] \in [Interfaces -> 0 .. U32 - 1]
BY CountOne

\* Every field of the clock keeps its range when it advances.
LEMMA AdvanceType ==
  ASSUME Clock!TypeOK, Clock!Advance
  PROVE  Clock!TypeOK'
<1> USE DEF Clock!TypeOK, Clock!Advance, Clock!Increment
<1>1. U32 \in Nat \ {0} /\ Period10 \in 1 .. U8 - 1 /\ Period100 \in 1 .. U8 - 1 /\ U8 \in Nat
  BY SizeAssumption
<1>2. /\ elapsed_ms' \in 0 .. U32 - 1
      /\ task_1ms_count' \in 0 .. U32 - 1
      /\ task_10ms_count' \in 0 .. U32 - 1
      /\ task_100ms_count' \in 0 .. U32 - 1
  BY CountOne
<1>3. ASSUME NEW left \in Nat, NEW period \in 1 .. U8 - 1, left \in 1 .. period
      PROVE  Clock!CountDown(left, period) \in 1 .. period
  <2>1. left + U8 - 1 = (left - 1) + U8 /\ left - 1 \in 0 .. U8 - 1
    BY <1>1, <1>3
  <2>2. ((left - 1) + U8) % U8 = left - 1
    BY <1>1, <2>1
  <2>3. Clock!Decrement(left) = left - 1
    BY <2>1, <2>2 DEF Clock!Decrement
  <2>. QED  BY <1>1, <1>3, <2>3 DEF Clock!CountDown, Clock!Released
<1>4. scheduler_10ms' \in 1 .. Period10 /\ scheduler_100ms' \in 1 .. Period100
  BY <1>1, <1>3
<1>. QED  BY <1>2, <1>4

\* The queue's operations keep the types of its fields.
LEMMA QueueType ==
  ASSUME Queue!TypeOK,
         \/ \E f \in Frames : Queue!Push(f)
         \/ Queue!Pop
         \/ Queue!QueueInit
         \/ UNCHANGED queueVars
  PROVE  Queue!TypeOK'
BY SizeAssumption
   DEF Queue!TypeOK, Queue!Push, Queue!Pop, Queue!QueueInit, Queue!Slots, Queue!NextSlot

LEMMA InitType == Init => TypeOK
<1> SUFFICES ASSUME Init PROVE TypeOK  OBVIOUS
<1>1. Clock!TypeOK
  BY SizeAssumption DEF Init, Clock!Init, Clock!TypeOK
<1>2. Queue!TypeOK
  BY SizeAssumption DEF Init, Queue!Init, Queue!TypeOK, Queue!Slots
<1>3. 0 \in 0 .. U32 - 1 /\ 0 \in 0 .. U16 - 1
  BY SizeAssumption
<1>4. accepted \in [Interfaces -> 0 .. U32 - 1] /\ rejected \in 0 .. U32 - 1
  BY <1>3 DEF Init
<1>5. spi_registers \in [Registers -> SpiValues \cup {0}]
  BY DEF Init
<1>6. state \in States /\ fault_bitmap \subseteq Faults
  BY DEF Init, States
<1>. QED  BY <1>1, <1>2, <1>3, <1>4, <1>5, <1>6 DEF Init, TypeOK

LEMMA NextType == TypeOK /\ [Next]_vars => TypeOK'
<1> SUFFICES ASSUME TypeOK, [Next]_vars PROVE TypeOK'  OBVIOUS
<1> USE SizeAssumption, InputAssumption DEF TypeOK, States, Faults, Recoverable
<1>k. UNCHANGED clockVars => Clock!TypeOK'
  BY DEF Clock!TypeOK
<1>q. UNCHANGED queueVars => Queue!TypeOK'
  BY QueueType
<1>1. ASSUME NEW c \in Configs, Initialise(c) PROVE TypeOK'
  <2>1. Clock!TypeOK'
    BY <1>1 DEF Initialise, Clock!Start, Clock!TypeOK
  <2>2. Queue!TypeOK'
    BY <1>1, QueueType DEF Initialise
  <2>3. 0 \in 0 .. U32 - 1 /\ 0 \in 0 .. U16 - 1
    OBVIOUS
  <2>4. accepted' \in [Interfaces -> 0 .. U32 - 1] /\ rejected' \in 0 .. U32 - 1
    BY <1>1, <2>3 DEF Initialise
  <2>5. spi_registers' \in [Registers -> SpiValues \cup {0}]
    BY <1>1 DEF Initialise
  <2>6. config' \in ValidConfigs
    BY <1>1 DEF Initialise, ValidConfigs
  <2>. QED  BY <1>1, <2>1, <2>2, <2>3, <2>4, <2>5, <2>6 DEF Initialise
<1>2. CASE MarkSelfTestPassed
  BY <1>2, <1>k, <1>q DEF MarkSelfTestPassed
<1>3. ASSUME NEW s \in SequenceNumbers, RefuseSequence(s) PROVE TypeOK'
  BY <1>3, <1>k, <1>q DEF RefuseSequence, Latch, ModeAfterFault
<1>4. ASSUME NEW s \in SequenceNumbers, Heartbeat(s) PROVE TypeOK'
  <2>1. elapsed_ms \in 0 .. U32 - 1
    BY DEF Clock!TypeOK
  <2>. QED  BY <1>4, <1>3, <1>k, <1>q, <2>1 DEF Heartbeat
<1>5. ASSUME NEW s \in SequenceNumbers, NEW v \in Setpoints, Setpoint(s, v) PROVE TypeOK'
  <2>1. CASE RefuseSequence(s)
    BY <2>1, <1>3
  <2>2. CASE Setpoint(s, v) /\ ~RefuseSequence(s)
    <3>1. Clock!TypeOK' /\ Queue!TypeOK'
      BY <2>2, <1>k, <1>q DEF Setpoint
    <3>2. state' \in States /\ fault_bitmap' \subseteq Faults
      BY <2>2 DEF Setpoint, Latch, ModeAfterFault
    <3>3. last_command_sequence' \in 0 .. U16 - 1 /\ setpoint' \in Setpoints \cup {0}
      BY <2>2 DEF Setpoint
    <3>4. UNCHANGED <<config, armVars, portVars, spi_registers, telemetry_sequence>>
      BY <2>2 DEF Setpoint
    <3>. QED  BY <3>1, <3>2, <3>3, <3>4 DEF armVars, portVars
  <2>. QED  BY <1>5, <2>1, <2>2
<1>6. ASSUME NEW mask \in FaultMasks, NEW critical \in BOOLEAN,
             LatchFault(mask, critical)
      PROVE  TypeOK'
  BY <1>6, <1>k, <1>q DEF LatchFault, Latch, ModeAfterFault
<1>7. CASE Recover
  BY <1>7, <1>k, <1>q DEF Recover
<1>8. CASE Tick
  <2>1. Clock!TypeOK'
    BY <1>8, AdvanceType DEF Tick
  <2>. QED  BY <1>8, <1>q, <2>1 DEF Tick, Latch, ModeAfterFault
<1>9. ASSUME NEW f \in Frames, Receive(f) PROVE TypeOK'
  <2>1. Queue!TypeOK'
    BY <1>9, QueueType DEF Receive
  <2>2. accepted' \in [Interfaces -> 0 .. U32 - 1] /\ rejected' \in 0 .. U32 - 1
    <3>1. [accepted EXCEPT ![f.interface_type] = (@ + 1) % U32]
            \in [Interfaces -> 0 .. U32 - 1]
      BY CountOneFrame
    <3>2. (rejected + 1) % U32 \in 0 .. U32 - 1
      BY CountOne
    <3>. QED  BY <1>9, <3>1, <3>2 DEF Receive
  <2>. QED  BY <1>9, <1>k, <2>1, <2>2 DEF Receive, Latch, ModeAfterFault
<1>10. CASE Drain
  BY <1>10, <1>k, QueueType DEF Drain
<1>11. ASSUME NEW a \in SpiAddresses, NEW v \in SpiValues, SpiWrite(a, v) PROVE TypeOK'
  <2>1. accepted' \in [Interfaces -> 0 .. U32 - 1]
    <3>1. [accepted EXCEPT ![SPI] = (@ + 1) % U32] \in [Interfaces -> 0 .. U32 - 1]
      BY CountOneFrame
    <3>. QED  BY <1>11, <3>1 DEF SpiWrite
  <2>2. spi_registers' \in [Registers -> SpiValues \cup {0}]
    <3>1. [spi_registers EXCEPT ![a] = v] \in [Registers -> SpiValues \cup {0}]
      OBVIOUS
    <3>. QED  BY <1>11, <3>1 DEF SpiWrite
  <2>3. state' \in States /\ fault_bitmap' \subseteq Faults
    BY <1>11 DEF SpiWrite, Latch, ModeAfterFault
  <2>4. Clock!TypeOK' /\ Queue!TypeOK' /\ UNCHANGED <<armVars, commandVars, telemetry_sequence>>
    BY <1>11, <1>k, <1>q DEF SpiWrite
  <2>. QED  BY <1>11, <2>1, <2>2, <2>3, <2>4 DEF SpiWrite
<1>12. ASSUME Telemetry PROVE TypeOK'
  <2>1. telemetry_sequence' \in 0 .. U16 - 1
    BY <1>12, ModularCounter DEF Telemetry
  <2>. QED  BY <1>12, <1>k, <1>q, <2>1 DEF Telemetry
<1>13. CASE UNCHANGED vars
  BY <1>13, <1>k, <1>q DEF vars
<1>. QED  BY <1>1, <1>2, <1>4, <1>5, <1>6, <1>7, <1>8, <1>9, <1>10, <1>11, <1>12, <1>13
     DEF Next

\* Every field of the controller keeps its type and its configuration stays
\* valid, whatever calls are made (controller.c, queue.c).
THEOREM TypeCorrect == Spec => []TypeOK
BY InitType, NextType, PTL DEF Spec

-------------------------------------------------------------------------------
(* Modes and faults                                                        *)


\* The premise of what follows: a caller that latches a fault names one.
NamedFaults == {} \notin FaultMasks

\* A latched recoverable or critical fault leaves mode and bitmap consistent
\* if they were so before.
LEMMA LatchKeepsConsistency ==
  ASSUME TypeOK, ModeConsistency, NEW mask, mask \subseteq Faults, mask # {},
         NEW critical \in BOOLEAN, Latch(mask, critical),
         UNCHANGED <<self_test_passed, heartbeat_seen>>
  PROVE  ModeConsistency'
BY DEF TypeOK, ModeConsistency, Latch, ModeAfterFault, States, Recoverable

LEMMA InitModes == Init => ModeConsistency
BY DEF Init, ModeConsistency, Recoverable

LEMMA NextModes ==
  ASSUME NamedFaults, TypeOK, ModeConsistency, [Next]_vars
  PROVE  ModeConsistency'
<1>1. ASSUME NEW mask, mask \subseteq Faults, mask # {}, NEW critical \in BOOLEAN,
             Latch(mask, critical), UNCHANGED armVars
      PROVE  ModeConsistency'
  BY <1>1, LatchKeepsConsistency
<1>2. ASSUME UNCHANGED <<modeVars, armVars>> PROVE ModeConsistency'
  BY <1>2 DEF ModeConsistency
<1>3. ASSUME NEW f \in Faults PROVE {f} \subseteq Faults /\ {f} # {}
  OBVIOUS
<1>4. /\ "SEQUENCE" \in Faults /\ "COMMAND_RANGE" \in Faults /\ "INTERFACE" \in Faults
      /\ "QUEUE_OVERFLOW" \in Faults /\ "WATCHDOG" \in Faults
  BY DEF Faults, Recoverable
<1>5. ASSUME NEW c \in Configs, Initialise(c) PROVE ModeConsistency'
  BY <1>5 DEF Initialise, ModeConsistency, Recoverable
<1>6. CASE MarkSelfTestPassed
  BY <1>6 DEF MarkSelfTestPassed, MayOperate, TypeOK, States, ModeConsistency, Recoverable
<1>7. ASSUME NEW s \in SequenceNumbers, RefuseSequence(s) PROVE ModeConsistency'
  BY <1>7, <1>1, <1>3, <1>4 DEF RefuseSequence
<1>8. ASSUME NEW s \in SequenceNumbers, Heartbeat(s) PROVE ModeConsistency'
  BY <1>8, <1>7 DEF Heartbeat, MayOperate, TypeOK, States, ModeConsistency, Recoverable
<1>9. ASSUME NEW s \in SequenceNumbers, NEW v \in Setpoints, Setpoint(s, v)
      PROVE  ModeConsistency'
  BY <1>9, <1>1, <1>2, <1>3, <1>4, <1>7 DEF Setpoint
<1>10. ASSUME NEW mask \in FaultMasks, NEW critical \in BOOLEAN,
              LatchFault(mask, critical)
       PROVE  ModeConsistency'
  BY <1>10, <1>1, InputAssumption DEF LatchFault, NamedFaults
<1>11. CASE Recover
  BY <1>11 DEF Recover, ModeConsistency
<1>12. CASE Tick
  BY <1>12, <1>1, <1>2, <1>3, <1>4 DEF Tick
<1>13. ASSUME NEW f \in Frames, Receive(f) PROVE ModeConsistency'
  BY <1>13, <1>1, <1>2, <1>3, <1>4 DEF Receive
<1>14. CASE Drain
  BY <1>14, <1>2 DEF Drain
<1>15. ASSUME NEW a \in SpiAddresses, NEW v \in SpiValues, SpiWrite(a, v)
       PROVE  ModeConsistency'
  BY <1>15, <1>1, <1>2, <1>3, <1>4 DEF SpiWrite
<1>16. ASSUME Telemetry PROVE ModeConsistency'
  BY <1>16, <1>2 DEF Telemetry
<1>17. CASE UNCHANGED vars
  BY <1>17, <1>2 DEF vars
<1>. QED  BY <1>5, <1>6, <1>8, <1>9, <1>10, <1>11, <1>12, <1>13, <1>14, <1>15, <1>16, <1>17
     DEF Next

\* As long as every caller of latch_fault names a fault, the mode, the bitmap
\* and the arming flags never contradict each other (controller.c:74-184).
THEOREM ModesAreConsistent ==
  ASSUME NamedFaults
  PROVE  Spec => []ModeConsistency
<1>1. TypeOK /\ ModeConsistency /\ [Next]_vars => ModeConsistency'
  BY NextModes
<1>. QED  BY <1>1, InitModes, TypeCorrect, PTL DEF Spec

\* Whatever is called in whatever order, only an initialisation leaves SAFE
\* (SSDD.md:66-74, controller.c:74-211).
THEOREM SafeAbsorbs == Spec => SafeIsAbsorbing
<1>1. [Next]_vars => [state = "SAFE" /\ state' # "SAFE" => Reinitialised]_vars
  <2> SUFFICES ASSUME Next, state = "SAFE" PROVE state' = "SAFE" \/ Reinitialised
    OBVIOUS
  <2>1. ASSUME NEW mask, NEW critical, Latch(mask, critical) PROVE state' = "SAFE"
    BY <2>1 DEF Latch, ModeAfterFault
  <2>2. ASSUME NEW s \in SequenceNumbers, Heartbeat(s) PROVE state' = "SAFE"
    BY <2>1, <2>2 DEF Heartbeat, RefuseSequence, MayOperate
  <2>3. Tick \/ (\E f \in Frames : Receive(f)) => state' = "SAFE"
    BY <2>1 DEF Tick, Receive
  <2>4. (\E a \in SpiAddresses, v \in SpiValues : SpiWrite(a, v)) => state' = "SAFE"
    BY <2>1 DEF SpiWrite
  <2>5. (\E mask \in FaultMasks, critical \in BOOLEAN : LatchFault(mask, critical))
          => state' = "SAFE"
    BY <2>1 DEF LatchFault
  <2>6. Drain \/ Telemetry => state' = "SAFE"
    BY DEF Drain, Telemetry
  <2>7. ~MarkSelfTestPassed /\ ~Recover
        /\ \A s \in SequenceNumbers, v \in Setpoints : ~Setpoint(s, v)
    BY DEF MarkSelfTestPassed, Recover, Setpoint
  <2>. QED  BY <2>2, <2>3, <2>4, <2>5, <2>6, <2>7 DEF Next, Reinitialised
<1>. QED  BY <1>1, PTL DEF Spec, SafeIsAbsorbing

\* Fault bits disappear only through an accepted recovery or a new
\* initialisation (controller.c:160, 168-184).
THEOREM FaultsStayLatched == Spec => FaultsLatched
<1>1. [Next]_vars
        => [~(fault_bitmap \subseteq fault_bitmap') => Reinitialised \/ Recover]_vars
  <2> SUFFICES ASSUME Next
               PROVE  fault_bitmap \subseteq fault_bitmap' \/ Reinitialised \/ Recover
    OBVIOUS
  <2>1. ASSUME NEW mask, NEW critical, Latch(mask, critical)
        PROVE  fault_bitmap \subseteq fault_bitmap'
    BY <2>1 DEF Latch
  <2>2. ASSUME NEW s \in SequenceNumbers, RefuseSequence(s)
        PROVE  fault_bitmap \subseteq fault_bitmap'
    BY <2>1, <2>2 DEF RefuseSequence
  <2>3. ASSUME NEW s \in SequenceNumbers, Heartbeat(s)
        PROVE  fault_bitmap \subseteq fault_bitmap'
    BY <2>2, <2>3 DEF Heartbeat
  <2>4. ASSUME NEW s \in SequenceNumbers, NEW v \in Setpoints, Setpoint(s, v)
        PROVE  fault_bitmap \subseteq fault_bitmap'
    BY <2>1, <2>2, <2>4 DEF Setpoint
  <2>5. ASSUME \/ Tick
               \/ \E f \in Frames : Receive(f)
               \/ \E a \in SpiAddresses, v \in SpiValues : SpiWrite(a, v)
               \/ \E mask \in FaultMasks, critical \in BOOLEAN : LatchFault(mask, critical)
        PROVE  fault_bitmap \subseteq fault_bitmap'
    BY <2>1, <2>5 DEF Tick, Receive, SpiWrite, LatchFault
  <2>6. ASSUME MarkSelfTestPassed \/ Drain \/ Telemetry
        PROVE  fault_bitmap \subseteq fault_bitmap'
    BY <2>6 DEF MarkSelfTestPassed, Drain, Telemetry
  <2>. QED  BY <2>3, <2>4, <2>5, <2>6 DEF Next, Reinitialised
<1>. QED  BY <1>1, PTL DEF Spec, FaultsLatched

-------------------------------------------------------------------------------
(* Commands                                                                *)

\* The functions that touch neither the command counter, nor the setpoint, nor
\* the heartbeat's arming flag and time stamp.
Bystander ==
  \/ MarkSelfTestPassed
  \/ \E mask \in FaultMasks, critical \in BOOLEAN : LatchFault(mask, critical)
  \/ Tick
  \/ \E f \in Frames : Receive(f)
  \/ Drain
  \/ \E a \in SpiAddresses, v \in SpiValues : SpiWrite(a, v)
  \/ Telemetry

LEMMA BystanderKeepsCommands ==
  ASSUME Bystander
  PROVE  UNCHANGED <<config, commandVars, heartbeat_seen, last_heartbeat_ms>>
<1>1. CASE MarkSelfTestPassed \/ Tick \/ Drain
  BY <1>1 DEF MarkSelfTestPassed, Tick, Drain
<1>2. CASE \E mask \in FaultMasks, critical \in BOOLEAN : LatchFault(mask, critical)
  BY <1>2 DEF LatchFault
<1>3. CASE \E f \in Frames : Receive(f)
  BY <1>3 DEF Receive
<1>4. CASE \E a \in SpiAddresses, v \in SpiValues : SpiWrite(a, v)
  BY <1>4 DEF SpiWrite
<1>5. CASE Telemetry
  BY <1>5 DEF Telemetry
<1>. QED  BY <1>1, <1>2, <1>3, <1>4, <1>5 DEF Bystander

\* Every step is one of these, which the proofs below go through.
LEMMA StepCases ==
  ASSUME Next
  PROVE  \/ Reinitialised
         \/ Recover
         \/ Bystander
         \/ \E s \in SequenceNumbers : Heartbeat(s)
         \/ \E s \in SequenceNumbers, v \in Setpoints : Setpoint(s, v)
BY DEF Next, Reinitialised, Bystander

\* The command counter never goes back and every effect of a command moves it
\* up, so no number ever has an effect twice (controller.c:83-150).
THEOREM NoCommandActsTwice == Spec => EffectsNeedFreshSequence
<1>1. TypeOK /\ [Next]_vars
        => [\/ Reinitialised
            \/ /\ last_command_sequence' >= last_command_sequence
               /\ \/ setpoint' # setpoint
                  \/ last_heartbeat_ms' # last_heartbeat_ms
                  \/ heartbeat_seen' /\ ~heartbeat_seen
                  => last_command_sequence' > last_command_sequence]_vars
  <2> DEFINE Fresh ==
        /\ last_command_sequence' >= last_command_sequence
        /\ \/ setpoint' # setpoint
           \/ last_heartbeat_ms' # last_heartbeat_ms
           \/ heartbeat_seen' /\ ~heartbeat_seen
           => last_command_sequence' > last_command_sequence
  <2> SUFFICES ASSUME TypeOK, Next PROVE Reinitialised \/ Fresh
    OBVIOUS
  <2>0. last_command_sequence \in Int /\ \A s \in SequenceNumbers : s \in Int
    BY InputAssumption, SizeAssumption DEF TypeOK
  <2>1. CASE Recover
    BY <2>0, <2>1 DEF Recover
  <2>2. CASE Bystander
    BY <2>0, <2>2, BystanderKeepsCommands
  <2>3. ASSUME NEW s \in SequenceNumbers, Heartbeat(s) PROVE Fresh
    <3>1. \/ last_command_sequence' = s /\ s > last_command_sequence
          \/ UNCHANGED <<commandVars, armVars>>
      BY <2>3 DEF Heartbeat, RefuseSequence, FreshSequence
    <3>2. CASE last_command_sequence' = s /\ s > last_command_sequence
      BY <2>0, <3>2
    <3>3. CASE UNCHANGED <<commandVars, armVars>>
      BY <2>0, <3>3
    <3>. QED  BY <3>1, <3>2, <3>3
  <2>4. ASSUME NEW s \in SequenceNumbers, NEW v \in Setpoints, Setpoint(s, v) PROVE Fresh
    <3>1. \/ last_command_sequence' = s /\ s > last_command_sequence
          \/ UNCHANGED <<commandVars, armVars>>
      BY <2>4 DEF Setpoint, RefuseSequence, FreshSequence
    <3>2. CASE last_command_sequence' = s /\ s > last_command_sequence
      BY <2>0, <3>2
    <3>3. CASE UNCHANGED <<commandVars, armVars>>
      BY <2>0, <3>3
    <3>. QED  BY <3>1, <3>2, <3>3
  <2>. QED  BY <2>1, <2>2, <2>3, <2>4, StepCases
<1>. QED  BY <1>1, TypeCorrect, PTL DEF Spec, EffectsNeedFreshSequence

\* The setpoint in force is 0 or inside the limits of the configuration in
\* force (controller.c:122-150).
THEOREM SetpointStaysWithinLimits == Spec => []SetpointWithinLimits
<1>1. Init => SetpointWithinLimits
  BY DEF Init, SetpointWithinLimits
<1>2. SetpointWithinLimits /\ [Next]_vars => SetpointWithinLimits'
  <2> SUFFICES ASSUME SetpointWithinLimits, [Next]_vars PROVE SetpointWithinLimits'
    OBVIOUS
  <2> USE DEF SetpointWithinLimits, WithinLimits
  <2>1. CASE Reinitialised
    BY <2>1 DEF Reinitialised, Initialise
  <2>2. CASE Recover
    BY <2>2 DEF Recover
  <2>3. CASE Bystander
    BY <2>3, BystanderKeepsCommands
  <2>4. ASSUME NEW s \in SequenceNumbers, Heartbeat(s) PROVE SetpointWithinLimits'
    BY <2>4 DEF Heartbeat, RefuseSequence
  <2>5. ASSUME NEW s \in SequenceNumbers, NEW v \in Setpoints, Setpoint(s, v)
        PROVE  SetpointWithinLimits'
    BY <2>5 DEF Setpoint, RefuseSequence
  <2>6. CASE UNCHANGED vars
    BY <2>6 DEF vars
  <2>. QED  BY <2>1, <2>2, <2>3, <2>4, <2>5, <2>6, StepCases
<1>. QED  BY <1>1, <1>2, PTL DEF Spec

\* The setpoint changes only in a controller that is OPERATIONAL, free of faults
\* and stays so (controller.c:122-150), if every latched fault is named.
THEOREM SetpointMovesUnderAuthority ==
  ASSUME NamedFaults
  PROVE  Spec => SetpointAuthority
<1>1. ModeConsistency /\ [Next]_vars
        => [setpoint' # setpoint /\ ~Reinitialised
              => state = "OPERATIONAL" /\ state' = "OPERATIONAL" /\ fault_bitmap = {}]_vars
  <2> SUFFICES ASSUME ModeConsistency, Next, setpoint' # setpoint, ~Reinitialised
               PROVE  state = "OPERATIONAL" /\ state' = "OPERATIONAL" /\ fault_bitmap = {}
    OBVIOUS
  <2>1. ~Recover
    BY DEF Recover
  <2>2. ~Bystander
    BY BystanderKeepsCommands
  <2>3. \A s \in SequenceNumbers : ~Heartbeat(s)
    BY DEF Heartbeat, RefuseSequence
  <2>4. PICK s \in SequenceNumbers, v \in Setpoints : Setpoint(s, v)
    BY <2>1, <2>2, <2>3, StepCases
  <2>. QED  BY <2>4 DEF Setpoint, RefuseSequence, ModeConsistency
<1>. QED  BY <1>1, ModesAreConsistent, PTL DEF Spec, SetpointAuthority

-------------------------------------------------------------------------------
(* The abstract controller                                                 *)

\* Under the same premise the controller implements ControllerModes, that is,
\* the transition table of its design document (docs/SSDD.md:57-74).
THEOREM ControllerFollowsModes ==
  ASSUME NamedFaults
  PROVE  Spec => FollowsModes
<1> USE DEF Modes!vars
<1>1. Init => Modes!Init
  BY DEF Init, Modes!Init
<1>2. TypeOK /\ ModeConsistency /\ [Next]_vars => [Modes!Next]_(Modes!vars)
  <2> SUFFICES ASSUME TypeOK, ModeConsistency, [Next]_vars
               PROVE  [Modes!Next]_(Modes!vars)
    OBVIOUS
  <2>0. state \in States
    BY DEF TypeOK
  <2>1. ASSUME NEW mask, NEW critical, Latch(mask, critical), UNCHANGED armVars
        PROVE  [Modes!Next]_(Modes!vars)
    BY <2>0, <2>1
       DEF Latch, ModeAfterFault, States, Modes!Next, Modes!RecoverableFault, Modes!FatalFault
  <2>2. ASSUME UNCHANGED <<modeVars, armVars>> PROVE [Modes!Next]_(Modes!vars)
    BY <2>2
  <2>3. CASE Reinitialised
    BY <2>3 DEF Reinitialised, Initialise, Modes!Next, Modes!Reset
  <2>4. CASE Recover
    BY <2>4 DEF Recover, Modes!Next, Modes!Recovery
  <2>5. CASE MarkSelfTestPassed
    BY <2>0, <2>5 DEF MarkSelfTestPassed, MayOperate, ModeConsistency, States,
                      Modes!Next, Modes!SelfTest
  <2>6. ASSUME NEW s \in SequenceNumbers, RefuseSequence(s)
        PROVE  [Modes!Next]_(Modes!vars)
    BY <2>1, <2>6 DEF RefuseSequence
  <2>7. ASSUME NEW s \in SequenceNumbers, Heartbeat(s)
        PROVE  [Modes!Next]_(Modes!vars)
    BY <2>0, <2>6, <2>7 DEF Heartbeat, MayOperate, ModeConsistency, States,
                            Modes!Next, Modes!Heartbeat
  <2>8. ASSUME NEW s \in SequenceNumbers, NEW v \in Setpoints, Setpoint(s, v)
        PROVE  [Modes!Next]_(Modes!vars)
    BY <2>1, <2>2, <2>6, <2>8 DEF Setpoint
  <2>9. ASSUME NEW mask \in FaultMasks, NEW critical \in BOOLEAN, LatchFault(mask, critical)
        PROVE  [Modes!Next]_(Modes!vars)
    BY <2>1, <2>9 DEF LatchFault
  <2>10. CASE Tick
    BY <2>1, <2>2, <2>10 DEF Tick
  <2>11. ASSUME NEW f \in Frames, Receive(f) PROVE [Modes!Next]_(Modes!vars)
    BY <2>1, <2>2, <2>11 DEF Receive
  <2>12. CASE Drain
    BY <2>2, <2>12 DEF Drain
  <2>13. ASSUME NEW a \in SpiAddresses, NEW v \in SpiValues, SpiWrite(a, v)
         PROVE  [Modes!Next]_(Modes!vars)
    BY <2>1, <2>2, <2>13 DEF SpiWrite
  <2>14. ASSUME Telemetry PROVE [Modes!Next]_(Modes!vars)
    BY <2>2, <2>14 DEF Telemetry
  <2>15. CASE UNCHANGED vars
    BY <2>2, <2>15 DEF vars
  <2>. QED  BY <2>3, <2>4, <2>5, <2>7, <2>8, <2>9, <2>10, <2>11, <2>12, <2>13, <2>14, <2>15
           DEF Next, Reinitialised
<1>. QED  BY <1>1, <1>2, TypeCorrect, ModesAreConsistent, PTL
     DEF Spec, FollowsModes, Modes!Spec

-------------------------------------------------------------------------------
(* Frames                                                                  *)

\* The ring of the controller, with the lemmas proved of it.
Ring == INSTANCE FrameQueueProofs WITH Frame <- Frames, Capacity <- QueueCapacity

RingInv == Queue!TypeOK /\ Queue!IndicesAgree /\ Queue!LiveSlotsWritten

LEMMA SameRing ==
  /\ RingInv <=> Ring!IInv
  /\ RingInv' <=> Ring!IInv'
  /\ Queue!Contents = Ring!Contents
  /\ Queue!Contents' = Ring!Contents'
  /\ [Queue!Next]_queueVars => [Ring!Next]_(Ring!vars)
BY DEF RingInv, Ring!IInv, Ring!vars, Ring!Next, Queue!Next,
       Ring!TypeOK, Queue!TypeOK, Ring!Slots, Queue!Slots,
       Ring!IndicesAgree, Queue!IndicesAgree, Ring!LiveSlotsWritten, Queue!LiveSlotsWritten,
       Ring!Contents, Queue!Contents, Ring!Wrap, Queue!Wrap, Ring!NextSlot, Queue!NextSlot,
       Ring!Push, Queue!Push, Ring!Pop, Queue!Pop, Ring!QueueInit, Queue!QueueInit

\* Whatever is called, the queue takes one of its own steps; only a reception
\* of an admissible frame pushes, and only an initialisation changes what is
\* admissible.
LEMMA QueueStep ==
  ASSUME [Next]_vars
  PROVE  \/ \E f \in Frames : Admissible(f) /\ Queue!Push(f) /\ UNCHANGED config
         \/ Queue!Pop /\ UNCHANGED config
         \/ Queue!QueueInit
         \/ UNCHANGED <<queueVars, config>>
<1>1. CASE Reinitialised
  BY <1>1 DEF Reinitialised, Initialise
<1>2. CASE Recover
  BY <1>2 DEF Recover
<1>3. ASSUME NEW s \in SequenceNumbers, Heartbeat(s) PROVE UNCHANGED <<queueVars, config>>
  BY <1>3 DEF Heartbeat, RefuseSequence
<1>4. ASSUME NEW s \in SequenceNumbers, NEW v \in Setpoints, Setpoint(s, v)
      PROVE  UNCHANGED <<queueVars, config>>
  BY <1>4 DEF Setpoint, RefuseSequence
<1>5. CASE MarkSelfTestPassed \/ Tick \/ Telemetry
  BY <1>5 DEF MarkSelfTestPassed, Tick, Telemetry
<1>6. CASE Drain
  BY <1>6 DEF Drain
<1>7. CASE \E mask \in FaultMasks, critical \in BOOLEAN : LatchFault(mask, critical)
  BY <1>7 DEF LatchFault
<1>8. ASSUME NEW f \in Frames, Receive(f)
      PROVE  \/ Admissible(f) /\ Queue!Push(f) /\ UNCHANGED config
             \/ UNCHANGED <<queueVars, config>>
  BY <1>8 DEF Receive
<1>9. CASE \E a \in SpiAddresses, v \in SpiValues : SpiWrite(a, v)
  BY <1>9 DEF SpiWrite
<1>10. CASE UNCHANGED vars
  BY <1>10 DEF vars
<1>. QED  BY <1>1, <1>2, <1>3, <1>4, <1>5, <1>6, <1>7, <1>8, <1>9, <1>10, StepCases
     DEF Bystander

LEMMA InitRing == Init => RingInv
BY SizeAssumption
   DEF Init, Queue!Init, RingInv, Queue!TypeOK, Queue!IndicesAgree, Queue!LiveSlotsWritten,
       Queue!Contents, Queue!Slots, Queue!Wrap

LEMMA NextRing == RingInv /\ [Next]_vars => RingInv'
<1> SUFFICES ASSUME RingInv, [Next]_vars PROVE RingInv'  OBVIOUS
<1>1. [Queue!Next]_queueVars
  BY QueueStep DEF Queue!Next
<1>. QED  BY <1>1, SameRing, Ring!NextInvariant, SizeAssumption, InputAssumption

\* What a queue operation of the controller does to the frames that wait.
LEMMA FramesStep ==
  ASSUME RingInv, [Next]_vars
  PROVE  /\ Queue!Contents \in Seq(Frames) /\ Len(Queue!Contents) = count
         /\ \/ \E f \in Frames : /\ Admissible(f) /\ count < QueueCapacity
                                 /\ Queue!Contents' = Append(Queue!Contents, f)
                                 /\ UNCHANGED <<config, delivered>>
            \/ /\ Queue!Contents # <<>>
               /\ delivered' = Head(Queue!Contents)
               /\ Queue!Contents' = Tail(Queue!Contents)
               /\ UNCHANGED config
            \/ Queue!Contents' = <<>> /\ UNCHANGED delivered
            \/ UNCHANGED <<Queue!Contents, config, delivered>>
<1>1. Queue!Contents \in Seq(Frames) /\ Len(Queue!Contents) = count
  BY DEF RingInv, Queue!TypeOK, Queue!LiveSlotsWritten, Queue!Contents
<1>2. RingInv' /\ Ring!IInv /\ Ring!TypeOK'
  BY NextRing, SameRing DEF Ring!IInv
<1>3. ASSUME NEW f \in Frames, Admissible(f), Queue!Push(f), UNCHANGED config
      PROVE  Queue!Contents' = Append(Queue!Contents, f)
  <2>1. Ring!Push(f)
    BY <1>3 DEF Ring!Push, Queue!Push, Ring!NextSlot, Queue!NextSlot
  <2>. QED  BY <1>2, <2>1, SameRing, Ring!PushAppends, SizeAssumption, InputAssumption
<1>4. ASSUME Queue!Pop
      PROVE  /\ Queue!Contents # <<>>
             /\ delivered' = Head(Queue!Contents)
             /\ Queue!Contents' = Tail(Queue!Contents)
  <2>1. Ring!Pop
    BY <1>4 DEF Ring!Pop, Queue!Pop, Ring!NextSlot, Queue!NextSlot
  <2>. QED  BY <1>2, <2>1, SameRing, Ring!PopTakesHead, SizeAssumption, InputAssumption
<1>5. ASSUME Queue!QueueInit PROVE Queue!Contents' = <<>> /\ UNCHANGED delivered
  BY <1>5 DEF Queue!QueueInit, Queue!Contents
<1>6. ASSUME UNCHANGED queueVars PROVE UNCHANGED <<Queue!Contents, delivered>>
  BY <1>6 DEF Queue!Contents, Queue!Wrap
<1>7. ASSUME NEW f \in Frames, Queue!Push(f) PROVE count < QueueCapacity /\ UNCHANGED delivered
  BY <1>7 DEF Queue!Push
<1>. QED  BY <1>1, <1>3, <1>4, <1>5, <1>6, <1>7, QueueStep

\* Every frame that waits is admissible under the configuration in use, for
\* any capacity and any sequence of receptions, drains and initialisations
\* (controller.c:45-47, 223-255; queue.c).
THEOREM QueueStaysAdmissible == Spec => []QueueHoldsAdmissibleFrames
<1>1. Init => QueueHoldsAdmissibleFrames
  BY DEF Init, Queue!Init, QueueHoldsAdmissibleFrames
<1>2. RingInv /\ QueueHoldsAdmissibleFrames /\ [Next]_vars => QueueHoldsAdmissibleFrames'
  <2> SUFFICES ASSUME RingInv, QueueHoldsAdmissibleFrames, [Next]_vars,
                      NEW i \in 1 .. count'
               PROVE  Admissible(Queue!Contents[i])'
    BY DEF QueueHoldsAdmissibleFrames
  <2> DEFINE old == Queue!Contents
             new == Queue!Contents'
  <2>1. old \in Seq(Frames) /\ Len(old) = count /\ Len(new) = count'
    BY NextRing, FramesStep DEF RingInv, Queue!TypeOK, Queue!Contents
  <2>2. \A k \in 1 .. count : Admissible(old[k])
    BY DEF QueueHoldsAdmissibleFrames
  <2>3. ASSUME UNCHANGED config, NEW f, Admissible(f), new[i] = f
        PROVE  Admissible(Queue!Contents[i])'
    BY <2>3 DEF Admissible
  <2>4. ASSUME NEW f \in Frames, Admissible(f), new = Append(old, f), UNCHANGED config
        PROVE  Admissible(Queue!Contents[i])'
    <3>1. new[i] = f \/ (i \in 1 .. count /\ new[i] = old[i])
      BY <2>1, <2>4
    <3>. QED  BY <2>2, <2>3, <2>4, <3>1
  <2>5. ASSUME old # <<>>, new = Tail(old), UNCHANGED config
        PROVE  Admissible(Queue!Contents[i])'
    <3>1. i + 1 \in 1 .. count /\ new[i] = old[i + 1]
      BY <2>1, <2>5
    <3>. QED  BY <2>2, <2>3, <2>5, <3>1
  <2>6. CASE new = <<>>
    BY <2>1, <2>6
  <2>7. CASE UNCHANGED <<Queue!Contents, config>>
    BY <2>1, <2>2, <2>3, <2>7
  <2>. QED  BY <2>4, <2>5, <2>6, <2>7, FramesStep
<1>. QED  BY <1>1, <1>2, InitRing, NextRing, PTL DEF Spec

\* Seen from outside, the controller's queue is a bounded FIFO buffer: frames
\* leave in the order of their acceptance, each once (queue.c; controller.c:255).
THEOREM ControllerKeepsOrder == Spec => FramesKeepOrder
<1>1. Init => Fifo!Init
  BY DEF Init, Queue!Init, Queue!Contents, Fifo!Init
<1>2. RingInv /\ [Next]_vars => [Fifo!Next]_(Fifo!vars)
  BY FramesStep DEF Fifo!Next, Fifo!Put, Fifo!Take, Fifo!Clear, Fifo!vars
<1>. QED  BY <1>1, <1>2, InitRing, NextRing, PTL DEF Spec, FramesKeepOrder, Fifo!Spec
===============================================================================
