----------------------- MODULE ControllerUsersProofs -----------------------
(***************************************************************************)
(* What those around the controller may rely on: an observer that counts   *)
(* frames and ticks (ControllerHistory), one that only receives some of    *)
(* the telemetry records (TelemetryLink), both for every counter width,    *)
(* and the firmware image (Firmware), for every size of the queue and the  *)
(* register file, all periods and every clock wider than the default       *)
(* timeout, where TLC runs it with one clock of 128 values.                *)
(***************************************************************************)
EXTENDS ControllerHistory, TelemetryLink, Firmware, ControllerProofs, NumberLemmas

USE DEF modeVars, armVars, commandVars, portVars, queueVars, clockVars

-------------------------------------------------------------------------------
(* The observer that counts                                                *)

LEMMA HistoryStep ==
  /\ HInit => Init
  /\ [HNext]_<<vars, observed>> => [Next]_vars
BY DEF HInit, HNext, Next, ObserveInitialise, ObserveSelfTest, ObserveHeartbeat, ObserveRecover,
       ObserveTick, ObserveReceive, ObserveDrain, ObserveSpiWrite, ObserveOther

\* History variables restrict nothing, so what holds of the controller holds of
\* the observed one.
THEOREM HistoryIsController == HSpec => Spec
BY HistoryStep, PTL DEF HSpec, Spec

\* The calls an observer of frames sees nothing of.
Quiet ==
  \/ Tick \/ MarkSelfTestPassed \/ Recover \/ Telemetry
  \/ \E s \in SequenceNumbers : Heartbeat(s)
  \/ \E s \in SequenceNumbers, v \in Setpoints : Setpoint(s, v)
  \/ \E mask \in FaultMasks, critical \in BOOLEAN : LatchFault(mask, critical)

LEMMA QuietKeepsFrames == ASSUME Quiet PROVE UNCHANGED <<accepted, queueVars>>
<1>1. CASE Tick \/ MarkSelfTestPassed \/ Recover \/ Telemetry
  BY <1>1 DEF Tick, MarkSelfTestPassed, Recover, Telemetry
<1>2. CASE \E s \in SequenceNumbers : Heartbeat(s)
  BY <1>2 DEF Heartbeat, RefuseSequence
<1>3. CASE \E s \in SequenceNumbers, v \in Setpoints : Setpoint(s, v)
  BY <1>3 DEF Setpoint, RefuseSequence
<1>4. CASE \E mask \in FaultMasks, critical \in BOOLEAN : LatchFault(mask, critical)
  BY <1>4 DEF LatchFault
<1>. QED  BY <1>1, <1>2, <1>3, <1>4 DEF Quiet

Total(counters) == counters[UART] + counters[SPI] + counters[CAN] + counters[ETHERNET]

LEMMA WidthIsPositive == U32 \in Nat \ {0} /\ 1 \in Int /\ 0 % U32 = 0
BY SizeAssumption, ModSmall

\* An acceptance raises the sum of the counters by one, modulo 2^32, although
\* each of them wraps on its own.
LEMMA TotalCounts ==
  ASSUME NEW counters \in [Interfaces -> 0 .. U32 - 1], NEW i \in Interfaces
  PROVE  /\ Total(counters) \in Int
         /\ Total([counters EXCEPT ![i] = (@ + 1) % U32]) % U32 = (Total(counters) + 1) % U32
<1> DEFINE after == [counters EXCEPT ![i] = (@ + 1) % U32]
<1>1. Interfaces = {UART, SPI, CAN, ETHERNET}
      /\ UART = 1 /\ SPI = 2 /\ CAN = 3 /\ ETHERNET = 4
  BY DEF Interfaces, UART, SPI, CAN, ETHERNET
<1>2. \A j \in Interfaces : counters[j] \in 0 .. U32 - 1
  OBVIOUS
<1>3. PICK new \in 0 .. U32 - 1 :
        /\ new = (counters[i] + 1) % U32
        /\ new \in {counters[i] + 1, counters[i] + 1 - U32}
  BY WidthIsPositive, ModIncrement
<1>4. after[i] = new /\ \A j \in Interfaces \ {i} : after[j] = counters[j]
  BY <1>3
<1>5. /\ Total(counters) \in Int /\ Total(after) \in Int
      /\ Total(after) \in {Total(counters) + 1, Total(counters) + 1 - U32}
  <2> HIDE DEF after
  <2>1. PICK a \in Int, b \in Int, c \in Int, d \in Int :
          /\ a = counters[UART] /\ b = counters[SPI]
          /\ c = counters[CAN] /\ d = counters[ETHERNET]
    BY <1>1, <1>2, WidthIsPositive
  <2>2. Total(counters) = a + b + c + d
    BY <2>1 DEF Total
  <2>3. CASE i = UART
    <3>1. Total(after) = new + b + c + d /\ new \in {a + 1, a + 1 - U32}
      BY <1>1, <1>3, <1>4, <2>1, <2>3 DEF Total
    <3>. QED  BY <2>2, <3>1, WidthIsPositive
  <2>4. CASE i = SPI
    <3>1. Total(after) = a + new + c + d /\ new \in {b + 1, b + 1 - U32}
      BY <1>1, <1>3, <1>4, <2>1, <2>4 DEF Total
    <3>. QED  BY <2>2, <3>1, WidthIsPositive
  <2>5. CASE i = CAN
    <3>1. Total(after) = a + b + new + d /\ new \in {c + 1, c + 1 - U32}
      BY <1>1, <1>3, <1>4, <2>1, <2>5 DEF Total
    <3>. QED  BY <2>2, <3>1, WidthIsPositive
  <2>6. CASE i = ETHERNET
    <3>1. Total(after) = a + b + c + new /\ new \in {d + 1, d + 1 - U32}
      BY <1>1, <1>3, <1>4, <2>1, <2>6 DEF Total
    <3>. QED  BY <2>2, <3>1, WidthIsPositive
  <2>. QED  BY <1>1, <2>3, <2>4, <2>5, <2>6
<1>6. PICK x \in Int, y \in Int : x = Total(counters) + 1 /\ y = Total(after)
  BY <1>5
<1>7. y \in {x, x - U32}
  BY <1>5, <1>6, WidthIsPositive
<1>8. y % U32 = x % U32
  BY <1>7, WidthIsPositive, ModOnce
<1>. QED  BY <1>5, <1>6, <1>8

\* The types an account of frames needs beside the controller's own.
Observable == drained \in 0 .. U32 - 1 /\ written \in 0 .. U32 - 1

LEMMA AccountStep ==
  ASSUME TypeOK, Observable, FramesAccountedFor, [HNext]_<<vars, observed>>
  PROVE  Observable' /\ FramesAccountedFor'
<1> DEFINE Balance == Total(accepted) % U32 = (count + drained + written) % U32
<1>0. /\ accepted \in [Interfaces -> 0 .. U32 - 1]
      /\ count \in Int /\ drained \in Int /\ written \in Int
      /\ SPI \in Interfaces
      /\ FramesAccountedFor <=> Balance
      /\ FramesAccountedFor' <=> Total(accepted') % U32 = (count' + drained' + written') % U32
  BY SizeAssumption
     DEF TypeOK, Queue!TypeOK, Observable, SPI, Interfaces, UART, ETHERNET,
         FramesAccountedFor, Total
<1>1. ASSUME UNCHANGED <<accepted, count, drained, written>>
      PROVE  Observable' /\ FramesAccountedFor'
  BY <1>0, <1>1 DEF Observable
<1>2. ASSUME NEW i \in Interfaces, accepted' = [accepted EXCEPT ![i] = (@ + 1) % U32],
             Observable', count' \in Int,
             (count' + drained' + written') % U32 = (count + drained + written + 1) % U32
      PROVE  FramesAccountedFor'
  <2>1. PICK x \in Int, y \in Int : x = Total(accepted) /\ y = count + drained + written
    <3>1. Total(accepted) \in Int
      BY <1>0, TotalCounts
    <3>. QED  BY <1>0, <3>1
  <2>2. (x + 1) % U32 = (y + 1) % U32
    <3>1. ((x % U32) + 1) % U32 = (x + 1) % U32 /\ ((y % U32) + 1) % U32 = (y + 1) % U32
      BY WidthIsPositive, ModSum, Zenon
    <3>. QED  BY <1>0, <2>1, <3>1
  <2>3. Total(accepted') % U32 = (x + 1) % U32
    BY <1>0, <1>2, <2>1, TotalCounts
  <2>. QED  BY <1>0, <1>2, <2>1, <2>2, <2>3
<1>3. CASE ObserveInitialise
  <2>1. /\ \A i \in Interfaces : accepted'[i] = 0
        /\ count' = 0 /\ drained' = 0 /\ written' = 0
    BY <1>3 DEF ObserveInitialise, Initialise, Queue!QueueInit
  <2>2. Total(accepted') = 0
    BY <2>1 DEF Total, Interfaces, UART, SPI, CAN, ETHERNET
  <2>. QED  BY <1>0, <2>1, <2>2, WidthIsPositive DEF Observable
<1>4. ASSUME Quiet, UNCHANGED <<drained, written>> PROVE Observable' /\ FramesAccountedFor'
  BY <1>1, <1>4, QuietKeepsFrames
<1>5. CASE ObserveDrain
  <2>1. count' = count - 1 /\ UNCHANGED <<accepted, written>>
    BY <1>5 DEF ObserveDrain, Drain, Queue!Pop
  <2>2. drained' \in 0 .. U32 - 1 /\ drained' \in {drained + 1, drained + 1 - U32}
    BY <1>5, WidthIsPositive, ModIncrement DEF ObserveDrain, Observable
  <2>3. PICK c \in Int, d \in Int, e \in Int, w \in Int :
          c = count /\ d = drained /\ e = drained' /\ w = written
    BY <1>0, <2>2
  <2>4. PICK x \in Int, y \in Int : x = c + d + w /\ y = c - 1 + e + w /\ y \in {x, x - U32}
    <3>1. e \in {d + 1, d + 1 - U32}
      BY <2>2, <2>3
    <3>. QED  BY <3>1, WidthIsPositive
  <2>5. y % U32 = x % U32
    BY <2>4, WidthIsPositive, ModOnce
  <2>6. x = count + drained + written /\ y = count' + drained' + written'
    BY <2>1, <2>3, <2>4
  <2>7. Observable'
    BY <2>1, <2>2 DEF Observable
  <2>. QED  BY <1>0, <2>1, <2>5, <2>6, <2>7
<1>6. CASE ObserveSpiWrite
  <2>1. PICK a \in SpiAddresses, v \in SpiValues :
          /\ SpiWrite(a, v)
          /\ written' = IF a \in Registers THEN (written + 1) % U32 ELSE written
          /\ UNCHANGED drained
    BY <1>6 DEF ObserveSpiWrite
  <2>2. CASE a \notin Registers
    BY <1>1, <2>1, <2>2 DEF SpiWrite
  <2>3. CASE a \in Registers
    <3>1. accepted' = [accepted EXCEPT ![SPI] = (@ + 1) % U32] /\ UNCHANGED count
      BY <2>1, <2>3 DEF SpiWrite
    <3>2. written' \in 0 .. U32 - 1 /\ written' \in {written + 1, written + 1 - U32}
      BY <2>1, <2>3, WidthIsPositive, ModIncrement DEF Observable
    <3>3. PICK x \in Int, y \in Int : /\ x = count + drained + written + 1
                                     /\ y = count' + drained' + written'
      BY <1>0, <2>1, <3>1, <3>2
    <3>4. y \in {x, x - U32}
      BY <1>0, <2>1, <3>1, <3>2, <3>3, WidthIsPositive
    <3>5. y % U32 = x % U32
      BY <3>4, WidthIsPositive, ModOnce
    <3>6. Observable'
      BY <2>1, <3>2 DEF Observable
    <3>. QED  BY <1>0, <1>2, <3>1, <3>3, <3>5, <3>6
  <2>. QED  BY <2>2, <2>3
<1>7. ASSUME NEW f \in Frames, Receive(f), UNCHANGED outflow
      PROVE  Observable' /\ FramesAccountedFor'
  <2>1. CASE UNCHANGED <<accepted, count>>
    BY <1>1, <1>7, <2>1 DEF outflow
  <2>2. CASE Admissible(f) /\ Queue!Push(f)
             /\ accepted' = [accepted EXCEPT ![f.interface_type] = (@ + 1) % U32]
    <3>1. f.interface_type \in Interfaces /\ count' = count + 1 /\ UNCHANGED <<drained, written>>
      BY <1>7, <2>2 DEF Admissible, Admits, Queue!Push, outflow
    <3>2. count' + drained' + written' = count + drained + written + 1
      BY <1>0, <3>1
    <3>3. Observable' /\ count' \in Int
      BY <1>0, <3>1 DEF Observable
    <3>. QED  BY <1>2, <2>2, <3>1, <3>2, <3>3
  <2>. QED  BY <1>7, <2>1, <2>2 DEF Receive
<1>8. CASE UNCHANGED <<vars, observed>>
  BY <1>1, <1>8 DEF vars, observed, outflow
<1>. QED  BY <1>3, <1>4, <1>5, <1>6, <1>7, <1>8
     DEF HNext, ObserveSelfTest, ObserveHeartbeat, ObserveRecover, ObserveTick, ObserveReceive,
         ObserveOther, Quiet, observed, outflow

\* The acceptance counters add up to the frames waiting, the frames drained and
\* the register writes, modulo 2^32: no accepted frame is lost or delivered
\* twice (controller.c:20, 255-280; queue.c).
THEOREM EveryFrameIsAccountedFor == HSpec => []FramesAccountedFor
<1>1. HInit => Observable /\ FramesAccountedFor
  <2> SUFFICES ASSUME HInit PROVE Observable /\ FramesAccountedFor
    OBVIOUS
  <2>1. /\ \A i \in Interfaces : accepted[i] = 0
        /\ count = 0 /\ drained = 0 /\ written = 0
    BY DEF HInit, Init, Queue!Init
  <2>. QED  BY <2>1, WidthIsPositive
       DEF Observable, FramesAccountedFor, Interfaces, UART, SPI, CAN, ETHERNET
<1>2. TypeOK /\ Observable /\ FramesAccountedFor /\ [HNext]_<<vars, observed>>
        => Observable' /\ FramesAccountedFor'
  BY AccountStep
<1>. QED  BY <1>1, <1>2, HistoryIsController, TypeCorrect, PTL DEF HSpec

-------------------------------------------------------------------------------
(* The observer that counts ticks                                          *)

\* What ties the watchdog's 32-bit subtraction to real silence.
SilenceIsAge == silence \in 0 .. U32 /\ (silence < U32 => Age = silence)

\* One more tick adds one to the age, whether or not the clock wraps.
LEMMA AgeAfterTick ==
  ASSUME TypeOK, Clock!Advance
  PROVE  AgeAt(elapsed_ms') = (Age + 1) % U32
<1>1. PICK e \in Int, h \in Int : e = elapsed_ms /\ h = last_heartbeat_ms
  BY DEF TypeOK, Clock!TypeOK
<1>2. PICK new \in Int, d \in Int : new = (e + 1) % U32 /\ d = e - h
  BY <1>1, WidthIsPositive
<1>3. elapsed_ms' = new
  BY <1>1, <1>2 DEF Clock!Advance, Clock!Increment
<1>4. (((e + 1) % U32) + (-h)) % U32 = (e + 1 + (-h)) % U32
  <2>1. e + 1 \in Int /\ -h \in Int
    BY <1>1
  <2>. QED  BY <2>1, WidthIsPositive, ModSum, Zenon
<1>5. ((d % U32) + 1) % U32 = (d + 1) % U32
  BY WidthIsPositive, ModSum, Zenon
<1>6. new - h = new + (-h) /\ e + 1 + (-h) = d + 1
  BY <1>1, <1>2
<1>7. (new - h) % U32 = ((d % U32) + 1) % U32
  BY <1>2, <1>4, <1>5, <1>6
<1>. QED  BY <1>1, <1>2, <1>3, <1>7 DEF Age, AgeAt

\* A tick either shows in the age or completes a whole clock period.
LEMMA SilenceAfterTick ==
  ASSUME TypeOK, SilenceIsAge, ObserveTick
  PROVE  /\ silence' \in 0 .. U32 /\ silence' > 0
         /\ silence' < U32 => AgeAt(elapsed_ms') = silence'
         /\ silence < U32 /\ silence' = U32 => AgeAt(elapsed_ms') = 0
<1>1. AgeAt(elapsed_ms') = (Age + 1) % U32
  BY AgeAfterTick DEF ObserveTick, Tick
<1>2. CASE silence = U32
  BY <1>2, WidthIsPositive DEF ObserveTick, SilenceIsAge
<1>3. CASE silence < U32
  <2>1. silence' = silence + 1 /\ silence \in 0 .. U32 - 1 /\ Age = silence
    BY <1>3, WidthIsPositive DEF ObserveTick, SilenceIsAge
  <2>2. silence + 1 < U32 => (silence + 1) % U32 = silence + 1
    BY <2>1, WidthIsPositive, ModSmall
  <2>3. U32 % U32 = 0
    BY WidthIsPositive
  <2>4. silence + 1 = U32 => (silence + 1) % U32 = 0
    BY <2>3
  <2>. QED  BY <1>1, <2>1, <2>2, <2>4, WidthIsPositive
<1>. QED  BY <1>2, <1>3, WidthIsPositive DEF SilenceIsAge

LEMMA InitSilence == HInit => SilenceIsAge
<1>1. 0 - 0 = 0
  OBVIOUS
<1>. QED  BY <1>1, WidthIsPositive DEF HInit, Init, Clock!Init, SilenceIsAge, Age, AgeAt

LEMMA NextSilence ==
  ASSUME TypeOK, SilenceIsAge, [HNext]_<<vars, observed>>
  PROVE  SilenceIsAge'
<1>1. ASSUME UNCHANGED <<elapsed_ms, last_heartbeat_ms, silence>> PROVE SilenceIsAge'
  BY <1>1 DEF SilenceIsAge, Age, AgeAt
<1>2. ASSUME elapsed_ms' = last_heartbeat_ms', elapsed_ms' \in Int, silence' = 0
      PROVE  SilenceIsAge'
  <2>1. PICK e \in Int : elapsed_ms' = e /\ last_heartbeat_ms' = e
    BY <1>2
  <2>2. (e - e) % U32 = 0
    BY WidthIsPositive
  <2>3. Age' = 0
    BY <2>1, <2>2 DEF Age, AgeAt
  <2>. QED  BY <1>2, <2>3, WidthIsPositive DEF SilenceIsAge
<1>3. CASE ObserveInitialise
  BY <1>2, <1>3 DEF ObserveInitialise, Initialise, Clock!Start
<1>4. CASE ObserveTick
  <2>1. last_heartbeat_ms' = last_heartbeat_ms
    BY <1>4 DEF ObserveTick, Tick
  <2>2. Age' = AgeAt(elapsed_ms')
    BY <2>1 DEF Age, AgeAt
  <2>. QED  BY <1>4, <2>2, SilenceAfterTick DEF SilenceIsAge
<1>5. CASE ObserveHeartbeat
  <2>1. PICK s \in SequenceNumbers :
          Heartbeat(s) /\ (FreshSequence(s) => silence' = 0)
                       /\ (~FreshSequence(s) => UNCHANGED silence)
    BY <1>5 DEF ObserveHeartbeat
  <2>2. CASE FreshSequence(s)
    BY <1>2, <2>1, <2>2 DEF Heartbeat, RefuseSequence, TypeOK, Clock!TypeOK
  <2>3. CASE ~FreshSequence(s)
    BY <1>1, <2>1, <2>3 DEF Heartbeat, RefuseSequence
  <2>. QED  BY <2>2, <2>3
<1>6. CASE ObserveDrain
  BY <1>1, <1>6 DEF ObserveDrain, Drain
<1>7. CASE ObserveSpiWrite
  BY <1>1, <1>7 DEF ObserveSpiWrite, SpiWrite
<1>8. CASE ObserveOther \/ ObserveSelfTest \/ ObserveRecover \/ ObserveReceive
  BY <1>1, <1>8 DEF ObserveOther, observed, ObserveSelfTest, MarkSelfTestPassed, Setpoint,
                    RefuseSequence, LatchFault, ObserveRecover, Recover, ObserveReceive, Receive,
                    Telemetry
<1>9. CASE UNCHANGED <<vars, observed>>
  BY <1>1, <1>9 DEF vars, observed
<1>. QED  BY <1>3, <1>4, <1>5, <1>6, <1>7, <1>8, <1>9 DEF HNext

\* No call but a tick and an initialisation moves the clock.
LEMMA OnlyTickTicks ==
  ASSUME TypeOK, HNext, Tick
  PROVE  ObserveTick \/ ObserveInitialise
<1>1. elapsed_ms' # elapsed_ms
  <2>1. elapsed_ms \in 0 .. U32 - 1 /\ elapsed_ms' = (elapsed_ms + 1) % U32
    BY DEF TypeOK, Clock!TypeOK, Tick, Clock!Advance, Clock!Increment
  <2>2. elapsed_ms' \in {elapsed_ms + 1, elapsed_ms + 1 - U32}
    BY <2>1, WidthIsPositive, ModIncrement
  <2>. QED  BY <2>1, <2>2, SizeAssumption
<1>. QED  BY <1>1 DEF HNext, ObserveInitialise, ObserveHeartbeat, Heartbeat, RefuseSequence,
       ObserveDrain, Drain, ObserveSpiWrite, SpiWrite, ObserveSelfTest, MarkSelfTestPassed,
       ObserveRecover, Recover, ObserveReceive, Receive, ObserveOther, Setpoint, LatchFault,
       Telemetry

LEMMA SilenceInvariant == HSpec => [](TypeOK /\ SilenceIsAge)
<1>1. TypeOK /\ SilenceIsAge /\ [HNext]_<<vars, observed>> => SilenceIsAge'
  BY NextSilence
<1>. QED  BY <1>1, InitSilence, HistoryIsController, TypeCorrect, PTL DEF HSpec

\* The watchdog's fault means real silence, wraps of the clock notwithstanding
\* (controller.c:190, 202-210).
THEOREM WatchdogIsNeverEarly == HSpec => WatchdogNeverEarly
<1>1. ASSUME TypeOK, SilenceIsAge, HNext, Tick, "WATCHDOG" \in fault_bitmap' \ fault_bitmap
      PROVE  silence' > config.watchdog_timeout_ms
  <2>1. Expired(elapsed_ms')
    BY <1>1 DEF Tick
  <2>2. config.watchdog_timeout_ms \in Nat
    BY <1>1, ConfigAssumption DEF TypeOK, ValidConfigs
  <2>3. CASE ObserveTick
    <3>1. AgeAt(elapsed_ms') \in 0 .. U32 - 1
      <4>1. elapsed_ms' - last_heartbeat_ms \in Int
        <5>1. elapsed_ms' = (elapsed_ms + 1) % U32
          BY <1>1 DEF Tick, Clock!Advance, Clock!Increment
        <5>2. elapsed_ms' \in 0 .. U32 - 1
          BY <1>1, <5>1, WidthIsPositive, ModIncrement DEF TypeOK, Clock!TypeOK
        <5>. QED  BY <1>1, <5>2, WidthIsPositive DEF TypeOK, Clock!TypeOK
      <4>. QED  BY <4>1, WidthIsPositive, ModDivision DEF AgeAt
    <3>2. AgeAt(elapsed_ms') > config.watchdog_timeout_ms
      BY <2>1 DEF Expired
    <3>. QED  BY <1>1, <2>2, <2>3, <3>1, <3>2, SilenceAfterTick, WidthIsPositive
  <2>4. CASE ObserveInitialise
    BY <1>1, <2>4 DEF ObserveInitialise, Initialise
  <2>. QED  BY <1>1, <2>3, <2>4, OnlyTickTicks
<1>2. TypeOK /\ SilenceIsAge /\ [HNext]_<<vars, observed>>
        => [Tick /\ "WATCHDOG" \in fault_bitmap' \ fault_bitmap
              => silence' > config.watchdog_timeout_ms]_<<vars, observed>>
  BY <1>1
<1>. QED  BY <1>2, SilenceInvariant, PTL DEF HSpec, WatchdogNeverEarly

\* Silence past the timeout ends in SAFE at the first supervised tick, unless it
\* has lasted a whole clock period (controller.c:202-210).
THEOREM WatchdogIsNeverLate == HSpec => WatchdogNeverLate
<1>1. ASSUME TypeOK, SilenceIsAge, HNext, Tick, self_test_passed,
             silence' > config.watchdog_timeout_ms, silence' < U32
      PROVE  state' = "SAFE"
  <2>1. config.watchdog_timeout_ms \in Nat
    BY <1>1, ConfigAssumption DEF TypeOK, ValidConfigs
  <2>2. ObserveTick
    BY <1>1, <2>1, OnlyTickTicks DEF ObserveInitialise
  <2>3. Expired(elapsed_ms')
    BY <1>1, <2>2, SilenceAfterTick DEF Expired
  <2>. QED  BY <1>1, <2>3 DEF Tick, Latch, ModeAfterFault
<1>2. TypeOK /\ SilenceIsAge /\ [HNext]_<<vars, observed>>
        => [Tick /\ self_test_passed /\ silence' > config.watchdog_timeout_ms /\ silence' < U32
              => state' = "SAFE"]_<<vars, observed>>
  BY <1>1
<1>. QED  BY <1>2, SilenceInvariant, PTL DEF HSpec, WatchdogNeverLate

-------------------------------------------------------------------------------
(* The observer of what happened since the last recovery                   *)

\* The arming flags claim no more than what happened since the last recovery or
\* initialisation.
EvidenceHeld ==
  /\ evidence \subseteq {"self_test", "heartbeat"}
  /\ self_test_passed => "self_test" \in evidence
  /\ heartbeat_seen => "heartbeat" \in evidence

LEMMA EvidenceStep ==
  ASSUME EvidenceHeld, [HNext]_<<vars, observed>>
  PROVE  EvidenceHeld'
<1>1. ASSUME UNCHANGED <<self_test_passed, heartbeat_seen, evidence>> PROVE EvidenceHeld'
  BY <1>1 DEF EvidenceHeld
<1>2. CASE ObserveInitialise \/ ObserveRecover
  BY <1>2 DEF ObserveInitialise, Initialise, ObserveRecover, Recover, EvidenceHeld
<1>3. CASE ObserveSelfTest
  BY <1>3 DEF ObserveSelfTest, MarkSelfTestPassed, EvidenceHeld
<1>4. CASE ObserveHeartbeat
  <2>1. PICK s \in SequenceNumbers :
          /\ Heartbeat(s)
          /\ FreshSequence(s) => evidence' = evidence \cup {"heartbeat"}
          /\ ~FreshSequence(s) => UNCHANGED evidence
    BY <1>4 DEF ObserveHeartbeat
  <2>2. CASE FreshSequence(s)
    <3>1. UNCHANGED self_test_passed /\ evidence' = evidence \cup {"heartbeat"}
      BY <2>1, <2>2 DEF Heartbeat, RefuseSequence
    <3>. QED  BY <3>1 DEF EvidenceHeld
  <2>3. CASE ~FreshSequence(s)
    BY <1>1, <2>1, <2>3 DEF Heartbeat, RefuseSequence
  <2>. QED  BY <2>2, <2>3
<1>5. CASE ObserveTick \/ ObserveReceive \/ ObserveDrain \/ ObserveSpiWrite
  BY <1>1, <1>5 DEF ObserveTick, Tick, ObserveReceive, Receive, ObserveDrain, Drain,
                    ObserveSpiWrite, SpiWrite
<1>6. CASE ObserveOther
  BY <1>1, <1>6 DEF ObserveOther, observed, Setpoint, RefuseSequence, LatchFault, Telemetry
<1>7. CASE UNCHANGED <<vars, observed>>
  BY <1>1, <1>7 DEF vars, observed
<1>. QED  BY <1>2, <1>3, <1>4, <1>5, <1>6, <1>7 DEF HNext

\* Only the self-test and an accepted heartbeat enter OPERATIONAL, and only from
\* a fault-free INIT.
LEMMA OperationStartsFaultFree ==
  ASSUME TypeOK, ModeConsistency, Next, state # "OPERATIONAL", state' = "OPERATIONAL"
  PROVE  state = "INIT" /\ fault_bitmap = {}
<1>1. ASSUME NEW mask, NEW critical, Latch(mask, critical) PROVE FALSE
  BY <1>1 DEF Latch, ModeAfterFault
<1>2. MayOperate => state = "INIT" /\ fault_bitmap = {}
  BY DEF MayOperate, TypeOK, States, ModeConsistency
<1>3. CASE MarkSelfTestPassed
  BY <1>2, <1>3 DEF MarkSelfTestPassed
<1>4. ASSUME NEW s \in SequenceNumbers, Heartbeat(s)
      PROVE  state = "INIT" /\ fault_bitmap = {}
  BY <1>1, <1>2, <1>4 DEF Heartbeat, RefuseSequence
<1>5. ~Reinitialised /\ ~Recover
  BY DEF Reinitialised, Initialise, Recover
<1>6. ASSUME NEW s \in SequenceNumbers, NEW v \in Setpoints PROVE ~Setpoint(s, v)
  BY DEF Setpoint
<1>7. ~Bystander \/ MarkSelfTestPassed
  <2>1. ~(\E mask \in FaultMasks, critical \in BOOLEAN : LatchFault(mask, critical))
    BY <1>1 DEF LatchFault
  <2>2. ~Tick /\ ~Drain /\ ~Telemetry
    BY <1>1 DEF Tick, Drain, Telemetry
  <2>3. \A f \in Frames : ~Receive(f)
    BY <1>1 DEF Receive
  <2>4. \A a \in SpiAddresses, v \in SpiValues : ~SpiWrite(a, v)
    BY <1>1 DEF SpiWrite
  <2>. QED  BY <2>1, <2>2, <2>3, <2>4 DEF Bystander
<1>. QED  BY <1>3, <1>4, <1>5, <1>6, <1>7, StepCases

\* If every latched fault is named, OPERATIONAL is entered only from a fault-free
\* INIT and with a self-test and a heartbeat that are both newer than the last
\* recovery or initialisation (controller.c:74-81, 103-120, 168-184; SRS.md:86-88).
THEOREM OperationMustBeEarned ==
  ASSUME NamedFaults
  PROVE  HSpec => OperationIsEarned
<1>1. HInit => EvidenceHeld
  BY DEF HInit, Init, EvidenceHeld
<1>2. EvidenceHeld /\ [HNext]_<<vars, observed>> => EvidenceHeld'
  BY EvidenceStep
<1>3. TypeOK /\ ModeConsistency /\ EvidenceHeld /\ [HNext]_<<vars, observed>>
        => [state # "OPERATIONAL" /\ state' = "OPERATIONAL"
              => /\ state = "INIT" /\ fault_bitmap = {}
                 /\ evidence' = {"self_test", "heartbeat"}]_<<vars, observed>>
  <2> SUFFICES ASSUME TypeOK, ModeConsistency, EvidenceHeld, [HNext]_<<vars, observed>>,
                      state # "OPERATIONAL", state' = "OPERATIONAL"
               PROVE  /\ state = "INIT" /\ fault_bitmap = {}
                      /\ evidence' = {"self_test", "heartbeat"}
    OBVIOUS
  <2>1. [Next]_vars
    BY HistoryStep
  <2>2. Next
    BY <2>1 DEF vars
  <2>3. self_test_passed' /\ heartbeat_seen'
    <3>1. ModeConsistency'
      BY <2>1, NextModes
    <3>. QED  BY <3>1 DEF ModeConsistency
  <2>4. evidence' = {"self_test", "heartbeat"}
    BY <2>3, EvidenceStep DEF EvidenceHeld
  <2>. QED  BY <2>2, <2>4, OperationStartsFaultFree
<1>. QED  BY <1>1, <1>2, <1>3, HistoryIsController, TypeCorrect, ModesAreConsistent, PTL
     DEF HSpec, OperationIsEarned

\* Whether a reception stores or refuses is decided by the frame and the room.
LEMMA ReceiveCases ==
  ASSUME TypeOK, NEW f \in Frames, Receive(f)
  PROVE  \/ /\ ~MustRefuse(f) /\ count' = count + 1
            /\ UNCHANGED <<modeVars, rejected>>
         \/ /\ MustRefuse(f) /\ Latch({CauseOf(f)}, FALSE)
            /\ rejected' = (rejected + 1) % U32
            /\ UNCHANGED <<accepted, queueVars>>
<1>1. Admissible(f) /\ Queue!Push(f) => ~MustRefuse(f) /\ count' = count + 1
  BY SizeAssumption DEF Queue!Push, MustRefuse, TypeOK, Queue!TypeOK
<1>. QED  BY <1>1 DEF Receive, MustRefuse, CauseOf

LEMMA RecordStep ==
  ASSUME TypeOK, RefusalsOnRecord, [HNext]_<<vars, observed>>
  PROVE  RefusalsOnRecord'
<1>1. ASSUME UNCHANGED <<rejected, modeVars, noted>> PROVE RefusalsOnRecord'
  BY <1>1 DEF RefusalsOnRecord, noted
<1>2. ASSUME NEW mask, NEW critical, Latch(mask, critical), rejected' = refusals',
             causes' \subseteq causes \cup mask
      PROVE  RefusalsOnRecord'
  BY <1>2 DEF RefusalsOnRecord, Latch, ModeAfterFault
<1>3. ASSUME NEW mask, NEW critical, Latch(mask, critical), UNCHANGED <<rejected, noted>>
      PROVE  RefusalsOnRecord'
  BY <1>2, <1>3 DEF RefusalsOnRecord, noted
<1>4. ASSUME UNCHANGED <<rejected, fault_bitmap, noted>>,
             state' = state \/ MayOperate
      PROVE  RefusalsOnRecord'
  BY <1>4 DEF RefusalsOnRecord, noted, MayOperate
<1>5. CASE ObserveInitialise
  BY <1>5 DEF ObserveInitialise, Initialise, RefusalsOnRecord
<1>6. CASE ObserveRecover
  BY <1>6 DEF ObserveRecover, Recover, RefusalsOnRecord
<1>7. CASE ObserveSelfTest
  BY <1>4, <1>7 DEF ObserveSelfTest, MarkSelfTestPassed
<1>8. CASE ObserveHeartbeat
  BY <1>3, <1>4, <1>8 DEF ObserveHeartbeat, Heartbeat, RefuseSequence
<1>9. CASE ObserveTick
  BY <1>1, <1>3, <1>9 DEF ObserveTick, Tick
<1>10. CASE ObserveReceive
  <2>1. PICK f \in Frames :
          /\ Receive(f)
          /\ MustRefuse(f) => /\ refusals' = (refusals + 1) % U32
                              /\ causes' = causes \cup {CauseOf(f)}
          /\ ~MustRefuse(f) => UNCHANGED noted
    BY <1>10 DEF ObserveReceive
  <2>2. CASE UNCHANGED <<rejected, modeVars>> /\ ~MustRefuse(f)
    BY <1>1, <2>1, <2>2
  <2>3. CASE MustRefuse(f) /\ Latch({CauseOf(f)}, FALSE) /\ rejected' = (rejected + 1) % U32
    BY <1>2, <2>1, <2>3 DEF RefusalsOnRecord
  <2>. QED  BY <2>1, <2>2, <2>3, ReceiveCases
<1>11. CASE ObserveDrain
  BY <1>1, <1>11 DEF ObserveDrain, Drain
<1>12. CASE ObserveSpiWrite
  BY <1>1, <1>3, <1>12 DEF ObserveSpiWrite, SpiWrite
<1>13. CASE ObserveOther
  BY <1>1, <1>3, <1>13 DEF ObserveOther, observed, Setpoint, RefuseSequence, LatchFault, Telemetry
<1>14. CASE UNCHANGED <<vars, observed>>
  BY <1>1, <1>14 DEF vars, observed
<1>. QED  BY <1>5, <1>6, <1>7, <1>8, <1>9, <1>10, <1>11, <1>12, <1>13, <1>14 DEF HNext

\* A refusal is counted, adds its own fault, leaves normal operation and touches
\* neither queue nor acceptance counters, an acceptance changes no mode; and no
\* later call undoes it: the counter is the number of refusals, and until a
\* recovery their faults stay (controller.c:160-184, 223-281).
THEOREM RefusalsAreLatched == HSpec => RefusalIsLatched /\ []RefusalsOnRecord
<1> DEFINE Latched ==
      \A f \in Frames : Receive(f) =>
        IF MustRefuse(f)
        THEN /\ rejected' = (rejected + 1) % U32
             /\ fault_bitmap' = fault_bitmap \cup {CauseOf(f)}
             /\ state' = IF state = "SAFE" THEN "SAFE" ELSE "DEGRADED"
             /\ UNCHANGED <<accepted, queueVars>>
        ELSE count' = count + 1 /\ UNCHANGED <<modeVars, rejected>>
<1>1. TypeOK => [Latched]_<<vars, observed>>
  <2> SUFFICES ASSUME TypeOK, NEW f \in Frames, Receive(f)
               PROVE  IF MustRefuse(f)
                      THEN /\ rejected' = (rejected + 1) % U32
                           /\ fault_bitmap' = fault_bitmap \cup {CauseOf(f)}
                           /\ state' = IF state = "SAFE" THEN "SAFE" ELSE "DEGRADED"
                           /\ UNCHANGED <<accepted, queueVars>>
                      ELSE count' = count + 1 /\ UNCHANGED <<modeVars, rejected>>
    OBVIOUS
  <2>1. CASE ~MustRefuse(f)
    BY <2>1, ReceiveCases
  <2>2. CASE MustRefuse(f)
    <3>1. {CauseOf(f)} \subseteq Recoverable
      BY DEF CauseOf, Recoverable
    <3>2. Latch({CauseOf(f)}, FALSE)
      BY <2>2, ReceiveCases
    <3>3. /\ fault_bitmap' = fault_bitmap \cup {CauseOf(f)}
          /\ state' = IF state = "SAFE" THEN "SAFE" ELSE "DEGRADED"
      BY <3>1, <3>2 DEF Latch, ModeAfterFault
    <3>. QED  BY <2>2, <3>3, ReceiveCases
  <2>. QED  BY <2>1, <2>2
<1>2. HInit => RefusalsOnRecord
  BY DEF HInit, Init, RefusalsOnRecord
<1>3. TypeOK /\ RefusalsOnRecord /\ [HNext]_<<vars, observed>> => RefusalsOnRecord'
  BY RecordStep
<1>. QED  BY <1>1, <1>2, <1>3, HistoryIsController, TypeCorrect, PTL
     DEF HSpec, RefusalIsLatched

-------------------------------------------------------------------------------
(* The receiver of telemetry                                               *)

\* The words of the program: a 32-bit counter wraps where its low 16 bits do.
WidthsNest == \E k \in Nat : U32 = k * U16

LEMMA LinkStep ==
  /\ LinkInit => Init
  /\ [LinkNext]_<<vars, link>> => [Next]_vars
BY DEF LinkInit, LinkNext, Next, Restart, FrameComes, RegisterWrite, RecordArrives,
       RecordIsLost, OtherCall

\* The receiver restricts no call either.
THEOREM LinkIsController == LinkSpec => Spec
BY LinkStep, PTL DEF LinkSpec, Spec

\* A counter that reads now has moved by n since it read then, modulo U16.
Reckons(now, then, n) == n < U16 => (now - then) % U16 = n

LEMMA ReckoningStarts ==
  ASSUME NEW x \in Int
  PROVE  Reckons(x, x % U16, 0)
<1>1. U16 \in Nat \ {0} /\ x - x = 0 /\ 0 % U16 = 0
  BY SizeAssumption, ModSmall
<1>2. (x - (x % U16)) % U16 = (x - x) % U16
  BY <1>1, ModDifference, Zenon
<1>. QED  BY <1>1, <1>2 DEF Reckons

\* One more event: neither a wrap of the counter nor one of the field shows.
LEMMA ReckoningStep ==
  ASSUME NEW w \in Nat \ {0}, NEW k \in Nat, w = k * U16,
         NEW x \in 0 .. w - 1, NEW r \in Int, NEW n \in 0 .. U16, Reckons(x, r, n)
  PROVE  UpToU16(n + 1) \in 0 .. U16 /\ Reckons((x + 1) % w, r, UpToU16(n + 1))
<1>1. U16 \in Nat \ {0}
  BY SizeAssumption
<1>2. CASE n + 1 >= U16
  BY <1>1, <1>2 DEF UpToU16, Reckons
<1>3. CASE n + 1 < U16
  <2>1. PICK y \in Int : y = (x + 1) % w /\ y \in {x + 1, x + 1 - w}
    BY ModIncrement
  <2>2. PICK d \in Int, e \in Int : d = x - r + 1 /\ e = y - r
    BY <2>1
  <2>3. e \in {d, d - w}
    BY <2>1, <2>2
  <2>4. e % U16 = d % U16
    <3>1. (e + k * U16) % U16 = e % U16
      <4>1. e \in Int /\ k \in Int
        BY <2>2
      <4>. QED  BY <1>1, <4>1, ModShift, Zenon
    <3>2. e = d \/ d = e + w
      BY <2>2, <2>3
    <3>. QED  BY <3>1, <3>2
  <2>5. PICK b \in Int : b = x - r
    OBVIOUS
  <2>6. ((b % U16) + 1) % U16 = (b + 1) % U16
    <3>1. 1 \in Int
      OBVIOUS
    <3>. QED  BY <1>1, <3>1, ModSum, Zenon
  <2>7. b % U16 = n
    <3>1. n < U16
      BY <1>1, <1>3
    <3>2. (x - r) % U16 = n
      BY <3>1 DEF Reckons
    <3>. QED  BY <2>5, <3>2
  <2>8. (n + 1) % U16 = n + 1
    BY <1>1, <1>3, ModSmall
  <2>9. e % U16 = n + 1
    BY <2>2, <2>4, <2>5, <2>6, <2>7, <2>8
  <2>. QED  BY <1>1, <1>3, <2>1, <2>2, <2>9 DEF UpToU16, Reckons
<1>. QED  BY <1>1, <1>2, <1>3

\* What the receiver reckons from the fields is what a counter tells it.
LEMMA ReckoningFromField ==
  ASSUME NEW x \in Int, NEW r \in Int, NEW n, Reckons(x, r, n)
  PROVE  Reckons(x % U16, r, n)
<1>1. U16 \in Nat \ {0} /\ -r \in Int
  BY SizeAssumption
<1>2. ((x % U16) + (-r)) % U16 = (x + (-r)) % U16
  BY <1>1, ModSum, Zenon
<1>3. (x % U16) + (-r) = (x % U16) - r /\ x + (-r) = x - r
  BY <1>1
<1>. QED  BY <1>2, <1>3 DEF Reckons

Records == [sequence : 0 .. U16 - 1, accepted : [Interfaces -> 0 .. U16 - 1],
            rejected : 0 .. U16 - 1]

\* What the last record, the events since and the counters say of each other.
LinkInvariant ==
  /\ since \in [Interfaces \cup {Refused} -> 0 .. U16] /\ lost \in 0 .. U16
  /\ received # Unwritten =>
       /\ received \in Records
       /\ \A i \in Interfaces : Reckons(accepted[i], received.accepted[i], since[i])
       /\ Reckons(rejected, received.rejected, since[Refused])
       /\ Reckons(telemetry_sequence, received.sequence, lost)

LEMMA LinkTypes ==
  ASSUME TypeOK
  PROVE  /\ U16 \in Nat \ {0} /\ U32 \in Nat \ {0}
         /\ \A i \in Interfaces : accepted[i] \in 0 .. U32 - 1
         /\ rejected \in 0 .. U32 - 1 /\ telemetry_sequence \in 0 .. U16 - 1
         /\ Refused \notin Interfaces /\ SPI \in Interfaces
BY SizeAssumption DEF TypeOK, Refused, Interfaces, UART, SPI, ETHERNET

\* What an event of one kind does to the account.
LEMMA EventStep ==
  ASSUME WidthsNest, TypeOK, LinkInvariant, UNCHANGED <<received, lost, telemetry_sequence>>,
         NEW event \in Interfaces \cup {Refused}, Happens(event),
         accepted' = IF event = Refused THEN accepted
                     ELSE [accepted EXCEPT ![event] = (@ + 1) % U32],
         rejected' = IF event = Refused THEN (rejected + 1) % U32 ELSE rejected
  PROVE  LinkInvariant'
<1>1. CASE received = Unwritten
  BY <1>1 DEF LinkInvariant, Happens
<1>2. CASE received # Unwritten
  <2> USE LinkTypes
  <2>1. since' = [since EXCEPT ![event] = UpToU16(@ + 1)]
    BY <1>2 DEF Happens
  <2>2. PICK k \in Nat : U32 = k * U16
    BY DEF WidthsNest
  <2>3. /\ since \in [Interfaces \cup {Refused} -> 0 .. U16]
        /\ received \in Records
        /\ \A i \in Interfaces : Reckons(accepted[i], received.accepted[i], since[i])
        /\ Reckons(rejected, received.rejected, since[Refused])
    BY <1>2 DEF LinkInvariant
  <2>4. CASE event = Refused
    <3>1. /\ UpToU16(since[Refused] + 1) \in 0 .. U16
          /\ Reckons((rejected + 1) % U32, received.rejected, UpToU16(since[Refused] + 1))
      <4>1. received.rejected \in Int /\ since[Refused] \in 0 .. U16
        BY <2>3 DEF Records
      <4>. QED  BY <2>2, <2>3, <4>1, ReckoningStep, Zenon
    <3>2. /\ since' \in [Interfaces \cup {Refused} -> 0 .. U16]
          /\ since'[Refused] = UpToU16(since[Refused] + 1)
          /\ \A i \in Interfaces : since'[i] = since[i]
      BY <2>1, <2>3, <2>4, <3>1
    <3>. QED  BY <1>2, <2>3, <2>4, <3>1, <3>2 DEF LinkInvariant
  <2>5. CASE event \in Interfaces
    <3>1. /\ UpToU16(since[event] + 1) \in 0 .. U16
          /\ Reckons((accepted[event] + 1) % U32, received.accepted[event],
                     UpToU16(since[event] + 1))
      <4>1. received.accepted[event] \in Int /\ since[event] \in 0 .. U16
        BY <2>3, <2>5 DEF Records
      <4>2. Reckons(accepted[event], received.accepted[event], since[event])
        BY <2>3, <2>5
      <4>. QED  BY <2>2, <2>5, <4>1, <4>2, ReckoningStep, Zenon
    <3>2. /\ since' \in [Interfaces \cup {Refused} -> 0 .. U16]
          /\ since'[event] = UpToU16(since[event] + 1)
          /\ since'[Refused] = since[Refused]
          /\ \A i \in Interfaces \ {event} : since'[i] = since[i]
      BY <2>1, <2>3, <2>5, <3>1
    <3>3. /\ accepted'[event] = (accepted[event] + 1) % U32 /\ rejected' = rejected
          /\ \A i \in Interfaces \ {event} : accepted'[i] = accepted[i]
      BY <2>5 DEF TypeOK
    <3>4. \A i \in Interfaces : Reckons(accepted'[i], received.accepted[i], since'[i])
      BY <2>3, <3>1, <3>2, <3>3
    <3>. QED  BY <1>2, <2>3, <3>2, <3>3, <3>4 DEF LinkInvariant
  <2>. QED  BY <2>4, <2>5
<1>. QED  BY <1>1, <1>2

LEMMA InitLink == LinkInit => LinkInvariant
<1>1. U16 \in Nat
  BY SizeAssumption
<1>. QED  BY <1>1 DEF LinkInit, LinkInvariant, NoEvents

LEMMA NextLink ==
  ASSUME WidthsNest, TypeOK, LinkInvariant, [LinkNext]_<<vars, link>>
  PROVE  LinkInvariant'
<1> USE LinkTypes
<1>1. ASSUME UNCHANGED <<accepted, rejected, telemetry_sequence, received, since, lost>>
      PROVE  LinkInvariant'
  BY <1>1 DEF LinkInvariant
<1>2. CASE Restart
  BY <1>2 DEF Restart, LinkInvariant, NoEvents
<1>3. CASE FrameComes
  <2>1. PICK f \in Frames :
          /\ Receive(f)
          /\ Happens(IF Admissible(f) /\ count < QueueCapacity THEN f.interface_type
                     ELSE Refused)
          /\ UNCHANGED <<received, lost>>
    BY <1>3 DEF FrameComes
  <2>2. CASE Admissible(f) /\ count < QueueCapacity
    <3>1. f.interface_type \in Interfaces /\ f.interface_type # Refused
      BY <2>2 DEF Admissible, Admits
    <3>2. ~(count >= QueueCapacity)
      BY <2>2, SizeAssumption DEF TypeOK, Queue!TypeOK
    <3>3. /\ accepted' = [accepted EXCEPT ![f.interface_type] = (@ + 1) % U32]
          /\ UNCHANGED <<rejected, telemetry_sequence>>
      BY <2>1, <2>2, <3>2 DEF Receive
    <3>. QED  BY <2>1, <2>2, <3>1, <3>3, EventStep
  <2>3. CASE ~(Admissible(f) /\ count < QueueCapacity)
    <3>1. rejected' = (rejected + 1) % U32 /\ UNCHANGED <<accepted, telemetry_sequence>>
      BY <2>1, <2>3 DEF Receive, Queue!Push
    <3>2. Happens(Refused) /\ Refused \in Interfaces \cup {Refused}
      BY <2>1, <2>3
    <3>. QED  BY <2>1, <3>1, <3>2, EventStep
  <2>. QED  BY <2>2, <2>3
<1>4. CASE RegisterWrite
  <2>1. PICK a \in SpiAddresses, v \in SpiValues :
          /\ SpiWrite(a, v)
          /\ IF a \in Registers THEN Happens(SPI) ELSE UNCHANGED since
          /\ UNCHANGED <<received, lost>>
    BY <1>4 DEF RegisterWrite
  <2>2. CASE a \notin Registers
    BY <1>1, <2>1, <2>2 DEF SpiWrite
  <2>3. CASE a \in Registers
    <3>1. /\ accepted' = [accepted EXCEPT ![SPI] = (@ + 1) % U32]
          /\ UNCHANGED <<rejected, telemetry_sequence>>
      BY <2>1, <2>3 DEF SpiWrite
    <3>2. SPI # Refused /\ Happens(SPI) /\ SPI \in Interfaces \cup {Refused}
      BY <2>1, <2>3
    <3>. QED  BY <2>1, <3>1, <3>2, EventStep
  <2>. QED  BY <2>2, <2>3
<1>5. CASE RecordArrives
  <2>1. /\ received' = Record /\ since' = NoEvents /\ lost' = 0
        /\ telemetry_sequence' = (telemetry_sequence + 1) % U16
        /\ UNCHANGED <<accepted, rejected>>
    BY <1>5 DEF RecordArrives, Telemetry
  <2>2. Record \in Records
    <3>1. \A x \in Int : x % U16 \in 0 .. U16 - 1
      BY ModDivision
    <3>2. telemetry_sequence + 1 \in Int /\ rejected \in Int
          /\ \A i \in Interfaces : accepted[i] \in Int
      OBVIOUS
    <3>. QED  BY <3>1, <3>2 DEF Record, Records
  <2>3. /\ \A i \in Interfaces : Reckons(accepted[i], accepted[i] % U16, 0)
        /\ Reckons(rejected, rejected % U16, 0)
    BY ReckoningStarts
  <2>4. Reckons((telemetry_sequence + 1) % U16, (telemetry_sequence + 1) % U16, 0)
    <3>1. PICK s \in 0 .. U16 - 1 : s = (telemetry_sequence + 1) % U16
      BY ModIncrement
    <3>2. s % U16 = s
      BY ModSmall
    <3>. QED  BY <3>1, <3>2, ReckoningStarts
  <2>. QED  BY <2>1, <2>2, <2>3, <2>4 DEF LinkInvariant, Record, NoEvents
<1>6. CASE RecordIsLost
  <2>1. /\ telemetry_sequence' = (telemetry_sequence + 1) % U16
        /\ lost' = IF received = Unwritten THEN 0 ELSE UpToU16(lost + 1)
        /\ UNCHANGED <<received, since, accepted, rejected>>
    BY <1>6 DEF RecordIsLost, Telemetry
  <2>2. CASE received = Unwritten
    BY <2>1, <2>2 DEF LinkInvariant
  <2>3. CASE received # Unwritten
    <3>1. received.sequence \in Int /\ lost \in 0 .. U16
          /\ Reckons(telemetry_sequence, received.sequence, lost)
      BY <2>3 DEF LinkInvariant, Records
    <3>2. PICK k \in Nat : k = 1 /\ U16 = k * U16
      OBVIOUS
    <3>3. /\ UpToU16(lost + 1) \in 0 .. U16
          /\ Reckons((telemetry_sequence + 1) % U16, received.sequence, UpToU16(lost + 1))
      BY <3>1, <3>2, ReckoningStep
    <3>. QED  BY <2>1, <2>3, <3>3 DEF LinkInvariant
  <2>. QED  BY <2>2, <2>3
<1>7. CASE OtherCall
  BY <1>1, <1>7 DEF OtherCall, link, MarkSelfTestPassed, Heartbeat, RefuseSequence, Setpoint,
                    LatchFault, Recover, Tick, Drain
<1>8. CASE UNCHANGED <<vars, link>>
  BY <1>1, <1>8 DEF vars, link
<1>. QED  BY <1>2, <1>3, <1>4, <1>5, <1>6, <1>7, <1>8 DEF LinkNext

LEMMA LinkInvariantHolds ==
  ASSUME WidthsNest PROVE LinkSpec => [](TypeOK /\ LinkInvariant)
<1>1. TypeOK /\ LinkInvariant /\ [LinkNext]_<<vars, link>> => LinkInvariant'
  BY NextLink
<1>. QED  BY <1>1, InitLink, LinkIsController, TypeCorrect, PTL DEF LinkSpec

\* What two records differ by is what happened in between, wraps of either
\* width notwithstanding (controller.c:20, 223-281, 291-317).
THEOREM ReckoningIsRight ==
  ASSUME WidthsNest PROVE LinkSpec => ReceiverReckonsRight
<1> DEFINE Right ==
      /\ \A i \in Interfaces : since[i] < U16 =>
           (received'.accepted[i] - received.accepted[i]) % U16 = since[i]
      /\ since[Refused] < U16 =>
           (received'.rejected - received.rejected) % U16 = since[Refused]
      /\ lost < U16 - 1 =>
           (received'.sequence - received.sequence) % U16 = lost + 1
<1>1. ASSUME TypeOK, LinkInvariant, RecordArrives, received # Unwritten PROVE Right
  <2> USE <1>1, LinkTypes
  <2>1. /\ received \in Records /\ lost \in 0 .. U16
        /\ \A i \in Interfaces : Reckons(accepted[i], received.accepted[i], since[i])
        /\ Reckons(rejected, received.rejected, since[Refused])
        /\ Reckons(telemetry_sequence, received.sequence, lost)
    BY DEF LinkInvariant
  <2>2. /\ received'.sequence = (telemetry_sequence + 1) % U16
        /\ received'.rejected = rejected % U16
        /\ \A i \in Interfaces : received'.accepted[i] = accepted[i] % U16
    BY DEF RecordArrives, Record
  <2>3. /\ received.rejected \in Int /\ received.sequence \in Int
        /\ rejected \in Int
        /\ \A i \in Interfaces : received.accepted[i] \in Int /\ accepted[i] \in Int
    BY <2>1 DEF Records
  <2>4. ASSUME NEW i \in Interfaces
        PROVE  since[i] < U16 => (received'.accepted[i] - received.accepted[i]) % U16 = since[i]
    <3>1. Reckons(accepted[i] % U16, received.accepted[i], since[i])
      BY <2>1, <2>3, ReckoningFromField, Zenon
    <3>. QED  BY <2>2, <3>1 DEF Reckons
  <2>5. since[Refused] < U16 =>
          (received'.rejected - received.rejected) % U16 = since[Refused]
    <3>1. Reckons(rejected % U16, received.rejected, since[Refused])
      BY <2>1, <2>3, ReckoningFromField, Zenon
    <3>. QED  BY <2>2, <3>1 DEF Reckons
  <2>6. lost < U16 - 1 => (received'.sequence - received.sequence) % U16 = lost + 1
    <3>1. PICK k \in Nat : k = 1 /\ U16 = k * U16
      OBVIOUS
    <3>2. Reckons((telemetry_sequence + 1) % U16, received.sequence, UpToU16(lost + 1))
      BY <2>1, <2>3, <3>1, ReckoningStep
    <3>3. lost < U16 - 1 => lost + 1 < U16 /\ UpToU16(lost + 1) = lost + 1
      BY <2>1 DEF UpToU16
    <3>. QED  BY <2>2, <3>2, <3>3 DEF Reckons
  <2>. QED  BY <2>4, <2>5, <2>6
<1>2. TypeOK /\ LinkInvariant /\ [LinkNext]_<<vars, link>>
        => [RecordArrives /\ received # Unwritten => Right]_<<vars, link>>
  BY <1>1
<1>3. LinkSpec => [][RecordArrives /\ received # Unwritten => Right]_<<vars, link>>
  BY <1>2, LinkInvariantHolds, PTL DEF LinkSpec
<1>. QED  BY <1>3 DEF ReceiverReckonsRight

-------------------------------------------------------------------------------
(* The firmware image                                                      *)

\* The premise about the clock: it can count past the default timeout.
ClockPassesTimeout == U32 > DefaultConfig.watchdog_timeout_ms + 1

\* What esqh_controller_init and the self-test leave, and what the ticks since
\* then have made of it; nothing is known of the memory before that.
Started ==
  /\ config = DefaultConfig
  /\ heartbeat_seen = FALSE /\ last_heartbeat_ms = 0
  /\ Clock!TypeOK

ImageInvariant ==
  /\ pc = "self_test" =>
       Started /\ state = "INIT" /\ fault_bitmap = {} /\ elapsed_ms = 0
  /\ pc = "loop" =>
       /\ Started /\ self_test_passed = TRUE
       /\ \/ state = "INIT" /\ fault_bitmap = {} /\ elapsed_ms \in 0 .. 100
          \/ state = "SAFE" /\ fault_bitmap = {"WATCHDOG"}

\* esqh_controller_init accepts what esqh_config_default fills in.
LEMMA DefaultIsValid == IsValidConfig(DefaultConfig)
BY DEF IsValidConfig, DefaultConfig

\* One tick of the main loop, seen from outside.
TripsInTime ==
  \/ state = "INIT" /\ state' = "INIT" /\ elapsed_ms' \in 1 .. 100
  \/ state = "INIT" /\ state' = "SAFE" /\ elapsed_ms' = 101
  \/ state = "SAFE" /\ state' = "SAFE" /\ fault_bitmap' = {"WATCHDOG"}

LEMMA LoopStep ==
  ASSUME ClockPassesTimeout, ImageInvariant, Loop
  PROVE  TripsInTime /\ ImageInvariant'
<1>1. /\ pc = "loop" /\ pc' = "loop" /\ Tick
      /\ Started /\ self_test_passed = TRUE
      /\ config.watchdog_timeout_ms = 100 /\ U32 \in Nat /\ U32 > 101
  BY SizeAssumption DEF Loop, ImageInvariant, Started, DefaultConfig, ClockPassesTimeout
<1>2. UNCHANGED <<config, armVars>> /\ Clock!Advance
  BY <1>1 DEF Tick
<1>3. Clock!TypeOK'
  BY <1>1, <1>2, AdvanceType DEF Started
<1>4. Started' /\ self_test_passed' = TRUE
  BY <1>1, <1>2, <1>3 DEF Started
<1>5. elapsed_ms \in 0 .. U32 - 1 /\ elapsed_ms' = (elapsed_ms + 1) % U32
  BY <1>1, <1>2 DEF Started, Clock!TypeOK, Clock!Advance, Clock!Increment
<1>6. \/ state' = "SAFE" /\ fault_bitmap' = fault_bitmap \cup {"WATCHDOG"}
         /\ Expired(elapsed_ms')
      \/ UNCHANGED modeVars /\ ~Expired(elapsed_ms')
  BY <1>1 DEF Tick, Latch, ModeAfterFault
<1>7. CASE state = "INIT" /\ fault_bitmap = {} /\ elapsed_ms \in 0 .. 100
  <2>1. elapsed_ms' = elapsed_ms + 1
    BY <1>1, <1>5, <1>7
  <2>2. Expired(elapsed_ms') <=> elapsed_ms' > 100
    <3>1. (elapsed_ms' - last_heartbeat_ms) % U32 = elapsed_ms'
      BY <1>1, <1>7, <2>1 DEF Started
    <3>. QED  BY <1>1, <3>1 DEF Expired, AgeAt
  <2>3. CASE Expired(elapsed_ms')
    <3>1. elapsed_ms' = 101 /\ state' = "SAFE" /\ fault_bitmap' = {"WATCHDOG"}
      BY <1>6, <1>7, <2>1, <2>2, <2>3
    <3>. QED  BY <1>1, <1>4, <1>7, <3>1 DEF TripsInTime, ImageInvariant
  <2>4. CASE ~Expired(elapsed_ms')
    <3>1. elapsed_ms' \in 1 .. 100 /\ state' = "INIT" /\ fault_bitmap' = {}
      BY <1>6, <1>7, <2>1, <2>2, <2>4
    <3>. QED  BY <1>1, <1>4, <1>7, <3>1 DEF TripsInTime, ImageInvariant
  <2>. QED  BY <2>3, <2>4
<1>8. CASE state = "SAFE" /\ fault_bitmap = {"WATCHDOG"}
  BY <1>1, <1>4, <1>6, <1>8 DEF TripsInTime, ImageInvariant
<1>. QED  BY <1>1, <1>7, <1>8 DEF ImageInvariant

LEMMA ImageInit == FirmwareInit => ImageInvariant
BY DEF FirmwareInit, ImageInvariant

LEMMA ImageStep ==
  ASSUME ClockPassesTimeout, ImageInvariant, [FirmwareNext]_firmwareVars
  PROVE  ImageInvariant'
<1>1. CASE ResetHandler
  BY <1>1 DEF ResetHandler, ImageInvariant
<1>2. CASE Boot
  <2>1. Initialise(DefaultConfig) /\ pc' = "self_test"
    BY <1>2, DefaultIsValid DEF Boot
  <2>2. Clock!TypeOK'
    BY <2>1, SizeAssumption DEF Initialise, Clock!Start, Clock!TypeOK
  <2>. QED  BY <2>1, <2>2 DEF Initialise, Clock!Start, ImageInvariant, Started
<1>3. CASE SelfTest
  <2>1. Started' /\ elapsed_ms' = elapsed_ms
    BY <1>3 DEF SelfTest, MarkSelfTestPassed, ImageInvariant, Started, Clock!TypeOK
  <2>. QED  BY <1>3, <2>1 DEF SelfTest, MarkSelfTestPassed, ImageInvariant, Started
<1>4. CASE Loop
  BY <1>4, LoopStep
<1>5. CASE Exception \/ HardwareReset
  BY <1>5 DEF Exception, HardwareReset, ImageInvariant
<1>6. CASE UNCHANGED firmwareVars
  BY <1>6 DEF firmwareVars, vars, ImageInvariant, Started, Clock!TypeOK
<1>. QED  BY <1>1, <1>2, <1>3, <1>4, <1>5, <1>6 DEF FirmwareNext

\* The main loop only ticks a controller that was really initialised with the
\* default configuration, whatever resets and exceptions come before
\* (firmware/main.c:87-93; controller.c:45-47).
THEOREM ImageRunsInitialised ==
  ASSUME ClockPassesTimeout
  PROVE  FirmwareSpec => []LoopIsInitialised
<1>1. ImageInvariant => LoopIsInitialised
  BY DefaultIsValid DEF ImageInvariant, LoopIsInitialised, Started
<1>2. ImageInvariant /\ [FirmwareNext]_firmwareVars => ImageInvariant'
  BY ImageStep
<1>. QED  BY <1>1, <1>2, ImageInit, PTL DEF FirmwareSpec

\* A run of the main loop is in INIT for 100 ticks, trips at tick 101 and stays
\* in SAFE, for every width of the clock that can count so far and through all
\* its wraps (firmware/main.c:89-93; controller.c:202-210).
THEOREM ImageTripsAtTick101 ==
  ASSUME ClockPassesTimeout
  PROVE  FirmwareSpec => TripsAtTick101
<1>1. ImageInvariant /\ [FirmwareNext]_firmwareVars
        => [pc = "loop" /\ pc' = "loop" => TripsInTime]_firmwareVars
  <2> SUFFICES ASSUME ImageInvariant, FirmwareNext, pc = "loop", pc' = "loop"
               PROVE  TripsInTime
    OBVIOUS
  <2>1. Loop
    BY DEF FirmwareNext, ResetHandler, Boot, SelfTest, Exception, HardwareReset
  <2>. QED  BY <2>1, LoopStep
<1>2. ImageInvariant /\ [FirmwareNext]_firmwareVars => ImageInvariant'
  BY ImageStep
<1>. QED  BY <1>1, <1>2, ImageInit, PTL DEF FirmwareSpec, TripsAtTick101, TripsInTime
===============================================================================
