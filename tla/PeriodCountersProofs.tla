------------------------- MODULE PeriodCountersProofs -------------------------
(* The clock of the controller, proved for every pair of periods of which  *)
(* one is a multiple of the other, and for every counter width.            *)
EXTENDS PeriodCounters, NumberLemmas, TLAPS

IInv == TypeOK /\ PhaseLocked

\* The unsigned decrement and the modular increment, away from their wraps.
LEMMA DecrementPositive ==
  ASSUME NEW left \in 1 .. U8 - 1
  PROVE  Decrement(left) = left - 1
<1>1. left + U8 - 1 = (left - 1) + U8 /\ left - 1 \in 0 .. U8 - 1 /\ U8 \in Nat \ {0}
  BY PeriodAssumption
<1>2. ((left - 1) + U8) % U8 = left - 1
  BY <1>1
<1>. QED  BY <1>1, <1>2 DEF Decrement

LEMMA IncrementType ==
  ASSUME NEW counter \in 0 .. U32 - 1
  PROVE  /\ Increment(counter) \in 0 .. U32 - 1
         /\ Increment(counter) # counter
<1>1. CASE counter + 1 = U32
  BY <1>1, PeriodAssumption DEF Increment
<1>2. CASE counter + 1 < U32
  <2>1. (counter + 1) % U32 = counter + 1
    BY <1>2, PeriodAssumption
  <2>. QED  BY <1>2, <2>1, PeriodAssumption DEF Increment
<1>. QED  BY <1>1, <1>2, PeriodAssumption

LEMMA InitInvariant == Init => IInv
<1> SUFFICES ASSUME Init PROVE IInv  OBVIOUS
<1>1. TypeOK
  BY PeriodAssumption DEF Init, TypeOK
<1>2. PICK k \in 1 .. Period100 : Period100 = k * Period10
  BY PeriodAssumption
<1>3. k - 1 \in 0 .. Period100 /\ k * Period10 = Period10 + (k - 1) * Period10
  BY <1>2, PeriodAssumption
<1>4. PhaseLocked
  BY <1>2, <1>3 DEF Init, PhaseLocked
<1>. QED  BY <1>1, <1>4 DEF IInv

\* What one tick does to the countdowns, given that neither stands at 0.
LEMMA AdvanceCountdowns ==
  ASSUME TypeOK, Advance
  PROVE  /\ scheduler_10ms' = IF scheduler_10ms = 1 THEN Period10 ELSE scheduler_10ms - 1
         /\ scheduler_100ms' = IF scheduler_100ms = 1 THEN Period100 ELSE scheduler_100ms - 1
         /\ task_10ms_count' = IF scheduler_10ms = 1 THEN Increment(task_10ms_count)
                               ELSE task_10ms_count
         /\ task_100ms_count' = IF scheduler_100ms = 1 THEN Increment(task_100ms_count)
                                ELSE task_100ms_count
<1>1. Decrement(scheduler_10ms) = scheduler_10ms - 1
  BY DecrementPositive, PeriodAssumption DEF TypeOK
<1>2. Decrement(scheduler_100ms) = scheduler_100ms - 1
  BY DecrementPositive, PeriodAssumption DEF TypeOK
<1>. QED  BY <1>1, <1>2, PeriodAssumption DEF TypeOK, Advance, CountDown, Released

\* In phase, the long countdown is at its last step only when the short one is.
LEMMA LastStepTogether ==
  ASSUME TypeOK, PhaseLocked, scheduler_100ms = 1
  PROVE  scheduler_10ms = 1
<1>1. PICK k \in 0 .. Period100 : scheduler_100ms = scheduler_10ms + k * Period10
  BY DEF PhaseLocked
<1>2. k * Period10 \in Nat
  BY PeriodAssumption
<1>. QED  BY <1>1, <1>2, PeriodAssumption DEF TypeOK

LEMMA NextInvariant == IInv /\ [Next]_vars => IInv'
<1> SUFFICES ASSUME IInv, [Next]_vars PROVE IInv'  OBVIOUS
<1>1. CASE Advance
  <2>1. TypeOK'
    BY <1>1, AdvanceCountdowns, IncrementType, PeriodAssumption DEF IInv, TypeOK, Advance
  <2>2. PICK k \in 0 .. Period100 : scheduler_100ms = scheduler_10ms + k * Period10
    BY DEF IInv, PhaseLocked
  <2>3. CASE scheduler_10ms # 1
    <3>1. scheduler_100ms # 1
      BY <2>3, LastStepTogether DEF IInv
    <3>2. k * Period10 \in Nat
      BY PeriodAssumption
    <3>3. scheduler_100ms' = scheduler_10ms' + k * Period10
      BY <1>1, <2>2, <2>3, <3>1, <3>2, AdvanceCountdowns, PeriodAssumption DEF IInv, TypeOK
    <3>. QED  BY <2>1, <3>3 DEF IInv, PhaseLocked
  <2>4. CASE scheduler_10ms = 1 /\ scheduler_100ms # 1
    <3>1. k # 0
      BY <2>2, <2>4, PeriodAssumption
    <3>2. k - 1 \in 0 .. Period100 /\ k * Period10 = Period10 + (k - 1) * Period10
      BY <3>1, PeriodAssumption
    <3>3. (k - 1) * Period10 \in Nat
      BY <3>2, PeriodAssumption
    <3>4. scheduler_100ms' = scheduler_10ms' + (k - 1) * Period10
      BY <1>1, <2>2, <2>4, <3>2, <3>3, AdvanceCountdowns, PeriodAssumption DEF IInv, TypeOK
    <3>. QED  BY <2>1, <3>2, <3>4 DEF IInv, PhaseLocked
  <2>5. CASE scheduler_10ms = 1 /\ scheduler_100ms = 1
    <3>1. scheduler_10ms' = Period10 /\ scheduler_100ms' = Period100
      BY <1>1, <2>5, AdvanceCountdowns DEF IInv
    <3>2. PICK m \in 1 .. Period100 : Period100 = m * Period10
      BY PeriodAssumption
    <3>3. m - 1 \in 0 .. Period100 /\ m * Period10 = Period10 + (m - 1) * Period10
      BY <3>2, PeriodAssumption
    <3>4. PhaseLocked'
      BY <3>1, <3>2, <3>3 DEF PhaseLocked
    <3>. QED  BY <2>1, <3>4 DEF IInv
  <2>. QED  BY <2>3, <2>4, <2>5
<1>2. CASE Start
  <2>1. Init'
    BY <1>2 DEF Start, Init
  <2>2. (Init => IInv)'
    <3>1. Init' => TypeOK'
      BY PeriodAssumption DEF Init, TypeOK
    <3>2. PICK k \in 1 .. Period100 : Period100 = k * Period10
      BY PeriodAssumption
    <3>3. k - 1 \in 0 .. Period100 /\ k * Period10 = Period10 + (k - 1) * Period10
      BY <3>2, PeriodAssumption
    <3>4. Init' => PhaseLocked'
      BY <3>2, <3>3 DEF Init, PhaseLocked
    <3>. QED  BY <3>1, <3>4 DEF IInv
  <2>. QED  BY <2>1, <2>2
<1>3. CASE UNCHANGED vars
  BY <1>3 DEF vars, IInv, TypeOK, PhaseLocked
<1>. QED  BY <1>1, <1>2, <1>3 DEF Next

\* The clock fields keep their ranges (so the 8-bit countdowns never wrap) and
\* the countdowns stay in phase, whatever the periods (controller.c:190-201).
THEOREM ClockInvariant == Spec => [](TypeOK /\ PhaseLocked)
<1>1. IInv => TypeOK /\ PhaseLocked
  BY DEF IInv
<1>. QED  BY <1>1, InitInvariant, NextInvariant, PTL DEF Spec

\* The countdowns stay between 1 and their periods, so that a decrement never
\* wraps, and the counters inside their width (controller.c:190-201).
THEOREM ClockTypeCorrect == Spec => []TypeOK
BY ClockInvariant, PTL

\* A release of the slow task comes with one of the fast task in the same tick.
THEOREM SlowReleaseIsFastRelease == Spec => ReleasesCoincide
<1>1. IInv /\ [Next]_vars
        => [Advance /\ task_100ms_count' # task_100ms_count
              => task_10ms_count' # task_10ms_count]_vars
  <2> SUFFICES ASSUME IInv, Advance, task_100ms_count' # task_100ms_count
               PROVE  task_10ms_count' # task_10ms_count
    OBVIOUS
  <2>1. scheduler_100ms = 1
    BY AdvanceCountdowns DEF IInv
  <2>2. scheduler_10ms = 1
    BY <2>1, LastStepTogether DEF IInv
  <2>. QED  BY <2>2, AdvanceCountdowns, IncrementType DEF IInv, TypeOK
<1>. QED  BY <1>1, InitInvariant, NextInvariant, PTL DEF Spec, ReleasesCoincide

-------------------------------------------------------------------------------
(* Releases and elapsed time                                               *)

\* The time a task accounts for: whole periods and what it has counted down.
Account(releases, period, left) == (releases * period + (period - left)) % U32

\* The account over one tick, whether the task is released (left = 1) or not.
LEMMA ReleaseStep ==
  ASSUME NEW period \in Nat, NEW left \in 1 .. period, NEW releases \in 0 .. U32 - 1
  PROVE  /\ left # 1 => Account(releases, period, left - 1)
                          = Increment(Account(releases, period, left))
         /\ left = 1 => Account(Increment(releases), period, period)
                          = Increment(Account(releases, period, left))
<1>0. U32 \in Nat \ {0} /\ 1 \in Int /\ period \in Int
  BY PeriodAssumption
<1>1. PICK a \in Int, x \in Int : a = releases * period /\ x = a + (period - left)
  OBVIOUS
<1>2. (x + 1) % U32 = Increment(Account(releases, period, left))
  <2>1. ((x % U32) + 1) % U32 = (x + 1) % U32
    BY <1>0, ModSum, Zenon
  <2>. QED  BY <1>1, <2>1 DEF Increment, Account
<1>3. x + 1 = a + (period - (left - 1))
  BY <1>1
<1>4. ASSUME left = 1
      PROVE  Account(Increment(releases), period, period) = (x + 1) % U32
  <2>1. PICK c \in Int : c = releases + 1
    OBVIOUS
  <2>2. ((c % U32) * period) % U32 = (c * period) % U32
    BY <1>0, ModProduct, Zenon
  <2>3. c * period = releases * period + period
    BY <2>1
  <2>4. c * period = x + 1
    BY <1>1, <1>4, <2>3
  <2>5. Increment(releases) = c % U32 /\ c % U32 \in Int
    BY <1>0, <2>1, ModDivision DEF Increment
  <2>6. PICK b \in Int : b = Increment(releases) * period
    BY <2>5
  <2>7. b + (period - period) = b
    OBVIOUS
  <2>8. b % U32 = (x + 1) % U32
    BY <2>2, <2>4, <2>5, <2>6
  <2>. QED  BY <2>6, <2>7, <2>8 DEF Account
<1>5. ASSUME left # 1
      PROVE  Account(releases, period, left - 1) = (x + 1) % U32
  BY <1>1, <1>3 DEF Account
<1>. QED  BY <1>2, <1>4, <1>5

LEMMA StartAccount == Init => ReleaseAccounting
<1>1. /\ 0 * Period10 + (Period10 - Period10) = 0
      /\ 0 * Period100 + (Period100 - Period100) = 0
  BY PeriodAssumption
<1>2. 0 % U32 = 0
  BY PeriodAssumption, ModSmall
<1>. QED  BY <1>1, <1>2 DEF Init, ReleaseAccounting

LEMMA NextAccount == TypeOK /\ ReleaseAccounting /\ [Next]_vars => ReleaseAccounting'
<1> SUFFICES ASSUME TypeOK, ReleaseAccounting, [Next]_vars PROVE ReleaseAccounting'
  OBVIOUS
<1>0. /\ Period10 \in Nat /\ Period100 \in Nat
      /\ elapsed_ms \in 0 .. U32 - 1
      /\ task_10ms_count \in 0 .. U32 - 1 /\ task_100ms_count \in 0 .. U32 - 1
      /\ scheduler_10ms \in 1 .. Period10 /\ scheduler_100ms \in 1 .. Period100
  BY PeriodAssumption DEF TypeOK
<1>1. CASE Advance
  <2>1. elapsed_ms' = Increment(elapsed_ms) /\ task_1ms_count' = elapsed_ms'
    BY <1>1 DEF Advance, ReleaseAccounting
  <2>2. Account(task_10ms_count', Period10, scheduler_10ms') = elapsed_ms'
    <3>1. Account(task_10ms_count, Period10, scheduler_10ms) = elapsed_ms
      BY DEF ReleaseAccounting, Account
    <3>2. CASE scheduler_10ms = 1
      <4>1. scheduler_10ms' = Period10 /\ task_10ms_count' = Increment(task_10ms_count)
        BY <1>1, <3>2, AdvanceCountdowns
      <4>. QED  BY <1>0, <2>1, <3>1, <3>2, <4>1, ReleaseStep
    <3>3. CASE scheduler_10ms # 1
      <4>1. scheduler_10ms' = scheduler_10ms - 1 /\ task_10ms_count' = task_10ms_count
        BY <1>1, <3>3, AdvanceCountdowns
      <4>. QED  BY <1>0, <2>1, <3>1, <3>3, <4>1, ReleaseStep
    <3>. QED  BY <3>2, <3>3
  <2>3. Account(task_100ms_count', Period100, scheduler_100ms') = elapsed_ms'
    <3>1. Account(task_100ms_count, Period100, scheduler_100ms) = elapsed_ms
      BY DEF ReleaseAccounting, Account
    <3>2. CASE scheduler_100ms = 1
      <4>1. scheduler_100ms' = Period100 /\ task_100ms_count' = Increment(task_100ms_count)
        BY <1>1, <3>2, AdvanceCountdowns
      <4>. QED  BY <1>0, <2>1, <3>1, <3>2, <4>1, ReleaseStep
    <3>3. CASE scheduler_100ms # 1
      <4>1. scheduler_100ms' = scheduler_100ms - 1 /\ task_100ms_count' = task_100ms_count
        BY <1>1, <3>3, AdvanceCountdowns
      <4>. QED  BY <1>0, <2>1, <3>1, <3>3, <4>1, ReleaseStep
    <3>. QED  BY <3>2, <3>3
  <2>. QED  BY <2>1, <2>2, <2>3 DEF ReleaseAccounting, Account
<1>2. CASE Start
  <2>1. Init'
    BY <1>2 DEF Start, Init
  <2>. QED  BY <2>1, StartAccount, PTL
<1>3. CASE UNCHANGED vars
  BY <1>3 DEF vars, ReleaseAccounting
<1>. QED  BY <1>1, <1>2, <1>3 DEF Next

\* Releases times period, plus what the countdown has gone down, is the elapsed
\* time modulo 2^32: no release is lost or doubled, in any number of wraps and
\* whatever the periods (controller.c:190-201).
THEOREM NoReleaseIsLost == Spec => []ReleaseAccounting
BY StartAccount, NextAccount, ClockInvariant, PTL DEF Spec
===============================================================================
