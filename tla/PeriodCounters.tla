---------------------------- MODULE PeriodCounters ----------------------------
(***************************************************************************)
(* The clock of the controller: the counting half of esqh_controller_tick  *)
(* (src/src/controller.c:190-201).  One call stands for one millisecond.   *)
(* The 10 ms and 100 ms tasks are released by two 8-bit countdowns, the    *)
(* release counters and the elapsed time are 32-bit and wrap.              *)
(***************************************************************************)
EXTENDS Naturals

CONSTANTS
  Period10,   \* reload of scheduler_10ms, 10 in the code
  Period100,  \* reload of scheduler_100ms, 100 in the code
  U8,         \* 2^8, the width of the countdowns
  U32         \* 2^32, the width of elapsed_ms and of the release counters

ASSUME PeriodAssumption ==
  /\ U8 \in Nat /\ U32 \in Nat /\ U32 > 1
  /\ Period10 \in 1 .. U8 - 1
  /\ Period100 \in 1 .. U8 - 1
  /\ \E k \in 1 .. Period100 : Period100 = k * Period10

VARIABLES
  elapsed_ms, task_1ms_count, task_10ms_count, task_100ms_count,
  scheduler_10ms, scheduler_100ms

vars == <<elapsed_ms, task_1ms_count, task_10ms_count, task_100ms_count,
          scheduler_10ms, scheduler_100ms>>

\* A release that does not reload its countdown, a countdown compared before
\* it is decremented, and a reset that forgets a countdown.
CountDownNoReload(left, period) == (left + U8 - 1) % U8
CountDownLate(left, period) == IF left = 0 THEN period ELSE (left + U8 - 1) % U8
ReleasedLate(left) == left = 0
StartKeepsCountdown ==
  /\ elapsed_ms' = 0 /\ task_1ms_count' = 0
  /\ task_10ms_count' = 0 /\ task_100ms_count' = 0
  /\ scheduler_100ms' = Period100 /\ UNCHANGED scheduler_10ms

\* Unsigned 8-bit decrement: 0 goes to 255.
Decrement(left) == (left + U8 - 1) % U8

Released(left) == Decrement(left) = 0

CountDown(left, period) == IF Released(left) THEN period ELSE Decrement(left)

Increment(counter) == (counter + 1) % U32

Init ==
  /\ elapsed_ms = 0 /\ task_1ms_count = 0
  /\ task_10ms_count = 0 /\ task_100ms_count = 0
  /\ scheduler_10ms = Period10 /\ scheduler_100ms = Period100

\* The clock fields of esqh_controller_init.
Start ==
  /\ elapsed_ms' = 0 /\ task_1ms_count' = 0
  /\ task_10ms_count' = 0 /\ task_100ms_count' = 0
  /\ scheduler_10ms' = Period10 /\ scheduler_100ms' = Period100

\* The clock fields of esqh_controller_tick.
Advance ==
  /\ elapsed_ms' = Increment(elapsed_ms)
  /\ task_1ms_count' = Increment(task_1ms_count)
  /\ scheduler_10ms' = CountDown(scheduler_10ms, Period10)
  /\ scheduler_100ms' = CountDown(scheduler_100ms, Period100)
  /\ task_10ms_count' =
       IF Released(scheduler_10ms) THEN Increment(task_10ms_count) ELSE task_10ms_count
  /\ task_100ms_count' =
       IF Released(scheduler_100ms) THEN Increment(task_100ms_count) ELSE task_100ms_count

Next == Advance \/ Start

Spec == Init /\ [][Next]_vars

-------------------------------------------------------------------------------
(* Properties                                                              *)

\* Types of the clock fields; a countdown is never 0 between two ticks, so
\* the 8-bit decrement never wraps to 255 (controller.c:192-201).
TypeOK ==
  /\ elapsed_ms \in 0 .. U32 - 1
  /\ task_1ms_count \in 0 .. U32 - 1
  /\ task_10ms_count \in 0 .. U32 - 1
  /\ task_100ms_count \in 0 .. U32 - 1
  /\ scheduler_10ms \in 1 .. Period10
  /\ scheduler_100ms \in 1 .. Period100

\* The countdowns stay a whole number of short periods apart, which is what
\* keeps the two tasks in phase although nothing in the code relates them.
PhaseLocked ==
  \E k \in 0 .. Period100 : scheduler_100ms = scheduler_10ms + k * Period10

\* No release is ever lost or doubled: releases times period plus the part of
\* the period already counted down is the elapsed time, also after any of the
\* 32-bit counters has wrapped (controller.c:190-201).
ReleaseAccounting ==
  /\ task_1ms_count = elapsed_ms
  /\ (task_10ms_count * Period10 + (Period10 - scheduler_10ms)) % U32 = elapsed_ms
  /\ (task_100ms_count * Period100 + (Period100 - scheduler_100ms)) % U32 = elapsed_ms

\* A tick that releases the 100 ms task releases the 10 ms task too; the slow
\* task never runs in a millisecond of its own (controller.c:194-201).
ReleasesCoincide ==
  [][Advance /\ task_100ms_count' # task_100ms_count
       => task_10ms_count' # task_10ms_count]_vars
===============================================================================
