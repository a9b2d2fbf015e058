------------------------------ MODULE FrameQueue ------------------------------
(***************************************************************************)
(* src/src/queue.c: a ring of frame slots with a head, a tail and a count, *)
(* kept in three uint8_t fields.  A call that the code refuses (full,      *)
(* empty, NULL argument) changes nothing and is a stuttering step here.    *)
(***************************************************************************)
EXTENDS Naturals, Sequences

CONSTANTS
  Frame,     \* the frames a caller may push
  Capacity,  \* ESQH_FRAME_QUEUE_CAPACITY, 8 in the code
  Unwritten  \* the content of a slot, or of an output, nothing was stored in

ASSUME CapacityAssumption == Capacity \in Nat \ {0}
ASSUME UnwrittenAssumption == Unwritten \notin Frame

VARIABLES
  entries,   \* the slots; resetting the queue leaves them as they are
  head,      \* slot of the oldest frame
  tail,      \* slot the next push writes
  count,     \* frames stored
  delivered  \* the frame the last successful pop copied to its caller

vars == <<entries, head, tail, count, delivered>>

Slots == 0 .. Capacity - 1

\* Defective variants of the definitions below; no action uses them.  They show
\* what each property would catch.
NextSlotUnwrapped(i) == i + 1
QueueInitKeepsCount ==
  head' = 0 /\ tail' = 0 /\ UNCHANGED <<entries, count, delivered>>
PopAdvancesFirst ==
  /\ count # 0
  /\ head' = IF head + 1 = Capacity THEN 0 ELSE head + 1
  /\ delivered' = entries[head']
  /\ count' = count - 1
  /\ UNCHANGED <<entries, tail>>

\* The increment-and-compare both push and pop use to advance an index.
NextSlot(i) == IF i + 1 = Capacity THEN 0 ELSE i + 1

Init ==
  /\ entries = [i \in Slots |-> Unwritten]
  /\ head = 0 /\ tail = 0 /\ count = 0
  /\ delivered = Unwritten

\* esqh_queue_init: empties the queue and does not wipe its slots.
QueueInit ==
  /\ head' = 0 /\ tail' = 0 /\ count' = 0
  /\ UNCHANGED <<entries, delivered>>

\* esqh_queue_push, when it returns ESQH_OK.
Push(f) ==
  /\ count < Capacity
  /\ entries' = [entries EXCEPT ![tail] = f]
  /\ tail' = NextSlot(tail)
  /\ count' = count + 1
  /\ UNCHANGED <<head, delivered>>

\* esqh_queue_pop, when it returns ESQH_OK.
Pop ==
  /\ count # 0
  /\ delivered' = entries[head]
  /\ head' = NextSlot(head)
  /\ count' = count - 1
  /\ UNCHANGED <<entries, tail>>

Next == (\E f \in Frame : Push(f)) \/ Pop \/ QueueInit

Spec == Init /\ [][Next]_vars

-------------------------------------------------------------------------------
(* Properties                                                              *)

\* The slot reached from slot 0 by i steps, for i below twice the capacity.
Wrap(i) == IF i >= Capacity THEN i - Capacity ELSE i

\* The stored frames, oldest first, as a reader of the ring would list them.
Contents == [i \in 1 .. count |-> entries[Wrap(head + i - 1)]]

\* Types of the queue's fields (src/include/esqh/esqh.h, esqh_frame_queue_t).
TypeOK ==
  /\ entries \in [Slots -> Frame \cup {Unwritten}]
  /\ head \in Slots
  /\ tail \in Slots
  /\ count \in 0 .. Capacity
  /\ delivered \in Frame \cup {Unwritten}

\* The three index fields are redundant and must agree: the slot a push will
\* write is the one just after the live frames, across every wrap of either
\* index and every reset (queue.c:7-9, 23-27, 42-46).
IndicesAgree == tail = Wrap(head + count)

\* A live slot holds a frame that was pushed, never what an unused or stale
\* slot happens to contain, although a reset does not clear the slots.
LiveSlotsWritten == \A i \in 1 .. count : Contents[i] \in Frame

Fifo == INSTANCE FrameFifo WITH fifo <- Contents

\* The ring delivers each accepted frame once, in order of acceptance, and
\* refuses only when it holds Capacity frames: it implements FrameFifo.
ImplementsFifo == Fifo!Spec
===============================================================================
