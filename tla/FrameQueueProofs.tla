--------------------------- MODULE FrameQueueProofs ---------------------------
(* The ring of FrameQueue, proved for every capacity and every set of      *)
(* frames: its invariant, and that it implements the abstract FIFO.        *)
EXTENDS FrameQueue, SequenceTheorems, TLAPS

IInv == TypeOK /\ IndicesAgree /\ LiveSlotsWritten

USE CapacityAssumption, UnwrittenAssumption

\* Advancing the head and shortening the queue leaves the rest of the ring
\* where it was: both sides name the same slot.
LEMMA WrapShift ==
  ASSUME NEW h \in Slots, NEW i \in 0 .. Capacity - 1
  PROVE  /\ Wrap(NextSlot(h) + i) = Wrap(h + (i + 1))
         /\ Wrap(h + i) \in Slots
         /\ NextSlot(Wrap(h + i)) = Wrap(h + (i + 1))
BY DEF Slots, Wrap, NextSlot

\* Slots at different distances from the head are different slots.
LEMMA WrapInjective ==
  ASSUME NEW h \in Slots, NEW i \in 0 .. Capacity - 1, NEW j \in 0 .. Capacity - 1,
         i # j
  PROVE  Wrap(h + i) # Wrap(h + j)
BY DEF Slots, Wrap

\* A list of stored frames read from the ring is a sequence of that length.
LEMMA ContentsIsSeq ==
  ASSUME TypeOK
  PROVE  Contents \in Seq(Frame \cup {Unwritten}) /\ Len(Contents) = count
<1>1. \A i \in 1 .. count : entries[Wrap(head + i - 1)] \in Frame \cup {Unwritten}
  BY DEF TypeOK, Slots, Wrap
<1>. QED  BY <1>1 DEF TypeOK, Contents

LEMMA InitInvariant == Init => IInv
BY DEF Init, IInv, TypeOK, IndicesAgree, LiveSlotsWritten, Contents, Slots, Wrap

\* What a push does to the list of stored frames.
LEMMA PushAppends ==
  ASSUME IInv, TypeOK', NEW f \in Frame, Push(f)
  PROVE  Contents' = Append(Contents, f)
<1> USE DEF IInv, TypeOK, IndicesAgree, Push
<1> DEFINE Any == Frame \cup {Unwritten}
<1>1. count' = count + 1 /\ count \in 0 .. Capacity - 1 /\ head' = head
  OBVIOUS
<1>2. ASSUME NEW i \in 1 .. count
      PROVE  entries'[Wrap(head + i - 1)] = entries[Wrap(head + i - 1)]
  <2>1. i - 1 \in 0 .. Capacity - 1 /\ head + i - 1 = head + (i - 1) /\ i - 1 # count
    BY <1>1 DEF Slots
  <2>2. Wrap(head + i - 1) # tail
    BY <1>1, <2>1, WrapInjective
  <2>. QED  BY <2>2
<1>3. entries'[Wrap(head + (count + 1) - 1)] = f
  BY <1>1 DEF Slots, Wrap
<1>4. Contents \in Seq(Any) /\ Len(Contents) = count
  BY ContentsIsSeq
<1>5. /\ Append(Contents, f) \in Seq(Any)
      /\ Len(Append(Contents, f)) = count + 1
      /\ \A i \in 1 .. count : Append(Contents, f)[i] = Contents[i]
      /\ Append(Contents, f)[count + 1] = f
  BY <1>4, AppendProperties
<1>6. Contents' = [i \in 1 .. count + 1 |-> entries'[Wrap(head + i - 1)]]
  BY <1>1 DEF Contents, Wrap
<1>7. Contents' \in Seq(Any) /\ Len(Contents') = count + 1
  <2>1. \A i \in 1 .. count + 1 : entries'[Wrap(head + i - 1)] \in Any
    BY <1>1 DEF Slots, Wrap
  <2>. QED  BY <2>1, <1>1, <1>6
<1>8. ASSUME NEW i \in 1 .. count + 1
      PROVE  Contents'[i] = Append(Contents, f)[i]
  <2>1. CASE i \in 1 .. count
    BY <2>1, <1>2, <1>5, <1>6 DEF Contents
  <2>2. CASE i = count + 1
    BY <2>2, <1>3, <1>5, <1>6
  <2>3. i \in 1 .. count \/ i = count + 1
    BY <1>1
  <2> HIDE DEF IInv, TypeOK, IndicesAgree, Push, Any
  <2>. QED  BY <2>1, <2>2, <2>3
<1> HIDE DEF IInv, TypeOK, IndicesAgree, Push
<1>. QED  BY <1>5, <1>7, <1>8, SeqEqual

\* What a pop does to the list of stored frames, and what it delivers.
LEMMA PopTakesHead ==
  ASSUME IInv, TypeOK', Pop
  PROVE  /\ Contents # <<>>
         /\ delivered' = Head(Contents)
         /\ Contents' = Tail(Contents)
<1> USE DEF IInv, TypeOK, Pop
<1> DEFINE Any == Frame \cup {Unwritten}
<1>1. count \in 1 .. Capacity /\ count' = count - 1 /\ head' = NextSlot(head)
  OBVIOUS
<1>2. Contents \in Seq(Any) /\ Len(Contents) = count /\ Contents # <<>>
  BY <1>1, ContentsIsSeq
<1>3. Contents[1] = entries[head]
  BY <1>1 DEF Contents, Wrap, Slots
<1>4. /\ Tail(Contents) \in Seq(Any)
      /\ Len(Tail(Contents)) = count - 1
      /\ \A i \in 1 .. count - 1 : Tail(Contents)[i] = Contents[i + 1]
  BY <1>1, <1>2, HeadTailProperties
<1>5. Contents' = [i \in 1 .. count - 1 |-> entries[Wrap(NextSlot(head) + i - 1)]]
  BY <1>1 DEF Contents, Wrap
<1>6. ASSUME NEW i \in 1 .. count - 1
      PROVE  entries[Wrap(NextSlot(head) + i - 1)] = Contents[i + 1]
  <2>1. i - 1 \in 0 .. Capacity - 1 /\ i + 1 \in 1 .. count
    BY <1>1
  <2>2. Wrap(NextSlot(head) + (i - 1)) = Wrap(head + ((i - 1) + 1))
    BY <2>1, WrapShift
  <2>3. /\ NextSlot(head) + i - 1 = NextSlot(head) + (i - 1)
        /\ head + (i + 1) - 1 = head + ((i - 1) + 1)
    BY <2>1 DEF Slots, NextSlot
  <2>4. Contents[i + 1] = entries[Wrap(head + (i + 1) - 1)]
    BY <2>1 DEF Contents
  <2>. QED  BY <2>2, <2>3, <2>4
<1>7. Contents' \in Seq(Any) /\ Len(Contents') = count - 1
  <2>1. \A i \in 1 .. count - 1 : entries[Wrap(NextSlot(head) + i - 1)] \in Any
    BY <1>1 DEF Slots, Wrap, NextSlot
  <2>. QED  BY <2>1, <1>1, <1>5
<1>8. \A i \in 1 .. count - 1 : Contents'[i] = Tail(Contents)[i]
  BY <1>4, <1>5, <1>6
<1>9. delivered' = Head(Contents)
  BY <1>2, <1>3
<1> HIDE DEF IInv, TypeOK, Pop
<1>10. Contents' = Tail(Contents)
  BY <1>4, <1>7, <1>8, SeqEqual
<1>. QED  BY <1>2, <1>9, <1>10

LEMMA NextInvariant == IInv /\ [Next]_vars => IInv'
<1> SUFFICES ASSUME IInv, [Next]_vars PROVE IInv'  OBVIOUS
<1>1. ASSUME NEW f \in Frame, Push(f) PROVE IInv'
  <2>1. TypeOK'
    BY <1>1 DEF IInv, TypeOK, Push, Slots, NextSlot
  <2>2. IndicesAgree'
    BY <1>1 DEF IInv, TypeOK, IndicesAgree, Push, Slots, NextSlot, Wrap
  <2>3. LiveSlotsWritten'
    <3>1. Contents' = Append(Contents, f) /\ count' = count + 1
      BY <1>1, <2>1, PushAppends DEF Push
    <3>2. Contents \in Seq(Frame) /\ Len(Contents) = count
      BY DEF IInv, TypeOK, LiveSlotsWritten, Contents
    <3>. QED  BY <3>1, <3>2 DEF LiveSlotsWritten, IInv, TypeOK
  <2>. QED  BY <2>1, <2>2, <2>3 DEF IInv
<1>2. CASE Pop
  <2>1. TypeOK'
    BY <1>2 DEF IInv, TypeOK, Pop, Slots, NextSlot
  <2>2. IndicesAgree'
    BY <1>2 DEF IInv, TypeOK, IndicesAgree, Pop, Slots, NextSlot, Wrap
  <2>3. LiveSlotsWritten'
    <3>1. Contents' = Tail(Contents) /\ Contents # <<>> /\ count' = count - 1
      BY <1>2, <2>1, PopTakesHead DEF Pop
    <3>2. Contents \in Seq(Frame) /\ Len(Contents) = count
      BY DEF IInv, TypeOK, LiveSlotsWritten, Contents
    <3>. QED  BY <3>1, <3>2 DEF LiveSlotsWritten, IInv, TypeOK
  <2>. QED  BY <2>1, <2>2, <2>3 DEF IInv
<1>3. CASE QueueInit
  BY <1>3 DEF IInv, TypeOK, IndicesAgree, LiveSlotsWritten, Contents, QueueInit, Slots, Wrap
<1>4. CASE UNCHANGED vars
  BY <1>4 DEF vars, IInv, TypeOK, IndicesAgree, LiveSlotsWritten, Contents, Wrap
<1>. QED  BY <1>1, <1>2, <1>3, <1>4 DEF Next

\* The fields keep their types, the indices agree and every live slot holds a
\* pushed frame, in every reachable state of the ring (queue.c).
THEOREM RingInvariant == Spec => [](TypeOK /\ IndicesAgree /\ LiveSlotsWritten)
<1>1. IInv => TypeOK /\ IndicesAgree /\ LiveSlotsWritten
  BY DEF IInv
<1>. QED  BY <1>1, InitInvariant, NextInvariant, PTL DEF Spec

\* The index fields stay in the ranges of their C types' use: a slot number each,
\* and a count up to the capacity (queue.c:3-48).
THEOREM RingTypeCorrect == Spec => []TypeOK
BY RingInvariant, PTL

\* Every behaviour of the ring is one of a bounded FIFO buffer: push appends,
\* pop removes the oldest, a reset empties, nothing else happens (queue.c).
THEOREM RingImplementsFifo == Spec => ImplementsFifo
<1>1. Init => Fifo!Init
  BY DEF Init, Fifo!Init, Contents
<1>2. IInv /\ [Next]_vars => [Fifo!Next]_(Fifo!vars)
  <2> SUFFICES ASSUME IInv, IInv', [Next]_vars PROVE [Fifo!Next]_(Fifo!vars)
    BY NextInvariant
  <2>1. ASSUME NEW f \in Frame, Push(f) PROVE Fifo!Put(f)
    <3>1. Len(Contents) = count
      BY DEF IInv, TypeOK, LiveSlotsWritten, Contents
    <3>. QED  BY <2>1, <3>1, PushAppends DEF Fifo!Put, Push, IInv
  <2>2. CASE Pop
    BY <2>2, PopTakesHead DEF Fifo!Next, Fifo!Take, IInv
  <2>3. CASE QueueInit
    BY <2>3 DEF QueueInit, Fifo!Next, Fifo!Clear, Contents
  <2>4. CASE UNCHANGED vars
    BY <2>4 DEF vars, Fifo!vars, Contents, Wrap
  <2>. QED  BY <2>1, <2>2, <2>3, <2>4 DEF Next, Fifo!Next
<1>. QED  BY <1>1, <1>2, InitInvariant, NextInvariant, PTL
     DEF Spec, ImplementsFifo, Fifo!Spec
===============================================================================
