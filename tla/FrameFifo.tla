------------------------------ MODULE FrameFifo ------------------------------
(***************************************************************************)
(* What the frame queue of the controller promises to its callers: a       *)
(* bounded first-in first-out buffer.  Nothing here knows of slots, heads  *)
(* or tails; FrameQueue is shown to implement this module.                 *)
(***************************************************************************)
EXTENDS Naturals, Sequences

CONSTANTS
  Frame,     \* the frames a caller may store
  Capacity,  \* how many the buffer can hold
  Unwritten  \* what the caller's output holds before the first delivery

VARIABLES
  fifo,      \* the stored frames, oldest first
  delivered  \* the frame most recently handed back to a caller

vars == <<fifo, delivered>>

Init == fifo = <<>> /\ delivered = Unwritten

Put(f) ==
  /\ Len(fifo) < Capacity
  /\ fifo' = Append(fifo, f)
  /\ UNCHANGED delivered

Take ==
  /\ fifo # <<>>
  /\ delivered' = Head(fifo)
  /\ fifo' = Tail(fifo)

Clear == fifo' = <<>> /\ UNCHANGED delivered

Next == (\E f \in Frame : Put(f)) \/ Take \/ Clear

Spec == Init /\ [][Next]_vars
==============================================================================
