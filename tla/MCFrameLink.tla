----------------------------- MODULE MCFrameLink -----------------------------
(* Frames for the model checker.                                           *)
EXTENDS FrameLink

Bytes(n) == [k \in 1 .. n |-> (37 * k + 200) % 256]
FrameOf(i, id, seq, n) ==
  [interface_type |-> i, message_id |-> id, sequence |-> seq, payload_length |-> n,
   payload |-> Bytes(n)]

\* Short frames, so that every pair of bits of a message can be flipped.
ShortFrames == {FrameOf(i, 1363, 90, 1) : i \in Interfaces} \cup {FrameOf(CAN, 0, 1, 0)}

\* Frames at, just below and just past every limit, and on no interface.
Lengths == {0, 1, 8, 9, 32, 33, 64, 65, 256, 257}
LimitFrames ==
  {FrameOf(i, id, 65535, n) : i \in Interfaces, id \in {0, 2047, 2048}, n \in Lengths}
    \cup {FrameOf(i, 1, 1, n) : i \in {0, 5}, n \in {0, 1}}
AllFrames == ShortFrames \cup LimitFrames
===============================================================================
