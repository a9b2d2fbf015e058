------------------------------ MODULE FrameLink ------------------------------
(***************************************************************************)
(* A frame on its way: one caller encodes it, the bytes suffer whatever    *)
(* the line does to them, another caller decodes them.  The line and the   *)
(* two callers are outside src/; the tests play their part                 *)
(* (src/tests/c/test_main.c).                                              *)
(***************************************************************************)
EXTENDS FrameCodec

CONSTANTS
  Frames,      \* what is sent
  Capacities,  \* sizes of the sender's buffer
  Ports,       \* interfaces the receiver may decode for
  MaxFlips,    \* at most so many bits of a message are flipped,
  LongestFlipped, \* and none of a message of more bytes than this
  Extras,      \* bytes the line may append
  Unwritten    \* the receiver's frame before a decode stores one

\* Callers pass frames whose fields have the widths of esqh_frame_t
\* (src/include/esqh/esqh.h); the payload is as long as the frame says.
IsFrame(f) ==
  /\ f \in [interface_type : Nat, message_id : Words, sequence : Words,
            payload_length : Words, payload : Seq(Byte)]
  /\ Len(f.payload) = f.payload_length

ASSUME FrameAssumption == (\A f \in Frames : IsFrame(f)) /\ Extras \subseteq Byte

VARIABLES
  stage,     \* "idle", "sent" or "done"
  sent, wire, capacity,
  flipped,   \* positions of the bits flipped so far
  resized,   \* the line cut or lengthened the message
  port, status, destination

vars == <<stage, sent, wire, capacity, flipped, resized, port, status, destination>>

Init ==
  /\ stage = "idle"
  /\ sent \in Frames /\ capacity \in Capacities
  /\ wire = <<>> /\ flipped = {} /\ resized = FALSE
  /\ port = 0 /\ status = "none" /\ destination = Unwritten

\* The sender encodes; a refusal leaves the line empty.
Send ==
  /\ stage = "idle" /\ status = "none"
  /\ LET result == Encode(sent, capacity)
     IN  IF result.status = "OK"
         THEN wire' = result.wire /\ stage' = "sent" /\ UNCHANGED status
         ELSE status' = result.status /\ UNCHANGED <<wire, stage>>
  /\ UNCHANGED <<sent, capacity, flipped, resized, port, destination>>

FlipBit(bytes, p) ==
  LET k == p \div 8 + 1
  IN  [bytes EXCEPT ![k] = NumberOf(Xor(BitsOf(@), {p % 8}))]

\* The line inverts one more bit; in ascending order, which loses nothing.
Flip ==
  /\ stage = "sent" /\ ~resized
  /\ Cardinality(flipped) < MaxFlips /\ Len(wire) <= LongestFlipped
  /\ \E p \in 0 .. 8 * Len(wire) - 1 :
       /\ \A q \in flipped : q < p
       /\ wire' = FlipBit(wire, p)
       /\ flipped' = flipped \cup {p}
  /\ UNCHANGED <<stage, sent, capacity, resized, port, status, destination>>

Cut ==
  /\ stage = "sent" /\ ~resized /\ flipped = {}
  /\ \E n \in 0 .. Len(wire) - 1 : wire' = SubSeq(wire, 1, n)
  /\ resized' = TRUE
  /\ UNCHANGED <<stage, sent, capacity, flipped, port, status, destination>>

Lengthen ==
  /\ stage = "sent" /\ ~resized /\ flipped = {}
  /\ \E extra \in Extras : wire' = Append(wire, extra)
  /\ resized' = TRUE
  /\ UNCHANGED <<stage, sent, capacity, flipped, port, status, destination>>

\* The receiver decodes, for the right interface or another.
Receive ==
  /\ stage = "sent" /\ stage' = "done"
  /\ port' \in Ports
  /\ LET result == Decode(port', wire)
     IN  /\ status' = result.status
         /\ destination' = IF result.status = "OK" THEN result.frame ELSE destination
  /\ UNCHANGED <<sent, wire, capacity, flipped, resized>>

Next == Send \/ Flip \/ Cut \/ Lengthen \/ Receive

Spec == Init /\ [][Next]_vars

-------------------------------------------------------------------------------
(* Properties                                                              *)

Damaged == resized \/ flipped # {}

\* A frame the encoder accepts arrives, on its own interface, exactly as it
\* was sent, at every payload length up to the limit (frame.c:66-203).
IntactFrameArrives ==
  stage = "done" /\ ~Damaged /\ port = sent.interface_type
    => status = "OK" /\ destination = sent

\* A message with up to three wrong bits, cut short or lengthened never reaches
\* the receiver's frame: the marker, range, length and checksum tests together
\* miss none of them (frame.c:147-193, crc.c).
DamageIsDetected ==
  stage = "done" /\ Damaged => status # "OK" /\ destination = Unwritten

\* Bytes written for one interface are never taken for a frame of another,
\* although the layouts overlap and CAN has no marker (frame.c:151-184).
NoInterfaceConfusion ==
  stage = "done" /\ status = "OK" => port = sent.interface_type

\* The decoder accepts only what the encoder writes: encoding the decoded frame
\* gives the received bytes back (frame.c:66-203).
AcceptedIsCanonical ==
  stage = "done" /\ status = "OK"
    => LET again == Encode(destination, Len(wire))
       IN  again.status = "OK" /\ again.wire = wire

\* The codec and the controller each test frames on their own; they draw the
\* same line.  What the decoder hands on a controller with every interface
\* enabled admits, and the encoder takes just what such a controller admits,
\* if it fits the buffer (frame.c:76-90, 147-184; controller.c:223-246).
CodecAndControllerAgree ==
  /\ stage = "done" /\ status = "OK" => Admits(0 .. 3, destination)
  /\ stage = "sent" => Admits(0 .. 3, sent)
  /\ stage = "idle" /\ status # "none"
       => ~Admits(0 .. 3, sent) \/ capacity < WireSize(sent)
===============================================================================
