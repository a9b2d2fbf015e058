------------------------------ MODULE FrameCodec ------------------------------
(***************************************************************************)
(* src/src/frame.c and src/src/crc.c: frames to bytes and back.  A byte is *)
(* a number, a buffer a sequence of bytes.  Encode and Decode give the     *)
(* status the function returns and, when it is "OK", what it stores; with  *)
(* any other status the function stores nothing.                           *)
(***************************************************************************)
EXTENDS Integers, Sequences, FiniteSets, Ports

\* Defective variants: bytes read in the other order, a checksum that stops one
\* byte early, one marker for two interfaces, a decoder that tolerates trailing
\* bytes.
ReadU16Little(bytes, pos) == bytes[pos] + bytes[pos + 1] * 256
CrcEndEarly(data) == Len(data) - 1
MarkerShared(i) == IF i = ETHERNET THEN <<69, 83>> ELSE <<165, 1>>
LengthFitsLoosely(length, expected) == length >= expected

\* uint8_t and uint16_t.
Byte == 0 .. 255
UINT16_MAX == 65535
Words == 0 .. UINT16_MAX

-------------------------------------------------------------------------------
(* CRC-16/CCITT, with the register as the set of its one bits              *)

\* What bit b is worth; written out, and so is the sum, because the provers
\* know nothing of powers and of sums over sets.
Weight == [b \in 0 .. 15 |->
  <<1, 2, 4, 8, 16, 32, 64, 128, 256, 512, 1024, 2048, 4096, 8192, 16384, 32768>>[b + 1]]

BitsOf(n) == {b \in 0 .. 15 : (n \div Weight[b]) % 2 = 1}
NumberOf(bits) ==
  LET Value(b) == IF b \in bits THEN Weight[b] ELSE 0
      Nibble(b) == Value(b) + Value(b + 1) + Value(b + 2) + Value(b + 3)
  IN  Nibble(0) + Nibble(4) + Nibble(8) + Nibble(12)
Xor(p, q) == (p \ q) \cup (q \ p)

\* One turn of the inner loop: shift left, and xor 0x1021 if a one fell out.
ShiftCrc(crc) ==
  LET up == {b + 1 : b \in crc \ {15}}
  IN  IF 15 \in crc THEN Xor(up, {12, 5, 0}) ELSE up

\* The inner loop.
ShiftEight(crc) ==
  LET Twice(c) == ShiftCrc(ShiftCrc(c)) IN Twice(Twice(Twice(Twice(crc))))

\* One turn of the outer loop: a byte into the high half, then eight shifts.
FeedCrc(crc, byte) == ShiftEight(Xor(crc, {b + 8 : b \in BitsOf(byte)}))

CrcEnd(data) == Len(data)

\* esqh_crc16: every byte in turn.  fed[n][at] is what the n bytes after the
\* first at make of the register; it is halved rather than walked so that
\* evaluating it does not nest as deep as the message is long.
CrcBits(data) ==
  LET end == CrcEnd(data)
      fed[n \in 0 .. end] ==
        [at \in 0 .. end - n |-> [crc \in SUBSET (0 .. 15) |->
          IF n = 0 THEN crc
          ELSE IF n = 1 THEN FeedCrc(crc, data[at + 1])
          ELSE fed[n - n \div 2][at + n \div 2][fed[n \div 2][at][crc]]]]
  IN  fed[end][0][0 .. 15]
Crc16(data) == NumberOf(CrcBits(data))

-------------------------------------------------------------------------------
(* Layout                                                                  *)

\* esqh_internal_write_u16 and esqh_internal_read_u16, big-endian; positions
\* count from 1.
High(n) == n \div 256
Low(n) == n % 256
WriteU16(n) == <<High(n), Low(n)>>
ReadU16(bytes, pos) == bytes[pos] * 256 + bytes[pos + 1]

\* The two bytes every frame but a CAN frame starts with.
Marker(i) == CASE i = UART -> <<165, 1>> [] i = SPI -> <<90, 2>> [] i = ETHERNET -> <<69, 83>>

\* Bytes before the payload: id, sequence and one length byte for CAN; marker,
\* id, sequence and two length bytes for the others.
HeaderLength(i) == IF i = CAN THEN 5 ELSE 8

\* esqh_wire_size; 0 for a frame that cannot be encoded.
WireSize(f) ==
  IF f.payload_length > PayloadLimit(f.interface_type) THEN 0
  ELSE HeaderLength(f.interface_type) + f.payload_length + 2

LengthFits(length, expected) == length = expected

Header(f) ==
  LET id == f.message_id
      mark == Marker(f.interface_type)
  IN  IF f.interface_type = CAN
      THEN <<High(id), Low(id), High(f.sequence), Low(f.sequence), f.payload_length>>
      ELSE <<mark[1], mark[2], High(id), Low(id), High(f.sequence), Low(f.sequence),
             High(f.payload_length), Low(f.payload_length)>>

-------------------------------------------------------------------------------
(* Encoding and decoding, each check in the order of the code              *)

Refused(status) == [status |-> status]

\* esqh_frame_encode into a buffer of the given capacity.
Encode(f, capacity) ==
  LET body == Header(f) \o SubSeq(f.payload, 1, f.payload_length)
  IN  IF f.payload_length > PayloadLimit(f.interface_type) THEN Refused("ERR_LENGTH")
      ELSE IF f.interface_type = CAN /\ f.message_id > 2047 THEN Refused("ERR_RANGE")
      ELSE IF WireSize(f) = 0 \/ capacity < WireSize(f) THEN Refused("ERR_LENGTH")
      ELSE IF f.interface_type \notin Interfaces THEN Refused("ERR_RANGE")
      ELSE [status |-> "OK", wire |-> body \o WriteU16(Crc16(body)), written |-> WireSize(f)]

PayloadIn(i, input, body) == SubSeq(input, HeaderLength(i) + 1, body)

\* The part of esqh_frame_decode both layouts share: exact length, checksum,
\* and only then the frame.
DecodeBody(i, input, id, sequence, length) ==
  LET body == HeaderLength(i) + length
  IN  IF ~LengthFits(Len(input), body + 2) THEN Refused("ERR_LENGTH")
      ELSE IF ReadU16(input, body + 1) # Crc16(SubSeq(input, 1, body))
      THEN Refused("ERR_CHECKSUM")
      ELSE [status |-> "OK",
            frame |-> [interface_type |-> i, message_id |-> id, sequence |-> sequence,
                       payload_length |-> length,
                       payload |-> PayloadIn(i, input, body)]]

\* esqh_frame_decode
Decode(i, input) ==
  IF i \notin Interfaces THEN Refused("ERR_RANGE")
  ELSE IF Len(input) < HeaderLength(i) + 2 THEN Refused("ERR_LENGTH")
  ELSE IF i = CAN
  THEN IF ReadU16(input, 1) > 2047 \/ input[5] > 8 THEN Refused("ERR_RANGE")
       ELSE DecodeBody(i, input, ReadU16(input, 1), ReadU16(input, 3), input[5])
  ELSE IF SubSeq(input, 1, 2) # Marker(i) THEN Refused("ERR_RANGE")
  ELSE IF ReadU16(input, 7) > PayloadLimit(i) THEN Refused("ERR_LENGTH")
  ELSE DecodeBody(i, input, ReadU16(input, 3), ReadU16(input, 5), ReadU16(input, 7))
===============================================================================
