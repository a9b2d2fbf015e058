--------------------------- MODULE FrameLinkProofs ---------------------------
(***************************************************************************)
(* What the codec guarantees for every frame and every message, and what   *)
(* of a damaged message gets through.  The sections on the layout use only *)
(* that a checksum is a word; the one on damage rests on CrcProofs.        *)
(***************************************************************************)
EXTENDS FrameLink, CrcProofs

-------------------------------------------------------------------------------
(* The layout of a message                                                 *)

Body(f) == Header(f) \o SubSeq(f.payload, 1, f.payload_length)
WireOf(f) == Body(f) \o WriteU16(Crc16(Body(f)))

\* The encoder takes just the frames a controller with every interface enabled
\* admits, if they fit the buffer, and writes header, payload and checksum.
LEMMA EncodeMeans ==
  ASSUME NEW f, IsFrame(f), NEW c
  PROVE  /\ Encode(f, c).status = "OK" <=> Admits(0 .. 3, f) /\ ~(c < WireSize(f))
         /\ Encode(f, c).status = "OK" => Encode(f, c).wire = WireOf(f)
<1> DEFINE i == f.interface_type
           tooLong == f.payload_length > PayloadLimit(i)
           noId == i = CAN /\ f.message_id > 2047
           noRoom == WireSize(f) = 0 \/ c < WireSize(f)
<1>1. /\ Encode(f, c).status = "OK" <=> ~tooLong /\ ~noId /\ ~noRoom /\ i \in Interfaces
      /\ Encode(f, c).status = "OK" => Encode(f, c).wire = WireOf(f)
  <2>1. CASE ~tooLong /\ ~noId /\ ~noRoom /\ i \in Interfaces
    <3>1. Encode(f, c) = [status |-> "OK", wire |-> WireOf(f), written |-> WireSize(f)]
      BY <2>1 DEF Encode, WireOf, Body
    <3>. QED  BY <2>1, <3>1
  <2>2. CASE tooLong
    BY <2>2 DEF Encode, Refused
  <2>3. CASE ~tooLong /\ noId
    BY <2>3 DEF Encode, Refused
  <2>4. CASE ~tooLong /\ ~noId /\ noRoom
    BY <2>4 DEF Encode, Refused
  <2>5. CASE ~tooLong /\ ~noId /\ ~noRoom /\ i \notin Interfaces
    BY <2>5 DEF Encode, Refused
  <2>. QED  BY <2>1, <2>2, <2>3, <2>4, <2>5
<1>2. f.payload_length \in Nat /\ f.message_id \in Nat
  BY WordIsNumber DEF IsFrame
<1>3. i \in Interfaces => i - 1 \in 0 .. 3
  BY DEF Interfaces, UART, ETHERNET
<1>4. PayloadLimit(i) \in Nat
  BY DEF PayloadLimit
<1>5. Admits(0 .. 3, f) <=> i \in Interfaces /\ ~tooLong /\ ~noId
  BY <1>2, <1>3, <1>4 DEF Admits
<1>6. ~tooLong => WireSize(f) # 0
  BY <1>2 DEF WireSize, HeaderLength
<1>. QED  BY <1>1, <1>5, <1>6

\* Bytes of sequences put one after the other.
LEMMA Joined ==
  ASSUME NEW a \in Seq(Byte), NEW b \in Seq(Byte)
  PROVE  /\ a \o b \in Seq(Byte) /\ Len(a \o b) = Len(a) + Len(b)
         /\ \A k \in 1 .. Len(a) : (a \o b)[k] = a[k]
         /\ \A k \in 1 .. Len(b) : (a \o b)[Len(a) + k] = b[k]
         /\ SubSeq(a \o b, 1, Len(a)) = a
         /\ SubSeq(a \o b, Len(a) + 1, Len(a) + Len(b)) = b
OBVIOUS

\* The interfaces other than CAN have a marker of two bytes.
LEMMA MarkerBytes ==
  ASSUME NEW i \in Interfaces, i # CAN
  PROVE  \E a \in Byte, b \in Byte : Marker(i) = <<a, b>>
<1>1. i = UART \/ i = SPI \/ i = ETHERNET
  BY DEF Interfaces, UART, SPI, CAN, ETHERNET
<1>2. 165 \in Byte /\ 1 \in Byte /\ 90 \in Byte /\ 2 \in Byte /\ 69 \in Byte /\ 83 \in Byte
  BY DEF Byte
<1>3. \/ Marker(i) = <<165, 1>> \/ Marker(i) = <<90, 2>> \/ Marker(i) = <<69, 83>>
  BY <1>1 DEF Marker, UART, SPI, CAN, ETHERNET
<1>. QED  BY <1>2, <1>3

\* The fields of a header are where the decoder looks for them.
LEMMA HeaderFields ==
  ASSUME NEW f, IsFrame(f), Admits(0 .. 3, f)
  PROVE  LET i == f.interface_type
             h == Header(f)
         IN  /\ h \in Seq(Byte) /\ Len(h) = HeaderLength(i)
             /\ i = CAN => /\ ReadU16(h, 1) = f.message_id /\ ReadU16(h, 3) = f.sequence
                           /\ h[5] = f.payload_length
             /\ i # CAN => /\ <<h[1], h[2]>> = Marker(i)
                           /\ ReadU16(h, 3) = f.message_id /\ ReadU16(h, 5) = f.sequence
                           /\ ReadU16(h, 7) = f.payload_length
<1> DEFINE i == f.interface_type
           id == f.message_id
           seq == f.sequence
           len == f.payload_length
<1>1. /\ High(id) \in Byte /\ Low(id) \in Byte /\ High(id) * 256 + Low(id) = id
      /\ High(seq) \in Byte /\ Low(seq) \in Byte /\ High(seq) * 256 + Low(seq) = seq
      /\ High(len) \in Byte /\ Low(len) \in Byte /\ High(len) * 256 + Low(len) = len
  BY WordWritten DEF IsFrame
<1>2. CASE i = CAN
  <2>1. f.payload_length \in Byte
    <3>1. f.payload_length \in Nat
      BY WordIsNumber DEF IsFrame
    <3>2. PayloadLimit(CAN) = 8
      BY DEF PayloadLimit, UART, SPI, CAN, ETHERNET
    <3>. QED  BY <1>2, <3>1, <3>2 DEF Admits, Byte
  <2>2. Header(f) = <<High(id), Low(id), High(seq), Low(seq), f.payload_length>>
    BY <1>2 DEF Header
  <2>3. Header(f) \in Seq(Byte)
    BY <1>1, <2>1, <2>2
  <2>. QED  BY <1>1, <1>2, <2>2, <2>3 DEF ReadU16, HeaderLength
<1>3. CASE i # CAN
  <2>1. PICK a \in Byte, b \in Byte : Marker(i) = <<a, b>>
    BY <1>3, MarkerBytes DEF Admits
  <2>2. Header(f) = <<a, b, High(id), Low(id), High(seq), Low(seq), High(len), Low(len)>>
    BY <1>3, <2>1 DEF Header
  <2>3. Header(f) \in Seq(Byte)
    BY <1>1, <2>2
  <2>. QED  BY <1>1, <1>3, <2>1, <2>2, <2>3 DEF ReadU16, HeaderLength
<1>. QED  BY <1>2, <1>3

\* Where the decoder finds the parts of a message the encoder wrote.
LEMMA WireLayout ==
  ASSUME NEW f, IsFrame(f), Admits(0 .. 3, f)
  PROVE  LET n == HeaderLength(f.interface_type)
             b == n + f.payload_length
             w == WireOf(f)
         IN  /\ w \in Seq(Byte) /\ Len(w) = b + 2
             /\ \A k \in 1 .. n : w[k] = Header(f)[k]
             /\ SubSeq(w, n + 1, b) = f.payload
             /\ SubSeq(w, 1, b) = Body(f)
             /\ ReadU16(w, b + 1) = Crc16(Body(f))
<1> DEFINE n == HeaderLength(f.interface_type)
           h == Header(f)
           p == f.payload
           v == Body(f)
           w == WireOf(f)
           c == WriteU16(Crc16(v))
<1>1. h \in Seq(Byte) /\ Len(h) = n
  BY HeaderFields
<1>2. p \in Seq(Byte) /\ Len(p) = f.payload_length
  BY DEF IsFrame
<1>3. n \in Nat
  BY DEF HeaderLength
<1>4. v = h \o p
  <2>1. SubSeq(p, 1, Len(p)) = p
    BY <1>2, SubSeqFull
  <2>. QED  BY <1>2, <2>1 DEF Body
<1>5. /\ c \in Seq(Byte) /\ Len(c) = 2 /\ c[1] * 256 + c[2] = Crc16(v)
  BY CrcType, WordWritten DEF WriteU16
<1>6. w = v \o c
  BY DEF WireOf
<1> HIDE DEF n, h, p, v, w, c
<1>7. /\ v \in Seq(Byte) /\ Len(v) = Len(h) + Len(p)
      /\ \A k \in 1 .. Len(h) : v[k] = h[k]
      /\ SubSeq(v, Len(h) + 1, Len(h) + Len(p)) = p
  BY <1>1, <1>2, <1>4, Joined
<1>8. /\ w \in Seq(Byte) /\ Len(w) = Len(v) + Len(c)
      /\ \A k \in 1 .. Len(v) : w[k] = v[k]
      /\ \A k \in 1 .. Len(c) : w[Len(v) + k] = c[k]
      /\ SubSeq(w, 1, Len(v)) = v
  BY <1>5, <1>6, <1>7, Joined
<1>9. PICK b \in Nat : b = n + f.payload_length /\ Len(v) = b /\ b = n + Len(p)
  BY <1>1, <1>2, <1>3, <1>7
<1>10. SubSeq(w, n + 1, b) = p
  <2>1. SubSeq(w, n + 1, b) = SubSeq(v, n + 1, b)
    BY <1>3, <1>8, <1>9
  <2>. QED  BY <1>1, <1>7, <1>9, <2>1
<1>11. ReadU16(w, b + 1) = Crc16(v)
  <2>1. w[b + 1] = c[1] /\ w[b + 1 + 1] = c[2]
    BY <1>5, <1>8, <1>9
  <2>. QED  BY <1>5, <2>1 DEF ReadU16
<1>12. Len(w) = b + 2 /\ \A k \in 1 .. n : w[k] = h[k]
  <2>1. \A k \in 1 .. n : k \in 1 .. Len(h) /\ k \in 1 .. Len(v)
    BY <1>1, <1>2, <1>3, <1>7
  <2>. QED  BY <1>5, <1>7, <1>8, <1>9, <2>1
<1>. QED  BY <1>8, <1>9, <1>10, <1>11, <1>12 DEF n, h, p, v, w

\* A sequence of two is the pair of its members.
LEMMA PairIs == ASSUME NEW S, NEW s \in Seq(S), Len(s) = 2 PROVE s = <<s[1], s[2]>>
OBVIOUS

\* The first two of a sequence.
LEMMA FirstTwo ==
  ASSUME NEW w \in Seq(Byte), Len(w) >= 2
  PROVE  SubSeq(w, 1, 2) = <<w[1], w[2]>>
<1>1. w[1] \in Byte /\ w[2] \in Byte
  OBVIOUS
<1>2. SubSeq(w, 1, 2) \in Seq(Byte) /\ Len(SubSeq(w, 1, 2)) = 2
      /\ SubSeq(w, 1, 2)[1] = w[1] /\ SubSeq(w, 1, 2)[2] = w[2]
  OBVIOUS
<1> DEFINE t == SubSeq(w, 1, 2)
<1> HIDE DEF t
<1>3. t = <<t[1], t[2]>>
  BY <1>2, PairIs DEF t
<1>. QED  BY <1>2, <1>3 DEF t

\* The decoder gives back exactly what the encoder was given.
LEMMA RoundTrip ==
  ASSUME NEW f, IsFrame(f), Admits(0 .. 3, f)
  PROVE  Decode(f.interface_type, WireOf(f)) = [status |-> "OK", frame |-> f]
<1> DEFINE i == f.interface_type
           n == HeaderLength(i)
           b == n + f.payload_length
           w == WireOf(f)
<1>1. /\ i \in Interfaces
      /\ f.payload_length \in Nat /\ f.payload_length <= PayloadLimit(i)
      /\ f.message_id \in Nat /\ (i = CAN => f.message_id <= 2047)
      /\ n \in {5, 8}
  BY WordIsNumber DEF IsFrame, Admits, HeaderLength
<1>2. /\ Len(w) = b + 2 /\ w \in Seq(Byte)
      /\ \A k \in 1 .. n : w[k] = Header(f)[k]
      /\ SubSeq(w, n + 1, b) = f.payload
      /\ ReadU16(w, b + 1) = Crc16(SubSeq(w, 1, b))
  BY WireLayout
<1>3. DecodeBody(i, w, f.message_id, f.sequence, f.payload_length)
        = [status |-> "OK", frame |-> f]
  <2>1. f = [interface_type |-> i, message_id |-> f.message_id, sequence |-> f.sequence,
             payload_length |-> f.payload_length, payload |-> f.payload]
    BY DEF IsFrame
  <2>2. LengthFits(Len(w), b + 2) /\ PayloadIn(i, w, b) = f.payload
    BY <1>2 DEF LengthFits, PayloadIn
  <2> HIDE DEF w
  <2>. QED  BY <1>2, <2>1, <2>2 DEF DecodeBody
<1>4. ~(Len(w) < n + 2)
  BY <1>1, <1>2
<1> DEFINE result == [status |-> "OK", frame |-> f]
<1>5. ASSUME i = CAN PROVE Decode(i, w) = result
  <2>1. /\ ReadU16(w, 1) = f.message_id /\ ReadU16(w, 3) = f.sequence
        /\ w[5] = f.payload_length
    BY <1>2, <1>5, HeaderFields DEF ReadU16, HeaderLength
  <2>2. PayloadLimit(CAN) = 8
    BY DEF PayloadLimit, UART, SPI, CAN, ETHERNET
  <2> HIDE DEF w, result
  <2>3. ~(ReadU16(w, 1) > 2047 \/ w[5] > 8)
    BY <1>1, <1>5, <2>1, <2>2
  <2>4. Decode(i, w) = DecodeBody(i, w, ReadU16(w, 1), ReadU16(w, 3), w[5])
    BY <1>1, <1>4, <1>5, <2>3 DEF Decode
  <2>. QED  BY <1>3, <2>1, <2>4 DEF result
<1>6. ASSUME i # CAN PROVE Decode(i, w) = result
  <2>1. /\ <<w[1], w[2]>> = Marker(i)
        /\ ReadU16(w, 3) = f.message_id /\ ReadU16(w, 5) = f.sequence
        /\ ReadU16(w, 7) = f.payload_length
    BY <1>2, <1>6, HeaderFields DEF ReadU16, HeaderLength
  <2>2. SubSeq(w, 1, 2) = <<w[1], w[2]>>
    BY <1>1, <1>2, <1>4, FirstTwo
  <2>3. PayloadLimit(i) \in Nat
    BY DEF PayloadLimit
  <2> HIDE DEF w, result
  <2>4. ~(ReadU16(w, 7) > PayloadLimit(i)) /\ SubSeq(w, 1, 2) = Marker(i)
    BY <1>1, <2>1, <2>2, <2>3
  <2>5. Decode(i, w) = DecodeBody(i, w, ReadU16(w, 3), ReadU16(w, 5), ReadU16(w, 7))
    BY <1>1, <1>4, <1>6, <2>4 DEF Decode
  <2>. QED  BY <1>3, <2>1, <2>5 DEF result
<1>. QED  BY <1>5, <1>6

\* A sequence of five is the tuple of its members.
LEMMA FiveIs ==
  ASSUME NEW s \in Seq(Byte), Len(s) = 5
  PROVE  s = <<s[1], s[2], s[3], s[4], s[5]>>
OBVIOUS

\* A sequence of eight is the tuple of its members.
LEMMA EightIs ==
  ASSUME NEW s \in Seq(Byte), Len(s) = 8
  PROVE  s = <<s[1], s[2], s[3], s[4], s[5], s[6], s[7], s[8]>>
OBVIOUS

\* The first bytes of a message.
LEMMA Prefix ==
  ASSUME NEW w \in Seq(Byte), NEW n \in Nat, n <= Len(w)
  PROVE  /\ SubSeq(w, 1, n) \in Seq(Byte) /\ Len(SubSeq(w, 1, n)) = n
         /\ \A k \in 1 .. n : SubSeq(w, 1, n)[k] = w[k]
OBVIOUS

\* A message is what its parts are put together.
LEMMA Parts ==
  ASSUME NEW w \in Seq(Byte), NEW n \in Nat, NEW m \in Nat, Len(w) = n + m + 2
  PROVE  /\ w = (SubSeq(w, 1, n) \o SubSeq(w, n + 1, n + m)) \o <<w[n + m + 1], w[n + m + 2]>>
         /\ SubSeq(w, 1, n) \o SubSeq(w, n + 1, n + m) = SubSeq(w, 1, n + m)
         /\ SubSeq(w, n + 1, n + m) \in Seq(Byte) /\ Len(SubSeq(w, n + 1, n + m)) = m
<1>1. PICK b \in Nat : b = n + m
  OBVIOUS
<1>2. SubSeq(w, 1, n) \o SubSeq(w, n + 1, b) = SubSeq(w, 1, b)
  BY <1>1, ConcatAdjacentSubSeq
<1>3. SubSeq(w, 1, b) \o SubSeq(w, b + 1, b + 2) = SubSeq(w, 1, b + 2)
  BY <1>1, ConcatAdjacentSubSeq
<1>4. SubSeq(w, 1, b + 2) = w
  BY <1>1, SubSeqFull
<1>5. SubSeq(w, b + 1, b + 2) = <<w[b + 1], w[b + 2]>>
  <2> DEFINE t == SubSeq(w, b + 1, b + 2)
  <2>1. t \in Seq(Byte) /\ Len(t) = 2 /\ t[1] = w[b + 1] /\ t[2] = w[b + 2]
    BY <1>1
  <2> HIDE DEF t
  <2>2. t = <<t[1], t[2]>>
    BY <2>1, PairIs
  <2>. QED  BY <2>1, <2>2 DEF t
<1>6. SubSeq(w, n + 1, n + m) \in Seq(Byte) /\ Len(SubSeq(w, n + 1, n + m)) = m
  OBVIOUS
<1>. QED  BY <1>1, <1>2, <1>3, <1>4, <1>5, <1>6

\* What the two layouts share: if the header of the decoded frame is that of the
\* message, the message is what the encoder makes of the frame.
LEMMA BodyIsCanonical ==
  ASSUME NEW w \in Seq(Byte), NEW i \in Interfaces,
         NEW id \in Words, NEW sequence \in Words, NEW length \in Words,
         DecodeBody(i, w, id, sequence, length).status = "OK"
  PROVE  LET f == DecodeBody(i, w, id, sequence, length).frame
             n == HeaderLength(i)
         IN  /\ IsFrame(f) /\ f.interface_type = i
             /\ f.message_id = id /\ f.sequence = sequence /\ f.payload_length = length
             /\ Len(w) = n + length + 2
             /\ Header(f) = SubSeq(w, 1, n) => WireOf(f) = w
<1> DEFINE n == HeaderLength(i)
           b == n + length
           p == SubSeq(w, n + 1, b)
           f == DecodeBody(i, w, id, sequence, length).frame
<1>1. /\ Len(w) = b + 2
      /\ ReadU16(w, b + 1) = Crc16(SubSeq(w, 1, b))
      /\ f = [interface_type |-> i, message_id |-> id, sequence |-> sequence,
              payload_length |-> length, payload |-> p]
  BY DEF DecodeBody, Refused, LengthFits, PayloadIn
<1>2. n \in Nat /\ length \in Nat /\ i \in Nat
  BY WordIsNumber DEF HeaderLength, Interfaces, UART, ETHERNET
<1>3. /\ w = (SubSeq(w, 1, n) \o p) \o <<w[b + 1], w[b + 2]>>
      /\ SubSeq(w, 1, n) \o p = SubSeq(w, 1, b)
      /\ p \in Seq(Byte) /\ Len(p) = length
  BY <1>1, <1>2, Parts
<1>4. w[b + 1] \in Byte /\ w[b + 2] \in Byte /\ b + 1 + 1 = b + 2
  BY <1>1, <1>2
<1> HIDE DEF n, p, f
<1>5. IsFrame(f)
  BY <1>1, <1>2, <1>3 DEF IsFrame
<1>6. ASSUME Header(f) = SubSeq(w, 1, n) PROVE WireOf(f) = w
  <2>1. SubSeq(f.payload, 1, f.payload_length) = p
    BY <1>1, <1>3, SubSeqFull
  <2>2. Body(f) = SubSeq(w, 1, b)
    BY <1>3, <1>6, <2>1 DEF Body
  <2>3. WriteU16(Crc16(Body(f))) = <<w[b + 1], w[b + 2]>>
    <3>1. PICK x \in Byte, y \in Byte : x = w[b + 1] /\ y = w[b + 2]
      BY <1>4
    <3>2. Crc16(Body(f)) = x * 256 + y
      BY <1>1, <1>4, <2>2, <3>1 DEF ReadU16
    <3>3. High(x * 256 + y) = x /\ Low(x * 256 + y) = y
      BY WordRead
    <3>. QED  BY <3>1, <3>2, <3>3 DEF WriteU16
  <2>. QED  BY <1>3, <2>2, <2>3 DEF WireOf
<1>. QED  BY <1>1, <1>5, <1>6 DEF n, f

\* The decoder accepts only what the encoder writes, and what a controller with
\* every interface enabled admits.
LEMMA DecodeMeans ==
  ASSUME NEW w \in Seq(Byte), NEW i, Decode(i, w).status = "OK"
  PROVE  LET f == Decode(i, w).frame
         IN  /\ IsFrame(f) /\ f.interface_type = i /\ Admits(0 .. 3, f)
             /\ WireOf(f) = w /\ Len(w) = WireSize(f)
<1> DEFINE n == HeaderLength(i)
           f == Decode(i, w).frame
<1>1. i \in Interfaces /\ ~(Len(w) < n + 2)
  BY DEF Decode, Refused
<1>2. i - 1 \in 0 .. 3 /\ n \in Nat /\ PayloadLimit(i) \in Nat
  BY <1>1 DEF Interfaces, UART, ETHERNET, HeaderLength, PayloadLimit
<1>3. \A k \in 1 .. Len(w) : w[k] \in Byte
  OBVIOUS
<1>4. ASSUME NEW k \in Nat, 1 <= k, k + 1 <= n
      PROVE  /\ ReadU16(w, k) \in Words
             /\ High(ReadU16(w, k)) = w[k] /\ Low(ReadU16(w, k)) = w[k + 1]
  <2>1. w[k] \in Byte /\ w[k + 1] \in Byte
    BY <1>1, <1>2, <1>3, <1>4
  <2>. QED  BY <2>1, WordRead DEF ReadU16
<1> DEFINE t == SubSeq(w, 1, n)
<1>5. t \in Seq(Byte) /\ Len(t) = n /\ \A k \in 1 .. n : t[k] = w[k]
  BY <1>1, <1>2, Prefix
<1> DEFINE goal == /\ IsFrame(f) /\ f.interface_type = i /\ Admits(0 .. 3, f)
                   /\ WireOf(f) = w /\ Len(w) = WireSize(f)
<1>6. ASSUME i = CAN PROVE goal
  <2>1. n = 5
    BY <1>6 DEF HeaderLength
  <2>2. /\ ~(ReadU16(w, 1) > 2047 \/ w[5] > 8)
        /\ Decode(i, w) = DecodeBody(i, w, ReadU16(w, 1), ReadU16(w, 3), w[5])
    BY <1>1, <1>6 DEF Decode, Refused
  <2>3. w[5] \in Words /\ w[5] \in Nat /\ ReadU16(w, 1) \in Words /\ ReadU16(w, 3) \in Words
    <3>1. w[5] \in Byte /\ ReadU16(w, 1) \in Words /\ ReadU16(w, 3) \in Words
      BY <1>1, <1>2, <1>3, <1>4, <2>1
    <3>. QED  BY <3>1, ByteIsWord
  <2>4. /\ IsFrame(f) /\ f.interface_type = i
        /\ f.message_id = ReadU16(w, 1) /\ f.sequence = ReadU16(w, 3)
        /\ f.payload_length = w[5] /\ Len(w) = n + w[5] + 2
        /\ Header(f) = t => WireOf(f) = w
    BY <1>1, <2>2, <2>3, BodyIsCanonical
  <2> HIDE DEF f, t
  <2>5. Header(f) = t
    <3>1. Header(f) = <<w[1], w[2], w[3], w[4], w[5]>>
      BY <1>4, <1>6, <2>1, <2>4 DEF Header
    <3>2. t = <<t[1], t[2], t[3], t[4], t[5]>>
      BY <1>5, <2>1, FiveIs
    <3>. QED  BY <1>5, <2>1, <3>1, <3>2
  <2>6. PayloadLimit(CAN) = 8
    BY DEF PayloadLimit, UART, SPI, CAN, ETHERNET
  <2>7. f.message_id \in Nat
    BY <2>3, <2>4, WordIsNumber
  <2>8. Admits(0 .. 3, f)
    BY <1>1, <1>2, <1>6, <2>2, <2>3, <2>4, <2>6, <2>7 DEF Admits
  <2>9. Len(w) = WireSize(f)
    BY <1>6, <2>2, <2>3, <2>4, <2>6 DEF WireSize
  <2>. QED  BY <2>4, <2>5, <2>8, <2>9
<1>7. ASSUME i # CAN PROVE goal
  <2>1. n = 8
    BY <1>7 DEF HeaderLength
  <2>2. /\ SubSeq(w, 1, 2) = Marker(i) /\ ~(ReadU16(w, 7) > PayloadLimit(i))
        /\ Decode(i, w) = DecodeBody(i, w, ReadU16(w, 3), ReadU16(w, 5), ReadU16(w, 7))
    BY <1>1, <1>7 DEF Decode, Refused
  <2>3. ReadU16(w, 3) \in Words /\ ReadU16(w, 5) \in Words /\ ReadU16(w, 7) \in Words
    BY <1>4, <2>1
  <2>4. /\ IsFrame(f) /\ f.interface_type = i
        /\ f.message_id = ReadU16(w, 3) /\ f.sequence = ReadU16(w, 5)
        /\ f.payload_length = ReadU16(w, 7) /\ Len(w) = n + ReadU16(w, 7) + 2
        /\ Header(f) = t => WireOf(f) = w
    BY <1>1, <2>2, <2>3, BodyIsCanonical
  <2>5. Marker(i) = <<w[1], w[2]>>
    BY <1>1, <2>1, <2>2, FirstTwo
  <2> HIDE DEF f, t
  <2>6. Header(f) = t
    <3>1. Header(f) = <<w[1], w[2], w[3], w[4], w[5], w[6], w[7], w[8]>>
      BY <1>4, <1>7, <2>1, <2>4, <2>5 DEF Header
    <3>2. t = <<t[1], t[2], t[3], t[4], t[5], t[6], t[7], t[8]>>
      BY <1>5, <2>1, EightIs
    <3>. QED  BY <1>5, <2>1, <3>1, <3>2
  <2>7. ReadU16(w, 7) \in Nat
    BY <2>3, WordIsNumber
  <2>8. Admits(0 .. 3, f)
    BY <1>1, <1>2, <1>7, <2>2, <2>4, <2>7 DEF Admits
  <2>9. Len(w) = WireSize(f)
    BY <1>2, <1>7, <2>2, <2>4, <2>7 DEF WireSize
  <2>. QED  BY <2>4, <2>6, <2>8, <2>9
<1>. QED  BY <1>6, <1>7

\* The first byte alone tells the interfaces apart.
LEMMA FirstByte ==
  ASSUME NEW f, IsFrame(f), Admits(0 .. 3, f)
  PROVE  LET i == f.interface_type
             first == WireOf(f)[1]
         IN  /\ i \in {UART, SPI, CAN, ETHERNET}
             /\ i = UART => first = 165
             /\ i = SPI => first = 90
             /\ i = ETHERNET => first = 69
             /\ i = CAN => first \in Byte /\ first <= 7
<1> DEFINE i == f.interface_type
           first == WireOf(f)[1]
<1>1. i \in {UART, SPI, CAN, ETHERNET} /\ HeaderLength(i) \in {5, 8}
  BY DEF Admits, Interfaces, UART, SPI, CAN, ETHERNET, HeaderLength
<1>2. first = Header(f)[1]
  BY <1>1, WireLayout
<1>3. CASE i = CAN
  <2>1. first = High(f.message_id)
    BY <1>2, <1>3 DEF Header
  <2>2. f.message_id \in Words /\ f.message_id \in Nat /\ f.message_id <= 2047
    BY <1>3, WordIsNumber DEF IsFrame, Admits
  <2>3. f.message_id \div 256 <= 7
    BY <2>2
  <2>4. High(f.message_id) \in Byte
    BY <2>2, WordWritten
  <2>. QED  BY <1>1, <1>3, <2>1, <2>3, <2>4 DEF High, UART, SPI, CAN, ETHERNET
<1>4. CASE i # CAN
  <2>1. first = Marker(i)[1]
    BY <1>2, <1>4 DEF Header
  <2>. QED  BY <1>1, <1>4, <2>1 DEF Marker, UART, SPI, CAN, ETHERNET
<1>. QED  BY <1>3, <1>4

\* Different frames never look alike on the wire, whatever their interfaces: no
\* message can be read in two ways (frame.c:66-203).
THEOREM WireDeterminesFrame ==
  ASSUME NEW f, IsFrame(f), Admits(0 .. 3, f),
         NEW g, IsFrame(g), Admits(0 .. 3, g), WireOf(f) = WireOf(g)
  PROVE  f = g
<1>1. f.interface_type = g.interface_type
  BY FirstByte
<1>2. [status |-> "OK", frame |-> f] = [status |-> "OK", frame |-> g]
  BY <1>1, RoundTrip
<1>3. [status |-> "OK", frame |-> f].frame = f /\ [status |-> "OK", frame |-> g].frame = g
  OBVIOUS
<1>. QED  BY <1>2, <1>3

\* What the encoder writes bears a right checksum.
LEMMA WireIsValid ==
  ASSUME NEW f, IsFrame(f), Admits(0 .. 3, f)
  PROVE  Valid(WireOf(f))
<1> DEFINE b == HeaderLength(f.interface_type) + f.payload_length
           w == WireOf(f)
<1>1. /\ w \in Seq(Byte) /\ Len(w) = b + 2
      /\ ReadU16(w, b + 1) = Crc16(SubSeq(w, 1, b))
  BY WireLayout
<1>2. b \in Nat
  BY WordIsNumber DEF IsFrame, HeaderLength
<1> HIDE DEF w, b
<1>3. Len(w) - 1 = b + 1 /\ Len(w) - 2 = b /\ Len(w) >= 2
  BY <1>1, <1>2
<1>4. Valid(w)
  BY <1>1, <1>3 DEF Valid
<1>. QED  BY <1>4 DEF w

\* The encoder writes as many bytes as it reports and as esqh_wire_size foretells,
\* and never more than the buffer it was given holds (frame.c:54-129).
THEOREM MessagesFit ==
  ASSUME NEW f, IsFrame(f), NEW c \in Nat, Encode(f, c).status = "OK"
  PROVE  /\ Encode(f, c).wire \in Seq(Byte)
         /\ Len(Encode(f, c).wire) = WireSize(f) /\ Encode(f, c).written = WireSize(f)
         /\ WireSize(f) <= c
<1>1. Admits(0 .. 3, f) /\ ~(c < WireSize(f)) /\ Encode(f, c).wire = WireOf(f)
  BY EncodeMeans
<1>2. /\ f.interface_type \in Interfaces /\ ~(f.payload_length > PayloadLimit(f.interface_type))
      /\ f.payload_length \in Nat
  <2>1. f.payload_length \in Nat /\ PayloadLimit(f.interface_type) \in Nat
    BY WordIsNumber DEF IsFrame, PayloadLimit
  <2>. QED  BY <1>1, <2>1 DEF Admits
<1>3. WireSize(f) = HeaderLength(f.interface_type) + f.payload_length + 2
      /\ WireSize(f) \in Nat
  BY <1>2 DEF WireSize, HeaderLength
<1>4. WireOf(f) \in Seq(Byte) /\ Len(WireOf(f)) = WireSize(f)
  BY <1>1, <1>3, WireLayout
<1>5. Encode(f, c).written = WireSize(f)
  BY DEF Encode, Refused
<1>. QED  BY <1>1, <1>3, <1>4, <1>5

\* No message begins with another one: a receiver knows from the first bytes
\* where a message ends (frame.c:66-203).
THEOREM MessagesArePrefixFree ==
  ASSUME NEW f, IsFrame(f), Admits(0 .. 3, f),
         NEW g, IsFrame(g), Admits(0 .. 3, g),
         Len(WireOf(f)) <= Len(WireOf(g)),
         \A k \in 1 .. Len(WireOf(f)) : WireOf(f)[k] = WireOf(g)[k]
  PROVE  f = g
<1> DEFINE i == f.interface_type
           n == HeaderLength(i)
           w == WireOf(f)
           v == WireOf(g)
<1>1. n \in {5, 8} /\ f.payload_length \in Nat /\ g.payload_length \in Nat
  BY WordIsNumber DEF IsFrame, HeaderLength
<1>2. /\ w \in Seq(Byte) /\ Len(w) = n + f.payload_length + 2
      /\ \A k \in 1 .. n : w[k] = Header(f)[k]
  BY WireLayout
<1>3. g.interface_type = i
  <2>1. w[1] = v[1]
    BY <1>1, <1>2
  <2>. QED  BY <2>1, FirstByte
<1>4. /\ v \in Seq(Byte) /\ Len(v) = n + g.payload_length + 2
      /\ \A k \in 1 .. n : v[k] = Header(g)[k]
  BY <1>3, WireLayout
<1> HIDE DEF w, v
<1>5. \A k \in 1 .. n : Header(f)[k] = Header(g)[k]
  <2>1. \A k \in 1 .. n : w[k] = v[k]
    BY <1>1, <1>2 DEF w, v
  <2>. QED  BY <1>2, <1>4, <2>1
<1>6. f.payload_length = g.payload_length
  <2>1. CASE i = CAN
    <3>1. Header(f)[5] = f.payload_length /\ Header(g)[5] = g.payload_length
      BY <1>3, <2>1, HeaderFields
    <3>. QED  BY <1>5, <2>1, <3>1 DEF HeaderLength
  <2>2. CASE i # CAN
    <3>1. /\ ReadU16(Header(f), 7) = f.payload_length
          /\ ReadU16(Header(g), 7) = g.payload_length
      BY <1>3, <2>2, HeaderFields
    <3>2. Header(f)[7] = Header(g)[7] /\ Header(f)[8] = Header(g)[8]
      BY <1>5, <2>2 DEF HeaderLength
    <3>. QED  BY <3>1, <3>2 DEF ReadU16
  <2>. QED  BY <2>1, <2>2
<1>7. w = v
  <2>1. Len(w) = Len(v)
    BY <1>2, <1>4, <1>6
  <2>2. \A k \in 1 .. Len(w) : w[k] = v[k]
    BY DEF w, v
  <2>. QED  BY <1>2, <1>4, <2>1, <2>2, SeqEqual
<1>. QED  BY <1>7, WireDeterminesFrame DEF w, v

-------------------------------------------------------------------------------
(* Frames on their way                                                     *)

\* A message with one more wrong bit still consists of bytes, as many as before,
\* and has one one more or less.
LEMMA FlipShows ==
  ASSUME NEW w \in Seq(Byte), NEW p \in 0 .. 8 * Len(w) - 1
  PROVE  /\ FlipBit(w, p) \in Seq(Byte) /\ Len(FlipBit(w, p)) = Len(w)
         /\ Ones(FlipBit(w, p), Len(w)) = Xor(Ones(w, Len(w)), {p})
<1>1. p \div 8 + 1 \in 1 .. Len(w) /\ p % 8 \in 0 .. 7
  OBVIOUS
<1>2. PICK k \in 1 .. Len(w) : k = p \div 8 + 1
  BY <1>1
<1>3. w[k] \in Byte
  BY <1>2
<1> DEFINE bits == Xor(BitsOf(w[k]), {p % 8})
           v == FlipBit(w, p)
<1>4. NumberOf(bits) \in Byte /\ bits \in Registers
  <2>1. bits \subseteq 0 .. 7
    BY <1>1, <1>3, ByteBits DEF Xor
  <2> HIDE DEF bits
  <2>2. NumberOf(bits) \in Byte
    BY <2>1, NumberType, Zenon
  <2>. QED  BY <2>1, <2>2 DEF Registers
<1>5. v = [w EXCEPT ![k] = NumberOf(bits)]
  BY <1>2 DEF FlipBit
<1>6. BitsOf(NumberOf(bits)) = bits
  BY <1>4, BitsOfNumber
<1> HIDE DEF bits, v
<1>7. v \in Seq(Byte) /\ Len(v) = Len(w)
  BY <1>4, <1>5, ExceptSeq
<1>8. v[k] = NumberOf(bits) /\ \A j \in 1 .. Len(w) : j # k => v[j] = w[j]
  BY <1>4, <1>5, ExceptSeq
<1>9. ASSUME NEW q \in 0 .. 8 * Len(w) - 1
      PROVE  q % 8 \in BitsOf(v[q \div 8 + 1])
               <=> IF q = p THEN q % 8 \notin BitsOf(w[q \div 8 + 1])
                            ELSE q % 8 \in BitsOf(w[q \div 8 + 1])
  <2>1. q \div 8 + 1 \in 1 .. Len(w)
    OBVIOUS
  <2>2. q = p <=> q \div 8 + 1 = k /\ q % 8 = p % 8
    BY <1>2
  <2>3. CASE q \div 8 + 1 = k
    <3>1. q % 8 \in BitsOf(v[k])
            <=> \/ q % 8 \in BitsOf(w[k]) /\ q % 8 # p % 8
                \/ q % 8 \notin BitsOf(w[k]) /\ q % 8 = p % 8
      BY <1>6, <1>8 DEF bits, Xor
    <3>. QED  BY <2>2, <2>3, <3>1
  <2>4. CASE q \div 8 + 1 # k
    BY <1>8, <2>1, <2>2, <2>4
  <2>. QED  BY <2>3, <2>4
<1>10. ASSUME NEW q PROVE q \in Ones(v, Len(w)) <=> q \in Xor(Ones(w, Len(w)), {p})
  <2>1. q \in Xor(Ones(w, Len(w)), {p})
          <=> (q \in Ones(w, Len(w)) /\ q # p) \/ (q \notin Ones(w, Len(w)) /\ q = p)
    BY DEF Xor
  <2>. QED  BY <1>9, <2>1 DEF Ones
<1>. QED  BY <1>7, <1>10 DEF v

\* The inductive invariant: what is on the wire comes from the encoder or was
\* damaged, and what the receiver has comes from the decoder.
LinkInvariant ==
  /\ sent \in Frames /\ wire \in Seq(Byte)
  /\ stage \in {"idle", "sent", "done"}
  /\ stage = "idle" =>
       /\ flipped = {} /\ resized = FALSE
       /\ status # "none" => Encode(sent, capacity).status # "OK"
  /\ stage # "idle" => Encode(sent, capacity).status = "OK"
  /\ stage # "idle" /\ ~Damaged => wire = WireOf(sent)
  /\ stage # "done" => status # "OK"
  /\ stage = "done" =>
       /\ status = Decode(port, wire).status
       /\ status = "OK" => destination = Decode(port, wire).frame

\* Nothing has been sent at the start.
LEMMA InitLinkInvariant == Init => LinkInvariant
BY DEF Init, LinkInvariant, Damaged

\* Every step on the way of a message keeps the invariant.
LEMMA NextLinkInvariant == LinkInvariant /\ [Next]_vars => LinkInvariant'
<1> SUFFICES ASSUME LinkInvariant, [Next]_vars PROVE LinkInvariant'
  OBVIOUS
<1>1. IsFrame(sent)
  BY FrameAssumption DEF LinkInvariant
<1>2. CASE Send
  <2> DEFINE result == Encode(sent, capacity)
  <2>1. /\ stage = "idle" /\ status = "none"
        /\ UNCHANGED <<sent, capacity, flipped, resized, port, destination>>
        /\ result.status = "OK" => wire' = result.wire /\ stage' = "sent" /\ UNCHANGED status
        /\ result.status # "OK" => status' = result.status /\ UNCHANGED <<wire, stage>>
    BY <1>2 DEF Send
  <2>2. result.status = "OK" => result.wire = WireOf(sent) /\ Admits(0 .. 3, sent)
    BY <1>1, EncodeMeans
  <2>3. result.status = "OK" => WireOf(sent) \in Seq(Byte)
    BY <1>1, <2>2, WireLayout
  <2> HIDE DEF result
  <2>4. Encode(sent, capacity) = result /\ Encode(sent', capacity') = result
    BY <2>1 DEF result
  <2>. QED  BY <2>1, <2>2, <2>3, <2>4 DEF LinkInvariant, Damaged
<1>3. CASE Flip
  <2>1. PICK p \in 0 .. 8 * Len(wire) - 1 : wire' = FlipBit(wire, p) /\ flipped' # {}
    BY <1>3 DEF Flip
  <2>2. wire' \in Seq(Byte)
    BY <2>1, FlipShows DEF LinkInvariant
  <2>. QED  BY <1>3, <2>1, <2>2 DEF Flip, LinkInvariant, Damaged
<1>4. CASE Cut
  <2>1. wire' \in Seq(Byte)
    <3>1. PICK n \in 0 .. Len(wire) - 1 : wire' = SubSeq(wire, 1, n)
      BY <1>4 DEF Cut
    <3>2. n \in Nat /\ n <= Len(wire) /\ wire \in Seq(Byte)
      BY DEF LinkInvariant
    <3>. QED  BY <3>1, <3>2, Prefix
  <2>. QED  BY <1>4, <2>1 DEF Cut, LinkInvariant, Damaged
<1>5. CASE Lengthen
  <2>1. wire' \in Seq(Byte)
    BY <1>5, FrameAssumption, AppendProperties DEF Lengthen, LinkInvariant
  <2>. QED  BY <1>5, <2>1 DEF Lengthen, LinkInvariant, Damaged
<1>6. CASE Receive
  <2>1. /\ stage = "sent" /\ stage' = "done"
        /\ status' = Decode(port', wire').status
        /\ status' = "OK" => destination' = Decode(port', wire').frame
        /\ UNCHANGED <<sent, wire, capacity, flipped, resized>>
    BY <1>6 DEF Receive
  <2>2. Encode(sent', capacity') = Encode(sent, capacity) /\ WireOf(sent') = WireOf(sent)
    BY <2>1
  <2>. QED  BY <2>1, <2>2 DEF LinkInvariant, Damaged
<1>7. CASE UNCHANGED vars
  BY <1>7 DEF vars, LinkInvariant, Damaged
<1>. QED  BY <1>2, <1>3, <1>4, <1>5, <1>6, <1>7 DEF Next

\* The invariant of the way of a message holds throughout.
LEMMA LinkInvariantHolds == Spec => []LinkInvariant
BY InitLinkInvariant, NextLinkInvariant, PTL DEF Spec

\* What a decoder accepted, from intact or damaged bytes.
LEMMA AcceptedMeans ==
  ASSUME LinkInvariant, stage = "done", status = "OK"
  PROVE  /\ IsFrame(destination) /\ destination.interface_type = port
         /\ Admits(0 .. 3, destination)
         /\ WireOf(destination) = wire /\ Len(wire) = WireSize(destination)
BY DecodeMeans DEF LinkInvariant

\* A frame the encoder accepts arrives, if it is left alone and decoded for its
\* own interface, exactly as it was sent (frame.c:66-203).
THEOREM IntactFramesArrive == Spec => []IntactFrameArrives
<1>1. ASSUME LinkInvariant, stage = "done", ~Damaged, port = sent.interface_type
      PROVE  status = "OK" /\ destination = sent
  <2>1. IsFrame(sent) /\ Admits(0 .. 3, sent)
    BY <1>1, FrameAssumption, EncodeMeans DEF LinkInvariant
  <2>2. Decode(port, wire) = [status |-> "OK", frame |-> sent]
    BY <1>1, <2>1, RoundTrip DEF LinkInvariant
  <2>. QED  BY <1>1, <2>2 DEF LinkInvariant
<1>2. LinkInvariant => IntactFrameArrives
  BY <1>1 DEF IntactFrameArrives
<1>. QED  BY <1>2, LinkInvariantHolds, PTL

\* Whatever bytes the decoder accepts, encoding the decoded frame gives them
\* back (frame.c:66-203).
THEOREM AcceptedMessagesAreCanonical == Spec => []AcceptedIsCanonical
<1>1. ASSUME LinkInvariant, stage = "done", status = "OK"
      PROVE  /\ Encode(destination, Len(wire)).status = "OK"
             /\ Encode(destination, Len(wire)).wire = wire
  <2>1. Len(wire) \in Nat
    BY <1>1 DEF LinkInvariant
  <2>2. ~(Len(wire) < WireSize(destination))
    BY <1>1, <2>1, AcceptedMeans
  <2>. QED  BY <1>1, <2>2, AcceptedMeans, EncodeMeans
<1>2. LinkInvariant => AcceptedIsCanonical
  BY <1>1 DEF AcceptedIsCanonical
<1>. QED  BY <1>2, LinkInvariantHolds, PTL

\* Codec and controller draw the same line: the decoder hands on what a
\* controller with every interface enabled admits, and the encoder takes just
\* that, if it fits (frame.c:76-90, 147-184; controller.c:223-246).
THEOREM CodecAgreesWithController == Spec => []CodecAndControllerAgree
<1>1. ASSUME LinkInvariant PROVE CodecAndControllerAgree
  <2>1. stage = "done" /\ status = "OK" => Admits(0 .. 3, destination)
    BY <1>1, AcceptedMeans
  <2>2. IsFrame(sent)
    BY <1>1, FrameAssumption DEF LinkInvariant
  <2>3. Encode(sent, capacity).status = "OK"
          <=> Admits(0 .. 3, sent) /\ ~(capacity < WireSize(sent))
    BY <2>2, EncodeMeans
  <2>. QED  BY <1>1, <2>1, <2>3 DEF LinkInvariant, CodecAndControllerAgree
<1>. QED  BY <1>1, LinkInvariantHolds, PTL

\* A message taken for a frame of another interface has been damaged, and the
\* checksum missed it: the layouts themselves never overlap (frame.c:151-184).
THEOREM ConfusionNeedsUndetectedDamage ==
  Spec => [](DamageIsDetected => NoInterfaceConfusion)
<1>1. ASSUME LinkInvariant, DamageIsDetected, stage = "done", status = "OK"
      PROVE  port = sent.interface_type
  <2>1. ~Damaged
    BY <1>1 DEF DamageIsDetected
  <2>2. WireOf(destination) = WireOf(sent)
    BY <1>1, <2>1, AcceptedMeans DEF LinkInvariant
  <2>3. IsFrame(sent) /\ Admits(0 .. 3, sent)
    BY <1>1, FrameAssumption, EncodeMeans DEF LinkInvariant
  <2>4. destination = sent
    BY <1>1, <2>2, <2>3, AcceptedMeans, WireDeterminesFrame
  <2>. QED  BY <1>1, <2>4, AcceptedMeans
<1>2. LinkInvariant => (DamageIsDetected => NoInterfaceConfusion)
  BY <1>1 DEF NoInterfaceConfusion
<1>. QED  BY <1>2, LinkInvariantHolds, PTL

-------------------------------------------------------------------------------
(* Damaged messages                                                        *)

\* Of a message cut short or lengthened: what is left, or what it begins with,
\* is the message sent.  Of any other: it has as many bytes, and its bits differ
\* at the positions flipped.
DamageInvariant ==
  /\ status # "OK" => destination = Unwritten
  /\ resized =>
       /\ flipped = {}
       /\ \/ \E n \in Nat : n < Len(WireOf(sent)) /\ wire = SubSeq(WireOf(sent), 1, n)
          \/ \E extra \in Byte : wire = Append(WireOf(sent), extra)
  /\ stage # "idle" /\ ~resized =>
       /\ Len(wire) = Len(WireOf(sent))
       /\ flipped \subseteq 0 .. 8 * Len(wire) - 1
       /\ Ones(wire, Len(wire)) = Xor(Ones(WireOf(sent), Len(wire)), flipped)

\* Nothing is damaged at the start.
LEMMA InitDamageInvariant == Init => DamageInvariant
BY DEF Init, DamageInvariant

\* What is on its way was made from a frame.
LEMMA SentIsFrame ==
  ASSUME LinkInvariant
  PROVE  /\ IsFrame(sent)
         /\ stage # "idle" => Admits(0 .. 3, sent) /\ WireOf(sent) \in Seq(Byte)
<1>1. IsFrame(sent)
  BY FrameAssumption DEF LinkInvariant
<1>2. stage # "idle" => Admits(0 .. 3, sent)
  BY <1>1, EncodeMeans DEF LinkInvariant
<1>. QED  BY <1>1, <1>2, WireLayout

\* Every step keeps the account of the wrong bits.
LEMMA NextDamageInvariant ==
  LinkInvariant /\ LinkInvariant' /\ DamageInvariant /\ [Next]_vars => DamageInvariant'
<1> SUFFICES ASSUME LinkInvariant, LinkInvariant', DamageInvariant, [Next]_vars
             PROVE  DamageInvariant'
  OBVIOUS
<1>1. CASE Send
  <2> DEFINE result == Encode(sent, capacity)
  <2>1. /\ stage = "idle" /\ UNCHANGED <<sent, flipped, resized, destination>>
        /\ flipped = {} /\ resized = FALSE
        /\ stage' # "idle" => result.status = "OK" /\ wire' = result.wire
        /\ destination = Unwritten
    BY <1>1 DEF Send, LinkInvariant, DamageInvariant
  <2>2. stage' # "idle" => wire' = WireOf(sent)
    BY <2>1, SentIsFrame, EncodeMeans
  <2>3. Xor(Ones(WireOf(sent), Len(wire')), {}) = Ones(WireOf(sent), Len(wire'))
    BY DEF Xor
  <2>. QED  BY <2>1, <2>2, <2>3 DEF DamageInvariant
<1>2. CASE Flip
  <2>1. PICK p \in 0 .. 8 * Len(wire) - 1 :
          /\ \A q \in flipped : q < p
          /\ wire' = FlipBit(wire, p) /\ flipped' = flipped \cup {p}
    BY <1>2 DEF Flip
  <2>2. stage = "sent" /\ ~resized /\ UNCHANGED <<stage, sent, resized, status, destination>>
    BY <1>2 DEF Flip
  <2>3. wire \in Seq(Byte) /\ p \notin flipped
    BY <2>1 DEF LinkInvariant
  <2>4. /\ Len(wire') = Len(wire)
        /\ Ones(wire', Len(wire)) = Xor(Ones(wire, Len(wire)), {p})
    BY <2>1, <2>3, FlipShows
  <2>5. Xor(Xor(Ones(WireOf(sent), Len(wire)), flipped), {p})
          = Xor(Ones(WireOf(sent), Len(wire)), flipped \cup {p})
    BY <2>3 DEF Xor
  <2>. QED  BY <2>1, <2>2, <2>4, <2>5 DEF DamageInvariant
<1>3. CASE Cut
  <2>1. /\ stage = "sent" /\ ~resized /\ flipped = {} /\ resized' = TRUE
        /\ UNCHANGED <<stage, sent, flipped, status, destination>>
    BY <1>3 DEF Cut
  <2>2. wire = WireOf(sent) /\ wire \in Seq(Byte)
    BY <2>1 DEF LinkInvariant, Damaged
  <2>3. PICK n \in 0 .. Len(wire) - 1 : wire' = SubSeq(wire, 1, n)
    BY <1>3 DEF Cut
  <2>4. n \in Nat /\ n < Len(WireOf(sent)) /\ wire' = SubSeq(WireOf(sent), 1, n)
    BY <2>2, <2>3
  <2>. QED  BY <2>1, <2>4 DEF DamageInvariant
<1>4. CASE Lengthen
  <2>1. /\ stage = "sent" /\ ~resized /\ flipped = {} /\ resized' = TRUE
        /\ UNCHANGED <<stage, sent, flipped, status, destination>>
    BY <1>4 DEF Lengthen
  <2>2. wire = WireOf(sent)
    BY <2>1 DEF LinkInvariant, Damaged
  <2>3. \E extra \in Byte : wire' = Append(WireOf(sent), extra)
    BY <1>4, <2>2, FrameAssumption DEF Lengthen
  <2>. QED  BY <2>1, <2>3 DEF DamageInvariant
<1>5. CASE Receive
  <2>1. /\ stage = "sent" /\ UNCHANGED <<sent, wire, flipped, resized>>
        /\ status' # "OK" => destination' = destination
    BY <1>5 DEF Receive
  <2>2. destination = Unwritten
    BY <2>1 DEF LinkInvariant, DamageInvariant
  <2>. QED  BY <2>1, <2>2 DEF DamageInvariant
<1>6. CASE UNCHANGED vars
  BY <1>6 DEF vars, DamageInvariant
<1>. QED  BY <1>1, <1>2, <1>3, <1>4, <1>5, <1>6 DEF Next

\* The account of the wrong bits is right throughout.
LEMMA DamageInvariantHolds == Spec => [](LinkInvariant /\ DamageInvariant)
BY InitLinkInvariant, NextLinkInvariant, InitDamageInvariant, NextDamageInvariant, PTL DEF Spec

\* What the receiver has when it took damaged bytes for a message: two messages
\* with right checksums.
LEMMA UndetectedMeans ==
  ASSUME LinkInvariant, stage = "done", status = "OK"
  PROVE  /\ IsFrame(destination) /\ Admits(0 .. 3, destination) /\ WireOf(destination) = wire
         /\ IsFrame(sent) /\ Admits(0 .. 3, sent)
         /\ Valid(wire) /\ Valid(WireOf(sent))
<1>1. IsFrame(sent) /\ Admits(0 .. 3, sent)
  BY SentIsFrame
<1>2. IsFrame(destination) /\ Admits(0 .. 3, destination) /\ WireOf(destination) = wire
  BY AcceptedMeans
<1>3. Valid(WireOf(destination)) /\ Valid(WireOf(sent))
  BY <1>1, <1>2, WireIsValid
<1>. QED  BY <1>1, <1>2, <1>3

\* A message cut short or lengthened is refused, wherever it is cut and whatever
\* is appended (frame.c:147-193).
THEOREM ResizingIsDetected == Spec => [](resized => DamageIsDetected)
<1>1. ASSUME LinkInvariant, DamageInvariant, resized, stage = "done"
      PROVE  status # "OK" /\ destination = Unwritten
  <2>1. ASSUME status = "OK" PROVE FALSE
    <3> DEFINE v == WireOf(sent)
    <3>1. /\ IsFrame(destination) /\ Admits(0 .. 3, destination) /\ WireOf(destination) = wire
          /\ IsFrame(sent) /\ Admits(0 .. 3, sent)
          /\ v \in Seq(Byte) /\ wire \in Seq(Byte)
      BY <1>1, <2>1, UndetectedMeans DEF Valid
    <3> HIDE DEF v
    <3>2. wire # v
      <4>1. Len(wire) # Len(v)
        <5>1. ASSUME NEW n \in Nat, n < Len(v), wire = SubSeq(v, 1, n) PROVE Len(wire) # Len(v)
          BY <3>1, <5>1
        <5>2. ASSUME NEW extra \in Byte, wire = Append(v, extra) PROVE Len(wire) # Len(v)
          BY <3>1, <5>2
        <5>. QED  BY <1>1, <5>1, <5>2 DEF DamageInvariant, v
      <4>. QED  BY <4>1
    <3>3. CASE \E n \in Nat : n < Len(v) /\ wire = SubSeq(v, 1, n)
      <4>1. Len(wire) <= Len(v) /\ \A k \in 1 .. Len(wire) : wire[k] = v[k]
        BY <3>1, <3>3
      <4>. QED  BY <3>1, <3>2, <4>1, MessagesArePrefixFree DEF v
    <3>4. CASE \E extra \in Byte : wire = Append(v, extra)
      <4>1. Len(v) <= Len(wire) /\ \A k \in 1 .. Len(v) : v[k] = wire[k]
        BY <3>1, <3>4
      <4>. QED  BY <3>1, <3>2, <4>1, MessagesArePrefixFree DEF v
    <3>. QED  BY <1>1, <3>3, <3>4 DEF DamageInvariant, v
  <2>. QED  BY <1>1, <2>1 DEF DamageInvariant
<1>2. LinkInvariant /\ DamageInvariant => (resized => DamageIsDetected)
  BY <1>1 DEF DamageIsDetected
<1>. QED  BY <1>2, DamageInvariantHolds, PTL

\* An odd number of wrong bits, however many and wherever they are, is detected:
\* the checksum makes the number of ones even (crc.c).
THEOREM OddDamageIsDetected == Spec => [](Cardinality(flipped) % 2 = 1 => DamageIsDetected)
<1>1. ASSUME LinkInvariant, DamageInvariant, Cardinality(flipped) % 2 = 1, stage = "done",
             status = "OK"
      PROVE  FALSE
  <2>1. PICK w, v : w = wire /\ v = WireOf(sent)
    OBVIOUS
  <2>2. Valid(w) /\ Valid(v)
    BY <1>1, <2>1, UndetectedMeans
  <2>3. ~resized
    <3>1. Cardinality({}) % 2 = 0
      BY FS_EmptySet
    <3>2. Cardinality(flipped) % 2 # 0
      BY <1>1
    <3>3. flipped # {}
      BY <3>1, <3>2, Zenon
    <3>. QED  BY <1>1, <3>3 DEF DamageInvariant
  <2>4. /\ Len(w) = Len(v) /\ flipped \subseteq 0 .. 8 * Len(w) - 1
        /\ Ones(w, Len(w)) = Xor(Ones(v, Len(v)), flipped)
    BY <1>1, <2>1, <2>3 DEF DamageInvariant
  <2>5. IsFiniteSet(flipped)
    <3>1. 0 \in Int /\ 8 * Len(w) - 1 \in Int
      BY <2>2 DEF Valid
    <3>2. IsFiniteSet(0 .. 8 * Len(w) - 1)
      BY <3>1, FS_Interval, Zenon
    <3>. QED  BY <2>4, <3>2, FS_Subset
  <2>6. /\ Cardinality(Ones(w, Len(w))) % 2 = 0
        /\ IsFiniteSet(Ones(v, Len(v))) /\ Cardinality(Ones(v, Len(v))) % 2 = 0
    BY <2>2, ValidIsEven
  <2>7. PICK a \in Nat, b \in Nat : /\ a = Cardinality(Ones(v, Len(v))) /\ b = Cardinality(flipped)
                                    /\ Cardinality(Ones(w, Len(w))) % 2 = (a + b) % 2
    BY <2>4, <2>5, <2>6, XorSize
  <2>8. a % 2 = 0 /\ b % 2 = 1 /\ (a + b) % 2 = 0
    BY <1>1, <2>6, <2>7
  <2>. QED  BY <2>8
<1>2. LinkInvariant /\ DamageInvariant => (Cardinality(flipped) % 2 = 1 => DamageIsDetected)
  BY <1>1 DEF DamageIsDetected, DamageInvariant
<1>. QED  BY <1>2, DamageInvariantHolds, PTL

\* Where no bit is flipped the bytes stay as they were.
LEMMA UntouchedBytes ==
  ASSUME NEW w \in Seq(Byte), NEW v \in Seq(Byte), Len(w) = Len(v), NEW flips,
         Ones(w, Len(w)) = Xor(Ones(v, Len(v)), flips),
         NEW k \in 1 .. Len(w), \A p \in flips : p \div 8 + 1 # k
  PROVE  w[k] = v[k]
<1>1. w[k] \in Byte /\ v[k] \in Byte /\ k \in Nat /\ 1 <= k /\ k <= Len(w)
  OBVIOUS
<1>2. ASSUME NEW b \in 0 .. 7 PROVE b \in BitsOf(w[k]) <=> b \in BitsOf(v[k])
  <2>1. PICK p \in 0 .. 8 * Len(w) - 1 : p = 8 * (k - 1) + b
    BY <1>1
  <2>2. p % 8 = b /\ p \div 8 + 1 = k
    BY <1>1, <2>1
  <2>3. p \notin flips
    BY <2>2
  <2>4. p \in Ones(w, Len(w)) <=> p \in Ones(v, Len(v))
    BY <2>3 DEF Xor
  <2>. QED  BY <2>1, <2>2, <2>4 DEF Ones
<1>3. BitsOf(w[k]) \subseteq 0 .. 7 /\ BitsOf(v[k]) \subseteq 0 .. 7
  BY <1>1, ByteBits
<1>4. BitsOf(w[k]) = BitsOf(v[k])
  BY <1>2, <1>3
<1>. QED  BY <1>1, <1>4, SameByte

\* All wrong bits lie in one byte or in two adjacent ones.
Burst == flipped # {} /\ \E k \in Nat : \A p \in flipped : p \div 8 \in {k, k + 1}

\* A message accepted with wrong bits is not the message sent.
LEMMA WrongBitsDiffer ==
  ASSUME LinkInvariant, DamageInvariant, flipped # {}, stage = "done", status = "OK"
  PROVE  \E w, v : /\ w = wire /\ v = WireOf(sent) /\ w # v
                   /\ Valid(w) /\ Valid(v) /\ Len(w) = Len(v)
                   /\ flipped \subseteq 0 .. 8 * Len(w) - 1
                   /\ Ones(w, Len(w)) = Xor(Ones(v, Len(v)), flipped)
<1>1. PICK w, v : w = wire /\ v = WireOf(sent)
  OBVIOUS
<1>2. Valid(w) /\ Valid(v)
  BY <1>1, UndetectedMeans
<1>3. /\ Len(w) = Len(v) /\ flipped \subseteq 0 .. 8 * Len(w) - 1
      /\ Ones(w, Len(w)) = Xor(Ones(v, Len(v)), flipped)
  BY <1>1 DEF DamageInvariant
<1>4. w # v
  BY <1>3 DEF Xor
<1>. QED  BY <1>1, <1>2, <1>3, <1>4

\* However many bits are wrong, if they lie within two adjacent bytes the damage
\* is detected (crc.c).
THEOREM BurstsAreDetected == Spec => [](Burst => DamageIsDetected)
<1>1. ASSUME LinkInvariant, DamageInvariant, Burst, stage = "done", status = "OK"
      PROVE  FALSE
  <2>1. PICK w, v : /\ w # v /\ Valid(w) /\ Valid(v) /\ Len(w) = Len(v)
                    /\ flipped \subseteq 0 .. 8 * Len(w) - 1
                    /\ Ones(w, Len(w)) = Xor(Ones(v, Len(v)), flipped)
    BY <1>1, WrongBitsDiffer DEF Burst
  <2>2. PICK k \in Nat : \A p \in flipped : p \div 8 \in {k, k + 1}
    BY <1>1 DEF Burst
  <2>3. \A j \in 1 .. Len(w) : j # k + 1 /\ j # k + 2 => w[j] = v[j]
    <3> SUFFICES ASSUME NEW j \in 1 .. Len(w), j # k + 1, j # k + 2 PROVE w[j] = v[j]
      OBVIOUS
    <3>1. \A p \in flipped : p \div 8 + 1 # j
      BY <2>1, <2>2
    <3>. QED  BY <2>1, <3>1, UntouchedBytes DEF Valid
  <2>4. CASE k + 1 \in 1 .. Len(w) - 1
    <3>1. (k + 1) + 1 = k + 2
      BY <2>2
    <3>2. PICK i \in 1 .. Len(w) - 1 : i = k + 1 /\ i + 1 = k + 2
      BY <2>4, <3>1
    <3>3. \A j \in 1 .. Len(w) : j # i /\ j # i + 1 => w[j] = v[j]
      BY <2>3, <3>2
    <3>. QED  BY <2>1, <3>3, TwoBytesShow
  \* The pair may reach beyond the end of the message.
  <2>5. CASE k + 1 \notin 1 .. Len(w) - 1
    <3>1. PICK i \in 1 .. Len(w) - 1 : i = Len(w) - 1 /\ i + 1 = Len(w)
      BY <2>1 DEF Valid
    <3>2. \A j \in 1 .. Len(w) : j # i /\ j # i + 1 => w[j] = v[j]
      BY <2>2, <2>3, <2>5, <3>1
    <3>. QED  BY <2>1, <3>2, TwoBytesShow
  <2>. QED  BY <2>4, <2>5
<1>2. LinkInvariant /\ DamageInvariant => (Burst => DamageIsDetected)
  BY <1>1 DEF DamageIsDetected, DamageInvariant
<1>. QED  BY <1>2, DamageInvariantHolds, PTL

\* A set of two is the set of two that differ.
LEMMA PairOf ==
  ASSUME NEW T, IsFiniteSet(T), Cardinality(T) = 2
  PROVE  \E a, b : a # b /\ T = {a, b}
<1>1. PICK a \in T : TRUE
  BY FS_EmptySet
<1>2. IsFiniteSet(T \ {a}) /\ Cardinality(T \ {a}) = 1
  BY <1>1, FS_RemoveElement
<1>3. PICK b \in T \ {a} : TRUE
  BY <1>2, FS_EmptySet
<1>4. IsFiniteSet((T \ {a}) \ {b}) /\ Cardinality((T \ {a}) \ {b}) = 0
  BY <1>2, <1>3, FS_RemoveElement
<1>5. (T \ {a}) \ {b} = {}
  BY <1>4, FS_EmptySet
<1>6. T = {a, b}
  BY <1>1, <1>3, <1>5
<1>. QED  BY <1>3, <1>6

\* Messages are far shorter than the period.
LEMMA WireIsShort ==
  ASSUME NEW f, IsFrame(f), Admits(0 .. 3, f)
  PROVE  8 * Len(WireOf(f)) < Period
<1>1. Len(WireOf(f)) = HeaderLength(f.interface_type) + f.payload_length + 2
  BY WireLayout
<1>2. f.payload_length \in Nat /\ f.payload_length <= 256
  <2>1. f.payload_length \in Nat
    BY WordIsNumber DEF IsFrame
  <2>. QED  BY <2>1 DEF Admits, PayloadLimit, Interfaces, UART, SPI, CAN, ETHERNET
<1>3. HeaderLength(f.interface_type) \in 5 .. 8
  BY DEF HeaderLength
<1>. QED  BY <1>1, <1>2, <1>3 DEF Period

\* Two wrong bits are detected wherever they are (crc.c).
THEOREM TwoWrongBitsAreDetected == Spec => [](Cardinality(flipped) = 2 => DamageIsDetected)
<1>1. ASSUME LinkInvariant, DamageInvariant, Cardinality(flipped) = 2, stage = "done",
             status = "OK"
      PROVE  FALSE
  <2>1. flipped # {}
    <3>1. Cardinality({}) = 0
      BY FS_EmptySet
    <3>2. Cardinality(flipped) # 0
      BY <1>1
    <3>. QED  BY <3>1, <3>2, Zenon
  <2>2. PICK w, v : /\ w = wire /\ v = WireOf(sent) /\ Valid(w) /\ Valid(v) /\ Len(w) = Len(v)
                    /\ flipped \subseteq 0 .. 8 * Len(w) - 1
                    /\ Ones(w, Len(w)) = Xor(Ones(v, Len(v)), flipped)
    BY <1>1, <2>1, WrongBitsDiffer
  <2>3. IsFiniteSet(flipped)
    <3>1. 0 \in Int /\ 8 * Len(w) - 1 \in Int
      BY <2>2 DEF Valid
    <3>2. IsFiniteSet(0 .. 8 * Len(w) - 1)
      BY <3>1, FS_Interval, Zenon
    <3>. QED  BY <2>2, <3>2, FS_Subset
  <2>4. PICK lo, hi : lo # hi /\ flipped = {lo, hi}
    BY <1>1, <2>3, PairOf
  <2>5. lo \in 0 .. 8 * Len(w) - 1 /\ hi \in 0 .. 8 * Len(w) - 1
    BY <2>2, <2>4
  <2>6. 8 * Len(w) < Period
    BY <1>1, <2>2, UndetectedMeans, WireIsShort
  <2>7. Ones(w, Len(w)) = Xor(Ones(v, Len(v)), {lo, hi})
    BY <2>2, <2>4
  <2>8. Valid(w) /\ Valid(v) /\ Len(w) = Len(v) /\ lo # hi
    BY <2>2, <2>4
  <2>. QED  BY <2>5, <2>6, <2>7, <2>8, TwoBitsShow, Zenon
<1>2. LinkInvariant /\ DamageInvariant => (Cardinality(flipped) = 2 => DamageIsDetected)
  BY <1>1 DEF DamageIsDetected, DamageInvariant
<1>. QED  BY <1>2, DamageInvariantHolds, PTL

\* The line flips no more bits than it may.
FlipsAreFew == IsFiniteSet(flipped) /\ Cardinality(flipped) \in 0 .. MaxFlips

\* There are never more wrong bits than the medium makes.
LEMMA FlipsAreFewHolds == MaxFlips \in Nat => (Spec => []FlipsAreFew)
<1> SUFFICES ASSUME MaxFlips \in Nat PROVE Spec => []FlipsAreFew
  OBVIOUS
<1>1. Init => FlipsAreFew
  BY FS_EmptySet DEF Init, FlipsAreFew
<1>2. FlipsAreFew /\ [Next]_vars => FlipsAreFew'
  <2> SUFFICES ASSUME FlipsAreFew, [Next]_vars PROVE FlipsAreFew'
    OBVIOUS
  <2>1. CASE Flip
    <3>1. PICK p : flipped' = flipped \cup {p} /\ Cardinality(flipped) < MaxFlips
      BY <2>1 DEF Flip
    <3>2. /\ IsFiniteSet(flipped \cup {p})
          /\ Cardinality(flipped \cup {p}) \in {Cardinality(flipped), Cardinality(flipped) + 1}
      BY FS_AddElement DEF FlipsAreFew
    <3>. QED  BY <3>1, <3>2 DEF FlipsAreFew
  <2>2. CASE UNCHANGED flipped
    BY <2>2 DEF FlipsAreFew
  <2>. QED  BY <2>1, <2>2 DEF Next, Send, Cut, Lengthen, Receive, vars
<1>. QED  BY <1>1, <1>2, PTL DEF Spec

\* All damage with at most three wrong bits is detected, and so is every change
\* of the length (frame.c:147-193, crc.c).
THEOREM AllDamageIsDetected == MaxFlips \in 0 .. 3 => (Spec => []DamageIsDetected)
<1> SUFFICES ASSUME MaxFlips \in 0 .. 3 PROVE Spec => []DamageIsDetected
  OBVIOUS
<1>1. ASSUME FlipsAreFew, resized => DamageIsDetected,
             Cardinality(flipped) % 2 = 1 => DamageIsDetected,
             Cardinality(flipped) = 2 => DamageIsDetected
      PROVE  DamageIsDetected
  <2>1. PICK c \in 0 .. 3 : c = Cardinality(flipped)
    BY <1>1 DEF FlipsAreFew
  <2>2. c = 0 => flipped = {}
    BY <1>1, <2>1, FS_EmptySet DEF FlipsAreFew
  <2>3. flipped = {} /\ ~resized => DamageIsDetected
    BY DEF DamageIsDetected, Damaged
  <2>4. c % 2 = 1 => DamageIsDetected
    BY <1>1, <2>1
  <2>5. c = 0 \/ c % 2 = 1 \/ c = 2
    OBVIOUS
  <2>. QED  BY <1>1, <2>1, <2>2, <2>3, <2>4, <2>5, Zenon
<1>2. MaxFlips \in Nat
  OBVIOUS
<1>3. Spec => []FlipsAreFew
  BY <1>2, FlipsAreFewHolds
<1>. QED  BY <1>1, <1>3, ResizingIsDetected, OddDamageIsDetected, TwoWrongBitsAreDetected, PTL

\* With at most three wrong bits, bytes written for one interface are never taken
\* for a frame of another (frame.c:151-184).
THEOREM InterfacesAreNeverConfused == MaxFlips \in 0 .. 3 => (Spec => []NoInterfaceConfusion)
<1> SUFFICES ASSUME MaxFlips \in 0 .. 3 PROVE Spec => []NoInterfaceConfusion
  OBVIOUS
<1>1. Spec => []DamageIsDetected
  BY AllDamageIsDetected
<1>. QED  BY <1>1, ConfusionNeedsUndetectedDamage, PTL
===============================================================================
