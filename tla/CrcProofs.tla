------------------------------ MODULE CrcProofs ------------------------------
(***************************************************************************)
(* The checksum of src/src/crc.c, for messages of every content: how the   *)
(* register develops, that the whole message with its checksum leaves it   *)
(* empty, and which differences between two messages with right checksums  *)
(* cannot occur: any that lies within two adjacent bytes, any odd number   *)
(* of bits, and any two bits of a message shorter than the period of the   *)
(* polynomial.                                                             *)
(***************************************************************************)
EXTENDS FrameCodec, NumberLemmas, SequenceTheorems, TLAPS

-------------------------------------------------------------------------------
(* Bytes and words                                                         *)

\* A set of bits is a word, and a byte if none of the upper bits is in it.
LEMMA NumberType ==
  ASSUME NEW bits
  PROVE  /\ NumberOf(bits) \in Words
         /\ bits \subseteq 0 .. 7 => NumberOf(bits) \in Byte
<1> DEFINE Value(b) == IF b \in bits THEN Weight[b] ELSE 0
           Nibble(b) == Value(b) + Value(b + 1) + Value(b + 2) + Value(b + 3)
<1>1. /\ Nibble(0) \in Int /\ 0 <= Nibble(0) /\ Nibble(0) <= 15
  <2>1. Weight[0] = 1 /\ Weight[1] = 2 /\ Weight[2] = 4 /\ Weight[3] = 8
    BY DEF Weight
  <2>2. Nibble(0) = Value(0) + Value(1) + Value(2) + Value(3)
    OBVIOUS
  <2>. QED  BY <2>1, <2>2
<1>2. /\ Nibble(4) \in Int /\ 0 <= Nibble(4) /\ Nibble(4) <= 240
  <2>1. Weight[4] = 16 /\ Weight[5] = 32 /\ Weight[6] = 64 /\ Weight[7] = 128
    BY DEF Weight
  <2>2. Nibble(4) = Value(4) + Value(5) + Value(6) + Value(7)
    OBVIOUS
  <2>. QED  BY <2>1, <2>2
<1>3. /\ Nibble(8) \in Int /\ 0 <= Nibble(8) /\ Nibble(8) <= 3840
      /\ bits \subseteq 0 .. 7 => Nibble(8) = 0
  <2>1. Weight[8] = 256 /\ Weight[9] = 512 /\ Weight[10] = 1024 /\ Weight[11] = 2048
    BY DEF Weight
  <2>2. Nibble(8) = Value(8) + Value(9) + Value(10) + Value(11)
    OBVIOUS
  <2>. QED  BY <2>1, <2>2
<1>4. /\ Nibble(12) \in Int /\ 0 <= Nibble(12) /\ Nibble(12) <= 61440
      /\ bits \subseteq 0 .. 7 => Nibble(12) = 0
  <2>1. Weight[12] = 4096 /\ Weight[13] = 8192 /\ Weight[14] = 16384 /\ Weight[15] = 32768
    BY DEF Weight
  <2>2. Nibble(12) = Value(12) + Value(13) + Value(14) + Value(15)
    OBVIOUS
  <2>. QED  BY <2>1, <2>2
<1>5. NumberOf(bits) = Nibble(0) + Nibble(4) + Nibble(8) + Nibble(12)
  BY DEF NumberOf
<1> HIDE DEF Nibble
<1>6. /\ NumberOf(bits) \in Int /\ 0 <= NumberOf(bits) /\ NumberOf(bits) <= 65535
      /\ bits \subseteq 0 .. 7 => NumberOf(bits) <= 255
  BY <1>1, <1>2, <1>3, <1>4, <1>5
<1>7. NumberOf(bits) <= UINT16_MAX
  BY <1>6 DEF UINT16_MAX
<1>. QED  BY <1>6, <1>7 DEF Words, Byte

\* The checksum is a word, whatever turns its register takes.
LEMMA CrcType == ASSUME NEW data PROVE Crc16(data) \in Words
BY NumberType DEF Crc16

\* A byte has the bits 0 to 7.
LEMMA ByteBits == ASSUME NEW x \in Byte PROVE BitsOf(x) \subseteq 0 .. 7
<1> SUFFICES ASSUME NEW b \in 8 .. 15 PROVE x \div Weight[b] = 0
  BY DEF BitsOf
<1>1. b \in {8, 9, 10, 11, 12, 13, 14, 15}
  OBVIOUS
<1>. QED  BY <1>1 DEF Weight, Byte

\* A word is a number.
LEMMA WordIsNumber == ASSUME NEW n \in Words PROVE n \in Nat
BY DEF Words, UINT16_MAX

\* A byte is a word.
LEMMA ByteIsWord == ASSUME NEW x \in Byte PROVE x \in Words /\ x \in Nat /\ x <= 255
<1>1. x \in Int /\ 0 <= x /\ x <= 255
  BY DEF Byte
<1>2. x <= UINT16_MAX
  BY <1>1 DEF UINT16_MAX
<1>. QED  BY <1>1, <1>2 DEF Words

\* Writing a word and reading it, and the other way round.
LEMMA WordWritten ==
  ASSUME NEW n \in Words
  PROVE  High(n) \in Byte /\ Low(n) \in Byte /\ High(n) * 256 + Low(n) = n
BY DEF Words, Byte, UINT16_MAX, High, Low

\* Two bytes read as a word give the two bytes back.
LEMMA WordRead ==
  ASSUME NEW a \in Byte, NEW b \in Byte
  PROVE  a * 256 + b \in Words /\ High(a * 256 + b) = a /\ Low(a * 256 + b) = b
<1>1. PICK n \in Int : n = a * 256 + b
  BY DEF Byte
<1>2. n \in Words
  <2>1. a \in Int /\ b \in Int /\ 0 <= a /\ a <= 255 /\ 0 <= b /\ b <= 255
    BY DEF Byte
  <2>2. 0 <= n /\ n <= UINT16_MAX
    BY <1>1, <2>1 DEF UINT16_MAX
  <2>3. n \in Int
    OBVIOUS
  <2>. QED  BY <2>2, <2>3 DEF Words
<1>3. n \div 256 = a /\ n % 256 = b
  BY <1>1 DEF Byte
<1>. QED  BY <1>1, <1>2, <1>3 DEF High, Low

\* The values of the 16-bit register crc, as sets of their one bits.
Registers == SUBSET (0 .. 15)

\* A set of bits is the set of the bits of the number it makes.
LEMMA BitsOfNumber ==
  ASSUME NEW bits \in Registers
  PROVE  BitsOf(NumberOf(bits)) = bits
<1> DEFINE d == [b \in 0 .. 15 |-> IF b \in bits THEN 1 ELSE 0]
           Value(b) == IF b \in bits THEN Weight[b] ELSE 0
           Nibble(b) == Value(b) + Value(b + 1) + Value(b + 2) + Value(b + 3)
           n == NumberOf(bits)
           step == [k \in 1 .. 16 |-> [x \in Nat |-> d[16 - k] + 2 * x]]
<1>1. \A b \in 0 .. 15 : d[b] \in {0, 1} /\ (d[b] = 1 <=> b \in bits)
  OBVIOUS
<1>2. /\ Weight[0] = 1 /\ Weight[1] = 2 /\ Weight[2] = 4 /\ Weight[3] = 8
      /\ Weight[4] = 16 /\ Weight[5] = 32 /\ Weight[6] = 64 /\ Weight[7] = 128
      /\ Weight[8] = 256 /\ Weight[9] = 512 /\ Weight[10] = 1024 /\ Weight[11] = 2048
      /\ Weight[12] = 4096 /\ Weight[13] = 8192 /\ Weight[14] = 16384 /\ Weight[15] = 32768
  BY DEF Weight
<1>3. \A b \in 1 .. 15 : Weight[b] = 2 * Weight[b - 1] /\ Weight[b - 1] \in Nat \ {0}
  BY DEF Weight
<1>4. \A b \in 0 .. 15 : Value(b) = Weight[b] * d[b]
  BY <1>2
<1>5. n = Nibble(0) + Nibble(4) + Nibble(8) + Nibble(12)
  BY DEF NumberOf
<1> HIDE DEF d, Value, n
\* The digits above a place, as a number: h[k] of the k highest digits.
<1>6. PICK h : Iterates(h, Nat, 0, 16, step)
  <2>1. step \in [1 .. 16 -> [Nat -> Nat]] /\ 0 \in Nat /\ 16 \in Nat
    BY <1>1
  <2> HIDE DEF step
  <2>. QED  BY <2>1, RecursionExists, Zenon
<1>7. /\ h \in [0 .. 16 -> Nat] /\ h[0] = 0
      /\ \A k \in 1 .. 16 : h[k] = d[16 - k] + 2 * h[k - 1]
  BY <1>6 DEF Iterates
<1>8. n = h[16]
  <2>1. (\A b \in 0 .. 15 : d[b] \in Int) /\ (\A b \in 0 .. 16 : h[b] \in Int)
    <3>1. \A b \in 0 .. 15 : d[b] = 0 \/ d[b] = 1
      BY <1>1, Zenon
    <3>2. \A b \in 0 .. 15 : d[b] \in Int
      BY <3>1
    <3>3. \A b \in 0 .. 16 : h[b] \in Nat
      BY <1>7
    <3>. QED  BY <3>2, <3>3
  <2>2. /\ h[4] = d[12] + 2 * d[13] + 4 * d[14] + 8 * d[15]
        /\ h[8] = d[8] + 2 * d[9] + 4 * d[10] + 8 * d[11] + 16 * h[4]
        /\ h[12] = d[4] + 2 * d[5] + 4 * d[6] + 8 * d[7] + 16 * h[8]
        /\ h[16] = d[0] + 2 * d[1] + 4 * d[2] + 8 * d[3] + 16 * h[12]
    <3>1. /\ h[1] = d[15] + 2 * h[0] /\ h[2] = d[14] + 2 * h[1]
          /\ h[3] = d[13] + 2 * h[2] /\ h[4] = d[12] + 2 * h[3]
      BY <1>7
    <3>2. /\ h[5] = d[11] + 2 * h[4] /\ h[6] = d[10] + 2 * h[5]
          /\ h[7] = d[9] + 2 * h[6] /\ h[8] = d[8] + 2 * h[7]
      BY <1>7
    <3>3. /\ h[9] = d[7] + 2 * h[8] /\ h[10] = d[6] + 2 * h[9]
          /\ h[11] = d[5] + 2 * h[10] /\ h[12] = d[4] + 2 * h[11]
      BY <1>7
    <3>4. /\ h[13] = d[3] + 2 * h[12] /\ h[14] = d[2] + 2 * h[13]
          /\ h[15] = d[1] + 2 * h[14] /\ h[16] = d[0] + 2 * h[15]
      BY <1>7
    <3>. QED  BY <1>7, <2>1, <3>1, <3>2, <3>3, <3>4
  <2>3. /\ Nibble(0) = d[0] + 2 * d[1] + 4 * d[2] + 8 * d[3]
        /\ Nibble(4) = 16 * (d[4] + 2 * d[5] + 4 * d[6] + 8 * d[7])
        /\ Nibble(8) = 256 * (d[8] + 2 * d[9] + 4 * d[10] + 8 * d[11])
        /\ Nibble(12) = 4096 * (d[12] + 2 * d[13] + 4 * d[14] + 8 * d[15])
    BY <1>1, <1>2, <1>4
  <2> HIDE DEF Nibble
  <2>. QED  BY <1>5, <1>7, <2>1, <2>2, <2>3
<1> DEFINE Split(b) == \E l \in 0 .. Weight[b] - 1 : n = l + Weight[b] * h[16 - b]
           T == {b \in 0 .. 15 : Split(b)}
<1>9. 0 \in T
  BY <1>2, <1>7, <1>8
<1>10. ASSUME NEW b \in 1 .. 15, b - 1 \in T PROVE b \in T
  <2>1. PICK l \in 0 .. Weight[b - 1] - 1 : n = l + Weight[b - 1] * h[16 - (b - 1)]
    BY <1>10
  <2>2. PICK w \in Nat \ {0} : w = Weight[b - 1] /\ Weight[b] = 2 * w
    BY <1>3
  <2>3. h[17 - b] = d[b - 1] + 2 * h[16 - b] /\ h[16 - b] \in Nat /\ d[b - 1] \in {0, 1}
    <3>1. 17 - b \in 1 .. 16 /\ 16 - (17 - b) = b - 1 /\ (17 - b) - 1 = 16 - b
          /\ 16 - b \in 0 .. 16 /\ b - 1 \in 0 .. 15
      OBVIOUS
    <3>. QED  BY <1>1, <1>7, <3>1
  <2>4. PICK g \in Nat, e \in {0, 1} : g = h[16 - b] /\ e = d[b - 1] /\ h[17 - b] = e + 2 * g
    BY <2>3
  <2>5. n = l + w * (e + 2 * g)
    <3>1. 16 - (b - 1) = 17 - b
      OBVIOUS
    <3>. QED  BY <2>1, <2>2, <2>4, <3>1
  <2>6. n = (l + w * e) + (2 * w) * g
    BY <2>1, <2>2, <2>5
  <2>7. l + w * e \in 0 .. 2 * w - 1
    BY <2>1, <2>2
  <2>8. Split(b)
    BY <2>2, <2>4, <2>6, <2>7
  <2>. QED  BY <2>8
<1>11. \A b \in 0 .. 15 : Split(b)
  <2>1. 15 \in Nat
    OBVIOUS
  <2> HIDE DEF T
  <2>2. 0 .. 15 \subseteq T
    BY <1>9, <1>10, <2>1, Induction
  <2>. QED  BY <2>2 DEF T
<1>12. ASSUME NEW b \in 0 .. 15 PROVE (n \div Weight[b]) % 2 = d[b]
  <2>1. PICK l \in 0 .. Weight[b] - 1 : n = l + Weight[b] * h[16 - b]
    BY <1>11
  <2>2. PICK w \in Nat \ {0} : w = Weight[b]
    BY <1>2
  <2>3. PICK g \in Nat, e \in {0, 1} : e = d[b] /\ h[16 - b] = e + 2 * g
    <3>1. 16 - b \in 1 .. 16 /\ 16 - (16 - b) = b /\ (16 - b) - 1 \in 0 .. 16
      OBVIOUS
    <3>2. d[b] \in {0, 1} /\ h[(16 - b) - 1] \in Nat
      BY <1>1, <1>7, <3>1
    <3>3. h[16 - b] = d[16 - (16 - b)] + 2 * h[(16 - b) - 1]
      BY <1>7, <3>1
    <3>. QED  BY <3>1, <3>2, <3>3
  <2>4. n = l + w * (e + 2 * g) /\ l \in 0 .. w - 1
    BY <2>1, <2>2, <2>3
  <2>5. ((l + w * (e + 2 * g)) \div w) % 2 = e
    BY <2>4, DigitAt
  <2>. QED  BY <2>2, <2>3, <2>4, <2>5
<1>. QED  BY <1>1, <1>12 DEF BitsOf, n, Registers

\* A byte is the sum of its bits, so bytes with the same bits are equal.
LEMMA ByteDigits ==
  ASSUME NEW x \in Byte
  PROVE  x = (x % 2) + 2 * ((x \div 2) % 2) + 4 * ((x \div 4) % 2) + 8 * ((x \div 8) % 2)
             + 16 * ((x \div 16) % 2) + 32 * ((x \div 32) % 2) + 64 * ((x \div 64) % 2)
             + 128 * ((x \div 128) % 2)
BY DEF Byte

\* What it means for a bit to be set.
LEMMA BitWeights ==
  ASSUME NEW x \in Nat
  PROVE  /\ BitsOf(x) \in Registers
         /\ \A b \in 0 .. 15 : b \in BitsOf(x) <=> (x \div Weight[b]) % 2 = 1
BY DEF BitsOf, Registers

\* A byte is determined by its bits.
LEMMA SameByte ==
  ASSUME NEW x \in Byte, NEW y \in Byte, BitsOf(x) = BitsOf(y)
  PROVE  x = y
<1>1. x \in Nat /\ y \in Nat
  BY DEF Byte
<1>2. ASSUME NEW b \in 0 .. 7 PROVE (x \div Weight[b]) % 2 = (y \div Weight[b]) % 2
  <2>1. PICK p \in Int, q \in Int : p = x \div Weight[b] /\ q = y \div Weight[b]
    <3>1. PICK w \in Nat \ {0} : w = Weight[b]
      BY DEF Weight
    <3>2. x \in Int /\ y \in Int
      BY <1>1
    <3>3. x \div w \in Int /\ y \div w \in Int
      BY <3>2, ModDivision, Zenon
    <3>. QED  BY <3>1, <3>3
  <2>2. p % 2 = 1 <=> q % 2 = 1
    BY <1>1, <2>1, BitWeights
  <2>. QED  BY <2>1, <2>2
<1>3. /\ Weight[0] = 1 /\ Weight[1] = 2 /\ Weight[2] = 4 /\ Weight[3] = 8
      /\ Weight[4] = 16 /\ Weight[5] = 32 /\ Weight[6] = 64 /\ Weight[7] = 128
  BY DEF Weight
<1>4. /\ x % 2 = y % 2 /\ (x \div 2) % 2 = (y \div 2) % 2
      /\ (x \div 4) % 2 = (y \div 4) % 2 /\ (x \div 8) % 2 = (y \div 8) % 2
      /\ (x \div 16) % 2 = (y \div 16) % 2 /\ (x \div 32) % 2 = (y \div 32) % 2
      /\ (x \div 64) % 2 = (y \div 64) % 2 /\ (x \div 128) % 2 = (y \div 128) % 2
  <2>1. x \div 1 = x /\ y \div 1 = y
    BY <1>1
  <2>. QED  BY <1>2, <1>3, <2>1
<1>. QED  BY <1>4, ByteDigits

\* Two registers with the same bits are equal.
LEMMA SameBits ==
  ASSUME NEW p \in Registers, NEW q \in Registers,
         \A b \in 0 .. 15 : b \in p <=> b \in q
  PROVE  p = q
BY DEF Registers

\* A byte in the high half of the register.
Upper(x) == {b + 8 : b \in BitsOf(x)}

\* Two bytes as the bits of one word.
LEMMA WordBits ==
  ASSUME NEW x \in Byte, NEW y \in Byte
  PROVE  BitsOf(x * 256 + y) = Upper(x) \cup BitsOf(y)
<1>1. PICK n \in Nat : n = x * 256 + y
  BY DEF Byte
<1>2. x \in Nat /\ y \in Nat /\ x < 256 /\ y < 256
  BY DEF Byte
<1>3. BitsOf(x) \subseteq 0 .. 7 /\ BitsOf(y) \subseteq 0 .. 7
  BY ByteBits
<1>4. /\ Weight[0] = 1 /\ Weight[1] = 2 /\ Weight[2] = 4 /\ Weight[3] = 8
      /\ Weight[4] = 16 /\ Weight[5] = 32 /\ Weight[6] = 64 /\ Weight[7] = 128
      /\ Weight[8] = 256 /\ Weight[9] = 512 /\ Weight[10] = 1024 /\ Weight[11] = 2048
      /\ Weight[12] = 4096 /\ Weight[13] = 8192 /\ Weight[14] = 16384 /\ Weight[15] = 32768
  BY DEF Weight
<1>5. ASSUME NEW b \in 0 .. 7
      PROVE  /\ (n \div Weight[b]) % 2 = (y \div Weight[b]) % 2
             /\ n \div Weight[b + 8] = x \div Weight[b]
  <2>1. /\ (n \div 1) % 2 = (y \div 1) % 2 /\ (n \div 2) % 2 = (y \div 2) % 2
        /\ (n \div 4) % 2 = (y \div 4) % 2 /\ (n \div 8) % 2 = (y \div 8) % 2
    BY <1>1, <1>2
  <2>2. /\ (n \div 16) % 2 = (y \div 16) % 2 /\ (n \div 32) % 2 = (y \div 32) % 2
        /\ (n \div 64) % 2 = (y \div 64) % 2 /\ (n \div 128) % 2 = (y \div 128) % 2
    BY <1>1, <1>2
  <2>3. /\ n \div 256 = x \div 1 /\ n \div 512 = x \div 2
        /\ n \div 1024 = x \div 4 /\ n \div 2048 = x \div 8
    BY <1>1, <1>2
  <2>4. /\ n \div 4096 = x \div 16 /\ n \div 8192 = x \div 32
        /\ n \div 16384 = x \div 64 /\ n \div 32768 = x \div 128
    BY <1>1, <1>2
  <2>5. b \in {0, 1, 2, 3, 4, 5, 6, 7}
    OBVIOUS
  <2>. QED  BY <1>4, <2>1, <2>2, <2>3, <2>4, <2>5
<1>6. ASSUME NEW b \in 0 .. 7 PROVE b \in BitsOf(n) <=> b \in BitsOf(y)
  BY <1>2, <1>5, BitWeights
<1>7. ASSUME NEW b \in 0 .. 7 PROVE b + 8 \in BitsOf(n) <=> b \in BitsOf(x)
  BY <1>2, <1>5, BitWeights
<1>8. \A b \in 0 .. 15 : b \in 0 .. 7 \/ (b - 8 \in 0 .. 7 /\ (b - 8) + 8 = b)
  OBVIOUS
<1>9. ASSUME NEW b \in 0 .. 15 PROVE b \in BitsOf(n) <=> b \in Upper(x) \cup BitsOf(y)
  <2>1. CASE b \in 0 .. 7
    <3>1. b \notin Upper(x)
      BY <1>3, <2>1 DEF Upper
    <3>. QED  BY <1>6, <2>1, <3>1
  <2>2. CASE b \notin 0 .. 7
    <3>1. b \in Upper(x) <=> b - 8 \in BitsOf(x)
      BY <1>3, <1>8, <2>2 DEF Upper
    <3>. QED  BY <1>3, <1>7, <1>8, <2>2, <3>1
  <2>. QED  BY <2>1, <2>2
<1>10. BitsOf(n) \in Registers /\ Upper(x) \cup BitsOf(y) \in Registers
  <2>1. \A b \in BitsOf(x) : b + 8 \in 0 .. 15
    BY <1>3
  <2>2. Upper(x) \subseteq 0 .. 15
    BY <2>1 DEF Upper
  <2>. QED  BY <1>2, <2>2, BitWeights DEF Registers
<1>. QED  BY <1>1, <1>9, <1>10, SameBits

-------------------------------------------------------------------------------
(* The register of the checksum (crc.c:13-19)                              *)

\* The exclusive or of two registers is a register.
LEMMA XorType == ASSUME NEW p \in Registers, NEW q \in Registers PROVE Xor(p, q) \in Registers
BY DEF Xor, Registers

\* A bit is in the exclusive or when it is in just one of the two.
LEMMA XorBits ==
  ASSUME NEW p, NEW q, NEW b
  PROVE  b \in Xor(p, q) <=> (b \in p /\ b \notin q) \/ (b \notin p /\ b \in q)
BY DEF Xor

\* A shift gives a register.
LEMMA ShiftType == ASSUME NEW crc \in Registers PROVE ShiftCrc(crc) \in Registers
<1> DEFINE up == {b + 1 : b \in crc \ {15}}
<1>1. \A b \in crc \ {15} : b + 1 \in 0 .. 15
  BY DEF Registers
<1>2. up \subseteq 0 .. 15
  BY <1>1
<1>3. {12, 5, 0} \subseteq 0 .. 15
  OBVIOUS
<1> HIDE DEF up
<1>4. up \in Registers /\ Xor(up, {12, 5, 0}) \in Registers
  BY <1>2, <1>3, XorType DEF Registers
<1>. QED  BY <1>4 DEF ShiftCrc, up

\* How a shift acts on single bits.
LEMMA ShiftBits ==
  ASSUME NEW crc \in Registers, NEW b \in 0 .. 15
  PROVE  b \in ShiftCrc(crc)
           <=> IF 15 \in crc /\ b \in {12, 5, 0} THEN b - 1 \notin crc ELSE b - 1 \in crc
<1> DEFINE up == {a + 1 : a \in crc \ {15}}
<1>1. b \in up <=> b - 1 \in crc
  <2>1. ASSUME b \in up PROVE b - 1 \in crc
    <3>1. PICK a \in crc \ {15} : b = a + 1
      BY <2>1
    <3>. QED  BY <3>1 DEF Registers
  <2>2. ASSUME b - 1 \in crc PROVE b \in up
    <3>1. b - 1 \in crc \ {15} /\ b = (b - 1) + 1
      BY <2>2
    <3>. QED  BY <3>1
  <2>. QED  BY <2>1, <2>2
<1> HIDE DEF up
<1>2. b \in Xor(up, {12, 5, 0}) <=> IF b \in {12, 5, 0} THEN b \notin up ELSE b \in up
  BY DEF Xor
<1>3. ShiftCrc(crc) = IF 15 \in crc THEN Xor(up, {12, 5, 0}) ELSE up
  BY DEF ShiftCrc, up
<1>. QED  BY <1>1, <1>2, <1>3

\* A shift is linear: the difference of two shifted registers is their shifted
\* difference.
LEMMA ShiftLinear ==
  ASSUME NEW p \in Registers, NEW q \in Registers
  PROVE  ShiftCrc(Xor(p, q)) = Xor(ShiftCrc(p), ShiftCrc(q))
<1>1. /\ Xor(p, q) \in Registers /\ ShiftCrc(Xor(p, q)) \in Registers
      /\ Xor(ShiftCrc(p), ShiftCrc(q)) \in Registers
  BY XorType, ShiftType
<1>2. ASSUME NEW b \in 0 .. 15
      PROVE  b \in ShiftCrc(Xor(p, q)) <=> b \in Xor(ShiftCrc(p), ShiftCrc(q))
  <2>1. /\ b \in ShiftCrc(Xor(p, q))
             <=> IF 15 \in Xor(p, q) /\ b \in {12, 5, 0}
                 THEN b - 1 \notin Xor(p, q) ELSE b - 1 \in Xor(p, q)
        /\ b \in ShiftCrc(p)
             <=> IF 15 \in p /\ b \in {12, 5, 0} THEN b - 1 \notin p ELSE b - 1 \in p
        /\ b \in ShiftCrc(q)
             <=> IF 15 \in q /\ b \in {12, 5, 0} THEN b - 1 \notin q ELSE b - 1 \in q
    BY <1>1, ShiftBits
  <2>2. \A a : a \in Xor(p, q) <=> (a \in p /\ a \notin q) \/ (a \notin p /\ a \in q)
    BY XorBits
  <2>3. b \in Xor(ShiftCrc(p), ShiftCrc(q))
          <=> \/ b \in ShiftCrc(p) /\ b \notin ShiftCrc(q)
              \/ b \notin ShiftCrc(p) /\ b \in ShiftCrc(q)
    BY XorBits
  <2>. QED  BY <2>1, <2>2, <2>3
<1>. QED  BY <1>1, <1>2, SameBits

\* A shift loses nothing: a bit that falls out at the top shows in bit 0,
LEMMA ShiftLow ==
  ASSUME NEW crc \in Registers
  PROVE  0 \in ShiftCrc(crc) <=> 15 \in crc
<1>1. 0 - 1 \notin crc
  BY DEF Registers
<1>. QED  BY <1>1, ShiftBits

\* and if none does, the bits just move up.
LEMMA ShiftUp ==
  ASSUME NEW crc \in Registers, 15 \notin crc
  PROVE  ShiftCrc(crc) = {b + 1 : b \in crc}
BY DEF ShiftCrc

\* Bits that are in a span after a shift were in the span one below it.
LEMMA ShiftedDown ==
  ASSUME NEW crc \in Registers, NEW m \in Nat, NEW n \in Nat,
         ShiftCrc(crc) \subseteq m + 1 .. n + 1
  PROVE  crc \subseteq m .. n
<1>1. 15 \notin crc
  BY ShiftLow
<1>2. ShiftCrc(crc) = {b + 1 : b \in crc}
  BY <1>1, ShiftUp
<1>3. \A b \in crc : b \in Int /\ b + 1 \in m + 1 .. n + 1
  BY <1>2 DEF Registers
<1>. QED  BY <1>3

\* The eight turns of the inner loop.
LEMMA ShiftEightIs ==
  ASSUME NEW c \in Registers
  PROVE  \E c1, c2, c3, c4, c5, c6, c7 \in Registers :
           /\ c1 = ShiftCrc(c) /\ c2 = ShiftCrc(c1) /\ c3 = ShiftCrc(c2)
           /\ c4 = ShiftCrc(c3) /\ c5 = ShiftCrc(c4) /\ c6 = ShiftCrc(c5)
           /\ c7 = ShiftCrc(c6) /\ ShiftEight(c) = ShiftCrc(c7) /\ ShiftEight(c) \in Registers
<1>1. /\ ShiftCrc(c) \in Registers
  BY ShiftType
<1>2. PICK c1 \in Registers : c1 = ShiftCrc(c)
  BY ShiftType
<1>3. PICK c2 \in Registers : c2 = ShiftCrc(c1)
  BY ShiftType
<1>4. PICK c3 \in Registers : c3 = ShiftCrc(c2)
  BY ShiftType
<1>5. PICK c4 \in Registers : c4 = ShiftCrc(c3)
  BY ShiftType
<1>6. PICK c5 \in Registers : c5 = ShiftCrc(c4)
  BY ShiftType
<1>7. PICK c6 \in Registers : c6 = ShiftCrc(c5)
  BY ShiftType
<1>8. PICK c7 \in Registers : c7 = ShiftCrc(c6)
  BY ShiftType
<1>9. ShiftEight(c) = ShiftCrc(c7) /\ ShiftEight(c) \in Registers
  BY <1>2, <1>3, <1>4, <1>5, <1>6, <1>7, <1>8, ShiftType DEF ShiftEight
<1>. QED  BY <1>2, <1>3, <1>4, <1>5, <1>6, <1>7, <1>8, <1>9

\* A register within its lower half moves to the upper half and loses nothing.
LEMMA ShiftEightUp ==
  ASSUME NEW c \in Registers, c \subseteq 0 .. 7
  PROVE  ShiftEight(c) = {b + 8 : b \in c}
<1> DEFINE Up(t) == {b + t : b \in c}
<1>1. ASSUME NEW t \in 0 .. 7, Up(t) \in Registers PROVE ShiftCrc(Up(t)) = Up(t + 1)
  <2>1. \A b \in c : b \in 0 .. 7
    OBVIOUS
  <2>2. \A b \in c : b + t # 15 /\ (b + t) + 1 = b + (t + 1)
    BY <2>1
  <2>3. ShiftCrc(Up(t)) = {a + 1 : a \in Up(t)}
    BY <1>1, <2>2, ShiftUp
  <2>4. ASSUME NEW x \in ShiftCrc(Up(t)) PROVE x \in Up(t + 1)
    <3>1. PICK b \in c : x = (b + t) + 1
      BY <2>3
    <3>. QED  BY <2>2, <3>1
  <2>5. ASSUME NEW x \in Up(t + 1) PROVE x \in ShiftCrc(Up(t))
    <3>1. PICK b \in c : x = b + (t + 1)
      OBVIOUS
    <3>2. b + t \in Up(t) /\ x = (b + t) + 1
      BY <2>2, <3>1
    <3>. QED  BY <2>3, <3>2
  <2>. QED  BY <2>4, <2>5
<1>2. c = Up(0)
  <2>1. \A b \in c : b + 0 = b
    OBVIOUS
  <2>. QED  BY <2>1
<1>3. PICK c1, c2, c3, c4, c5, c6, c7 \in Registers :
           /\ c1 = ShiftCrc(c) /\ c2 = ShiftCrc(c1) /\ c3 = ShiftCrc(c2)
           /\ c4 = ShiftCrc(c3) /\ c5 = ShiftCrc(c4) /\ c6 = ShiftCrc(c5)
           /\ c7 = ShiftCrc(c6) /\ ShiftEight(c) = ShiftCrc(c7)
  BY ShiftEightIs
<1> HIDE DEF Up
<1>4. c1 = Up(1) /\ c2 = Up(2) /\ c3 = Up(3)
  BY <1>1, <1>2, <1>3
<1>5. c4 = Up(4) /\ c5 = Up(5) /\ c6 = Up(6)
  BY <1>1, <1>3, <1>4
<1>6. ShiftEight(c) = Up(8)
  BY <1>1, <1>3, <1>5
<1>. QED  BY <1>6 DEF Up

\* Nothing stays nothing.
LEMMA ShiftEightNone == ShiftEight({}) = {}
<1>1. {} \in Registers /\ {} \subseteq 0 .. 7
  BY DEF Registers
<1>2. ShiftEight({}) = {b + 8 : b \in {}}
  BY <1>1, ShiftEightUp
<1>. QED  BY <1>2

\* Eight shifts keep a difference a difference.
LEMMA ShiftEightLinear ==
  ASSUME NEW p \in Registers, NEW q \in Registers
  PROVE  ShiftEight(Xor(p, q)) = Xor(ShiftEight(p), ShiftEight(q))
<1> DEFINE Twice(c) == ShiftCrc(ShiftCrc(c))
<1>1. ASSUME NEW c \in Registers, NEW d \in Registers
      PROVE  /\ Twice(c) \in Registers
             /\ Twice(Xor(c, d)) = Xor(Twice(c), Twice(d))
  BY ShiftType, ShiftLinear
<1>2. \A c : ShiftEight(c) = Twice(Twice(Twice(Twice(c))))
  BY DEF ShiftEight
<1> HIDE DEF Twice
<1>3. ASSUME NEW c \in Registers, NEW d \in Registers
      PROVE  /\ Twice(Twice(c)) \in Registers
             /\ Twice(Twice(Xor(c, d))) = Xor(Twice(Twice(c)), Twice(Twice(d)))
  BY <1>1
<1>. QED  BY <1>2, <1>3

\* A difference that is in the upper half before and after eight shifts is none.
LEMMA ShiftEightSpreads ==
  ASSUME NEW c \in Registers, c \subseteq 8 .. 15, ShiftEight(c) \subseteq 8 .. 15
  PROVE  c = {}
<1>1. PICK c1, c2, c3, c4, c5, c6, c7 \in Registers :
           /\ c1 = ShiftCrc(c) /\ c2 = ShiftCrc(c1) /\ c3 = ShiftCrc(c2)
           /\ c4 = ShiftCrc(c3) /\ c5 = ShiftCrc(c4) /\ c6 = ShiftCrc(c5)
           /\ c7 = ShiftCrc(c6) /\ ShiftEight(c) = ShiftCrc(c7)
  BY ShiftEightIs
<1>2. ASSUME NEW e \in Registers, NEW m \in 0 .. 7, NEW n \in Nat, n = m + 7,
             ShiftCrc(e) \subseteq m + 1 .. n + 1
      PROVE  e \subseteq m .. n
  <2>1. ShiftCrc(e) \subseteq m + 1 .. n + 1 /\ m \in Nat
    BY <1>2
  <2>. QED  BY <2>1, ShiftedDown, Zenon
<1>3. c7 \subseteq 7 .. 14
  BY <1>1, <1>2
<1>4. c6 \subseteq 6 .. 13
  BY <1>1, <1>2, <1>3
<1>5. c5 \subseteq 5 .. 12
  BY <1>1, <1>2, <1>4
<1>6. c4 \subseteq 4 .. 11
  BY <1>1, <1>2, <1>5
<1>7. c3 \subseteq 3 .. 10
  BY <1>1, <1>2, <1>6
<1>8. c2 \subseteq 2 .. 9
  BY <1>1, <1>2, <1>7
<1>9. c1 \subseteq 1 .. 8
  BY <1>1, <1>2, <1>8
<1>10. c \subseteq 0 .. 7
  BY <1>1, <1>2, <1>9
<1>. QED  BY <1>10

\* Eight shifts lose no difference.
LEMMA ShiftEightKeeps ==
  ASSUME NEW c \in Registers, ShiftEight(c) = {}
  PROVE  c = {}
<1>1. ASSUME NEW e \in Registers, ShiftCrc(e) = {} PROVE e = {}
  <2>1. 1 \in Nat /\ 0 \in Nat /\ ShiftCrc(e) \subseteq 1 + 1 .. 0 + 1
    BY <1>1
  <2>2. e \subseteq 1 .. 0
    BY <2>1, ShiftedDown, Zenon
  <2>. QED  BY <2>2
<1>2. PICK c1, c2, c3, c4, c5, c6, c7 \in Registers :
           /\ c1 = ShiftCrc(c) /\ c2 = ShiftCrc(c1) /\ c3 = ShiftCrc(c2)
           /\ c4 = ShiftCrc(c3) /\ c5 = ShiftCrc(c4) /\ c6 = ShiftCrc(c5)
           /\ c7 = ShiftCrc(c6) /\ ShiftEight(c) = ShiftCrc(c7)
  BY ShiftEightIs
<1>. QED  BY <1>1, <1>2

\* Equal registers, and only they, cancel.
LEMMA XorSame ==
  ASSUME NEW p \in Registers, NEW q \in Registers
  PROVE  /\ Xor(p, q) = {} <=> p = q
         /\ Xor(p, p) = {} /\ Xor({}, p) = p
BY DEF Xor, Registers

\* The difference of two sums is the sum of the differences.
LEMMA XorSwap ==
  ASSUME NEW p \in Registers, NEW q \in Registers, NEW s \in Registers, NEW t \in Registers
  PROVE  Xor(Xor(p, s), Xor(q, t)) = Xor(Xor(p, q), Xor(s, t))
<1>1. /\ Xor(Xor(p, s), Xor(q, t)) \in Registers
      /\ Xor(Xor(p, q), Xor(s, t)) \in Registers
  BY XorType
<1>2. ASSUME NEW b \in 0 .. 15
      PROVE  b \in Xor(Xor(p, s), Xor(q, t)) <=> b \in Xor(Xor(p, q), Xor(s, t))
  <2>1. b \in Xor(p, s) <=> (b \in p /\ b \notin s) \/ (b \notin p /\ b \in s)
    BY XorBits
  <2>2. b \in Xor(q, t) <=> (b \in q /\ b \notin t) \/ (b \notin q /\ b \in t)
    BY XorBits
  <2>3. b \in Xor(p, q) <=> (b \in p /\ b \notin q) \/ (b \notin p /\ b \in q)
    BY XorBits
  <2>4. b \in Xor(s, t) <=> (b \in s /\ b \notin t) \/ (b \notin s /\ b \in t)
    BY XorBits
  <2>5. b \in Xor(Xor(p, s), Xor(q, t)) <=> ((b \in Xor(p, s) /\ b \notin Xor(q, t))
          \/ (b \notin Xor(p, s) /\ b \in Xor(q, t)))
    BY XorBits
  <2>6. b \in Xor(Xor(p, q), Xor(s, t)) <=> ((b \in Xor(p, q) /\ b \notin Xor(s, t))
          \/ (b \notin Xor(p, q) /\ b \in Xor(s, t)))
    BY XorBits
  <2>. QED  BY <2>1, <2>2, <2>3, <2>4, <2>5, <2>6
<1>. QED  BY <1>1, <1>2, SameBits

-------------------------------------------------------------------------------
(* The loop over the bytes (crc.c:11-20)                                   *)

\* One turn of the outer loop.
LEMMA FeedIs ==
  ASSUME NEW crc \in Registers, NEW byte \in Byte
  PROVE  /\ Upper(byte) \in Registers /\ Upper(byte) \subseteq 8 .. 15
         /\ FeedCrc(crc, byte) = ShiftEight(Xor(crc, Upper(byte)))
         /\ FeedCrc(crc, byte) \in Registers
<1>1. \A b \in BitsOf(byte) : b + 8 \in 8 .. 15 /\ b + 8 \in 0 .. 15
  BY ByteBits
<1>2. Upper(byte) \in Registers /\ Upper(byte) \subseteq 8 .. 15
  BY <1>1 DEF Upper, Registers
<1>3. FeedCrc(crc, byte) = ShiftEight(Xor(crc, Upper(byte)))
  BY DEF FeedCrc, Upper
<1>. QED  BY <1>2, <1>3, XorType, ShiftEightIs

\* r holds the register before the first byte and after every byte.
Run(data, r) ==
  /\ r \in [0 .. Len(data) -> Registers] /\ r[0] = 0 .. 15
  /\ \A k \in 1 .. Len(data) : r[k] = FeedCrc(r[k - 1], data[k])

\* Every message has a run.
LEMMA RunExists == ASSUME NEW data \in Seq(Byte) PROVE \E r : Run(data, r)
<1> DEFINE step == [k \in 1 .. Len(data) |-> [crc \in Registers |-> FeedCrc(crc, data[k])]]
<1>1. step \in [1 .. Len(data) -> [Registers -> Registers]]
  BY FeedIs
<1>2. 0 .. 15 \in Registers /\ Len(data) \in Nat
  BY DEF Registers
<1>3. PICK r : Iterates(r, Registers, 0 .. 15, Len(data), step)
  <2> HIDE DEF step
  <2>. QED  BY <1>1, <1>2, RecursionExists, Zenon
<1>4. ASSUME NEW k \in 1 .. Len(data) PROVE r[k] = FeedCrc(r[k - 1], data[k])
  <2>1. k - 1 \in 0 .. Len(data)
    BY <1>2
  <2>2. r[k - 1] \in Registers /\ r[k] = step[k][r[k - 1]]
    BY <1>3, <2>1 DEF Iterates
  <2>. QED  BY <2>2
<1>. QED  BY <1>3, <1>4 DEF Run, Iterates

\* The recursion in CrcBits and what it computes.
Entry(data, f, n, at, crc) ==
  IF n = 0 THEN crc
  ELSE IF n = 1 THEN FeedCrc(crc, data[at + 1])
  ELSE f[n - n \div 2][at + n \div 2][f[n \div 2][at][crc]]
Spans(data, n, f) ==
  [at \in 0 .. Len(data) - n |-> [crc \in Registers |-> Entry(data, f, n, at, crc)]]
SpanSet(data, n) == [0 .. Len(data) - n -> [Registers -> Registers]]

\* Half a span and the rest of it are shorter than it.
LEMMA Halves ==
  ASSUME NEW n \in Nat, n > 1
  PROVE  n \div 2 \in 1 .. n - 1 /\ n - n \div 2 \in 1 .. n - 1
OBVIOUS

\* An entry looks only at shorter spans.
LEMMA EntryType ==
  ASSUME NEW data \in Seq(Byte), NEW n \in 0 .. Len(data), NEW f,
         \A m \in 0 .. n - 1 : f[m] \in SpanSet(data, m)
  PROVE  Spans(data, n, f) \in SpanSet(data, n)
<1> SUFFICES ASSUME NEW at \in 0 .. Len(data) - n, NEW crc \in Registers
             PROVE  Entry(data, f, n, at, crc) \in Registers
  BY DEF Spans, SpanSet
<1>1. CASE n = 0
  BY <1>1 DEF Entry
<1>2. CASE n = 1
  <2>1. data[at + 1] \in Byte
    BY <1>2
  <2>. QED  BY <1>2, <2>1, FeedIs DEF Entry
<1>3. CASE n > 1
  <2>1. PICK h \in 1 .. n - 1, g \in 1 .. n - 1 : h = n \div 2 /\ g = n - n \div 2 /\ h + g = n
    BY <1>3, Halves
  <2>2. f[h] \in SpanSet(data, h) /\ f[g] \in SpanSet(data, g)
    BY <2>1
  <2>3. at \in 0 .. Len(data) - h /\ at + h \in 0 .. Len(data) - g
    BY <2>1
  <2>4. f[h][at] \in [Registers -> Registers] /\ f[g][at + h] \in [Registers -> Registers]
    BY <2>2, <2>3 DEF SpanSet
  <2>5. f[g][at + h][f[h][at][crc]] \in Registers
    BY <2>4
  <2>6. Entry(data, f, n, at, crc) = f[g][at + h][f[h][at][crc]]
    BY <1>3, <2>1 DEF Entry
  <2>. QED  BY <2>5, <2>6
<1>. QED  BY <1>1, <1>2, <1>3

\* So two functions that agree on shorter spans agree on this one,
LEMMA EntryLocal ==
  ASSUME NEW data \in Seq(Byte), NEW n \in 0 .. Len(data), NEW f, NEW g,
         \A m \in 0 .. n - 1 : f[m] = g[m]
  PROVE  Spans(data, n, f) = Spans(data, n, g)
<1> SUFFICES ASSUME NEW at, NEW crc
             PROVE  Entry(data, f, n, at, crc) = Entry(data, g, n, at, crc)
  BY DEF Spans
<1>1. CASE n <= 1
  BY <1>1 DEF Entry
<1>2. CASE n > 1
  <2>1. n \div 2 \in 0 .. n - 1 /\ n - n \div 2 \in 0 .. n - 1
    BY <1>2, Halves
  <2>. QED  BY <2>1 DEF Entry
<1>. QED  BY <1>1, <1>2

\* and a function that satisfies the recursion exists.
LEMMA SpansExist ==
  ASSUME NEW data \in Seq(Byte)
  PROVE  \E f : f = [n \in 0 .. Len(data) |-> Spans(data, n, f)]
<1> DEFINE end == Len(data)
           Good(m, f) == \A n \in 0 .. m : f[n] = Spans(data, n, f) /\ f[n] \in SpanSet(data, n)
           T == {m \in 0 .. end : \E f : Good(m, f)}
<1>1. 0 \in T
  <2> DEFINE f == [n \in {0} |-> Spans(data, 0, <<>>)]
  <2> HIDE DEF f
  <2>0. 0 \in 0 .. end /\ \A m \in 0 .. 0 - 1 : FALSE
    OBVIOUS
  <2>1. Spans(data, 0, f) = Spans(data, 0, <<>>) /\ Spans(data, 0, f) \in SpanSet(data, 0)
    BY <2>0, EntryLocal, EntryType
  <2> USE DEF f
  <2>2. Good(0, f)
    BY <2>1
  <2>. QED  BY <2>2
<1>2. ASSUME NEW m \in 1 .. end, m - 1 \in T PROVE m \in T
  <2>1. PICK f : Good(m - 1, f)
    BY <1>2
  <2> DEFINE g == [n \in 0 .. m |-> IF n = m THEN Spans(data, m, f) ELSE f[n]]
  <2>2. \A n \in 0 .. m - 1 : n \in 0 .. m /\ n # m /\ g[n] = f[n]
    OBVIOUS
  <2>3. ASSUME NEW n \in 0 .. m PROVE Spans(data, n, g) = Spans(data, n, f)
    <3>1. \A k \in 0 .. n - 1 : g[k] = f[k]
      BY <2>2
    <3>2. n \in 0 .. end
      OBVIOUS
    <3> HIDE DEF g
    <3>. QED  BY <3>1, <3>2, EntryLocal
  <2>4. Spans(data, m, f) \in SpanSet(data, m)
    BY <2>1, EntryType
  <2>5. g[m] = Spans(data, m, f)
    BY <1>2
  <2> HIDE DEF g
  <2>6. Good(m, g)
    BY <2>1, <2>2, <2>3, <2>4, <2>5
  <2>. QED  BY <2>6
<1> HIDE DEF T
<1>3. end \in T
  <2>1. end \in Nat
    OBVIOUS
  <2>2. 0 .. end \subseteq T
    BY <1>1, <1>2, <2>1, Induction
  <2>. QED  BY <2>1, <2>2
<1>4. PICK f : Good(end, f)
  BY <1>3 DEF T
<1> DEFINE g == [n \in 0 .. end |-> f[n]]
<1>5. \A n \in 0 .. end : g[n] = Spans(data, n, f)
  BY <1>4
<1>6. \A n \in 0 .. end : Spans(data, n, g) = Spans(data, n, f)
  BY EntryLocal
<1>7. g = [n \in 0 .. end |-> Spans(data, n, g)]
  BY <1>4, <1>6
<1>. QED  BY <1>7

\* The halved recursion computes what the loop does: the register after the
\* last byte.
LEMMA CrcOfRun ==
  ASSUME NEW data \in Seq(Byte), NEW r, Run(data, r)
  PROVE  CrcBits(data) = r[Len(data)]
<1> DEFINE end == Len(data)
           fed == CHOOSE f : f = [n \in 0 .. end |-> Spans(data, n, f)]
<1>1. CrcBits(data) = fed[end][0][0 .. 15]
  BY Zenon DEF CrcBits, CrcEnd, Spans, Entry, Registers
<1>2. fed = [n \in 0 .. end |-> Spans(data, n, fed)]
  BY SpansExist, Zenon
<1> HIDE DEF fed
<1>3. \A n \in 0 .. end : fed[n] = Spans(data, n, fed)
  BY <1>2
<1>4. r \in [0 .. end -> Registers]
  BY DEF Run
<1> DEFINE Right(m) == \A at \in 0 .. end - m : fed[m][at][r[at]] = r[at + m]
           T == {n \in 0 .. end : \A m \in 0 .. n : Right(m)}
<1>5. ASSUME NEW n \in 0 .. end, \A m \in 0 .. n - 1 : Right(m) PROVE Right(n)
  <2> SUFFICES ASSUME NEW at \in 0 .. end - n PROVE fed[n][at][r[at]] = r[at + n]
    OBVIOUS
  <2>1. r[at] \in Registers /\ at \in Nat /\ at + n \in 0 .. end
    BY <1>4
  <2>2. fed[n][at][r[at]] = Entry(data, fed, n, at, r[at])
    <3>1. fed[n] = [i \in 0 .. end - n |-> [crc \in Registers |-> Entry(data, fed, n, i, crc)]]
      BY <1>3 DEF Spans
    <3>2. fed[n][at] = [crc \in Registers |-> Entry(data, fed, n, at, crc)]
      BY <3>1
    <3>. QED  BY <2>1, <3>2
  <2>3. CASE n = 0
    BY <2>1, <2>2, <2>3 DEF Entry
  <2>4. CASE n = 1
    <3>1. at + 1 \in 1 .. end /\ (at + 1) - 1 = at
      BY <2>1, <2>4
    <3>2. r[at + 1] = FeedCrc(r[at], data[at + 1])
      BY <3>1 DEF Run
    <3>. QED  BY <2>2, <2>4, <3>2 DEF Entry
  <2>5. CASE n > 1
    <3>1. PICK h \in 1 .. n - 1, g \in 1 .. n - 1 :
            h = n \div 2 /\ g = n - n \div 2 /\ h + g = n
      BY <2>5, Halves
    <3>2. Right(h) /\ Right(g)
      <4>1. h \in 0 .. n - 1 /\ g \in 0 .. n - 1
        BY <3>1
      <4> HIDE DEF Right
      <4>. QED  BY <1>5, <4>1
    <3>3. at \in 0 .. end - h /\ at + h \in 0 .. end - g /\ (at + h) + g = at + n
      BY <2>1, <3>1
    <3>4. fed[h][at][r[at]] = r[at + h] /\ fed[g][at + h][r[at + h]] = r[at + n]
      BY <3>2, <3>3
    <3>5. Entry(data, fed, n, at, r[at]) = fed[g][at + h][fed[h][at][r[at]]]
      BY <2>5, <3>1 DEF Entry
    <3>. QED  BY <2>2, <3>4, <3>5
  <2>. QED  BY <2>3, <2>4, <2>5
<1> HIDE DEF Right
<1>6. 0 \in T
  BY <1>5
<1>7. ASSUME NEW n \in 1 .. end, n - 1 \in T PROVE n \in T
  BY <1>5, <1>7
<1>8. end \in T
  <2>1. end \in Nat
    OBVIOUS
  <2> HIDE DEF T
  <2>2. 0 .. end \subseteq T
    BY <1>6, <1>7, <2>1, Induction
  <2>. QED  BY <2>1, <2>2
<1>9. Right(end)
  BY <1>8
<1>10. 0 \in 0 .. end - end /\ 0 + end = end
  OBVIOUS
<1>11. fed[end][0][r[0]] = r[end]
  BY <1>9, <1>10 DEF Right
<1>. QED  BY <1>1, <1>11 DEF Run

\* A prefix of a message has a prefix of its run.
LEMMA CrcOfPrefix ==
  ASSUME NEW w \in Seq(Byte), NEW r, Run(w, r), NEW n \in 0 .. Len(w)
  PROVE  CrcBits(SubSeq(w, 1, n)) = r[n]
<1> DEFINE data == SubSeq(w, 1, n)
           s == [k \in 0 .. n |-> r[k]]
<1>1. data \in Seq(Byte) /\ Len(data) = n /\ \A k \in 1 .. n : data[k] = w[k]
  OBVIOUS
<1> HIDE DEF data
<1>2. Run(data, s)
  <2>1. s \in [0 .. n -> Registers] /\ s[0] = 0 .. 15
    <3>1. 0 \in 0 .. n /\ \A k \in 0 .. n : k \in 0 .. Len(w)
      OBVIOUS
    <3>. QED  BY <3>1 DEF Run
  <2>2. ASSUME NEW k \in 1 .. n PROVE s[k] = FeedCrc(s[k - 1], data[k])
    <3>1. k \in 1 .. Len(w) /\ k \in 0 .. n /\ k - 1 \in 0 .. n
      OBVIOUS
    <3>. QED  BY <1>1, <3>1 DEF Run
  <2>. QED  BY <1>1, <2>1, <2>2 DEF Run
<1>3. CrcBits(data) = s[n]
  BY <1>1, <1>2, CrcOfRun
<1>. QED  BY <1>3 DEF data

-------------------------------------------------------------------------------
(* What a right checksum says of a message                                 *)

\* A message whose last two bytes are the checksum of the others.
Valid(w) ==
  /\ w \in Seq(Byte) /\ Len(w) >= 2
  /\ ReadU16(w, Len(w) - 1) = Crc16(SubSeq(w, 1, Len(w) - 2))

\* Feeding a message together with its checksum leaves nothing in the register.
LEMMA Residue ==
  ASSUME NEW w, Valid(w), NEW r, Run(w, r)
  PROVE  r[Len(w)] = {}
<1>1. PICK n \in Nat : n = Len(w) - 2 /\ Len(w) = n + 2 /\ Len(w) - 1 = n + 1
  BY DEF Valid
<1>2. PICK x \in Byte, y \in Byte : x = w[n + 1] /\ y = w[n + 2]
  BY <1>1 DEF Valid
<1>3. r[n] \in Registers
  BY <1>1 DEF Run
<1>4. r[n] = Upper(x) \cup BitsOf(y)
  <2>1. CrcBits(SubSeq(w, 1, n)) = r[n]
    BY <1>1, CrcOfPrefix DEF Valid
  <2>2. NumberOf(r[n]) = x * 256 + y
    <3>1. (n + 1) + 1 = n + 2
      BY <1>1
    <3>. QED  BY <1>1, <1>2, <2>1, <3>1 DEF Valid, ReadU16, Crc16
  <2>3. BitsOf(NumberOf(r[n])) = r[n]
    BY <1>3, BitsOfNumber
  <2>. QED  BY <2>2, <2>3, WordBits
<1>5. BitsOf(x) \subseteq 0 .. 7 /\ BitsOf(y) \subseteq 0 .. 7 /\ BitsOf(y) \in Registers
  <2>1. BitsOf(x) \subseteq 0 .. 7 /\ BitsOf(y) \subseteq 0 .. 7
    BY ByteBits
  <2>. QED  BY <2>1 DEF Registers
<1>6. r[n + 1] = Upper(y)
  <2>1. r[n + 1] = ShiftEight(Xor(r[n], Upper(x)))
    <3>1. n + 1 \in 1 .. Len(w) /\ (n + 1) - 1 = n
      BY <1>1
    <3>2. r[n + 1] = FeedCrc(r[n], x)
      BY <1>2, <3>1 DEF Run
    <3>. QED  BY <1>3, <3>2, FeedIs
  <2>2. Xor(r[n], Upper(x)) = BitsOf(y)
    <3>1. \A b \in Upper(x) : b \notin BitsOf(y)
      BY <1>5, FeedIs, <1>3
    <3>. QED  BY <1>4, <3>1 DEF Xor
  <2>. QED  BY <1>5, <2>1, <2>2, ShiftEightUp DEF Upper
<1>7. r[n + 2] = ShiftEight({})
  <2>1. n + 2 \in 1 .. Len(w) /\ (n + 2) - 1 = n + 1
    BY <1>1
  <2>2. r[n + 2] = FeedCrc(Upper(y), y)
    BY <1>2, <1>6, <2>1 DEF Run
  <2>3. Upper(y) \in Registers /\ FeedCrc(Upper(y), y) = ShiftEight(Xor(Upper(y), Upper(y)))
    BY <1>3, FeedIs
  <2>. QED  BY <2>2, <2>3 DEF Xor
<1>. QED  BY <1>1, <1>7, ShiftEightNone

\* How the difference of two registers develops.
LEMMA FeedDifference ==
  ASSUME NEW p \in Registers, NEW q \in Registers, NEW x \in Byte, NEW y \in Byte
  PROVE  Xor(FeedCrc(p, x), FeedCrc(q, y))
           = ShiftEight(Xor(Xor(p, q), Xor(Upper(x), Upper(y))))
<1>1. /\ Upper(x) \in Registers /\ Upper(y) \in Registers
      /\ Xor(p, Upper(x)) \in Registers /\ Xor(q, Upper(y)) \in Registers
  BY FeedIs, XorType
<1>2. Xor(FeedCrc(p, x), FeedCrc(q, y)) = ShiftEight(Xor(Xor(p, Upper(x)), Xor(q, Upper(y))))
  BY <1>1, FeedIs, ShiftEightLinear
<1>. QED  BY <1>1, <1>2, XorSwap

\* A byte can be told from its place in the register.
LEMMA SameUpper ==
  ASSUME NEW x \in Byte, NEW y \in Byte, Upper(x) = Upper(y)
  PROVE  x = y
<1>1. ASSUME NEW z \in Byte PROVE BitsOf(z) = {b \in 0 .. 7 : b + 8 \in Upper(z)}
  <2>1. BitsOf(z) \subseteq 0 .. 7
    BY ByteBits
  <2>. QED  BY <2>1 DEF Upper
<1>2. BitsOf(x) = BitsOf(y)
  BY <1>1
<1>. QED  BY <1>2, SameByte

\* Two messages with right checksums (crc.c:11-20) that differ at all do so in more
\* than two adjacent bytes.
THEOREM TwoBytesShow ==
  ASSUME NEW w, NEW v, Valid(w), Valid(v), Len(w) = Len(v),
         NEW k \in 1 .. Len(w) - 1,
         \A j \in 1 .. Len(w) : j # k /\ j # k + 1 => w[j] = v[j]
  PROVE  w = v
<1> DEFINE end == Len(w)
<1>1. w \in Seq(Byte) /\ v \in Seq(Byte) /\ end \in Nat /\ Len(v) = end
  BY DEF Valid
<1>2. PICK r, s : Run(w, r) /\ Run(v, s)
  BY <1>1, RunExists
<1>3. \A j \in 0 .. end : r[j] \in Registers /\ s[j] \in Registers
  BY <1>1, <1>2 DEF Run
<1>4. \A j \in 1 .. end : w[j] \in Byte /\ v[j] \in Byte /\ j - 1 \in 0 .. end /\ j \in 0 .. end
  BY <1>1
<1> HIDE DEF end
<1>5. r[0] = s[0] /\ r[end] = s[end]
  <2>1. r[end] = {} /\ s[Len(v)] = {}
    BY <1>2, Residue DEF end
  <2>. QED  BY <1>1, <1>2, <2>1 DEF Run
<1>6. ASSUME NEW j \in 1 .. end
      PROVE  /\ Upper(w[j]) \in Registers /\ Upper(v[j]) \in Registers
             /\ Xor(r[j], s[j])
                  = ShiftEight(Xor(Xor(r[j - 1], s[j - 1]), Xor(Upper(w[j]), Upper(v[j]))))
  <2>1. r[j] = FeedCrc(r[j - 1], w[j]) /\ s[j] = FeedCrc(s[j - 1], v[j])
    BY <1>1, <1>2 DEF Run, end
  <2>2. r[j - 1] \in Registers /\ s[j - 1] \in Registers /\ w[j] \in Byte /\ v[j] \in Byte
    BY <1>3, <1>4
  <2>. QED  BY <2>1, <2>2, FeedDifference, FeedIs
\* Equal bytes neither make nor remove a difference.
<1>7. ASSUME NEW j \in 1 .. end, w[j] = v[j] PROVE r[j] = s[j] <=> r[j - 1] = s[j - 1]
  <2>1. PICK d \in Registers, e \in Registers : d = Xor(r[j - 1], s[j - 1]) /\ e = Xor(r[j], s[j])
    BY <1>3, <1>4, XorType
  <2>2. d \in Registers /\ e = ShiftEight(Xor(d, {}))
    <3>1. Xor(Upper(w[j]), Upper(v[j])) = {}
      BY <1>7 DEF Xor
    <3>2. e = ShiftEight(Xor(d, Xor(Upper(w[j]), Upper(v[j]))))
      BY <1>6, <2>1
    <3>. QED  BY <3>1, <3>2
  <2>3. Xor(d, {}) = d
    BY DEF Xor
  <2>4. e = {} <=> d = {}
    <3>1. e = {} => d = {}
      BY <2>2, <2>3, ShiftEightKeeps
    <3>. QED  BY <2>2, <2>3, <3>1, ShiftEightNone
  <2>. QED  BY <1>3, <1>4, <2>1, <2>4, XorSame
<1>8. k \in Nat /\ 1 <= k /\ k + 1 <= end /\ k \in 1 .. end /\ k + 1 \in 1 .. end /\ (k + 1) - 1 = k
  BY <1>1 DEF end
<1>9. \A j \in 1 .. end : j # k /\ j # k + 1 => w[j] = v[j]
  BY DEF end
\* No difference before the first wrong byte,
<1>10. r[k - 1] = s[k - 1]
  <2> DEFINE T == {j \in 0 .. k - 1 : r[j] = s[j]}
  <2>1. 0 \in T /\ k - 1 \in Nat
    BY <1>5, <1>8
  <2>2. ASSUME NEW j \in 1 .. k - 1, j - 1 \in T PROVE j \in T
    <3>1. j \in 1 .. end /\ j # k /\ j # k + 1
      BY <1>1, <1>8
    <3>. QED  BY <1>7, <1>9, <2>2, <3>1
  <2> HIDE DEF T
  <2>3. 0 .. k - 1 \subseteq T
    BY <2>1, <2>2, Induction
  <2>. QED  BY <2>1, <2>3 DEF T
\* nor after the last,
<1>11. r[k + 1] = s[k + 1]
  <2> DEFINE n == end - (k + 1)
             T == {j \in 0 .. n : r[end - j] = s[end - j]}
  <2>1. 0 \in T /\ n \in Nat
    BY <1>1, <1>5, <1>8
  <2>2. ASSUME NEW j \in 1 .. n, j - 1 \in T PROVE j \in T
    <3>1. PICK i \in 1 .. end : i = end - (j - 1) /\ i - 1 = end - j /\ i # k /\ i # k + 1
      BY <1>1, <1>8
    <3>. QED  BY <1>7, <1>9, <2>2, <3>1
  <2>3. end - n = k + 1
    BY <1>1, <1>8
  <2> HIDE DEF T, n
  <2>4. 0 .. n \subseteq T
    BY <2>1, <2>2, Induction
  <2>. QED  BY <2>1, <2>3, <2>4 DEF T
\* so what the first byte puts in the second must take out.
<1> DEFINE u == Xor(Upper(w[k]), Upper(v[k]))
           t == Xor(Upper(w[k + 1]), Upper(v[k + 1]))
<1>12. /\ u \in Registers /\ u \subseteq 8 .. 15
       /\ t \in Registers /\ t \subseteq 8 .. 15
  <2>1. /\ Upper(w[k]) \subseteq 8 .. 15 /\ Upper(v[k]) \subseteq 8 .. 15
        /\ Upper(w[k + 1]) \subseteq 8 .. 15 /\ Upper(v[k + 1]) \subseteq 8 .. 15
    BY <1>3, <1>4, <1>8, FeedIs
  <2>. QED  BY <2>1 DEF Xor, Registers
<1>13. Xor(r[k], s[k]) = ShiftEight(u)
  <2>1. Xor(r[k - 1], s[k - 1]) = {}
    BY <1>3, <1>4, <1>8, <1>10, XorSame
  <2>2. Xor({}, u) = u
    BY DEF Xor
  <2>3. Xor(r[k], s[k]) = ShiftEight(Xor({}, u))
    BY <1>6, <1>8, <2>1
  <2>. QED  BY <2>2, <2>3
<1> HIDE DEF u, t
<1>14. ShiftEight(u) \in Registers
  BY <1>12, ShiftEightIs
<1>15. ShiftEight(Xor(ShiftEight(u), t)) = {}
  <2>1. Xor(r[k + 1], s[k + 1]) = {}
    BY <1>3, <1>4, <1>8, <1>11, XorSame
  <2>. QED  BY <1>6, <1>8, <1>13, <2>1 DEF t
<1>16. ShiftEight(u) = t
  BY <1>12, <1>14, <1>15, ShiftEightKeeps, XorType, XorSame
<1>17. u = {} /\ t = {}
  <2>1. u = {}
    BY <1>12, <1>16, ShiftEightSpreads
  <2>. QED  BY <1>16, <2>1, ShiftEightNone
<1>18. w[k] = v[k] /\ w[k + 1] = v[k + 1]
  BY <1>4, <1>6, <1>8, <1>17, XorSame, SameUpper DEF u, t
<1>19. \A j \in 1 .. end : w[j] = v[j]
  BY <1>9, <1>18
<1>. QED  BY <1>1, <1>19, SeqEqual DEF end

-------------------------------------------------------------------------------
(* How many ones                                                           *)

\* The size of a difference, up to what occurs twice.
LEMMA XorSize ==
  ASSUME NEW p, IsFiniteSet(p), NEW q, IsFiniteSet(q)
  PROVE  /\ IsFiniteSet(Xor(p, q)) /\ Cardinality(Xor(p, q)) \in Nat
         /\ Cardinality(p) \in Nat /\ Cardinality(q) \in Nat
         /\ Cardinality(Xor(p, q)) % 2 = (Cardinality(p) + Cardinality(q)) % 2
<1>1. /\ IsFiniteSet(p \ q) /\ Cardinality(p \ q) = Cardinality(p) - Cardinality(p \cap q)
      /\ IsFiniteSet(q \ p) /\ Cardinality(q \ p) = Cardinality(q) - Cardinality(q \cap p)
  BY FS_Difference
<1>2. IsFiniteSet((p \ q) \cup (q \ p))
      /\ Cardinality((p \ q) \cup (q \ p))
           = Cardinality(p \ q) + Cardinality(q \ p) - Cardinality((p \ q) \cap (q \ p))
  BY <1>1, FS_Union
<1>3. (p \ q) \cap (q \ p) = {} /\ q \cap p = p \cap q
  OBVIOUS
<1>4. Cardinality({}) = 0
  BY FS_EmptySet
<1>5. Cardinality(p) \in Nat /\ Cardinality(q) \in Nat /\ Cardinality(p \cap q) \in Nat
  <2>1. IsFiniteSet(p \cap q)
    BY FS_Intersection
  <2>. QED  BY <2>1, FS_CardinalityType
<1>6. PICK a \in Nat, b \in Nat, c \in Nat :
        a = Cardinality(p) /\ b = Cardinality(q) /\ c = Cardinality(p \cap q)
  BY <1>5
<1>7. Cardinality(Xor(p, q)) = (a + b) - 2 * c
  <2>1. Cardinality(Xor(p, q)) = (a - c) + (b - c) - 0
    BY <1>1, <1>2, <1>3, <1>4, <1>6 DEF Xor
  <2>. QED  BY <2>1
<1>8. IsFiniteSet(Xor(p, q)) /\ Cardinality(Xor(p, q)) \in Nat
  <2>1. IsFiniteSet(Xor(p, q))
    BY <1>2 DEF Xor
  <2>. QED  BY <2>1, FS_CardinalityType
<1>9. ((a + b) - 2 * c) % 2 = (a + b) % 2
  OBVIOUS
<1>. QED  BY <1>5, <1>6, <1>7, <1>8, <1>9

\* A register is a finite set of numbers.
LEMMA RegisterSize ==
  ASSUME NEW p \in Registers
  PROVE  IsFiniteSet(p) /\ Cardinality(p) \in Nat /\ p \in SUBSET Int
<1>1. IsFiniteSet(0 .. 15) /\ p \in SUBSET (0 .. 15)
  <2>1. 0 \in Int /\ 15 \in Int
    OBVIOUS
  <2>2. IsFiniteSet(0 .. 15)
    BY <2>1, FS_Interval, Zenon
  <2>. QED  BY <2>2 DEF Registers
<1>2. IsFiniteSet(p)
  BY <1>1, FS_Subset
<1>. QED  BY <1>1, <1>2, FS_CardinalityType

\* A shift keeps the parity of the register: what falls out comes back three
\* times.
LEMMA ShiftParity ==
  ASSUME NEW crc \in Registers
  PROVE  Cardinality(ShiftCrc(crc)) % 2 = Cardinality(crc) % 2
<1> DEFINE rest == crc \ {15}
           up == {b + 1 : b \in rest}
<1>1. /\ IsFiniteSet(crc) /\ rest \in SUBSET Int /\ IsFiniteSet(rest)
      /\ Cardinality(crc) \in Nat
      /\ Cardinality(rest) = IF 15 \in crc THEN Cardinality(crc) - 1 ELSE Cardinality(crc)
  BY RegisterSize, FS_RemoveElement
<1>2. IsFiniteSet(up) /\ Cardinality(up) = Cardinality(rest)
  <2>1. rest \in SUBSET Int /\ IsFiniteSet(rest) /\ 1 \in Int
    BY <1>1
  <2> HIDE DEF rest
  <2>. QED  BY <2>1, MovedSize
<1>3. IsFiniteSet({12, 5, 0}) /\ Cardinality({12, 5, 0}) = 3
  <2>1. IsFiniteSet({12}) /\ Cardinality({12}) = 1
    BY FS_Singleton
  <2>2. IsFiniteSet({12} \cup {5}) /\ Cardinality({12} \cup {5}) = 2
    BY <2>1, FS_AddElement
  <2>3. IsFiniteSet(({12} \cup {5}) \cup {0}) /\ Cardinality(({12} \cup {5}) \cup {0}) = 3
    BY <2>2, FS_AddElement
  <2>4. {12, 5, 0} = ({12} \cup {5}) \cup {0}
    OBVIOUS
  <2>. QED  BY <2>3, <2>4
<1>4. CASE 15 \in crc
  <2>1. PICK n \in Nat : n = Cardinality(crc)
    BY <1>1
  <2>2. Cardinality(Xor(up, {12, 5, 0})) % 2 = (Cardinality(up) + Cardinality({12, 5, 0})) % 2
    <3> HIDE DEF up
    <3>. QED  BY <1>2, <1>3, XorSize
  <2>3. Cardinality(up) + Cardinality({12, 5, 0}) = n + 2
    BY <1>1, <1>2, <1>3, <1>4, <2>1
  <2>4. (n + 2) % 2 = n % 2
    BY <2>1
  <2>. QED  BY <1>4, <2>1, <2>2, <2>3, <2>4 DEF ShiftCrc
<1>5. CASE 15 \notin crc
  BY <1>1, <1>2, <1>5 DEF ShiftCrc
<1>. QED  BY <1>4, <1>5

\* A byte adds the parity of its bits.
LEMMA FeedParity ==
  ASSUME NEW crc \in Registers, NEW byte \in Byte
  PROVE  /\ IsFiniteSet(BitsOf(byte)) /\ Cardinality(BitsOf(byte)) \in Nat
         /\ Cardinality(FeedCrc(crc, byte)) % 2
              = (Cardinality(crc) + Cardinality(BitsOf(byte))) % 2
<1>1. BitsOf(byte) \in SUBSET Int /\ IsFiniteSet(BitsOf(byte)) /\ Cardinality(BitsOf(byte)) \in Nat
  <2>1. BitsOf(byte) \in Registers
    BY DEF BitsOf, Registers
  <2>. QED  BY <2>1, RegisterSize
<1>2. IsFiniteSet(Upper(byte)) /\ Cardinality(Upper(byte)) = Cardinality(BitsOf(byte))
  <2>1. 8 \in Int
    OBVIOUS
  <2>. QED  BY <1>1, <2>1, MovedSize DEF Upper
<1>3. PICK c \in Registers : c = Xor(crc, Upper(byte)) /\ FeedCrc(crc, byte) = ShiftEight(c)
  BY FeedIs, XorType
<1>4. Cardinality(c) % 2 = (Cardinality(crc) + Cardinality(BitsOf(byte))) % 2
  BY <1>2, <1>3, RegisterSize, XorSize
<1>5. PICK c1, c2, c3, c4, c5, c6, c7 \in Registers :
           /\ c1 = ShiftCrc(c) /\ c2 = ShiftCrc(c1) /\ c3 = ShiftCrc(c2)
           /\ c4 = ShiftCrc(c3) /\ c5 = ShiftCrc(c4) /\ c6 = ShiftCrc(c5)
           /\ c7 = ShiftCrc(c6) /\ ShiftEight(c) = ShiftCrc(c7)
  BY ShiftEightIs
<1>6. Cardinality(ShiftEight(c)) % 2 = Cardinality(c) % 2
  <2>1. ASSUME NEW d \in Registers PROVE Cardinality(ShiftCrc(d)) % 2 = Cardinality(d) % 2
    BY ShiftParity
  <2>. QED  BY <1>5, <2>1
<1>. QED  BY <1>1, <1>3, <1>4, <1>6

\* The one bits of the first k bytes of a message.
Ones(w, k) == {p \in 0 .. 8 * k - 1 : p % 8 \in BitsOf(w[p \div 8 + 1])}

\* One more byte, and its ones.
LEMMA MoreOnes ==
  ASSUME NEW w \in Seq(Byte), NEW k \in 1 .. Len(w), IsFiniteSet(Ones(w, k - 1))
  PROVE  /\ IsFiniteSet(Ones(w, k))
         /\ Cardinality(Ones(w, k)) = Cardinality(Ones(w, k - 1)) + Cardinality(BitsOf(w[k]))
<1> DEFINE base == 8 * (k - 1)
           new == {b + base : b \in BitsOf(w[k])}
<1>1. w[k] \in Byte /\ k \in Nat /\ k >= 1
  OBVIOUS
<1>2. BitsOf(w[k]) \subseteq 0 .. 7
  BY <1>1, ByteBits
<1>3. PICK s \in Nat : s = base /\ s = 8 * (k - 1) /\ s + 8 = 8 * k
  BY <1>1
<1>4. ASSUME NEW b \in 0 .. 7
      PROVE  b + s \in 0 .. 8 * k - 1 /\ b + s \notin 0 .. s - 1
             /\ (b + s) % 8 = b /\ (b + s) \div 8 + 1 = k
  BY <1>1, <1>3
<1>5. Ones(w, k) = Ones(w, k - 1) \cup new
  <2>1. ASSUME NEW p \in Ones(w, k) PROVE p \in Ones(w, k - 1) \cup new
    <3>1. p \in 0 .. 8 * k - 1 /\ p % 8 \in BitsOf(w[p \div 8 + 1])
      BY DEF Ones
    <3>2. CASE p \in 0 .. s - 1
      BY <1>3, <3>1, <3>2 DEF Ones
    <3>3. CASE p \notin 0 .. s - 1
      <4>1. p - s \in 0 .. 7 /\ p = (p - s) + s
        BY <1>3, <3>1, <3>3
      <4>2. p % 8 = p - s /\ p \div 8 + 1 = k
        BY <1>4, <4>1
      <4>. QED  BY <1>3, <3>1, <4>1, <4>2
    <3>. QED  BY <3>2, <3>3
  <2>2. ASSUME NEW p \in Ones(w, k - 1) PROVE p \in Ones(w, k)
    <3>1. p \in 0 .. 8 * (k - 1) - 1 /\ p % 8 \in BitsOf(w[p \div 8 + 1])
      BY DEF Ones
    <3>2. p \in 0 .. 8 * k - 1
      BY <1>1, <3>1
    <3>. QED  BY <3>1, <3>2 DEF Ones
  <2>3. ASSUME NEW p \in new PROVE p \in Ones(w, k)
    <3>1. PICK b \in BitsOf(w[k]) : p = b + s
      BY <1>3
    <3>. QED  BY <1>2, <1>4, <3>1 DEF Ones
  <2>. QED  BY <2>1, <2>2, <2>3
<1>6. Ones(w, k - 1) \cap new = {}
  <2>1. ASSUME NEW p \in new PROVE p \notin 0 .. 8 * (k - 1) - 1
    BY <1>2, <1>3, <1>4
  <2>. QED  BY <2>1 DEF Ones
<1>7. IsFiniteSet(new) /\ Cardinality(new) = Cardinality(BitsOf(w[k]))
  <2>1. BitsOf(w[k]) \in SUBSET Int /\ IsFiniteSet(BitsOf(w[k]))
    <3>1. BitsOf(w[k]) \in Registers
      BY DEF BitsOf, Registers
    <3>. QED  BY <3>1, RegisterSize
  <2>2. base \in Int
    BY <1>3
  <2> HIDE DEF base
  <2>. QED  BY <2>1, <2>2, MovedSize
<1> HIDE DEF new
<1>8. /\ IsFiniteSet(Ones(w, k))
      /\ Cardinality(Ones(w, k)) = Cardinality(Ones(w, k - 1)) + Cardinality(new) - Cardinality({})
  <2> DEFINE old == Ones(w, k - 1)
  <2> HIDE DEF old
  <2>1. /\ IsFiniteSet(old \cup new)
        /\ Cardinality(old \cup new)
             = Cardinality(old) + Cardinality(new) - Cardinality(old \cap new)
    <3>1. IsFiniteSet(old) /\ IsFiniteSet(new)
      BY <1>7 DEF old
    <3>. QED  BY <3>1, FS_Union, Zenon
  <2>. QED  BY <1>5, <1>6, <2>1 DEF old
<1>9. Cardinality(Ones(w, k - 1)) \in Nat /\ Cardinality(new) \in Nat
  BY <1>7, FS_CardinalityType
<1>. QED  BY <1>7, <1>8, <1>9, FS_EmptySet

\* A message with a right checksum (crc.c:11-20) has an even number of ones.
THEOREM ValidIsEven ==
  ASSUME NEW w, Valid(w)
  PROVE  IsFiniteSet(Ones(w, Len(w))) /\ Cardinality(Ones(w, Len(w))) % 2 = 0
<1>1. w \in Seq(Byte) /\ Len(w) \in Nat
  BY DEF Valid
<1>2. PICK r : Run(w, r)
  BY <1>1, RunExists
<1> DEFINE Same(k) == /\ IsFiniteSet(Ones(w, k))
                      /\ Cardinality(Ones(w, k)) % 2 = Cardinality(r[k]) % 2
           T == {k \in 0 .. Len(w) : Same(k)}
<1>3. 0 \in T
  <2>1. Ones(w, 0) = {}
    BY DEF Ones
  <2>2. r[0] = 0 .. 15 /\ Cardinality(0 .. 15) = 16
    <3>1. 0 \in Int /\ 15 \in Int
      OBVIOUS
    <3>2. Cardinality(0 .. 15) = IF 0 > 15 THEN 0 ELSE 15 - 0 + 1
      BY <3>1, FS_Interval, Zenon
    <3>. QED  BY <1>2, <3>2 DEF Run
  <2>3. IsFiniteSet(Ones(w, 0)) /\ Cardinality(Ones(w, 0)) = 0
    BY <2>1, FS_EmptySet
  <2>4. Cardinality(Ones(w, 0)) % 2 = Cardinality(r[0]) % 2
    BY <2>2, <2>3
  <2>. QED  BY <1>1, <2>3, <2>4
<1>4. ASSUME NEW k \in 1 .. Len(w), k - 1 \in T PROVE k \in T
  <2>1. r[k - 1] \in Registers /\ w[k] \in Byte /\ r[k] = FeedCrc(r[k - 1], w[k])
    <3>1. k - 1 \in 0 .. Len(w)
      BY <1>1
    <3>. QED  BY <1>1, <1>2, <3>1 DEF Run
  <2>2. PICK a \in Nat, b \in Nat, c \in Nat :
          /\ a = Cardinality(Ones(w, k - 1)) /\ b = Cardinality(BitsOf(w[k]))
          /\ c = Cardinality(r[k - 1])
    <3>1. IsFiniteSet(Ones(w, k - 1))
      BY <1>4
    <3>. QED  BY <2>1, <3>1, FeedParity, RegisterSize, FS_CardinalityType
  <2>3. IsFiniteSet(Ones(w, k)) /\ Cardinality(Ones(w, k)) = a + b
    BY <1>1, <1>4, <2>2, MoreOnes
  <2>4. Cardinality(r[k]) % 2 = (c + b) % 2
    BY <2>1, <2>2, FeedParity
  <2>5. a % 2 = c % 2
    BY <1>4, <2>2
  <2>6. (a + b) % 2 = (c + b) % 2
    BY <2>5
  <2>. QED  BY <2>3, <2>4, <2>6
<1> HIDE DEF T
<1>5. 0 .. Len(w) \subseteq T
  BY <1>1, <1>3, <1>4, Induction
<1>6. Same(Len(w))
  BY <1>1, <1>5 DEF T
<1>7. r[Len(w)] = {}
  BY <1>2, Residue
<1>8. Cardinality(r[Len(w)]) = 0
  BY <1>7, FS_EmptySet
<1>. QED  BY <1>6, <1>8

-------------------------------------------------------------------------------
(* How long shifts take to bring a bit back to where it was                *)

\* d is what a shift makes of c, bit by bit.
ShiftedBits(c, d) ==
  /\ 0 \in d <=> 15 \in c
  /\ 1 \in d <=> 0 \in c
  /\ 2 \in d <=> 1 \in c
  /\ 3 \in d <=> 2 \in c
  /\ 4 \in d <=> 3 \in c
  /\ 5 \in d <=> ~(4 \in c <=> 15 \in c)
  /\ 6 \in d <=> 5 \in c
  /\ 7 \in d <=> 6 \in c
  /\ 8 \in d <=> 7 \in c
  /\ 9 \in d <=> 8 \in c
  /\ 10 \in d <=> 9 \in c
  /\ 11 \in d <=> 10 \in c
  /\ 12 \in d <=> ~(11 \in c <=> 15 \in c)
  /\ 13 \in d <=> 12 \in c
  /\ 14 \in d <=> 13 \in c
  /\ 15 \in d <=> 14 \in c

\* What a shift does, bit by bit.
LEMMA ShiftTable == ASSUME NEW c \in Registers PROVE ShiftedBits(c, ShiftCrc(c))
<1>1. \A b \in 0 .. 15 : b \in ShiftCrc(c)
        <=> IF 15 \in c /\ b \in {12, 5, 0} THEN b - 1 \notin c ELSE b - 1 \in c
  BY ShiftBits
<1>2. \A b \in 1 .. 15 : b \in ShiftCrc(c)
        <=> IF 15 \in c /\ (b = 12 \/ b = 5) THEN b - 1 \notin c ELSE b - 1 \in c
  BY <1>1
<1>3. 0 \in ShiftCrc(c) <=> 15 \in c
  BY ShiftLow
<1>. QED  BY <1>2, <1>3 DEF ShiftedBits

\* The square of a register, read as a polynomial with a term for every one bit,
\* modulo the polynomial of the checksum: the square of the sum is the sum of the
\* squares, and the squares of the upper eight terms have to be reduced.
Square(c) ==
  LET Term(b, bits) == IF b \in c THEN bits ELSE {}
  IN  Xor({2 * b : b \in c \ (8 .. 15)},
      Xor(Xor(Xor(Term(8, {0, 5, 12}), Term(9, {2, 7, 14})),
              Xor(Term(10, {0, 4, 5, 9, 12}), Term(11, {2, 6, 7, 11, 14}))),
          Xor(Xor(Term(12, {0, 4, 5, 8, 9, 12, 13}), Term(13, {2, 6, 7, 10, 11, 14, 15})),
              Xor(Term(14, {0, 1, 4, 5, 6, 8, 9}), Term(15, {2, 3, 6, 7, 8, 10, 11})))))

\* d is the square of c, bit by bit.
SquaredBits(c, d) ==
  /\ 0 \in d <=> ~(0 \in c <=> ~(8 \in c <=> ~(10 \in c <=> ~(12 \in c <=> 14 \in c))))
  /\ 1 \in d <=> 14 \in c
  /\ 2 \in d <=> ~(1 \in c <=> ~(9 \in c <=> ~(11 \in c <=> ~(13 \in c <=> 15 \in c))))
  /\ 3 \in d <=> 15 \in c
  /\ 4 \in d <=> ~(2 \in c <=> ~(10 \in c <=> ~(12 \in c <=> 14 \in c)))
  /\ 5 \in d <=> ~(8 \in c <=> ~(10 \in c <=> ~(12 \in c <=> 14 \in c)))
  /\ 6 \in d <=> ~(3 \in c <=> ~(11 \in c <=> ~(13 \in c <=> ~(14 \in c <=> 15 \in c))))
  /\ 7 \in d <=> ~(9 \in c <=> ~(11 \in c <=> ~(13 \in c <=> 15 \in c)))
  /\ 8 \in d <=> ~(4 \in c <=> ~(12 \in c <=> ~(14 \in c <=> 15 \in c)))
  /\ 9 \in d <=> ~(10 \in c <=> ~(12 \in c <=> 14 \in c))
  /\ 10 \in d <=> ~(5 \in c <=> ~(13 \in c <=> 15 \in c))
  /\ 11 \in d <=> ~(11 \in c <=> ~(13 \in c <=> 15 \in c))
  /\ 12 \in d <=> ~(6 \in c <=> ~(8 \in c <=> ~(10 \in c <=> 12 \in c)))
  /\ 13 \in d <=> 12 \in c
  /\ 14 \in d <=> ~(7 \in c <=> ~(9 \in c <=> ~(11 \in c <=> 13 \in c)))
  /\ 15 \in d <=> 13 \in c

\* What a square is, bit by bit.
LEMMA SquareTable ==
  ASSUME NEW c \in Registers
  PROVE  Square(c) \in Registers /\ SquaredBits(c, Square(c))
<1> DEFINE Term(b, bits) == IF b \in c THEN bits ELSE {}
           low == {2 * b : b \in c \ (8 .. 15)}
           t8 == Xor(Term(8, {0, 5, 12}), Term(9, {2, 7, 14}))
           t10 == Xor(Term(10, {0, 4, 5, 9, 12}), Term(11, {2, 6, 7, 11, 14}))
           t12 == Xor(Term(12, {0, 4, 5, 8, 9, 12, 13}), Term(13, {2, 6, 7, 10, 11, 14, 15}))
           t14 == Xor(Term(14, {0, 1, 4, 5, 6, 8, 9}), Term(15, {2, 3, 6, 7, 8, 10, 11}))
<1>1. Square(c) = Xor(low, Xor(Xor(t8, t10), Xor(t12, t14)))
  BY DEF Square
<1>2. low \in Registers
  <2>1. \A b \in c \ (8 .. 15) : 2 * b \in 0 .. 15
    BY DEF Registers
  <2>. QED  BY <2>1 DEF Registers
<1>3. t8 \in Registers /\ t10 \in Registers /\ t12 \in Registers /\ t14 \in Registers
  BY DEF Xor, Registers

<1>4. /\ 0 \in low <=> 0 \in c
      /\ 1 \in low <=> FALSE
      /\ 2 \in low <=> 1 \in c
      /\ 3 \in low <=> FALSE
      /\ 4 \in low <=> 2 \in c
      /\ 5 \in low <=> FALSE
      /\ 6 \in low <=> 3 \in c
      /\ 7 \in low <=> FALSE
      /\ 8 \in low <=> 4 \in c
      /\ 9 \in low <=> FALSE
      /\ 10 \in low <=> 5 \in c
      /\ 11 \in low <=> FALSE
      /\ 12 \in low <=> 6 \in c
      /\ 13 \in low <=> FALSE
      /\ 14 \in low <=> 7 \in c
      /\ 15 \in low <=> FALSE
  <2>1. \A i : i \in low <=> \E b \in 0 .. 7 : b \in c /\ i = 2 * b
    BY DEF Registers
  <2>. QED  BY <2>1
<1>5. /\ 0 \in t8 <=> 8 \in c
      /\ 1 \in t8 <=> FALSE
      /\ 2 \in t8 <=> 9 \in c
      /\ 3 \in t8 <=> FALSE
      /\ 4 \in t8 <=> FALSE
      /\ 5 \in t8 <=> 8 \in c
      /\ 6 \in t8 <=> FALSE
      /\ 7 \in t8 <=> 9 \in c
      /\ 8 \in t8 <=> FALSE
      /\ 9 \in t8 <=> FALSE
      /\ 10 \in t8 <=> FALSE
      /\ 11 \in t8 <=> FALSE
      /\ 12 \in t8 <=> 8 \in c
      /\ 13 \in t8 <=> FALSE
      /\ 14 \in t8 <=> 9 \in c
      /\ 15 \in t8 <=> FALSE
  BY DEF Xor
<1>6. /\ 0 \in t10 <=> 10 \in c
      /\ 1 \in t10 <=> FALSE
      /\ 2 \in t10 <=> 11 \in c
      /\ 3 \in t10 <=> FALSE
      /\ 4 \in t10 <=> 10 \in c
      /\ 5 \in t10 <=> 10 \in c
      /\ 6 \in t10 <=> 11 \in c
      /\ 7 \in t10 <=> 11 \in c
      /\ 8 \in t10 <=> FALSE
      /\ 9 \in t10 <=> 10 \in c
      /\ 10 \in t10 <=> FALSE
      /\ 11 \in t10 <=> 11 \in c
      /\ 12 \in t10 <=> 10 \in c
      /\ 13 \in t10 <=> FALSE
      /\ 14 \in t10 <=> 11 \in c
      /\ 15 \in t10 <=> FALSE
  BY DEF Xor
<1>7. /\ 0 \in t12 <=> 12 \in c
      /\ 1 \in t12 <=> FALSE
      /\ 2 \in t12 <=> 13 \in c
      /\ 3 \in t12 <=> FALSE
      /\ 4 \in t12 <=> 12 \in c
      /\ 5 \in t12 <=> 12 \in c
      /\ 6 \in t12 <=> 13 \in c
      /\ 7 \in t12 <=> 13 \in c
      /\ 8 \in t12 <=> 12 \in c
      /\ 9 \in t12 <=> 12 \in c
      /\ 10 \in t12 <=> 13 \in c
      /\ 11 \in t12 <=> 13 \in c
      /\ 12 \in t12 <=> 12 \in c
      /\ 13 \in t12 <=> 12 \in c
      /\ 14 \in t12 <=> 13 \in c
      /\ 15 \in t12 <=> 13 \in c
  BY DEF Xor
<1>8. /\ 0 \in t14 <=> 14 \in c
      /\ 1 \in t14 <=> 14 \in c
      /\ 2 \in t14 <=> 15 \in c
      /\ 3 \in t14 <=> 15 \in c
      /\ 4 \in t14 <=> 14 \in c
      /\ 5 \in t14 <=> 14 \in c
      /\ 6 \in t14 <=> ~(14 \in c <=> 15 \in c)
      /\ 7 \in t14 <=> 15 \in c
      /\ 8 \in t14 <=> ~(14 \in c <=> 15 \in c)
      /\ 9 \in t14 <=> 14 \in c
      /\ 10 \in t14 <=> 15 \in c
      /\ 11 \in t14 <=> 15 \in c
      /\ 12 \in t14 <=> FALSE
      /\ 13 \in t14 <=> FALSE
      /\ 14 \in t14 <=> FALSE
      /\ 15 \in t14 <=> FALSE
  BY DEF Xor
<1> HIDE DEF low, t8, t10, t12, t14
<1>9. ASSUME NEW i
      PROVE  i \in Square(c)
               <=> ~(i \in low <=> ~(~(i \in t8 <=> i \in t10) <=> ~(i \in t12 <=> i \in t14)))
  BY <1>1 DEF Xor
<1>10. Square(c) \in Registers
  BY <1>1, <1>2, <1>3, XorType
<1>. QED  BY <1>4, <1>5, <1>6, <1>7, <1>8, <1>9, <1>10 DEF SquaredBits

\* Registers that agree with a table are equal.
LEMMA SixteenBits ==
  ASSUME NEW p \in Registers, NEW q \in Registers,
         0 \in p <=> 0 \in q,
         1 \in p <=> 1 \in q,
         2 \in p <=> 2 \in q,
         3 \in p <=> 3 \in q,
         4 \in p <=> 4 \in q,
         5 \in p <=> 5 \in q,
         6 \in p <=> 6 \in q,
         7 \in p <=> 7 \in q,
         8 \in p <=> 8 \in q,
         9 \in p <=> 9 \in q,
         10 \in p <=> 10 \in q,
         11 \in p <=> 11 \in q,
         12 \in p <=> 12 \in q,
         13 \in p <=> 13 \in q,
         14 \in p <=> 14 \in q,
         15 \in p <=> 15 \in q
  PROVE  p = q
<1>1. \A b \in 0 .. 15 : b \in p <=> b \in q
  <2>1. \A b \in 0 .. 15 : \/ b = 0 \/ b = 1 \/ b = 2 \/ b = 3 \/ b = 4 \/ b = 5 \/ b = 6 \/ b = 7
                          \/ b = 8 \/ b = 9 \/ b = 10 \/ b = 11 \/ b = 12 \/ b = 13 \/ b = 14 \/ b = 15
    OBVIOUS
  <2>. QED  BY <2>1
<1>. QED  BY <1>1, SameBits

\* The bits of a square determine it.
LEMMA SquareIs ==
  ASSUME NEW c \in Registers, NEW d \in Registers, SquaredBits(c, d)
  PROVE  Square(c) = d
<1>1. Square(c) \in Registers /\ SquaredBits(c, Square(c))
  BY SquareTable
<1>. QED  BY <1>1, SixteenBits DEF SquaredBits

\* Squaring a register that was shifted is shifting the square twice.
LEMMA SquareShifted ==
  ASSUME NEW c \in Registers
  PROVE  Square(ShiftCrc(c)) = ShiftCrc(ShiftCrc(Square(c)))
<1>1. PICK s \in Registers : s = ShiftCrc(c)
  BY ShiftType
<1>2. PICK t \in Registers : t = Square(c)
  BY SquareTable
<1>3. PICK u \in Registers : u = ShiftCrc(t)
  BY ShiftType
<1>4. PICK v \in Registers : v = ShiftCrc(u)
  BY ShiftType
<1>5. ShiftedBits(c, s) /\ SquaredBits(c, t) /\ ShiftedBits(t, u) /\ ShiftedBits(u, v)
  BY <1>1, <1>2, <1>3, <1>4, ShiftTable, SquareTable
<1>6. SquaredBits(s, v)
  BY <1>5 DEF ShiftedBits, SquaredBits
<1>7. Square(s) = v
  BY <1>6, SquareIs
<1>. QED  BY <1>1, <1>2, <1>3, <1>4, <1>7

\* Two registers that differ still differ after a shift.
LEMMA ShiftKeeps ==
  ASSUME NEW c \in Registers, NEW d \in Registers, ShiftCrc(c) = ShiftCrc(d)
  PROVE  c = d
<1>1. PICK s \in Registers : s = ShiftCrc(c) /\ s = ShiftCrc(d)
  BY ShiftType
<1>2. ShiftedBits(c, s) /\ ShiftedBits(d, s)
  BY <1>1, ShiftTable
<1>. QED  BY <1>2, SixteenBits DEF ShiftedBits

\* p[k] is where k shifts take the lowest bit.
Powers(p, n) ==
  /\ p \in [0 .. n -> Registers] /\ p[0] = {0}
  /\ \A k \in 1 .. n : p[k] = ShiftCrc(p[k - 1])

\* The shifts of the lowest bit can be listed to any length.
LEMMA PowersExist == ASSUME NEW n \in Nat PROVE \E p : Powers(p, n)
<1> DEFINE step == [k \in 1 .. n |-> [crc \in Registers |-> ShiftCrc(crc)]]
<1>1. step \in [1 .. n -> [Registers -> Registers]]
  BY ShiftType
<1>2. {0} \in Registers
  BY DEF Registers
<1>3. PICK p : Iterates(p, Registers, {0}, n, step)
  <2> HIDE DEF step
  <2>. QED  BY <1>1, <1>2, RecursionExists, Zenon
<1>4. ASSUME NEW k \in 1 .. n PROVE p[k] = ShiftCrc(p[k - 1])
  <2>1. k - 1 \in 0 .. n
    OBVIOUS
  <2>2. p[k - 1] \in Registers /\ p[k] = step[k][p[k - 1]]
    BY <1>3, <2>1 DEF Iterates
  <2>. QED  BY <2>2
<1>. QED  BY <1>3, <1>4 DEF Powers, Iterates

\* Twice as many shifts square the register.
LEMMA PowerDoubled ==
  ASSUME NEW n \in Nat, NEW p, Powers(p, n), NEW k \in Nat, 2 * k <= n
  PROVE  p[2 * k] = Square(p[k])
<1> DEFINE T == {i \in 0 .. k : p[2 * i] = Square(p[i])}
<1>1. 0 \in T
  <2>0. 2 * 0 = 0 /\ p[0] = {0}
    BY DEF Powers
  <2>1. {0} \in Registers
    BY DEF Registers
  <2>2. SquaredBits({0}, {0})
    BY DEF SquaredBits
  <2>3. Square({0}) = {0}
    BY <2>1, <2>2, SquareIs
  <2>4. p[2 * 0] = Square(p[0])
    BY <2>0, <2>3, Zenon
  <2>. QED  BY <2>4
<1>2. ASSUME NEW i \in 1 .. k, i - 1 \in T PROVE i \in T
  <2>1. PICK j \in Nat : j = i - 1 /\ i = j + 1 /\ p[2 * j] = Square(p[j])
    BY <1>2
  <2>2. /\ j \in 0 .. n /\ j + 1 \in 1 .. n /\ 2 * j + 1 \in 1 .. n /\ 2 * j + 2 \in 1 .. n
        /\ (2 * j + 1) - 1 = 2 * j /\ (2 * j + 2) - 1 = 2 * j + 1 /\ (j + 1) - 1 = j
        /\ 2 * i = 2 * j + 2
    BY <2>1
  <2>3. p[j] \in Registers /\ p[i] = ShiftCrc(p[j])
    BY <2>1, <2>2 DEF Powers
  <2>4. p[2 * j + 2] = ShiftCrc(ShiftCrc(p[2 * j]))
    BY <2>2 DEF Powers
  <2>5. p[2 * i] = Square(p[i])
    BY <2>1, <2>2, <2>3, <2>4, SquareShifted
  <2>. QED  BY <2>5
<1> HIDE DEF T
<1>3. 0 .. k \subseteq T
  BY <1>1, <1>2, Induction
<1>. QED  BY <1>3 DEF T

\* The same number of shifts keeps equal registers equal, and different ones
\* different.
LEMMA PowersMoved ==
  ASSUME NEW n \in Nat, NEW p, Powers(p, n), NEW i \in Nat, NEW j \in Nat
  PROVE  \A k \in Nat : i + k <= n /\ j + k <= n => (p[i + k] = p[j + k] <=> p[i] = p[j])
<1> SUFFICES ASSUME NEW k \in Nat, i + k <= n, j + k <= n
             PROVE  p[i + k] = p[j + k] <=> p[i] = p[j]
  OBVIOUS
<1> DEFINE T == {x \in 0 .. k : p[i + x] = p[j + x] <=> p[i] = p[j]}
<1>1. 0 \in T
  OBVIOUS
<1>2. ASSUME NEW x \in 1 .. k, x - 1 \in T PROVE x \in T
  <2>1. PICK c \in 1 .. n, d \in 1 .. n :
          c = i + x /\ d = j + x /\ c - 1 = i + (x - 1) /\ d - 1 = j + (x - 1)
          /\ c - 1 \in 0 .. n /\ d - 1 \in 0 .. n
    OBVIOUS
  <2>2. /\ p[c] = ShiftCrc(p[c - 1]) /\ p[d] = ShiftCrc(p[d - 1])
        /\ p[c - 1] \in Registers /\ p[d - 1] \in Registers
    BY <2>1 DEF Powers
  <2>3. p[c] = p[d] <=> p[c - 1] = p[d - 1]
    BY <2>2, ShiftKeeps
  <2>. QED  BY <1>2, <2>1, <2>3
<1> HIDE DEF T
<1>3. 0 .. k \subseteq T
  BY <1>1, <1>2, Induction
<1>. QED  BY <1>3 DEF T

\* If m shifts bring a register back, so do all multiples of m.
LEMMA PowersRepeat ==
  ASSUME NEW n \in Nat, NEW p, Powers(p, n), NEW m \in Nat, p[m] = p[0],
         NEW a \in Nat, NEW q \in Nat, NEW s \in 0 .. n, s = a + q * m
  PROVE  p[s] = p[a]
<1>1. \A k \in Nat : m + k <= n => p[m + k] = p[k]
  <2>1. 0 \in Nat
    OBVIOUS
  <2>2. \A k \in Nat : m + k <= n /\ 0 + k <= n => (p[m + k] = p[0 + k] <=> p[m] = p[0])
    BY <2>1, PowersMoved
  <2>3. \A k \in Nat : m + k <= n => 0 + k <= n /\ 0 + k = k
    OBVIOUS
  <2>. QED  BY <2>2, <2>3, Zenon
<1> DEFINE T == {x \in 0 .. q : p[a + x * m] = p[a]}
<1>2. 0 \in T
  BY a + 0 * m = a
<1>3. ASSUME NEW x \in 1 .. q, x - 1 \in T PROVE x \in T
  <2>1. PICK z \in Nat, t \in Nat :
          z = (x - 1) * m /\ t = x * m /\ t = z + m /\ p[a + z] = p[a]
    <3>1. x * m = (x - 1) * m + m /\ (x - 1) * m \in Nat /\ x * m \in Nat
      OBVIOUS
    <3>. QED  BY <1>3, <3>1
  <2> HIDE DEF T
  <2>2. a + t <= n
    <3>1. (q - x) * m \in Nat /\ q * m = x * m + (q - x) * m
      OBVIOUS
    <3>2. PICK u \in Nat, v \in Nat : u = q * m /\ v = (q - x) * m
      BY <3>1
    <3>. QED  BY <2>1, <3>1, <3>2
  <2>3. PICK k \in Nat : k = a + z /\ m + k = a + t
    BY <2>1
  <2>4. p[a + t] = p[a]
    BY <1>1, <2>1, <2>2, <2>3
  <2>. QED  BY <2>1, <2>4 DEF T
<1> HIDE DEF T
<1>4. 0 .. q \subseteq T
  BY <1>2, <1>3, Induction
<1>. QED  BY <1>4 DEF T

\* The bits of a shifted register determine it.
LEMMA ShiftIs ==
  ASSUME NEW c \in Registers, NEW d \in Registers, ShiftedBits(c, d)
  PROVE  ShiftCrc(c) = d
<1>1. ShiftCrc(c) \in Registers /\ ShiftedBits(c, ShiftCrc(c))
  BY ShiftTable, ShiftType
<1>. QED  BY <1>1, SixteenBits DEF ShiftedBits

\* So many shifts bring any bit back to where it was.
Period == 32767
LargeDivisor(k) == k = 4681 \/ k = 1057 \/ k = 217

\* Some powers, by squaring and shifting.
LEMMA PowerValues ==
  ASSUME NEW n \in Nat, Period < n, NEW p, Powers(p, n)
  PROVE  /\ p[Period] = {0}
         /\ \A k : LargeDivisor(k) => p[k] # {0}
<1>1. ASSUME NEW k \in Nat, 2 * k <= n, NEW d \in SUBSET (0 .. 15), SquaredBits(p[k], d)
      PROVE  p[2 * k] = d
  <2>1. p[k] \in Registers /\ d \in Registers
    BY <1>1 DEF Registers, Powers
  <2>2. Square(p[k]) = d
    BY <1>1, <2>1, SquareIs, Zenon
  <2>. QED  BY <1>1, <2>2, PowerDoubled
<1>2. ASSUME NEW k \in 1 .. n, NEW d \in SUBSET (0 .. 15), ShiftedBits(p[k - 1], d)
      PROVE  p[k] = d
  <2>1. p[k - 1] \in Registers /\ d \in Registers /\ p[k] = ShiftCrc(p[k - 1])
    BY <1>1 DEF Registers, Powers
  <2>. QED  BY <1>2, <2>1, ShiftIs, Zenon

\* vK is the register after K shifts of its lowest bit, iK the number K: the provers
\* see the names only, large numbers are slow.
<1> DEFINE v1 == {1}
           v2 == {2}
           v4 == {4}
           v8 == {8}
           v16 == {0, 5, 12}
           v32 == {4, 5, 8, 9, 10, 12, 13}
           v64 == {0, 5, 6, 11, 12, 13, 15}
           v128 == {2, 3, 4, 5, 6, 7, 9, 10, 11, 13, 15}
           v256 == {0, 3, 5, 9, 10, 11, 15}
           v512 == {2, 3, 4, 5, 6, 7, 8, 9, 12}
           v1024 == {2, 6, 7, 9, 10, 12, 13}
           v2048 == {4, 6, 8, 10, 11, 12, 13, 14, 15}
           v4096 == {1, 2, 3, 4, 7, 9, 11, 13, 15}
           v8192 == {2, 3, 4, 11, 15}
           v16384 == {3, 4, 6, 10, 14}
           v9 == {9}
           v18 == {2, 7, 14}
           v36 == {0, 1, 5, 6, 8, 9, 14}
           v72 == {0, 1, 4, 6, 7, 8, 9, 10, 14}
           v73 == {1, 2, 5, 7, 8, 9, 10, 11, 15}
           v146 == {3, 7, 8, 9, 14}
           v292 == {1, 2, 4, 7, 8, 9, 12}
           v584 == {7, 9, 13}
           v585 == {8, 10, 14}
           v1170 == {0, 1, 5, 6, 8}
           v2340 == {2, 5, 10}
           v4680 == {0, 5, 9, 10, 12}
           v4681 == {1, 6, 10, 11, 13}
           v33 == {5, 6, 9, 10, 11, 13, 14}
           v66 == {1, 2, 6, 7, 8, 14, 15}
           v132 == {1, 3, 7, 9, 10, 11, 14}
           v264 == {1, 2, 6, 8, 11, 12, 14}
           v528 == {0, 1, 4, 5, 7, 11, 12, 13, 14}
           v1056 == {0, 1, 2, 6, 8, 12, 13, 14, 15}
           v1057 == {0, 1, 2, 3, 5, 7, 9, 12, 13, 14, 15}
           v3 == {3}
           v6 == {6}
           v12 == {12}
           v13 == {13}
           v26 == {2, 6, 7, 10, 11, 14, 15}
           v27 == {0, 3, 5, 7, 8, 11, 15}
           v54 == {3, 5, 6, 8, 12}
           v108 == {4, 6, 8, 9, 10, 12, 13}
           v216 == {0, 5, 6, 10, 11, 13, 15}
           v217 == {0, 1, 5, 6, 7, 11, 14}
<1> DEFINE i1 == 1  i2 == 2  i4 == 4  i8 == 8  i16 == 16  i32 == 32  i64 == 64
           i128 == 128  i256 == 256  i512 == 512  i1024 == 1024  i2048 == 2048
           i4096 == 4096  i8192 == 8192  i16384 == 16384  i9 == 9  i18 == 18  i36 == 36
           i72 == 72  i73 == 73  i146 == 146  i292 == 292  i584 == 584  i585 == 585
           i1170 == 1170  i2340 == 2340  i4680 == 4680  i4681 == 4681  i33 == 33
           i66 == 66  i132 == 132  i264 == 264  i528 == 528  i1056 == 1056  i1057 == 1057
           i3 == 3  i6 == 6  i12 == 12  i13 == 13  i26 == 26  i27 == 27  i54 == 54
           i108 == 108  i216 == 216  i217 == 217
<1> HIDE DEF v1, i1, v2, i2, v4, i4, v8, i8, v16, i16, v32, i32, v64, i64, v128, i128,
             v256, i256, v512, i512, v1024, i1024, v2048, i2048, v4096, i4096, v8192, i8192,
             v16384, i16384, v9, i9, v18, i18, v36, i36, v72, i72, v73, i73, v146, i146,
             v292, i292, v584, i584, v585, i585, v1170, i1170, v2340, i2340, v4680, i4680,
             v4681, i4681, v33, i33, v66, i66, v132, i132, v264, i264, v528, i528,
             v1056, i1056, v1057, i1057, v3, i3, v6, i6, v12, i12, v13, i13, v26, i26,
             v27, i27, v54, i54, v108, i108, v216, i216, v217, i217
<1>3. p[i1] = v1 /\ v1 \in SUBSET (0 .. 15)
  <2>1. ShiftedBits({0}, v1) /\ v1 \in SUBSET (0 .. 15)
    BY DEF ShiftedBits, v1
  <2>2. {0} \in Registers /\ v1 \in Registers
    BY <2>1 DEF Registers
  <2>3. ShiftCrc({0}) = v1
    BY <2>1, <2>2, ShiftIs, Zenon
  <2>4. 1 \in 1 .. n
    BY DEF Period
  <2>5. p[1] = ShiftCrc(p[1 - 1]) /\ p[0] = {0}
    BY <2>4 DEF Powers
  <2>. QED  BY <2>1, <2>3, <2>5 DEF i1
<1>4. p[i2] = v2 /\ v2 \in SUBSET (0 .. 15)
  <2>1. SquaredBits(v1, v2) /\ v2 \in SUBSET (0 .. 15)
    BY DEF SquaredBits, v1, v2
  <2>2. 2 * i1 <= n /\ i1 \in Nat /\ i2 = 2 * i1
    BY DEF Period, i1, i2
  <2>3. SquaredBits(p[i1], v2)
    BY <1>3, <2>1, Zenon
  <2>. QED  BY <1>1, <2>1, <2>2, <2>3, Zenon
<1>5. p[i4] = v4 /\ v4 \in SUBSET (0 .. 15)
  <2>1. SquaredBits(v2, v4) /\ v4 \in SUBSET (0 .. 15)
    BY DEF SquaredBits, v2, v4
  <2>2. 2 * i2 <= n /\ i2 \in Nat /\ i4 = 2 * i2
    BY DEF Period, i2, i4
  <2>3. SquaredBits(p[i2], v4)
    BY <1>4, <2>1, Zenon
  <2>. QED  BY <1>1, <2>1, <2>2, <2>3, Zenon
<1>6. p[i8] = v8 /\ v8 \in SUBSET (0 .. 15)
  <2>1. SquaredBits(v4, v8) /\ v8 \in SUBSET (0 .. 15)
    BY DEF SquaredBits, v4, v8
  <2>2. 2 * i4 <= n /\ i4 \in Nat /\ i8 = 2 * i4
    BY DEF Period, i4, i8
  <2>3. SquaredBits(p[i4], v8)
    BY <1>5, <2>1, Zenon
  <2>. QED  BY <1>1, <2>1, <2>2, <2>3, Zenon
<1>7. p[i16] = v16 /\ v16 \in SUBSET (0 .. 15)
  <2>1. SquaredBits(v8, v16) /\ v16 \in SUBSET (0 .. 15)
    BY DEF SquaredBits, v8, v16
  <2>2. 2 * i8 <= n /\ i8 \in Nat /\ i16 = 2 * i8
    BY DEF Period, i8, i16
  <2>3. SquaredBits(p[i8], v16)
    BY <1>6, <2>1, Zenon
  <2>. QED  BY <1>1, <2>1, <2>2, <2>3, Zenon
<1>8. p[i32] = v32 /\ v32 \in SUBSET (0 .. 15)
  <2>1. SquaredBits(v16, v32) /\ v32 \in SUBSET (0 .. 15)
    BY DEF SquaredBits, v16, v32
  <2>2. 2 * i16 <= n /\ i16 \in Nat /\ i32 = 2 * i16
    BY DEF Period, i16, i32
  <2>3. SquaredBits(p[i16], v32)
    BY <1>7, <2>1, Zenon
  <2>. QED  BY <1>1, <2>1, <2>2, <2>3, Zenon
<1>9. p[i64] = v64 /\ v64 \in SUBSET (0 .. 15)
  <2>1. SquaredBits(v32, v64) /\ v64 \in SUBSET (0 .. 15)
    BY DEF SquaredBits, v32, v64
  <2>2. 2 * i32 <= n /\ i32 \in Nat /\ i64 = 2 * i32
    BY DEF Period, i32, i64
  <2>3. SquaredBits(p[i32], v64)
    BY <1>8, <2>1, Zenon
  <2>. QED  BY <1>1, <2>1, <2>2, <2>3, Zenon
<1>10. p[i128] = v128 /\ v128 \in SUBSET (0 .. 15)
  <2>1. SquaredBits(v64, v128) /\ v128 \in SUBSET (0 .. 15)
    BY DEF SquaredBits, v64, v128
  <2>2. 2 * i64 <= n /\ i64 \in Nat /\ i128 = 2 * i64
    BY DEF Period, i64, i128
  <2>3. SquaredBits(p[i64], v128)
    BY <1>9, <2>1, Zenon
  <2>. QED  BY <1>1, <2>1, <2>2, <2>3, Zenon
<1>11. p[i256] = v256 /\ v256 \in SUBSET (0 .. 15)
  <2>1. SquaredBits(v128, v256) /\ v256 \in SUBSET (0 .. 15)
    BY DEF SquaredBits, v128, v256
  <2>2. 2 * i128 <= n /\ i128 \in Nat /\ i256 = 2 * i128
    BY DEF Period, i128, i256
  <2>3. SquaredBits(p[i128], v256)
    BY <1>10, <2>1, Zenon
  <2>. QED  BY <1>1, <2>1, <2>2, <2>3, Zenon
<1>12. p[i512] = v512 /\ v512 \in SUBSET (0 .. 15)
  <2>1. SquaredBits(v256, v512) /\ v512 \in SUBSET (0 .. 15)
    BY DEF SquaredBits, v256, v512
  <2>2. 2 * i256 <= n /\ i256 \in Nat /\ i512 = 2 * i256
    BY DEF Period, i256, i512
  <2>3. SquaredBits(p[i256], v512)
    BY <1>11, <2>1, Zenon
  <2>. QED  BY <1>1, <2>1, <2>2, <2>3, Zenon
<1>13. p[i1024] = v1024 /\ v1024 \in SUBSET (0 .. 15)
  <2>1. SquaredBits(v512, v1024) /\ v1024 \in SUBSET (0 .. 15)
    BY DEF SquaredBits, v512, v1024
  <2>2. 2 * i512 <= n /\ i512 \in Nat /\ i1024 = 2 * i512
    BY DEF Period, i512, i1024
  <2>3. SquaredBits(p[i512], v1024)
    BY <1>12, <2>1, Zenon
  <2>. QED  BY <1>1, <2>1, <2>2, <2>3, Zenon
<1>14. p[i2048] = v2048 /\ v2048 \in SUBSET (0 .. 15)
  <2>1. SquaredBits(v1024, v2048) /\ v2048 \in SUBSET (0 .. 15)
    BY DEF SquaredBits, v1024, v2048
  <2>2. 2 * i1024 <= n /\ i1024 \in Nat /\ i2048 = 2 * i1024
    BY DEF Period, i1024, i2048
  <2>3. SquaredBits(p[i1024], v2048)
    BY <1>13, <2>1, Zenon
  <2>. QED  BY <1>1, <2>1, <2>2, <2>3, Zenon
<1>15. p[i4096] = v4096 /\ v4096 \in SUBSET (0 .. 15)
  <2>1. SquaredBits(v2048, v4096) /\ v4096 \in SUBSET (0 .. 15)
    BY DEF SquaredBits, v2048, v4096
  <2>2. 2 * i2048 <= n /\ i2048 \in Nat /\ i4096 = 2 * i2048
    BY DEF Period, i2048, i4096
  <2>3. SquaredBits(p[i2048], v4096)
    BY <1>14, <2>1, Zenon
  <2>. QED  BY <1>1, <2>1, <2>2, <2>3, Zenon
<1>16. p[i8192] = v8192 /\ v8192 \in SUBSET (0 .. 15)
  <2>1. SquaredBits(v4096, v8192) /\ v8192 \in SUBSET (0 .. 15)
    BY DEF SquaredBits, v4096, v8192
  <2>2. 2 * i4096 <= n /\ i4096 \in Nat /\ i8192 = 2 * i4096
    BY DEF Period, i4096, i8192
  <2>3. SquaredBits(p[i4096], v8192)
    BY <1>15, <2>1, Zenon
  <2>. QED  BY <1>1, <2>1, <2>2, <2>3, Zenon
<1>17. p[i16384] = v16384 /\ v16384 \in SUBSET (0 .. 15)
  <2>1. SquaredBits(v8192, v16384) /\ v16384 \in SUBSET (0 .. 15)
    BY DEF SquaredBits, v8192, v16384
  <2>2. 2 * i8192 <= n /\ i8192 \in Nat /\ i16384 = 2 * i8192
    BY DEF Period, i8192, i16384
  <2>3. SquaredBits(p[i8192], v16384)
    BY <1>16, <2>1, Zenon
  <2>. QED  BY <1>1, <2>1, <2>2, <2>3, Zenon
<1>18. p[2 * i16384] = v1 /\ v1 \in SUBSET (0 .. 15)
  <2>1. SquaredBits(v16384, v1) /\ v1 \in SUBSET (0 .. 15)
    BY DEF SquaredBits, v16384, v1
  <2>2. 2 * i16384 <= n /\ i16384 \in Nat
    BY DEF Period, i16384
  <2>3. SquaredBits(p[i16384], v1)
    BY <1>17, <2>1, Zenon
  <2>. QED  BY <1>1, <2>1, <2>2, <2>3, Zenon
<1>19. p[i9] = v9 /\ v9 \in SUBSET (0 .. 15)
  <2>1. ShiftedBits(v8, v9) /\ v9 \in SUBSET (0 .. 15)
    BY DEF ShiftedBits, v8, v9
  <2>2. i9 \in 1 .. n /\ i9 - 1 = i8
    BY DEF Period, i8, i9
  <2>3. ShiftedBits(p[i9 - 1], v9)
    BY <1>6, <2>1, <2>2, Zenon
  <2>. QED  BY <1>2, <2>1, <2>2, <2>3, Zenon
<1>20. p[i18] = v18 /\ v18 \in SUBSET (0 .. 15)
  <2>1. SquaredBits(v9, v18) /\ v18 \in SUBSET (0 .. 15)
    BY DEF SquaredBits, v9, v18
  <2>2. 2 * i9 <= n /\ i9 \in Nat /\ i18 = 2 * i9
    BY DEF Period, i9, i18
  <2>3. SquaredBits(p[i9], v18)
    BY <1>19, <2>1, Zenon
  <2>. QED  BY <1>1, <2>1, <2>2, <2>3, Zenon
<1>21. p[i36] = v36 /\ v36 \in SUBSET (0 .. 15)
  <2>1. SquaredBits(v18, v36) /\ v36 \in SUBSET (0 .. 15)
    BY DEF SquaredBits, v18, v36
  <2>2. 2 * i18 <= n /\ i18 \in Nat /\ i36 = 2 * i18
    BY DEF Period, i18, i36
  <2>3. SquaredBits(p[i18], v36)
    BY <1>20, <2>1, Zenon
  <2>. QED  BY <1>1, <2>1, <2>2, <2>3, Zenon
<1>22. p[i72] = v72 /\ v72 \in SUBSET (0 .. 15)
  <2>1. SquaredBits(v36, v72) /\ v72 \in SUBSET (0 .. 15)
    BY DEF SquaredBits, v36, v72
  <2>2. 2 * i36 <= n /\ i36 \in Nat /\ i72 = 2 * i36
    BY DEF Period, i36, i72
  <2>3. SquaredBits(p[i36], v72)
    BY <1>21, <2>1, Zenon
  <2>. QED  BY <1>1, <2>1, <2>2, <2>3, Zenon
<1>23. p[i73] = v73 /\ v73 \in SUBSET (0 .. 15)
  <2>1. ShiftedBits(v72, v73) /\ v73 \in SUBSET (0 .. 15)
    BY DEF ShiftedBits, v72, v73
  <2>2. i73 \in 1 .. n /\ i73 - 1 = i72
    BY DEF Period, i72, i73
  <2>3. ShiftedBits(p[i73 - 1], v73)
    BY <1>22, <2>1, <2>2, Zenon
  <2>. QED  BY <1>2, <2>1, <2>2, <2>3, Zenon
<1>24. p[i146] = v146 /\ v146 \in SUBSET (0 .. 15)
  <2>1. SquaredBits(v73, v146) /\ v146 \in SUBSET (0 .. 15)
    BY DEF SquaredBits, v73, v146
  <2>2. 2 * i73 <= n /\ i73 \in Nat /\ i146 = 2 * i73
    BY DEF Period, i73, i146
  <2>3. SquaredBits(p[i73], v146)
    BY <1>23, <2>1, Zenon
  <2>. QED  BY <1>1, <2>1, <2>2, <2>3, Zenon
<1>25. p[i292] = v292 /\ v292 \in SUBSET (0 .. 15)
  <2>1. SquaredBits(v146, v292) /\ v292 \in SUBSET (0 .. 15)
    BY DEF SquaredBits, v146, v292
  <2>2. 2 * i146 <= n /\ i146 \in Nat /\ i292 = 2 * i146
    BY DEF Period, i146, i292
  <2>3. SquaredBits(p[i146], v292)
    BY <1>24, <2>1, Zenon
  <2>. QED  BY <1>1, <2>1, <2>2, <2>3, Zenon
<1>26. p[i584] = v584 /\ v584 \in SUBSET (0 .. 15)
  <2>1. SquaredBits(v292, v584) /\ v584 \in SUBSET (0 .. 15)
    BY DEF SquaredBits, v292, v584
  <2>2. 2 * i292 <= n /\ i292 \in Nat /\ i584 = 2 * i292
    BY DEF Period, i292, i584
  <2>3. SquaredBits(p[i292], v584)
    BY <1>25, <2>1, Zenon
  <2>. QED  BY <1>1, <2>1, <2>2, <2>3, Zenon
<1>27. p[i585] = v585 /\ v585 \in SUBSET (0 .. 15)
  <2>1. ShiftedBits(v584, v585) /\ v585 \in SUBSET (0 .. 15)
    BY DEF ShiftedBits, v584, v585
  <2>2. i585 \in 1 .. n /\ i585 - 1 = i584
    BY DEF Period, i584, i585
  <2>3. ShiftedBits(p[i585 - 1], v585)
    BY <1>26, <2>1, <2>2, Zenon
  <2>. QED  BY <1>2, <2>1, <2>2, <2>3, Zenon
<1>28. p[i1170] = v1170 /\ v1170 \in SUBSET (0 .. 15)
  <2>1. SquaredBits(v585, v1170) /\ v1170 \in SUBSET (0 .. 15)
    BY DEF SquaredBits, v585, v1170
  <2>2. 2 * i585 <= n /\ i585 \in Nat /\ i1170 = 2 * i585
    BY DEF Period, i585, i1170
  <2>3. SquaredBits(p[i585], v1170)
    BY <1>27, <2>1, Zenon
  <2>. QED  BY <1>1, <2>1, <2>2, <2>3, Zenon
<1>29. p[i2340] = v2340 /\ v2340 \in SUBSET (0 .. 15)
  <2>1. SquaredBits(v1170, v2340) /\ v2340 \in SUBSET (0 .. 15)
    BY DEF SquaredBits, v1170, v2340
  <2>2. 2 * i1170 <= n /\ i1170 \in Nat /\ i2340 = 2 * i1170
    BY DEF Period, i1170, i2340
  <2>3. SquaredBits(p[i1170], v2340)
    BY <1>28, <2>1, Zenon
  <2>. QED  BY <1>1, <2>1, <2>2, <2>3, Zenon
<1>30. p[i4680] = v4680 /\ v4680 \in SUBSET (0 .. 15)
  <2>1. SquaredBits(v2340, v4680) /\ v4680 \in SUBSET (0 .. 15)
    BY DEF SquaredBits, v2340, v4680
  <2>2. 2 * i2340 <= n /\ i2340 \in Nat /\ i4680 = 2 * i2340
    BY DEF Period, i2340, i4680
  <2>3. SquaredBits(p[i2340], v4680)
    BY <1>29, <2>1, Zenon
  <2>. QED  BY <1>1, <2>1, <2>2, <2>3, Zenon
<1>31. p[i4681] = v4681 /\ v4681 \in SUBSET (0 .. 15)
  <2>1. ShiftedBits(v4680, v4681) /\ v4681 \in SUBSET (0 .. 15)
    BY DEF ShiftedBits, v4680, v4681
  <2>2. i4681 \in 1 .. n /\ i4681 - 1 = i4680
    BY DEF Period, i4680, i4681
  <2>3. ShiftedBits(p[i4681 - 1], v4681)
    BY <1>30, <2>1, <2>2, Zenon
  <2>. QED  BY <1>2, <2>1, <2>2, <2>3, Zenon
<1>32. p[i33] = v33 /\ v33 \in SUBSET (0 .. 15)
  <2>1. ShiftedBits(v32, v33) /\ v33 \in SUBSET (0 .. 15)
    BY DEF ShiftedBits, v32, v33
  <2>2. i33 \in 1 .. n /\ i33 - 1 = i32
    BY DEF Period, i32, i33
  <2>3. ShiftedBits(p[i33 - 1], v33)
    BY <1>8, <2>1, <2>2, Zenon
  <2>. QED  BY <1>2, <2>1, <2>2, <2>3, Zenon
<1>33. p[i66] = v66 /\ v66 \in SUBSET (0 .. 15)
  <2>1. SquaredBits(v33, v66) /\ v66 \in SUBSET (0 .. 15)
    BY DEF SquaredBits, v33, v66
  <2>2. 2 * i33 <= n /\ i33 \in Nat /\ i66 = 2 * i33
    BY DEF Period, i33, i66
  <2>3. SquaredBits(p[i33], v66)
    BY <1>32, <2>1, Zenon
  <2>. QED  BY <1>1, <2>1, <2>2, <2>3, Zenon
<1>34. p[i132] = v132 /\ v132 \in SUBSET (0 .. 15)
  <2>1. SquaredBits(v66, v132) /\ v132 \in SUBSET (0 .. 15)
    BY DEF SquaredBits, v66, v132
  <2>2. 2 * i66 <= n /\ i66 \in Nat /\ i132 = 2 * i66
    BY DEF Period, i66, i132
  <2>3. SquaredBits(p[i66], v132)
    BY <1>33, <2>1, Zenon
  <2>. QED  BY <1>1, <2>1, <2>2, <2>3, Zenon
<1>35. p[i264] = v264 /\ v264 \in SUBSET (0 .. 15)
  <2>1. SquaredBits(v132, v264) /\ v264 \in SUBSET (0 .. 15)
    BY DEF SquaredBits, v132, v264
  <2>2. 2 * i132 <= n /\ i132 \in Nat /\ i264 = 2 * i132
    BY DEF Period, i132, i264
  <2>3. SquaredBits(p[i132], v264)
    BY <1>34, <2>1, Zenon
  <2>. QED  BY <1>1, <2>1, <2>2, <2>3, Zenon
<1>36. p[i528] = v528 /\ v528 \in SUBSET (0 .. 15)
  <2>1. SquaredBits(v264, v528) /\ v528 \in SUBSET (0 .. 15)
    BY DEF SquaredBits, v264, v528
  <2>2. 2 * i264 <= n /\ i264 \in Nat /\ i528 = 2 * i264
    BY DEF Period, i264, i528
  <2>3. SquaredBits(p[i264], v528)
    BY <1>35, <2>1, Zenon
  <2>. QED  BY <1>1, <2>1, <2>2, <2>3, Zenon
<1>37. p[i1056] = v1056 /\ v1056 \in SUBSET (0 .. 15)
  <2>1. SquaredBits(v528, v1056) /\ v1056 \in SUBSET (0 .. 15)
    BY DEF SquaredBits, v528, v1056
  <2>2. 2 * i528 <= n /\ i528 \in Nat /\ i1056 = 2 * i528
    BY DEF Period, i528, i1056
  <2>3. SquaredBits(p[i528], v1056)
    BY <1>36, <2>1, Zenon
  <2>. QED  BY <1>1, <2>1, <2>2, <2>3, Zenon
<1>38. p[i1057] = v1057 /\ v1057 \in SUBSET (0 .. 15)
  <2>1. ShiftedBits(v1056, v1057) /\ v1057 \in SUBSET (0 .. 15)
    BY DEF ShiftedBits, v1056, v1057
  <2>2. i1057 \in 1 .. n /\ i1057 - 1 = i1056
    BY DEF Period, i1056, i1057
  <2>3. ShiftedBits(p[i1057 - 1], v1057)
    BY <1>37, <2>1, <2>2, Zenon
  <2>. QED  BY <1>2, <2>1, <2>2, <2>3, Zenon
<1>39. p[i3] = v3 /\ v3 \in SUBSET (0 .. 15)
  <2>1. ShiftedBits(v2, v3) /\ v3 \in SUBSET (0 .. 15)
    BY DEF ShiftedBits, v2, v3
  <2>2. i3 \in 1 .. n /\ i3 - 1 = i2
    BY DEF Period, i2, i3
  <2>3. ShiftedBits(p[i3 - 1], v3)
    BY <1>4, <2>1, <2>2, Zenon
  <2>. QED  BY <1>2, <2>1, <2>2, <2>3, Zenon
<1>40. p[i6] = v6 /\ v6 \in SUBSET (0 .. 15)
  <2>1. SquaredBits(v3, v6) /\ v6 \in SUBSET (0 .. 15)
    BY DEF SquaredBits, v3, v6
  <2>2. 2 * i3 <= n /\ i3 \in Nat /\ i6 = 2 * i3
    BY DEF Period, i3, i6
  <2>3. SquaredBits(p[i3], v6)
    BY <1>39, <2>1, Zenon
  <2>. QED  BY <1>1, <2>1, <2>2, <2>3, Zenon
<1>41. p[i12] = v12 /\ v12 \in SUBSET (0 .. 15)
  <2>1. SquaredBits(v6, v12) /\ v12 \in SUBSET (0 .. 15)
    BY DEF SquaredBits, v6, v12
  <2>2. 2 * i6 <= n /\ i6 \in Nat /\ i12 = 2 * i6
    BY DEF Period, i6, i12
  <2>3. SquaredBits(p[i6], v12)
    BY <1>40, <2>1, Zenon
  <2>. QED  BY <1>1, <2>1, <2>2, <2>3, Zenon
<1>42. p[i13] = v13 /\ v13 \in SUBSET (0 .. 15)
  <2>1. ShiftedBits(v12, v13) /\ v13 \in SUBSET (0 .. 15)
    BY DEF ShiftedBits, v12, v13
  <2>2. i13 \in 1 .. n /\ i13 - 1 = i12
    BY DEF Period, i12, i13
  <2>3. ShiftedBits(p[i13 - 1], v13)
    BY <1>41, <2>1, <2>2, Zenon
  <2>. QED  BY <1>2, <2>1, <2>2, <2>3, Zenon
<1>43. p[i26] = v26 /\ v26 \in SUBSET (0 .. 15)
  <2>1. SquaredBits(v13, v26) /\ v26 \in SUBSET (0 .. 15)
    BY DEF SquaredBits, v13, v26
  <2>2. 2 * i13 <= n /\ i13 \in Nat /\ i26 = 2 * i13
    BY DEF Period, i13, i26
  <2>3. SquaredBits(p[i13], v26)
    BY <1>42, <2>1, Zenon
  <2>. QED  BY <1>1, <2>1, <2>2, <2>3, Zenon
<1>44. p[i27] = v27 /\ v27 \in SUBSET (0 .. 15)
  <2>1. ShiftedBits(v26, v27) /\ v27 \in SUBSET (0 .. 15)
    BY DEF ShiftedBits, v26, v27
  <2>2. i27 \in 1 .. n /\ i27 - 1 = i26
    BY DEF Period, i26, i27
  <2>3. ShiftedBits(p[i27 - 1], v27)
    BY <1>43, <2>1, <2>2, Zenon
  <2>. QED  BY <1>2, <2>1, <2>2, <2>3, Zenon
<1>45. p[i54] = v54 /\ v54 \in SUBSET (0 .. 15)
  <2>1. SquaredBits(v27, v54) /\ v54 \in SUBSET (0 .. 15)
    BY DEF SquaredBits, v27, v54
  <2>2. 2 * i27 <= n /\ i27 \in Nat /\ i54 = 2 * i27
    BY DEF Period, i27, i54
  <2>3. SquaredBits(p[i27], v54)
    BY <1>44, <2>1, Zenon
  <2>. QED  BY <1>1, <2>1, <2>2, <2>3, Zenon
<1>46. p[i108] = v108 /\ v108 \in SUBSET (0 .. 15)
  <2>1. SquaredBits(v54, v108) /\ v108 \in SUBSET (0 .. 15)
    BY DEF SquaredBits, v54, v108
  <2>2. 2 * i54 <= n /\ i54 \in Nat /\ i108 = 2 * i54
    BY DEF Period, i54, i108
  <2>3. SquaredBits(p[i54], v108)
    BY <1>45, <2>1, Zenon
  <2>. QED  BY <1>1, <2>1, <2>2, <2>3, Zenon
<1>47. p[i216] = v216 /\ v216 \in SUBSET (0 .. 15)
  <2>1. SquaredBits(v108, v216) /\ v216 \in SUBSET (0 .. 15)
    BY DEF SquaredBits, v108, v216
  <2>2. 2 * i108 <= n /\ i108 \in Nat /\ i216 = 2 * i108
    BY DEF Period, i108, i216
  <2>3. SquaredBits(p[i108], v216)
    BY <1>46, <2>1, Zenon
  <2>. QED  BY <1>1, <2>1, <2>2, <2>3, Zenon
<1>48. p[i217] = v217 /\ v217 \in SUBSET (0 .. 15)
  <2>1. ShiftedBits(v216, v217) /\ v217 \in SUBSET (0 .. 15)
    BY DEF ShiftedBits, v216, v217
  <2>2. i217 \in 1 .. n /\ i217 - 1 = i216
    BY DEF Period, i216, i217
  <2>3. ShiftedBits(p[i217 - 1], v217)
    BY <1>47, <2>1, <2>2, Zenon
  <2>. QED  BY <1>2, <2>1, <2>2, <2>3, Zenon
<1>49. p[Period] = {0}
  <2>1. 0 \in Nat /\ Period \in Nat
    BY DEF Period
  <2>2. \A k \in Nat : 0 + k <= n /\ Period + k <= n
          => (p[0 + k] = p[Period + k] <=> p[0] = p[Period])
    BY <2>1, PowersMoved
  <2>3. 0 + 1 <= n /\ Period + 1 <= n /\ 1 \in Nat
    BY DEF Period
  <2>4. p[0 + 1] = p[Period + 1] <=> p[0] = p[Period]
    BY <2>2, <2>3, Zenon
  <2>5. p[0 + 1] = p[Period + 1]
    BY <1>3, <1>18 DEF Period, i1, i16384
  <2>. QED  BY <2>4, <2>5 DEF Powers
<1>. QED  BY <1>48, <1>38, <1>31, <1>49 DEF LargeDivisor, v217, i217, v1057, i1057, v4681, i4681

\* The divisors of the period that can be the smaller of two.
LEMMA PeriodDivisor ==
  ASSUME NEW q \in 2 .. 181, NEW m \in Nat, q * m = 32767
  PROVE  q = 7 \/ q = 31 \/ q = 151
BY SMT

\* The period is 7 * 31 * 151: a proper divisor of it divides one of its three
\* largest proper divisors.
LEMMA PeriodFactors ==
  ASSUME NEW m \in Nat, NEW q \in Nat, q * m = Period, q # 1
  PROVE  \E k \in Nat : LargeDivisor(k * m)
<1>1. CASE q <= 181
  <2>1. q # 0 /\ q * m = 32767
    BY DEF Period
  <2>2. q = 7 \/ q = 31 \/ q = 151
    <3>1. q \in 2 .. 181
      BY <1>1, <2>1
    <3>. QED  BY <2>1, <3>1, PeriodDivisor
  <2>3. 1 * m = 4681 \/ 1 * m = 1057 \/ 1 * m = 217
    BY <2>2, <2>1
  <2>. QED  BY <2>3 DEF LargeDivisor
<1>2. CASE ~(q <= 181)
  <2>1. m <= 181
    <3>1. SUFFICES ASSUME ~(m <= 181) PROVE FALSE
      OBVIOUS
    <3>2. PICK a \in Nat, b \in Nat : q = 182 + a /\ m = 182 + b
      <4>1. q - 182 \in Nat /\ m - 182 \in Nat
        BY <1>2, <3>1
      <4>. QED  BY <4>1
    <3>3. (182 + a) * (182 + b) = 33124 + 182 * a + 182 * b + a * b /\ a * b \in Nat
      OBVIOUS
    <3>. QED  BY <3>2, <3>3 DEF Period
  <2>2. m # 0 /\ m * q = Period
    BY DEF Period
  <2>3. m = 1 \/ m = 7 \/ m = 31 \/ m = 151
    BY <2>1, <2>2, PeriodDivisor DEF Period
  <2>4. 217 * m = 217 \/ 31 * m = 217 \/ 7 * m = 217 \/ 7 * m = 1057
    BY <2>3
  <2>. QED  BY <2>4 DEF LargeDivisor
<1>. QED  BY <1>1, <1>2

\* Fewer shifts than the period do not bring a bit back to where it was.
LEMMA PowersReturnLate ==
  ASSUME NEW n \in Nat, Period < n, NEW p, Powers(p, n), NEW d \in 1 .. (Period - 1)
  PROVE  p[d] # p[0]
<1> SUFFICES ASSUME p[d] = p[0] PROVE FALSE
  OBVIOUS
<1> DEFINE T == {i \in 1 .. Period : p[i] = p[0]}
<1>1. Period \in Nat /\ Period \in 0 .. n
  BY DEF Period
<1>2. T \subseteq Nat /\ d \in T
  BY <1>1
<1>3. PICK m \in T : \A i \in T : m <= i
  BY <1>2, LeastElement
<1>4. m \in 1 .. (Period - 1) /\ m \in Nat /\ p[m] = p[0]
  BY <1>1, <1>2, <1>3
<1>5. PICK q \in Nat, r \in Nat : r < m /\ Period = r + q * m
  <2>1. Period = (Period \div m) * m + (Period % m) /\ Period % m \in 0 .. (m - 1)
    BY <1>1, <1>4, ModDivision
  <2>2. Period \div m \in Nat
    BY <1>1, <1>4
  <2>3. /\ Period % m \in Nat /\ Period % m < m
        /\ Period = (Period % m) + (Period \div m) * m
    BY <1>1, <1>4, <2>1, <2>2
  <2>. QED  BY <2>2, <2>3, Zenon
<1>6. r = 0
  <2>1. p[Period] = p[r]
    BY <1>1, <1>4, <1>5, PowersRepeat
  <2>2. p[Period] = p[0]
    BY PowerValues DEF Powers
  <2>3. r # 0 => r \in T
    <3>1. r \in Nat /\ r < m /\ m \in 1 .. (Period - 1) /\ Period \in Nat
      BY <1>1, <1>4, <1>5
    <3>2. r # 0 => r \in 1 .. Period
      BY <3>1
    <3>3. p[r] = p[0]
      BY <2>1, <2>2
    <3>. QED  BY <3>2, <3>3, Zenon
  <2> HIDE DEF T
  <2>4. r \in T => m <= r
    BY <1>3
  <2>. QED  BY <1>4, <1>5, <2>3, <2>4
<1>7. q * m = Period /\ q # 1
  <2>1. q * m \in Nat /\ (q = 1 => q * m = m)
    BY <1>4
  <2>. QED  BY <1>1, <1>4, <1>5, <1>6, <2>1
<1>8. PICK k \in Nat : LargeDivisor(k * m)
  BY <1>4, <1>7, PeriodFactors, Zenon
<1>9. PICK s \in 0 .. n : s = 0 + k * m /\ LargeDivisor(s)
  BY <1>8 DEF Period, LargeDivisor
<1>10. p[s] = p[0]
  BY <1>4, <1>9, PowersRepeat
<1>11. p[s] # p[0]
  BY <1>9, PowerValues DEF Powers
<1>. QED  BY <1>10, <1>11

\* Two shifts of a bit that are less than a period apart differ.
LEMMA PowersDiffer ==
  ASSUME NEW n \in Nat, Period < n, NEW p, Powers(p, n),
         NEW x \in Nat, NEW y \in Nat, x <= n, y < x, x - y < Period
  PROVE  p[x] # p[y]
<1>1. PICK d \in Nat : d = x - y /\ d + y = x /\ d >= 1 /\ d < Period
  <2>1. x - y \in Nat /\ (x - y) + y = x /\ x - y >= 1
    OBVIOUS
  <2>. QED  BY <2>1
<1>2. d \in 1 .. (Period - 1) /\ 0 + y = y /\ 0 \in Nat /\ y <= n
  BY <1>1 DEF Period
<1>3. \A k \in Nat : d + k <= n /\ 0 + k <= n => (p[d + k] = p[0 + k] <=> p[d] = p[0])
  BY <1>2, PowersMoved
<1>4. p[x] = p[y] <=> p[d] = p[0]
  BY <1>1, <1>2, <1>3
<1>. QED  BY <1>2, <1>4, PowersReturnLate

-------------------------------------------------------------------------------
(* Two wrong bits                                                          *)

\* As long as no bit falls out at the top, the bit just moves up.
LEMMA LowPowers ==
  ASSUME NEW n \in Nat, NEW p, Powers(p, n), 15 <= n, NEW k \in 0 .. 15
  PROVE  p[k] = {k}
<1> DEFINE T == {i \in 0 .. 15 : p[i] = {i}}
<1>1. 0 \in T
  BY DEF Powers
<1>2. ASSUME NEW i \in 1 .. 15, i - 1 \in T PROVE i \in T
  <2>1. i \in 1 .. n /\ i - 1 \in 0 .. 14 /\ (i - 1) + 1 = i
    OBVIOUS
  <2>2. p[i - 1] = {i - 1} /\ p[i] = ShiftCrc({i - 1})
    BY <1>2, <2>1 DEF Powers
  <2>3. {i - 1} \in Registers /\ 15 \notin {i - 1}
    BY <2>1 DEF Registers
  <2>4. ShiftCrc({i - 1}) = {b + 1 : b \in {i - 1}}
    BY <2>3, ShiftUp
  <2>. QED  BY <2>1, <2>2, <2>4
<1> HIDE DEF T
<1>3. 0 .. 15 \subseteq T
  BY <1>1, <1>2, Induction
<1>. QED  BY <1>3 DEF T

\* Eight steps further in the list is one byte further in the loop.
LEMMA PowersEight ==
  ASSUME NEW n \in Nat, NEW p, Powers(p, n), NEW k \in Nat, NEW m \in 0 .. n, m = k + 8
  PROVE  ShiftEight(p[k]) = p[m] /\ p[k] \in Registers /\ p[m] \in Registers
<1>1. \A i \in 1 .. 8 : p[k + i] = ShiftCrc(p[k + (i - 1)])
  BY DEF Powers
<1>2. /\ p[k + 1] = ShiftCrc(p[k]) /\ p[k + 2] = ShiftCrc(p[k + 1])
      /\ p[k + 3] = ShiftCrc(p[k + 2]) /\ p[k + 4] = ShiftCrc(p[k + 3])
      /\ p[k + 5] = ShiftCrc(p[k + 4]) /\ p[k + 6] = ShiftCrc(p[k + 5])
      /\ p[k + 7] = ShiftCrc(p[k + 6]) /\ p[k + 8] = ShiftCrc(p[k + 7])
  BY <1>1
<1>3. p[k] \in Registers /\ p[m] \in Registers
  BY DEF Powers
<1>. QED  BY <1>2, <1>3 DEF ShiftEight

\* A wrong bit b of the byte that has q bytes before it: the difference it
\* brings to the register with byte k, and what is left of it after byte k.
Brought(q, b, k) == IF k = q + 1 THEN {b + 8} ELSE {}
Left(p, q, b, k) == IF k > q THEN p[8 * (k - q) + b + 8] ELSE {}

\* Byte by byte, the difference develops as the register itself does.
Develops(p, n, q, b) ==
  \A k \in Nat \ {0} : 8 * (k - q) + b + 8 <= n =>
    /\ Left(p, q, b, k - 1) \in Registers /\ Brought(q, b, k) \in Registers
    /\ Left(p, q, b, k) = ShiftEight(Xor(Left(p, q, b, k - 1), Brought(q, b, k)))

\* The shifts of the wrong bit are what its difference develops through.
LEMMA LeftDevelops ==
  ASSUME NEW n \in Nat, NEW p, Powers(p, n), 15 <= n, NEW q \in Nat, NEW b \in 0 .. 7
  PROVE  Develops(p, n, q, b)
<1> SUFFICES ASSUME NEW k \in Nat \ {0}, 8 * (k - q) + b + 8 <= n
             PROVE  /\ Left(p, q, b, k - 1) \in Registers /\ Brought(q, b, k) \in Registers
                    /\ Left(p, q, b, k)
                         = ShiftEight(Xor(Left(p, q, b, k - 1), Brought(q, b, k)))
  BY DEF Develops
<1>0. {} \in Registers /\ {b + 8} \in Registers
  BY DEF Registers
<1>1. Xor({}, {}) = {} /\ Xor({}, {b + 8}) = {b + 8} /\ \A r : Xor(r, {}) = r
  BY DEF Xor
<1>2. CASE k <= q
  <2>1. Left(p, q, b, k - 1) = {} /\ Brought(q, b, k) = {} /\ Left(p, q, b, k) = {}
    BY <1>2 DEF Left, Brought
  <2>. QED  BY <1>0, <1>1, <2>1, ShiftEightNone
<1>3. CASE k = q + 1
  <2>1. Left(p, q, b, k - 1) = {} /\ Brought(q, b, k) = {b + 8}
    BY <1>3 DEF Left, Brought
  <2>2. Left(p, q, b, k) = p[b + 16]
    <3>1. k > q /\ 8 * (k - q) + b + 8 = b + 16
      BY <1>3
    <3>. QED  BY <3>1 DEF Left
  <2>3. p[b + 8] = {b + 8} /\ p[b + 16] = ShiftEight(p[b + 8])
    <3>1. b + 8 \in 0 .. 15 /\ b + 8 \in Nat /\ b + 16 \in 0 .. n /\ b + 16 = (b + 8) + 8
      BY <1>3
    <3>2. p[b + 8] = {b + 8}
      BY <3>1, LowPowers
    <3>3. PICK i \in Nat, m \in 0 .. n : i = b + 8 /\ m = b + 16 /\ m = i + 8
      BY <3>1
    <3>4. p[m] = ShiftEight(p[i])
      BY <3>3, PowersEight
    <3>. QED  BY <3>2, <3>3, <3>4
  <2>. QED  BY <1>0, <1>1, <2>1, <2>2, <2>3
<1>4. CASE k > q + 1
  <2>1. PICK m \in Nat, i \in 0 .. n :
          m = 8 * ((k - 1) - q) + b + 8 /\ i = 8 * (k - q) + b + 8 /\ i = m + 8
    BY <1>4
  <2>2. Left(p, q, b, k - 1) = p[m] /\ Brought(q, b, k) = {} /\ Left(p, q, b, k) = p[i]
    BY <1>4, <2>1 DEF Left, Brought
  <2>3. ShiftEight(p[m]) = p[i] /\ p[m] \in Registers
    BY <2>1, PowersEight
  <2>. QED  BY <1>0, <1>1, <2>2, <2>3
<1>. QED  BY <1>2, <1>3, <1>4

\* Where one byte differs from another.
DiffersIn(w, v, flips) ==
  \A k \in 1 .. Len(w) : Xor(Upper(w[k]), Upper(v[k]))
    = {c + 8 : c \in {b \in 0 .. 7 : 8 * (k - 1) + b \in flips}}

\* The bits that are wrong are the bits in which the bytes differ.
LEMMA UpperDifference ==
  ASSUME NEW w \in Seq(Byte), NEW v \in Seq(Byte), Len(w) = Len(v), NEW flips,
         Ones(w, Len(w)) = Xor(Ones(v, Len(v)), flips)
  PROVE  DiffersIn(w, v, flips)
<1> SUFFICES ASSUME NEW k \in 1 .. Len(w)
             PROVE  Xor(Upper(w[k]), Upper(v[k]))
                      = {c + 8 : c \in {b \in 0 .. 7 : 8 * (k - 1) + b \in flips}}
  BY DEF DiffersIn
<1>1. w[k] \in Byte /\ v[k] \in Byte /\ k \in Nat /\ 1 <= k /\ k <= Len(w)
  OBVIOUS
<1>2. BitsOf(w[k]) \subseteq 0 .. 7 /\ BitsOf(v[k]) \subseteq 0 .. 7
  BY <1>1, ByteBits
<1>3. ASSUME NEW b \in 0 .. 7
      PROVE  8 * (k - 1) + b \in flips <=> ~(b \in BitsOf(w[k]) <=> b \in BitsOf(v[k]))
  <2>1. PICK p \in 0 .. 8 * Len(w) - 1 : p = 8 * (k - 1) + b
    BY <1>1
  <2>2. p % 8 = b /\ p \div 8 + 1 = k
    BY <1>1, <2>1
  <2>3. p \in Ones(w, Len(w)) <=> b \in BitsOf(w[k])
    BY <2>1, <2>2 DEF Ones
  <2>4. p \in Ones(v, Len(v)) <=> b \in BitsOf(v[k])
    BY <2>1, <2>2 DEF Ones
  <2>5. p \in Ones(w, Len(w)) <=> (p \in Ones(v, Len(v)) /\ p \notin flips)
                                    \/ (p \notin Ones(v, Len(v)) /\ p \in flips)
    BY XorBits
  <2>. QED  BY <2>1, <2>3, <2>4, <2>5
<1>4. ASSUME NEW c
      PROVE  c \in Xor(Upper(w[k]), Upper(v[k]))
               <=> \E b \in 0 .. 7 : c = b + 8 /\ 8 * (k - 1) + b \in flips
  <2>1. /\ c \in Upper(w[k]) <=> \E b \in BitsOf(w[k]) : c = b + 8
        /\ c \in Upper(v[k]) <=> \E b \in BitsOf(v[k]) : c = b + 8
    BY DEF Upper
  <2>2. \A a, b \in 0 .. 7 : a + 8 = b + 8 => a = b
    OBVIOUS
  <2>3. \A b \in 0 .. 7 : c = b + 8
          => /\ c \in Upper(w[k]) <=> b \in BitsOf(w[k])
             /\ c \in Upper(v[k]) <=> b \in BitsOf(v[k])
    BY <1>2, <2>1, <2>2
  <2>4. c \in Xor(Upper(w[k]), Upper(v[k]))
          <=> (c \in Upper(w[k]) /\ c \notin Upper(v[k]))
                \/ (c \notin Upper(w[k]) /\ c \in Upper(v[k]))
    BY XorBits
  <2>5. c \in Upper(w[k]) \/ c \in Upper(v[k]) => \E b \in 0 .. 7 : c = b + 8
    BY <1>2, <2>1
  <2>6. ASSUME NEW b \in 0 .. 7, c = b + 8
        PROVE  c \in Xor(Upper(w[k]), Upper(v[k])) <=> 8 * (k - 1) + b \in flips
    <3>1. 8 * (k - 1) + b \in flips <=> ~(b \in BitsOf(w[k]) <=> b \in BitsOf(v[k]))
      BY <1>3
    <3>2. /\ c \in Upper(w[k]) <=> b \in BitsOf(w[k])
          /\ c \in Upper(v[k]) <=> b \in BitsOf(v[k])
      BY <2>3, <2>6, Zenon
    <3>. QED  BY <2>4, <3>1, <3>2, Zenon
  <2>. QED  BY <2>4, <2>5, <2>6, Zenon
<1>. QED  BY <1>4

\* Two messages with right checksums (crc.c:11-20) do not differ in exactly two
\* bits, if they are shorter than the period.
THEOREM TwoBitsShow ==
  ASSUME NEW w, NEW v, Valid(w), Valid(v), Len(w) = Len(v), 8 * Len(w) < Period,
         NEW lo \in 0 .. 8 * Len(w) - 1, NEW hi \in 0 .. 8 * Len(w) - 1, lo # hi
  PROVE  Ones(w, Len(w)) # Xor(Ones(v, Len(v)), {lo, hi})
<1> SUFFICES ASSUME Ones(w, Len(w)) = Xor(Ones(v, Len(v)), {lo, hi}) PROVE FALSE
  OBVIOUS
<1> DEFINE end == Len(w)
<1>1. w \in Seq(Byte) /\ v \in Seq(Byte) /\ end \in Nat /\ Len(v) = end
  BY DEF Valid
<1>2. PICK r, s : Run(w, r) /\ Run(v, s)
  BY <1>1, RunExists
<1>3. \A j \in 0 .. end : r[j] \in Registers /\ s[j] \in Registers
  BY <1>1, <1>2 DEF Run
<1>4. \A j \in 1 .. end : w[j] \in Byte /\ v[j] \in Byte /\ j - 1 \in 0 .. end /\ j \in 0 .. end
  BY <1>1
<1>5. PICK n \in Nat : n = Period + 8 * end + 24
  BY <1>1 DEF Period
<1>6. PICK p : Powers(p, n)
  BY PowersExist
<1>7. PICK q1 \in Nat, b1 \in 0 .. 7 : lo = 8 * q1 + b1 /\ q1 < end
  <2>1. lo = 8 * (lo \div 8) + (lo % 8) /\ lo \div 8 \in Nat /\ lo % 8 \in 0 .. 7 /\ lo \div 8 < end
    BY <1>1
  <2>. QED  BY <2>1
<1>8. PICK q2 \in Nat, b2 \in 0 .. 7 : hi = 8 * q2 + b2 /\ q2 < end
  <2>1. hi = 8 * (hi \div 8) + (hi % 8) /\ hi \div 8 \in Nat /\ hi % 8 \in 0 .. 7 /\ hi \div 8 < end
    BY <1>1
  <2>. QED  BY <2>1
<1>9. q1 # q2 \/ b1 # b2
  BY <1>7, <1>8
<1>10. DiffersIn(w, v, {lo, hi})
  BY <1>1, UpperDifference, Zenon
<1>11. ASSUME NEW k \in 1 .. end
       PROVE  Xor(Upper(w[k]), Upper(v[k])) = Xor(Brought(q1, b1, k), Brought(q2, b2, k))
  <2>1. Xor(Upper(w[k]), Upper(v[k]))
          = {c + 8 : c \in {b \in 0 .. 7 : 8 * (k - 1) + b \in {lo, hi}}}
    BY <1>10 DEF DiffersIn
  <2>2. \A b \in 0 .. 7 : 8 * (k - 1) + b \in {lo, hi}
                            <=> (k = q1 + 1 /\ b = b1) \/ (k = q2 + 1 /\ b = b2)
    BY <1>1, <1>7, <1>8
  <2>3. \A c : c \in Brought(q1, b1, k) <=> k = q1 + 1 /\ c = b1 + 8
    BY DEF Brought
  <2>4. \A c : c \in Brought(q2, b2, k) <=> k = q2 + 1 /\ c = b2 + 8
    BY DEF Brought
  <2>5. ~(k = q1 + 1 /\ k = q2 + 1 /\ b1 + 8 = b2 + 8)
    BY <1>9
  <2>6. \A c : c \in Xor(Brought(q1, b1, k), Brought(q2, b2, k))
                 <=> (k = q1 + 1 /\ c = b1 + 8) \/ (k = q2 + 1 /\ c = b2 + 8)
    BY <2>3, <2>4, <2>5 DEF Xor
  <2>7. \A c : c \in Xor(Upper(w[k]), Upper(v[k]))
                 <=> (k = q1 + 1 /\ c = b1 + 8) \/ (k = q2 + 1 /\ c = b2 + 8)
    <3>1. \A c : c \in Xor(Upper(w[k]), Upper(v[k]))
                 <=> \E b \in 0 .. 7 : c = b + 8 /\ 8 * (k - 1) + b \in {lo, hi}
      BY <2>1
    <3>. QED  BY <2>2, <3>1, Zenon
  <2>. QED  BY <2>6, <2>7
<1>12. ASSUME NEW j \in 1 .. end
       PROVE  Xor(r[j], s[j])
                = ShiftEight(Xor(Xor(r[j - 1], s[j - 1]), Xor(Upper(w[j]), Upper(v[j]))))
  <2>1. r[j] = FeedCrc(r[j - 1], w[j]) /\ s[j] = FeedCrc(s[j - 1], v[j])
    BY <1>1, <1>2 DEF Run
  <2>2. r[j - 1] \in Registers /\ s[j - 1] \in Registers /\ w[j] \in Byte /\ v[j] \in Byte
    BY <1>3, <1>4
  <2>. QED  BY <2>1, <2>2, FeedDifference
<1>13. Xor(r[end], s[end]) = {} /\ Xor(r[0], s[0]) = {}
  <2>1. r[end] = {} /\ s[Len(v)] = {} /\ r[0] = s[0]
    BY <1>2, Residue DEF Run
  <2>. QED  BY <1>1, <2>1 DEF Xor
<1> HIDE DEF end
\* The difference is what the two bits leave.
<1> DEFINE T == {k \in 0 .. end : Xor(r[k], s[k]) = Xor(Left(p, q1, b1, k), Left(p, q2, b2, k))}
<1>14. 0 \in T
  BY <1>1, <1>13 DEF Left, Xor
<1>15. ASSUME NEW k \in 1 .. end, k - 1 \in T PROVE k \in T
  <2>1. PICK j \in Nat : j = k - 1 /\ k \in Nat \ {0}
    BY <1>1
  <2>2. 8 * (k - q1) + b1 + 8 <= n /\ 8 * (k - q2) + b2 + 8 <= n /\ 15 <= n
    BY <1>1, <1>5 DEF Period
  <2>0. Develops(p, n, q1, b1) /\ Develops(p, n, q2, b2)
    BY <1>6, <2>2, LeftDevelops, Zenon
  <2>3. /\ Left(p, q1, b1, k - 1) \in Registers /\ Brought(q1, b1, k) \in Registers
        /\ Left(p, q1, b1, k)
             = ShiftEight(Xor(Left(p, q1, b1, k - 1), Brought(q1, b1, k)))
    BY <2>0, <2>1, <2>2 DEF Develops
  <2>4. /\ Left(p, q2, b2, k - 1) \in Registers /\ Brought(q2, b2, k) \in Registers
        /\ Left(p, q2, b2, k)
             = ShiftEight(Xor(Left(p, q2, b2, k - 1), Brought(q2, b2, k)))
    BY <2>0, <2>1, <2>2 DEF Develops
  <2>5. PICK d \in Registers, e \in Registers, f \in Registers, g \in Registers :
          /\ d = Left(p, q1, b1, k - 1) /\ e = Left(p, q2, b2, k - 1)
          /\ f = Brought(q1, b1, k) /\ g = Brought(q2, b2, k)
    BY <2>3, <2>4
  <2>6. Xor(Left(p, q1, b1, k), Left(p, q2, b2, k)) = ShiftEight(Xor(Xor(d, e), Xor(f, g)))
    <3>1. Xor(Left(p, q1, b1, k), Left(p, q2, b2, k))
            = Xor(ShiftEight(Xor(d, f)), ShiftEight(Xor(e, g)))
      BY <2>3, <2>4, <2>5
    <3>2. Xor(ShiftEight(Xor(d, f)), ShiftEight(Xor(e, g))) = ShiftEight(Xor(Xor(d, f), Xor(e, g)))
      BY XorType, ShiftEightLinear
    <3>. QED  BY <3>1, <3>2, XorSwap
  <2>7. Xor(r[k], s[k]) = ShiftEight(Xor(Xor(r[k - 1], s[k - 1]), Xor(f, g)))
    BY <1>11, <1>12, <2>5
  <2>8. Xor(r[k - 1], s[k - 1]) = Xor(d, e)
    BY <1>15, <2>5
  <2>9. k \in 0 .. end
    BY <1>4
  <2>. QED  BY <2>6, <2>7, <2>8, <2>9
<1> HIDE DEF T
<1>16. Xor(Left(p, q1, b1, end), Left(p, q2, b2, end)) = {}
  <2>1. 0 .. end \subseteq T
    BY <1>1, <1>14, <1>15, Induction
  <2>2. end \in T
    BY <1>1, <2>1
  <2>. QED  BY <1>13, <2>2 DEF T
<1>17. PICK i1 \in Nat, i2 \in Nat :
         /\ i1 = 8 * (end - q1) + b1 + 8 /\ i2 = 8 * (end - q2) + b2 + 8
         /\ i1 <= n /\ i2 <= n
         /\ i1 # i2 /\ i1 - i2 < Period /\ i2 - i1 < Period
  <2>1. end \in Nat /\ 8 * end < Period
    BY <1>1 DEF end
  <2>2. /\ 8 * (end - q1) + b1 + 8 \in Nat /\ 8 * (end - q2) + b2 + 8 \in Nat
        /\ 8 * (end - q1) + b1 + 8 <= n /\ 8 * (end - q2) + b2 + 8 <= n
    BY <1>5, <1>7, <1>8, <2>1 DEF Period
  <2>. QED  BY <1>7, <1>8, <1>9, <2>1, <2>2 DEF Period
<1>18. p[i1] = p[i2]
  <2>1. Left(p, q1, b1, end) = p[i1] /\ Left(p, q2, b2, end) = p[i2]
    BY <1>1, <1>7, <1>8, <1>17 DEF Left
  <2>2. p[i1] \in Registers /\ p[i2] \in Registers
    BY <1>6, <1>17 DEF Powers
  <2>. QED  BY <1>16, <2>1, <2>2, XorSame
<1>19. Period < n
  BY <1>1, <1>5 DEF Period
<1>20. i2 < i1 \/ i1 < i2
  BY <1>17
<1>21. CASE i2 < i1
  BY <1>6, <1>17, <1>18, <1>19, <1>21, PowersDiffer
<1>22. CASE i1 < i2
  BY <1>6, <1>17, <1>18, <1>19, <1>22, PowersDiffer
<1>. QED  BY <1>20, <1>21, <1>22
===============================================================================
