--------------------------- MODULE PopCountProofs ----------------------------
(***************************************************************************)
(* The bit count is right for every word of 32 bits.  What the first three *)
(* assignments do to a word they do to each of its bytes alone, and what   *)
(* they do to a byte is a matter of its eight bits: the invariant says     *)
(* which bytes the parameter is made of after each of them.                *)
(***************************************************************************)
EXTENDS PopCount, FiniteSetTheorems, TLAPS

ByteRange == 0 .. 255

\* What a byte can count.
CountRange == 0 .. 8

Joined(b0, b1, b2, b3) == b0 + (256 * b1) + (65536 * b2) + (16777216 * b3)

\* What the assignments of Pairs, Quads and Eights make of one byte.
PairsOf(b)  == b - KeptOf(b \div 2, 1)
QuadsOf(b)  == KeptOf(b, 2) + KeptOf(b \div 4, 2)
EightsOf(b) == KeptOf(b + (b \div 16), 4)

\* The byte b of the argument after n of them.
After(n, b) ==
  CASE n = 0 -> b
    [] n = 1 -> PairsOf(b)
    [] n = 2 -> QuadsOf(PairsOf(b))
    [] OTHER -> EightsOf(QuadsOf(PairsOf(b)))

PopIInv ==
  /\ word \in Words
  /\ done \in 0 .. 4
  /\ done < 4 =>
       i = Joined(After(done, Byte(word, 0)), After(done, Byte(word, 1)),
                  After(done, Byte(word, 2)), After(done, Byte(word, 3)))
  /\ done = 4 =>
       i = After(3, Byte(word, 0)) + After(3, Byte(word, 1))
           + After(3, Byte(word, 2)) + After(3, Byte(word, 3))

-----------------------------------------------------------------------------
(* Words and their bytes *)

(* The four bytes by the divisions that find them.                         *)
LEMMA FourBytes ==
  ASSUME NEW x
  PROVE  /\ Byte(x, 0) = (x \div 1) % 256
         /\ Byte(x, 1) = (x \div 256) % 256
         /\ Byte(x, 2) = (x \div 65536) % 256
         /\ Byte(x, 3) = (x \div 16777216) % 256
<1>1. 256 ^ 0 = 1 /\ 256 ^ 1 = 256 /\ 256 ^ 2 = 65536 /\ 256 ^ 3 = 16777216
  BY SMT
<1> QED
  BY <1>1 DEF Byte

(* A word is made of its bytes.                                            *)
LEMMA WordOfBytes ==
  ASSUME NEW x \in Nat, x \div 65536 < 65536
  PROVE  /\ \A j \in 0 .. 3 : Byte(x, j) \in ByteRange
         /\ x = Joined(Byte(x, 0), Byte(x, 1), Byte(x, 2), Byte(x, 3))
<1> DEFINE b0 == (x \div 1) % 256
           b1 == (x \div 256) % 256
           b2 == (x \div 65536) % 256
           b3 == (x \div 16777216) % 256
<1> DEFINE h == x \div 65536
           l == x % 65536
<1>1. /\ b0 \in 0 .. 255 /\ b1 \in 0 .. 255 /\ b2 \in 0 .. 255 /\ b3 \in 0 .. 255
      /\ x = b0 + (256 * b1) + (65536 * b2) + (16777216 * b3)
  <2>1. h \in Nat /\ h < 65536 /\ l \in Nat /\ l < 65536 /\ x = (65536 * h) + l
    BY SMT
  <2>2. b0 = l % 256 /\ b1 = l \div 256
    <3> HIDE DEF h, l
    <3>1. b0 = l % 256
      BY SMT, <2>1
    <3>2. b1 = l \div 256
      BY SMT, <2>1
    <3> QED
      BY <3>1, <3>2
  <2>3. b2 = h % 256
    OBVIOUS
  <2>4. b3 = h \div 256
    <3> HIDE DEF h, l
    <3> QED
      BY SMT, <2>1
  <2> HIDE DEF h, l, b0, b1, b2, b3
  <2>5. l = b0 + (256 * b1) /\ b0 \in 0 .. 255 /\ b1 \in 0 .. 255
    BY SMT, <2>1, <2>2
  <2>6. h = b2 + (256 * b3) /\ b2 \in 0 .. 255 /\ b3 \in 0 .. 255
    BY SMT, <2>1, <2>3, <2>4
  <2> QED
    BY SMT, <2>1, <2>5, <2>6
<1>2. Byte(x, 0) = b0 /\ Byte(x, 1) = b1 /\ Byte(x, 2) = b2 /\ Byte(x, 3) = b3
  BY FourBytes
<1> HIDE DEF b0, b1, b2, b3
<1>3. \A j \in 0 .. 3 : j = 0 \/ j = 1 \/ j = 2 \/ j = 3
  BY SMT
<1> QED
  BY <1>1, <1>2, <1>3 DEF Joined, ByteRange

(* Only its bytes make a word.                                             *)
LEMMA BytesOfWord ==
  ASSUME NEW b0 \in ByteRange, NEW b1 \in ByteRange, NEW b2 \in ByteRange, NEW b3 \in ByteRange,
         NEW x, x = Joined(b0, b1, b2, b3)
  PROVE  Byte(x, 0) = b0 /\ Byte(x, 1) = b1 /\ Byte(x, 2) = b2 /\ Byte(x, 3) = b3
<1>1. x = b0 + (256 * b1) + (65536 * b2) + (16777216 * b3)
  BY DEF Joined
<1>2. /\ b0 \in Int /\ b1 \in Int /\ b2 \in Int /\ b3 \in Int
      /\ 0 <= b0 /\ b0 < 256 /\ 0 <= b1 /\ b1 < 256 /\ 0 <= b2 /\ b2 < 256 /\ 0 <= b3 /\ b3 < 256
  BY SMT DEF ByteRange
<1>3. (x \div 1) % 256 = b0
  BY SMT, <1>1, <1>2
<1>4. (x \div 256) % 256 = b1
  BY SMT, <1>1, <1>2
<1>5. (x \div 65536) % 256 = b2
  BY SMT, <1>1, <1>2
<1>6. (x \div 16777216) % 256 = b3
  BY SMT, <1>1, <1>2
<1> QED
  BY <1>3, <1>4, <1>5, <1>6, FourBytes

-----------------------------------------------------------------------------
(* One byte *)

BitIn(b, k) == (b \div 2 ^ k) % 2

(* The eight bits by the divisions that find them.                         *)
LEMMA EightBits ==
  ASSUME NEW b
  PROVE  /\ BitIn(b, 0) = (b \div 1) % 2
         /\ BitIn(b, 1) = (b \div 2) % 2
         /\ BitIn(b, 2) = (b \div 4) % 2
         /\ BitIn(b, 3) = (b \div 8) % 2
         /\ BitIn(b, 4) = (b \div 16) % 2
         /\ BitIn(b, 5) = (b \div 32) % 2
         /\ BitIn(b, 6) = (b \div 64) % 2
         /\ BitIn(b, 7) = (b \div 128) % 2
<1>1. 2 ^ 0 = 1 /\ 2 ^ 1 = 2 /\ 2 ^ 2 = 4 /\ 2 ^ 3 = 8
  BY SMT
<1>2. 2 ^ 4 = 16 /\ 2 ^ 5 = 32 /\ 2 ^ 6 = 64 /\ 2 ^ 7 = 128
  BY SMT
<1> QED
  BY <1>1, <1>2 DEF BitIn

(* A byte is made of its bits.                                             *)
LEMMA ByteOfBits ==
  ASSUME NEW b \in ByteRange
  PROVE  /\ \A k \in 0 .. 7 : BitIn(b, k) \in {0, 1}
         /\ b = BitIn(b, 0) + (2 * BitIn(b, 1)) + (4 * BitIn(b, 2)) + (8 * BitIn(b, 3))
                + (16 * BitIn(b, 4)) + (32 * BitIn(b, 5)) + (64 * BitIn(b, 6)) + (128 * BitIn(b, 7))
<1> DEFINE x0 == (b \div 1) % 2
           x1 == (b \div 2) % 2
           x2 == (b \div 4) % 2
           x3 == (b \div 8) % 2
           x4 == (b \div 16) % 2
           x5 == (b \div 32) % 2
           x6 == (b \div 64) % 2
           x7 == (b \div 128) % 2
<1>1. b \in Int /\ 0 <= b /\ b < 256
  BY SMT DEF ByteRange
<1>2. /\ x0 \in {0, 1} /\ x1 \in {0, 1} /\ x2 \in {0, 1} /\ x3 \in {0, 1}
      /\ x4 \in {0, 1} /\ x5 \in {0, 1} /\ x6 \in {0, 1} /\ x7 \in {0, 1}
  BY SMT, <1>1
<1>3. b = x0 + (2 * x1) + (4 * x2) + (8 * x3) + (16 * x4) + (32 * x5) + (64 * x6) + (128 * x7)
  BY SMT, <1>1
<1>4. /\ BitIn(b, 0) = x0 /\ BitIn(b, 1) = x1 /\ BitIn(b, 2) = x2 /\ BitIn(b, 3) = x3
      /\ BitIn(b, 4) = x4 /\ BitIn(b, 5) = x5 /\ BitIn(b, 6) = x6 /\ BitIn(b, 7) = x7
  BY EightBits
<1> HIDE DEF x0, x1, x2, x3, x4, x5, x6, x7
<1>5. \A k \in 0 .. 7 : k = 0 \/ k = 1 \/ k = 2 \/ k = 3 \/ k = 4 \/ k = 5 \/ k = 6 \/ k = 7
  BY SMT
<1>6. \A k \in 0 .. 7 : BitIn(b, k) \in {0, 1}
  BY <1>2, <1>4, <1>5
<1> QED
  BY <1>3, <1>4, <1>6

(* The fields of a byte after each assignment: pairs of bits, quads, and   *)
(* all eight.                                                              *)
LEMMA CountsOfByte ==
  ASSUME NEW x0 \in {0, 1}, NEW x1 \in {0, 1}, NEW x2 \in {0, 1}, NEW x3 \in {0, 1},
         NEW x4 \in {0, 1}, NEW x5 \in {0, 1}, NEW x6 \in {0, 1}, NEW x7 \in {0, 1},
         NEW b, b = x0 + (2 * x1) + (4 * x2) + (8 * x3)
                    + (16 * x4) + (32 * x5) + (64 * x6) + (128 * x7)
  PROVE  /\ PairsOf(b) = (x0 + x1) + (4 * (x2 + x3)) + (16 * (x4 + x5)) + (64 * (x6 + x7))
         /\ QuadsOf(PairsOf(b)) = (x0 + x1 + x2 + x3) + (16 * (x4 + x5 + x6 + x7))
         /\ EightsOf(QuadsOf(PairsOf(b))) = x0 + x1 + x2 + x3 + x4 + x5 + x6 + x7
<1> DEFINE p == PairsOf(b)
           q == QuadsOf(p)
<1>1. /\ x0 \in Int /\ 0 <= x0 /\ x0 <= 1 /\ x1 \in Int /\ 0 <= x1 /\ x1 <= 1
      /\ x2 \in Int /\ 0 <= x2 /\ x2 <= 1 /\ x3 \in Int /\ 0 <= x3 /\ x3 <= 1
      /\ x4 \in Int /\ 0 <= x4 /\ x4 <= 1 /\ x5 \in Int /\ 0 <= x5 /\ x5 <= 1
      /\ x6 \in Int /\ 0 <= x6 /\ x6 <= 1 /\ x7 \in Int /\ 0 <= x7 /\ x7 <= 1
  BY SMT
<1>2. p = (x0 + x1) + (4 * (x2 + x3)) + (16 * (x4 + x5)) + (64 * (x6 + x7))
  <2> DEFINE h == b \div 2
  <2>1. h = x1 + (2 * x2) + (4 * x3) + (8 * x4) + (16 * x5) + (32 * x6) + (64 * x7)
    BY SMT, <1>1
  <2> HIDE DEF h
  <2>2. h % 2 = x1 /\ (h \div 4) % 2 = x3 /\ (h \div 16) % 2 = x5 /\ (h \div 64) % 2 = x7
    BY SMT, <1>1, <2>1
  <2>3. KeptOf(h, 1) = x1 + (4 * x3) + (16 * x5) + (64 * x7)
    BY <2>2 DEF KeptOf
  <2>4. p = b - KeptOf(h, 1)
    BY DEF PairsOf, h
  <2> HIDE DEF p
  <2> QED
    BY SMT, <1>1, <2>3, <2>4
<1> HIDE DEF p
<1>3. q = (x0 + x1 + x2 + x3) + (16 * (x4 + x5 + x6 + x7))
  <2> DEFINE h == p \div 4
  <2>1. h = (x2 + x3) + (4 * (x4 + x5)) + (16 * (x6 + x7))
    BY SMT, <1>1, <1>2
  <2> HIDE DEF h
  <2>2. p % 4 = x0 + x1 /\ (p \div 16) % 4 = x4 + x5
    BY SMT, <1>1, <1>2
  <2>3. h % 4 = x2 + x3 /\ (h \div 16) % 4 = x6 + x7
    BY SMT, <1>1, <2>1
  <2>4. KeptOf(p, 2) = (x0 + x1) + (16 * (x4 + x5)) /\ KeptOf(h, 2) = (x2 + x3) + (16 * (x6 + x7))
    BY <2>2, <2>3 DEF KeptOf
  <2>5. q = KeptOf(p, 2) + KeptOf(h, 2)
    BY DEF QuadsOf, h
  <2> HIDE DEF q
  <2> QED
    BY SMT, <1>1, <2>4, <2>5
<1> HIDE DEF q
<1>4. EightsOf(q) = x0 + x1 + x2 + x3 + x4 + x5 + x6 + x7
  <2>1. (q + (q \div 16)) % 16 = x0 + x1 + x2 + x3 + x4 + x5 + x6 + x7
    BY SMT, <1>1, <1>3
  <2> QED
    BY <2>1 DEF EightsOf, KeptOf
<1> QED
  BY <1>2, <1>3, <1>4 DEF p, q

(* What is left of a byte after each assignment: never more than a byte,   *)
(* quads of at most four, and at most eight.                               *)
LEMMA AfterRange ==
  ASSUME NEW b \in ByteRange
  PROVE  /\ PairsOf(b) \in ByteRange
         /\ QuadsOf(PairsOf(b)) \in ByteRange
         /\ QuadsOf(PairsOf(b)) % 16 <= 4
         /\ QuadsOf(PairsOf(b)) \div 16 <= 4
         /\ EightsOf(QuadsOf(PairsOf(b))) \in CountRange
<1>1. PICK x0 \in {0, 1}, x1 \in {0, 1}, x2 \in {0, 1}, x3 \in {0, 1},
           x4 \in {0, 1}, x5 \in {0, 1}, x6 \in {0, 1}, x7 \in {0, 1} :
        b = x0 + (2 * x1) + (4 * x2) + (8 * x3) + (16 * x4) + (32 * x5) + (64 * x6) + (128 * x7)
  <2>1. /\ BitIn(b, 0) \in {0, 1} /\ BitIn(b, 1) \in {0, 1} /\ BitIn(b, 2) \in {0, 1}
        /\ BitIn(b, 3) \in {0, 1} /\ BitIn(b, 4) \in {0, 1} /\ BitIn(b, 5) \in {0, 1}
        /\ BitIn(b, 6) \in {0, 1} /\ BitIn(b, 7) \in {0, 1}
    BY SMT, ByteOfBits
  <2> QED
    BY <2>1, ByteOfBits
<1> DEFINE p == PairsOf(b)
           q == QuadsOf(p)
           e == EightsOf(q)
<1>2. /\ p = (x0 + x1) + (4 * (x2 + x3)) + (16 * (x4 + x5)) + (64 * (x6 + x7))
      /\ q = (x0 + x1 + x2 + x3) + (16 * (x4 + x5 + x6 + x7))
      /\ e = x0 + x1 + x2 + x3 + x4 + x5 + x6 + x7
  BY <1>1, CountsOfByte
<1> HIDE DEF p, q, e
<1>3. p \in ByteRange
  BY SMT, <1>2 DEF ByteRange
<1>4. q \in ByteRange /\ q % 16 <= 4 /\ q \div 16 <= 4
  BY SMT, <1>2 DEF ByteRange
<1>5. e \in CountRange
  BY SMT, <1>2 DEF CountRange
<1> QED
  BY <1>3, <1>4, <1>5 DEF p, q, e

-----------------------------------------------------------------------------
(* The four bytes of a word at once *)

(* A mask leaves a byte.                                                   *)
LEMMA KeptRange ==
  ASSUME NEW b \in Nat
  PROVE  KeptOf(b, 1) \in ByteRange /\ KeptOf(b, 2) \in ByteRange
<1>1. KeptOf(b, 1) \in ByteRange
  <2> DEFINE r0 == b % 2
             r1 == (b \div 4) % 2
             r2 == (b \div 16) % 2
             r3 == (b \div 64) % 2
  <2>1. /\ r0 \in Int /\ 0 <= r0 /\ r0 <= 1 /\ r1 \in Int /\ 0 <= r1 /\ r1 <= 1
        /\ r2 \in Int /\ 0 <= r2 /\ r2 <= 1 /\ r3 \in Int /\ 0 <= r3 /\ r3 <= 1
    BY SMT
  <2>2. KeptOf(b, 1) = r0 + 4 * r1 + 16 * r2 + 64 * r3
    BY DEF KeptOf
  <2> HIDE DEF r0, r1, r2, r3
  <2> QED
    BY SMT, <2>1, <2>2 DEF ByteRange
<1>2. KeptOf(b, 2) \in ByteRange
  <2> DEFINE r0 == b % 4
             r1 == (b \div 16) % 4
  <2>1. r0 \in Int /\ 0 <= r0 /\ r0 <= 3 /\ r1 \in Int /\ 0 <= r1 /\ r1 <= 3
    BY SMT
  <2>2. KeptOf(b, 2) = r0 + 16 * r1
    BY DEF KeptOf
  <2> HIDE DEF r0, r1
  <2> QED
    BY SMT, <2>1, <2>2 DEF ByteRange
<1> QED
  BY <1>1, <1>2

(* The bits that a shift brings in from the byte above are not kept.       *)
LEMMA OwnBits ==
  ASSUME NEW b \in ByteRange, NEW c \in ByteRange
  PROVE  /\ KeptOf((b \div 2) + (128 * (c % 2)), 1) = KeptOf(b \div 2, 1)
         /\ KeptOf((b \div 4) + (64 * (c % 4)), 2) = KeptOf(b \div 4, 2)
<1>1. b \in Int /\ 0 <= b /\ b < 256 /\ c \in Int /\ 0 <= c /\ c < 256
  BY SMT DEF ByteRange
<1>2. KeptOf((b \div 2) + (128 * (c % 2)), 1) = KeptOf(b \div 2, 1)
  <2> DEFINE v == b \div 2
             u == c % 2
  <2>1. v \in Int /\ 0 <= v /\ v < 128 /\ u \in Int /\ 0 <= u /\ u < 2
    BY SMT, <1>1
  <2> HIDE DEF v, u
  <2>2. /\ (v + (128 * u)) % 2 = v % 2
        /\ ((v + (128 * u)) \div 4) % 2 = (v \div 4) % 2
        /\ ((v + (128 * u)) \div 16) % 2 = (v \div 16) % 2
        /\ ((v + (128 * u)) \div 64) % 2 = (v \div 64) % 2
    BY SMT, <2>1
  <2>3. KeptOf(v + (128 * u), 1) = KeptOf(v, 1)
    BY <2>2 DEF KeptOf
  <2> QED
    BY <2>3 DEF v, u
<1>3. KeptOf((b \div 4) + (64 * (c % 4)), 2) = KeptOf(b \div 4, 2)
  <2> DEFINE v == b \div 4
             u == c % 4
  <2>1. v \in Int /\ 0 <= v /\ v < 64 /\ u \in Int /\ 0 <= u /\ u < 4
    BY SMT, <1>1
  <2> HIDE DEF v, u
  <2>2. /\ (v + (64 * u)) % 4 = v % 4
        /\ ((v + (64 * u)) \div 16) % 4 = (v \div 16) % 4
    BY SMT, <2>1
  <2>3. KeptOf(v + (64 * u), 2) = KeptOf(v, 2)
    BY <2>2 DEF KeptOf
  <2> QED
    BY <2>3 DEF v, u
<1> QED
  BY <1>2, <1>3

(* A mask keeps its share of each byte of the word.                        *)
LEMMA MaskedBytes ==
  ASSUME NEW b0 \in ByteRange, NEW b1 \in ByteRange, NEW b2 \in ByteRange, NEW b3 \in ByteRange,
         NEW x, x = Joined(b0, b1, b2, b3), NEW n
  PROVE  Masked(x, n) = Joined(KeptOf(b0, n), KeptOf(b1, n), KeptOf(b2, n), KeptOf(b3, n))
<1>1. Byte(x, 0) = b0 /\ Byte(x, 1) = b1 /\ Byte(x, 2) = b2 /\ Byte(x, 3) = b3
  BY BytesOfWord
<1> QED
  BY <1>1 DEF Masked, Joined

(* A shift gives each byte the low bits of the next.                       *)
LEMMA ShiftedBytes ==
  ASSUME NEW b0 \in ByteRange, NEW b1 \in ByteRange, NEW b2 \in ByteRange, NEW b3 \in ByteRange,
         NEW x, x = Joined(b0, b1, b2, b3)
  PROVE  /\ x \div 2 = Joined((b0 \div 2) + (128 * (b1 % 2)), (b1 \div 2) + (128 * (b2 % 2)),
                              (b2 \div 2) + (128 * (b3 % 2)), (b3 \div 2) + (128 * (0 % 2)))
         /\ x \div 4 = Joined((b0 \div 4) + (64 * (b1 % 4)), (b1 \div 4) + (64 * (b2 % 4)),
                              (b2 \div 4) + (64 * (b3 % 4)), (b3 \div 4) + (64 * (0 % 4)))
         /\ x \div 16 = Joined((b0 \div 16) + (16 * (b1 % 16)), (b1 \div 16) + (16 * (b2 % 16)),
                               (b2 \div 16) + (16 * (b3 % 16)), b3 \div 16)
<1>1. x = b0 + (256 * b1) + (65536 * b2) + (16777216 * b3)
  BY DEF Joined
<1>2. b0 \in Int /\ b1 \in Int /\ b2 \in Int /\ b3 \in Int
  BY SMT DEF ByteRange
<1>3. x \div 2 = Joined((b0 \div 2) + (128 * (b1 % 2)), (b1 \div 2) + (128 * (b2 % 2)),
                        (b2 \div 2) + (128 * (b3 % 2)), (b3 \div 2) + (128 * (0 % 2)))
  BY SMT, <1>1, <1>2 DEF Joined
<1>4. x \div 4 = Joined((b0 \div 4) + (64 * (b1 % 4)), (b1 \div 4) + (64 * (b2 % 4)),
                        (b2 \div 4) + (64 * (b3 % 4)), (b3 \div 4) + (64 * (0 % 4)))
  BY SMT, <1>1, <1>2 DEF Joined
<1>5. x \div 16 = Joined((b0 \div 16) + (16 * (b1 % 16)), (b1 \div 16) + (16 * (b2 % 16)),
                         (b2 \div 16) + (16 * (b3 % 16)), b3 \div 16)
  BY SMT, <1>1, <1>2 DEF Joined
<1> QED
  BY <1>3, <1>4, <1>5

(* i - ((i >> 1) & 0x55555555) is PairsOf of each byte.                    *)
LEMMA PairsOfBytes ==
  ASSUME NEW b0 \in ByteRange, NEW b1 \in ByteRange, NEW b2 \in ByteRange, NEW b3 \in ByteRange,
         NEW x, x = Joined(b0, b1, b2, b3)
  PROVE  x - Masked(x \div 2, 1) = Joined(PairsOf(b0), PairsOf(b1), PairsOf(b2), PairsOf(b3))
<1> DEFINE s0 == (b0 \div 2) + (128 * (b1 % 2))
           s1 == (b1 \div 2) + (128 * (b2 % 2))
           s2 == (b2 \div 2) + (128 * (b3 % 2))
           s3 == (b3 \div 2) + (128 * (0 % 2))
           k0 == KeptOf(b0 \div 2, 1)
           k1 == KeptOf(b1 \div 2, 1)
           k2 == KeptOf(b2 \div 2, 1)
           k3 == KeptOf(b3 \div 2, 1)
           h == x \div 2
<1>1. s0 \in ByteRange /\ s1 \in ByteRange /\ s2 \in ByteRange /\ s3 \in ByteRange
  BY SMT DEF ByteRange
<1>2. h = Joined(s0, s1, s2, s3)
  BY ShiftedBytes
<1>3. KeptOf(s0, 1) = k0 /\ KeptOf(s1, 1) = k1 /\ KeptOf(s2, 1) = k2 /\ KeptOf(s3, 1) = k3
  <2>1. 0 \in ByteRange
    BY SMT DEF ByteRange
  <2> QED
    BY <2>1, OwnBits
<1>4. k0 \in ByteRange /\ k1 \in ByteRange /\ k2 \in ByteRange /\ k3 \in ByteRange
  <2>1. b0 \div 2 \in Nat /\ b1 \div 2 \in Nat /\ b2 \div 2 \in Nat /\ b3 \div 2 \in Nat
    BY SMT DEF ByteRange
  <2> QED
    BY <2>1, KeptRange
<1>5. PairsOf(b0) = b0 - k0 /\ PairsOf(b1) = b1 - k1 /\ PairsOf(b2) = b2 - k2 /\ PairsOf(b3) = b3 - k3
  BY DEF PairsOf
<1> HIDE DEF s0, s1, s2, s3, k0, k1, k2, k3, h
<1>6. Masked(h, 1) = Joined(k0, k1, k2, k3)
  BY <1>1, <1>2, <1>3, MaskedBytes
<1>7. x - Masked(h, 1) = Joined(b0 - k0, b1 - k1, b2 - k2, b3 - k3)
  BY SMT, <1>4, <1>6 DEF Joined, ByteRange
<1> QED
  BY <1>5, <1>7 DEF h

(* (i & 0x33333333) + ((i >> 2) & 0x33333333) is QuadsOf of each byte.     *)
LEMMA QuadsOfBytes ==
  ASSUME NEW b0 \in ByteRange, NEW b1 \in ByteRange, NEW b2 \in ByteRange, NEW b3 \in ByteRange,
         NEW x, x = Joined(b0, b1, b2, b3)
  PROVE  Masked(x, 2) + Masked(x \div 4, 2) = Joined(QuadsOf(b0), QuadsOf(b1), QuadsOf(b2), QuadsOf(b3))
<1> DEFINE s0 == (b0 \div 4) + (64 * (b1 % 4))
           s1 == (b1 \div 4) + (64 * (b2 % 4))
           s2 == (b2 \div 4) + (64 * (b3 % 4))
           s3 == (b3 \div 4) + (64 * (0 % 4))
           k0 == KeptOf(b0 \div 4, 2)
           k1 == KeptOf(b1 \div 4, 2)
           k2 == KeptOf(b2 \div 4, 2)
           k3 == KeptOf(b3 \div 4, 2)
           l0 == KeptOf(b0, 2)
           l1 == KeptOf(b1, 2)
           l2 == KeptOf(b2, 2)
           l3 == KeptOf(b3, 2)
           h == x \div 4
<1>1. s0 \in ByteRange /\ s1 \in ByteRange /\ s2 \in ByteRange /\ s3 \in ByteRange
  BY SMT DEF ByteRange
<1>2. h = Joined(s0, s1, s2, s3)
  BY ShiftedBytes
<1>3. KeptOf(s0, 2) = k0 /\ KeptOf(s1, 2) = k1 /\ KeptOf(s2, 2) = k2 /\ KeptOf(s3, 2) = k3
  <2>1. 0 \in ByteRange
    BY SMT DEF ByteRange
  <2> QED
    BY <2>1, OwnBits
<1>4. /\ k0 \in ByteRange /\ k1 \in ByteRange /\ k2 \in ByteRange /\ k3 \in ByteRange
      /\ l0 \in ByteRange /\ l1 \in ByteRange /\ l2 \in ByteRange /\ l3 \in ByteRange
  <2>1. /\ b0 \div 4 \in Nat /\ b1 \div 4 \in Nat /\ b2 \div 4 \in Nat /\ b3 \div 4 \in Nat
        /\ b0 \in Nat /\ b1 \in Nat /\ b2 \in Nat /\ b3 \in Nat
    BY SMT DEF ByteRange
  <2> QED
    BY <2>1, KeptRange
<1>5. QuadsOf(b0) = l0 + k0 /\ QuadsOf(b1) = l1 + k1 /\ QuadsOf(b2) = l2 + k2 /\ QuadsOf(b3) = l3 + k3
  BY DEF QuadsOf
<1>6. Masked(x, 2) = Joined(l0, l1, l2, l3)
  BY MaskedBytes
<1> HIDE DEF s0, s1, s2, s3, k0, k1, k2, k3, l0, l1, l2, l3, h
<1>7. Masked(h, 2) = Joined(k0, k1, k2, k3)
  BY <1>1, <1>2, <1>3, MaskedBytes
<1>8. Masked(x, 2) + Masked(h, 2) = Joined(l0 + k0, l1 + k1, l2 + k2, l3 + k3)
  BY SMT, <1>4, <1>6, <1>7 DEF Joined, ByteRange
<1> QED
  BY <1>5, <1>8 DEF h

(* (i + (i >> 4)) & 0x0F0F0F0F is EightsOf of each byte: with at most four *)
(* in each quad no sum of two of them carries into the next byte.          *)
LEMMA EightsOfBytes ==
  ASSUME NEW b0 \in ByteRange, NEW b1 \in ByteRange, NEW b2 \in ByteRange, NEW b3 \in ByteRange,
         b0 \div 16 <= 4, b1 \div 16 <= 4, b2 \div 16 <= 4, b3 \div 16 <= 4,
         b1 % 16 <= 4, b2 % 16 <= 4, b3 % 16 <= 4,
         NEW x, x = Joined(b0, b1, b2, b3)
  PROVE  Masked(x + (x \div 16), 4)
           = Joined(EightsOf(b0), EightsOf(b1), EightsOf(b2), EightsOf(b3))
<1> DEFINE s0 == b0 + (b0 \div 16) + (16 * (b1 % 16))
           s1 == b1 + (b1 \div 16) + (16 * (b2 % 16))
           s2 == b2 + (b2 \div 16) + (16 * (b3 % 16))
           s3 == b3 + (b3 \div 16)
           h == x + (x \div 16)
<1>1. s0 \in ByteRange /\ s1 \in ByteRange /\ s2 \in ByteRange /\ s3 \in ByteRange
  <2>1. s0 \in ByteRange
    BY SMT DEF ByteRange
  <2>2. s1 \in ByteRange
    BY SMT DEF ByteRange
  <2>3. s2 \in ByteRange
    BY SMT DEF ByteRange
  <2>4. s3 \in ByteRange
    BY SMT DEF ByteRange
  <2> QED
    BY <2>1, <2>2, <2>3, <2>4
<1>2. h = Joined(s0, s1, s2, s3)
  <2>1. x \div 16 = Joined((b0 \div 16) + (16 * (b1 % 16)), (b1 \div 16) + (16 * (b2 % 16)),
                           (b2 \div 16) + (16 * (b3 % 16)), b3 \div 16)
    BY ShiftedBytes
  <2> QED
    BY SMT, <2>1 DEF Joined, ByteRange
<1>3. /\ s0 % 16 = (b0 + (b0 \div 16)) % 16 /\ s1 % 16 = (b1 + (b1 \div 16)) % 16
      /\ s2 % 16 = (b2 + (b2 \div 16)) % 16
  BY SMT DEF ByteRange
<1>4. /\ KeptOf(s0, 4) = EightsOf(b0) /\ KeptOf(s1, 4) = EightsOf(b1)
      /\ KeptOf(s2, 4) = EightsOf(b2) /\ KeptOf(s3, 4) = EightsOf(b3)
  <2>1. KeptOf(s3, 4) = EightsOf(b3)
    BY DEF EightsOf
  <2> HIDE DEF s0, s1, s2, s3
  <2> QED
    BY <1>3, <2>1 DEF EightsOf, KeptOf
<1> HIDE DEF s0, s1, s2, s3, h
<1>5. Masked(h, 4) = Joined(KeptOf(s0, 4), KeptOf(s1, 4), KeptOf(s2, 4), KeptOf(s3, 4))
  BY <1>1, <1>2, MaskedBytes
<1> QED
  BY <1>4, <1>5 DEF h

(* (i * 0x01010101) >> 24 is the sum of the bytes.                         *)
LEMMA SumOfBytes ==
  ASSUME NEW b0 \in CountRange, NEW b1 \in CountRange, NEW b2 \in CountRange, NEW b3 \in CountRange,
         NEW x, x = Joined(b0, b1, b2, b3)
  PROVE  (x + ((x + ((x + (x \div 256)) \div 256)) \div 256)) % 256 = b0 + b1 + b2 + b3
<1> DEFINE u == (x + (x \div 256)) \div 256
           v == (x + u) \div 256
<1>1. /\ b0 \in Int /\ 0 <= b0 /\ b0 <= 8 /\ b1 \in Int /\ 0 <= b1 /\ b1 <= 8
      /\ b2 \in Int /\ 0 <= b2 /\ b2 <= 8 /\ b3 \in Int /\ 0 <= b3 /\ b3 <= 8
  BY SMT DEF CountRange
<1>2. x = b0 + (256 * b1) + (65536 * b2) + (16777216 * b3)
  BY DEF Joined
<1>3. u = b1 + b2 + (256 * (b2 + b3)) + (65536 * b3)
  BY SMT, <1>1, <1>2
<1> HIDE DEF u
<1>4. v = b1 + b2 + b3 + (256 * (b2 + b3)) + (65536 * b3)
  BY SMT, <1>1, <1>2, <1>3
<1> HIDE DEF v
<1>5. (x + v) % 256 = b0 + b1 + b2 + b3
  BY SMT, <1>1, <1>2, <1>4
<1> QED
  BY <1>5 DEF u, v

(* The sum as the code writes it, a product of 32 bits and a shift, is the *)
(* sum of Sum, for every word.                                             *)
LEMMA SumIsProduct ==
  ASSUME NEW x \in Nat
  PROVE  ((x * 16843009) % (65536 * 65536)) \div 16777216
           = (x + ((x + ((x + (x \div 256)) \div 256)) \div 256)) % 256
<1> DEFINE y == x * 16843009
           u == (x + (x \div 256)) \div 256
           v == (x + u) \div 256
<1>1. u = (x + (256 * x)) \div 65536
  BY SMT
<1>2. u \in Int
  BY SMT
<1> HIDE DEF u
<1>3. v = (x + (256 * x) + (65536 * x)) \div 16777216
  BY SMT, <1>1
<1>4. v \in Int
  BY SMT, <1>2
<1> HIDE DEF v
<1>5. y = (x + (256 * x) + (65536 * x)) + (16777216 * x)
  BY SMT
<1>6. y \in Int
  BY SMT
<1> HIDE DEF y
<1>7. y \div 16777216 = x + v
  BY SMT, <1>3, <1>5
<1>8. (y % (65536 * 65536)) \div 16777216 = (y \div 16777216) % 256
  <2> DEFINE c == y \div (65536 * 65536)
             d == y % (65536 * 65536)
  <2>1. y = (65536 * 65536 * c) + d /\ c \in Int /\ d \in Int /\ 0 <= d /\ d < 65536 * 65536
    BY SMT, <1>6
  <2> HIDE DEF c, d
  <2>2. y \div 16777216 = (256 * c) + (d \div 16777216)
    BY SMT, <2>1
  <2>3. d \div 16777216 \in Int /\ 0 <= d \div 16777216 /\ d \div 16777216 < 256
    BY SMT, <2>1
  <2>4. d \div 16777216 = (y \div 16777216) % 256
    BY SMT, <2>1, <2>2, <2>3
  <2> QED
    BY <2>4 DEF d
<1> QED
  BY <1>7, <1>8 DEF u, v, y

-----------------------------------------------------------------------------
(* The invariant *)

(* What the argument's bytes have become is a word of four bytes.          *)
LEMMA BytesOfArgument ==
  ASSUME word \in Words
  PROVE  /\ \A j \in 0 .. 3 : Byte(word, j) \in ByteRange
         /\ word = Joined(Byte(word, 0), Byte(word, 1), Byte(word, 2), Byte(word, 3))
<1>1. word \in Nat /\ word \div 65536 < 65536
  BY WordsAssumption
<1> QED
  BY <1>1, WordOfBytes

(* One lemma per assignment.                                               *)
LEMMA PairsKeeps ==
  ASSUME PopIInv, Pairs
  PROVE  PopIInv'
<1> PICK b0 \in ByteRange, b1 \in ByteRange, b2 \in ByteRange, b3 \in ByteRange :
      b0 = Byte(word, 0) /\ b1 = Byte(word, 1) /\ b2 = Byte(word, 2) /\ b3 = Byte(word, 3)
  <2>1. 0 \in 0 .. 3 /\ 1 \in 0 .. 3 /\ 2 \in 0 .. 3 /\ 3 \in 0 .. 3
    BY SMT
  <2> QED
    BY <2>1, BytesOfArgument DEF PopIInv
<1>1. done = 0 /\ i' = i - Masked(i \div 2, 1) /\ done' = 1 /\ word' = word
  BY DEF Pairs
<1>2. i = Joined(b0, b1, b2, b3)
  <2>1. 0 < 4
    BY SMT
  <2> QED
    BY <1>1, <2>1 DEF PopIInv, After
<1>3. i' = Joined(PairsOf(b0), PairsOf(b1), PairsOf(b2), PairsOf(b3))
  BY <1>1, <1>2, PairsOfBytes
<1>4. After(1, b0) = PairsOf(b0) /\ After(1, b1) = PairsOf(b1) /\ After(1, b2) = PairsOf(b2) /\ After(1, b3) = PairsOf(b3)
  <2>1. 1 # 0
    BY SMT
  <2> QED
    BY <2>1 DEF After
<1>5. i' = Joined(After(1, b0), After(1, b1), After(1, b2), After(1, b3))
  BY <1>3, <1>4
<1>6. 1 \in 0 .. 4 /\ 1 # 4
  BY SMT
<1> QED
  BY <1>1, <1>5, <1>6 DEF PopIInv

LEMMA QuadsKeeps ==
  ASSUME PopIInv, Quads
  PROVE  PopIInv'
<1> PICK b0 \in ByteRange, b1 \in ByteRange, b2 \in ByteRange, b3 \in ByteRange :
      b0 = Byte(word, 0) /\ b1 = Byte(word, 1) /\ b2 = Byte(word, 2) /\ b3 = Byte(word, 3)
  <2>1. 0 \in 0 .. 3 /\ 1 \in 0 .. 3 /\ 2 \in 0 .. 3 /\ 3 \in 0 .. 3
    BY SMT
  <2> QED
    BY <2>1, BytesOfArgument DEF PopIInv
<1>1. done = 1 /\ i' = Masked(i, 2) + Masked(i \div 4, 2) /\ done' = 2 /\ word' = word
  BY DEF Quads
<1>2. i = Joined(PairsOf(b0), PairsOf(b1), PairsOf(b2), PairsOf(b3))
  <2>1. 1 < 4 /\ 1 # 0
    BY SMT
  <2> QED
    BY <1>1, <2>1 DEF PopIInv, After
<1>3. PairsOf(b0) \in ByteRange /\ PairsOf(b1) \in ByteRange /\ PairsOf(b2) \in ByteRange /\ PairsOf(b3) \in ByteRange
  BY AfterRange
<1>4. i' = Joined(QuadsOf(PairsOf(b0)), QuadsOf(PairsOf(b1)), QuadsOf(PairsOf(b2)), QuadsOf(PairsOf(b3)))
  BY <1>1, <1>2, <1>3, QuadsOfBytes
<1>5. /\ After(2, b0) = QuadsOf(PairsOf(b0)) /\ After(2, b1) = QuadsOf(PairsOf(b1))
      /\ After(2, b2) = QuadsOf(PairsOf(b2)) /\ After(2, b3) = QuadsOf(PairsOf(b3))
  <2>1. 2 # 0 /\ 2 # 1
    BY SMT
  <2> QED
    BY <2>1 DEF After
<1>6. i' = Joined(After(2, b0), After(2, b1), After(2, b2), After(2, b3))
  BY <1>4, <1>5
<1>7. 2 \in 0 .. 4 /\ 2 # 4
  BY SMT
<1> QED
  BY <1>1, <1>6, <1>7 DEF PopIInv

LEMMA EightsKeeps ==
  ASSUME PopIInv, Eights
  PROVE  PopIInv'
<1> PICK b0 \in ByteRange, b1 \in ByteRange, b2 \in ByteRange, b3 \in ByteRange :
      b0 = Byte(word, 0) /\ b1 = Byte(word, 1) /\ b2 = Byte(word, 2) /\ b3 = Byte(word, 3)
  <2>1. 0 \in 0 .. 3 /\ 1 \in 0 .. 3 /\ 2 \in 0 .. 3 /\ 3 \in 0 .. 3
    BY SMT
  <2> QED
    BY <2>1, BytesOfArgument DEF PopIInv
<1> DEFINE q0 == QuadsOf(PairsOf(b0))
           q1 == QuadsOf(PairsOf(b1))
           q2 == QuadsOf(PairsOf(b2))
           q3 == QuadsOf(PairsOf(b3))
<1>1. done = 2 /\ i' = Masked(i + (i \div 16), 4) /\ done' = 3 /\ word' = word
  BY DEF Eights
<1>2. i = Joined(q0, q1, q2, q3)
  <2>1. 2 < 4 /\ 2 # 0 /\ 2 # 1
    BY SMT
  <2> QED
    BY <1>1, <2>1 DEF PopIInv, After
<1>3. /\ q0 \in ByteRange /\ q1 \in ByteRange /\ q2 \in ByteRange /\ q3 \in ByteRange
      /\ q0 \div 16 <= 4 /\ q1 \div 16 <= 4 /\ q2 \div 16 <= 4 /\ q3 \div 16 <= 4
      /\ q1 % 16 <= 4 /\ q2 % 16 <= 4 /\ q3 % 16 <= 4
  BY AfterRange
<1>4. /\ After(3, b0) = EightsOf(q0) /\ After(3, b1) = EightsOf(q1)
      /\ After(3, b2) = EightsOf(q2) /\ After(3, b3) = EightsOf(q3)
  <2>1. 3 # 0 /\ 3 # 1 /\ 3 # 2
    BY SMT
  <2> QED
    BY <2>1 DEF After
<1> HIDE DEF q0, q1, q2, q3
<1>5. i' = Joined(EightsOf(q0), EightsOf(q1), EightsOf(q2), EightsOf(q3))
  BY <1>1, <1>2, <1>3, EightsOfBytes
<1>6. i' = Joined(After(3, b0), After(3, b1), After(3, b2), After(3, b3))
  BY <1>4, <1>5
<1>7. 3 \in 0 .. 4 /\ 3 # 4
  BY SMT
<1> QED
  BY <1>1, <1>6, <1>7 DEF PopIInv

LEMMA SumKeeps ==
  ASSUME PopIInv, Sum
  PROVE  PopIInv'
<1> PICK b0 \in ByteRange, b1 \in ByteRange, b2 \in ByteRange, b3 \in ByteRange :
      b0 = Byte(word, 0) /\ b1 = Byte(word, 1) /\ b2 = Byte(word, 2) /\ b3 = Byte(word, 3)
  <2>1. 0 \in 0 .. 3 /\ 1 \in 0 .. 3 /\ 2 \in 0 .. 3 /\ 3 \in 0 .. 3
    BY SMT
  <2> QED
    BY <2>1, BytesOfArgument DEF PopIInv
<1> DEFINE e0 == After(3, b0)
           e1 == After(3, b1)
           e2 == After(3, b2)
           e3 == After(3, b3)
<1>1. /\ done = 3 /\ done' = 4 /\ word' = word
      /\ i' = (i + ((i + ((i + (i \div 256)) \div 256)) \div 256)) % 256
  BY DEF Sum
<1>2. i = Joined(e0, e1, e2, e3)
  <2>1. 3 < 4
    BY SMT
  <2> QED
    BY <1>1, <2>1 DEF PopIInv
<1>3. e0 \in CountRange /\ e1 \in CountRange /\ e2 \in CountRange /\ e3 \in CountRange
  <2>1. 3 # 0 /\ 3 # 1 /\ 3 # 2
    BY SMT
  <2>2. /\ e0 = EightsOf(QuadsOf(PairsOf(b0))) /\ e1 = EightsOf(QuadsOf(PairsOf(b1)))
        /\ e2 = EightsOf(QuadsOf(PairsOf(b2))) /\ e3 = EightsOf(QuadsOf(PairsOf(b3)))
    BY <2>1 DEF After
  <2> HIDE DEF e0, e1, e2, e3
  <2> QED
    BY <2>2, AfterRange
<1> HIDE DEF e0, e1, e2, e3
<1>4. i' = e0 + e1 + e2 + e3
  BY <1>1, <1>2, <1>3, SumOfBytes
<1>5. 4 \in 0 .. 4 /\ ~(4 < 4)
  BY SMT
<1> QED
  BY <1>1, <1>4, <1>5 DEF PopIInv, e0, e1, e2, e3

(* The parameter is always made of the argument's bytes, each as far as    *)
(* the assignments have brought it.                                        *)
THEOREM PopInvariance == PopSpec => []PopIInv
<1>1. PopInit => PopIInv
  <2> SUFFICES ASSUME PopInit PROVE PopIInv
    OBVIOUS
  <2>1. word \in Words /\ i = word /\ done = 0
    BY DEF PopInit
  <2>2. i = Joined(Byte(word, 0), Byte(word, 1), Byte(word, 2), Byte(word, 3))
    BY <2>1, BytesOfArgument
  <2>3. 0 \in 0 .. 4 /\ 0 # 4
    BY SMT
  <2> QED
    BY <2>1, <2>2, <2>3 DEF PopIInv, After
<1>2. PopIInv /\ [PopNext]_popVars => PopIInv'
  <2> SUFFICES ASSUME PopIInv, [PopNext]_popVars PROVE PopIInv'
    OBVIOUS
  <2>1. CASE Pairs
    BY <2>1, PairsKeeps
  <2>2. CASE Quads
    BY <2>2, QuadsKeeps
  <2>3. CASE Eights
    BY <2>3, EightsKeeps
  <2>4. CASE Sum
    BY <2>4, SumKeeps
  <2>5. CASE UNCHANGED popVars
    BY <2>5 DEF PopIInv, popVars
  <2> QED
    BY <2>1, <2>2, <2>3, <2>4, <2>5 DEF PopNext
<1> QED
  BY <1>1, <1>2, PTL DEF PopSpec

-----------------------------------------------------------------------------
(* Counting the bits of a word *)

CountOf(w, from, n) == Cardinality(SetBitsIn(w, from, n))

Splits(w, from, n, m) == CountOf(w, from, n + m) = CountOf(w, from, n) + CountOf(w, from + n, m)

(* The bits of two neighbouring fields are counted apart.                  *)
LEMMA CountSplit ==
  ASSUME NEW w, NEW from \in Nat, NEW n \in Nat, NEW m \in Nat
  PROVE  Splits(w, from, n, m)
<1> DEFINE S == SetBitsIn(w, from, n)
           T == SetBitsIn(w, from + n, m)
           U == SetBitsIn(w, from, n + m)
           Lit(k) == BitOf(w, k) = 1
<1>1. IsFiniteSet(S) /\ IsFiniteSet(T)
  <2>1. from \in Int /\ from + n - 1 \in Int /\ from + n \in Int /\ from + n + m - 1 \in Int
    BY SMT
  <2>2. IsFiniteSet(from .. from + n - 1) /\ IsFiniteSet(from + n .. from + n + m - 1)
    BY <2>1, FS_Interval
  <2>3. S \subseteq from .. from + n - 1 /\ T \subseteq from + n .. from + n + m - 1
    BY DEF SetBitsIn
  <2> QED
    BY <2>2, <2>3, FS_Subset
<1>2. U = S \cup T /\ S \cap T = {}
  <2>1. /\ S = {k \in from .. from + n - 1 : Lit(k)}
        /\ T = {k \in from + n .. from + n + m - 1 : Lit(k)}
        /\ U = {k \in from .. from + (n + m) - 1 : Lit(k)}
    BY DEF SetBitsIn
  <2> HIDE DEF S, T, U, Lit
  <2> QED
    BY SMT, <2>1
<1>3. Cardinality(S) \in Nat /\ Cardinality(T) \in Nat
  BY <1>1, FS_CardinalityType
<1>4. Cardinality(U) = Cardinality(S) + Cardinality(T)
  <2>1. Cardinality(U) = Cardinality(S) + Cardinality(T) - Cardinality(S \cap T)
    BY <1>1, <1>2, FS_Union
  <2>2. Cardinality(S \cap T) = 0
    BY <1>2, FS_EmptySet
  <2> HIDE DEF S, T, U
  <2> QED
    BY SMT, <1>3, <2>1, <2>2
<1> QED
  BY <1>4 DEF CountOf, Splits

(* A field of one bit counts that bit.                                     *)
LEMMA CountOne ==
  ASSUME NEW w, NEW from \in Nat, BitOf(w, from) \in {0, 1}
  PROVE  CountOf(w, from, 1) = BitOf(w, from)
<1>1. SetBitsIn(w, from, 1) = {k \in {from} : BitOf(w, k) = 1}
  <2>1. from .. from + 1 - 1 = {from}
    BY SMT
  <2> QED
    BY <2>1 DEF SetBitsIn
<1>2. CASE BitOf(w, from) = 1
  <2>1. SetBitsIn(w, from, 1) = {from}
    BY <1>1, <1>2
  <2> QED
    BY <1>2, <2>1, FS_Singleton DEF CountOf
<1>3. CASE BitOf(w, from) = 0
  <2>1. SetBitsIn(w, from, 1) = {}
    <3>1. 0 # 1
      BY SMT
    <3> QED
      BY <1>1, <1>3, <3>1
  <2> QED
    BY <1>3, <2>1, FS_EmptySet DEF CountOf
<1> QED
  BY <1>2, <1>3

(* Fields of twice the width hold the sums.                                *)
LEMMA CountTwice ==
  ASSUME NEW w, NEW from \in Nat
  PROVE  /\ CountOf(w, from, 2) = CountOf(w, from, 1) + CountOf(w, from + 1, 1)
         /\ CountOf(w, from, 4) = CountOf(w, from, 2) + CountOf(w, from + 2, 2)
         /\ CountOf(w, from, 8) = CountOf(w, from, 4) + CountOf(w, from + 4, 4)
         /\ CountOf(w, from, 16) = CountOf(w, from, 8) + CountOf(w, from + 8, 8)
         /\ CountOf(w, from, 32) = CountOf(w, from, 16) + CountOf(w, from + 16, 16)
<1>1. \A n \in Nat : CountOf(w, from, n + n) = CountOf(w, from, n) + CountOf(w, from + n, n)
  <2> TAKE n \in Nat
  <2>1. Splits(w, from, n, n)
    BY CountSplit
  <2> QED
    BY <2>1 DEF Splits
<1>2. 2 = 1 + 1 /\ 4 = 2 + 2 /\ 8 = 4 + 4 /\ 16 = 8 + 8 /\ 32 = 16 + 16
  BY SMT
<1>3. 1 \in Nat /\ 2 \in Nat /\ 4 \in Nat /\ 8 \in Nat /\ 16 \in Nat
  BY SMT
<1>4. /\ CountOf(w, from, 1 + 1) = CountOf(w, from, 1) + CountOf(w, from + 1, 1)
      /\ CountOf(w, from, 2 + 2) = CountOf(w, from, 2) + CountOf(w, from + 2, 2)
      /\ CountOf(w, from, 4 + 4) = CountOf(w, from, 4) + CountOf(w, from + 4, 4)
      /\ CountOf(w, from, 8 + 8) = CountOf(w, from, 8) + CountOf(w, from + 8, 8)
      /\ CountOf(w, from, 16 + 16) = CountOf(w, from, 16) + CountOf(w, from + 16, 16)
  BY <1>1, <1>3
<1> QED
  BY <1>2, <1>4

(* Bit k of byte j.                                                        *)
LEMMA BitOfByte ==
  ASSUME NEW w, NEW j \in 0 .. 3, NEW k \in 0 .. 7
  PROVE  BitOf(w, (8 * j) + k) = BitIn(Byte(w, j), k)
<1>1. ((8 * j) + k) \div 8 = j /\ ((8 * j) + k) % 8 = k
  BY SMT
<1> QED
  BY <1>1 DEF BitOf, BitIn

(* How many bits of byte j are set: in its pairs, its quads and all of it. *)
LEMMA CountsOfWord ==
  ASSUME NEW w, NEW j \in 0 .. 3, Byte(w, j) \in ByteRange,
         NEW B, B = Byte(w, j)
  PROVE  /\ \A k \in 0 .. 7 : CountOf(w, (8 * j) + k, 1) = BitIn(B, k)
         /\ \A k \in 0 .. 6 : CountOf(w, (8 * j) + k, 2) = BitIn(B, k) + BitIn(B, k + 1)
         /\ \A k \in 0 .. 4 : CountOf(w, (8 * j) + k, 4)
                                = BitIn(B, k) + BitIn(B, k + 1) + BitIn(B, k + 2) + BitIn(B, k + 3)
         /\ CountOf(w, 8 * j, 8) = BitIn(B, 0) + BitIn(B, 1) + BitIn(B, 2) + BitIn(B, 3)
                                   + BitIn(B, 4) + BitIn(B, 5) + BitIn(B, 6) + BitIn(B, 7)
<1>1. \A k \in 0 .. 7 : CountOf(w, (8 * j) + k, 1) = BitIn(B, k)
  <2> SUFFICES ASSUME NEW k \in 0 .. 7 PROVE CountOf(w, (8 * j) + k, 1) = BitIn(B, k)
    OBVIOUS
  <2>1. BitOf(w, (8 * j) + k) = BitIn(B, k)
    BY BitOfByte
  <2>2. BitIn(B, k) \in {0, 1}
    BY ByteOfBits
  <2>3. (8 * j) + k \in Nat
    BY SMT
  <2> QED
    BY <2>1, <2>2, <2>3, CountOne
<1>2. \A k \in 0 .. 6 : CountOf(w, (8 * j) + k, 2) = BitIn(B, k) + BitIn(B, k + 1)
  <2> SUFFICES ASSUME NEW k \in 0 .. 6
               PROVE  CountOf(w, (8 * j) + k, 2) = BitIn(B, k) + BitIn(B, k + 1)
    OBVIOUS
  <2>1. /\ k \in 0 .. 7 /\ k + 1 \in 0 .. 7 /\ (8 * j) + k \in Nat
        /\ ((8 * j) + k) + 1 = (8 * j) + (k + 1)
    BY SMT
  <2>2. CountOf(w, (8 * j) + k, 2) = CountOf(w, (8 * j) + k, 1) + CountOf(w, ((8 * j) + k) + 1, 1)
    BY <2>1, CountTwice
  <2> QED
    BY <1>1, <2>1, <2>2
<1>3. \A k \in 0 .. 4 : CountOf(w, (8 * j) + k, 4)
                          = BitIn(B, k) + BitIn(B, k + 1) + BitIn(B, k + 2) + BitIn(B, k + 3)
  <2> SUFFICES ASSUME NEW k \in 0 .. 4
               PROVE  CountOf(w, (8 * j) + k, 4)
                        = BitIn(B, k) + BitIn(B, k + 1) + BitIn(B, k + 2) + BitIn(B, k + 3)
    OBVIOUS
  <2>1. /\ k \in 0 .. 6 /\ k + 2 \in 0 .. 6 /\ (8 * j) + k \in Nat
        /\ ((8 * j) + k) + 2 = (8 * j) + (k + 2) /\ (k + 2) + 1 = k + 3
    BY SMT
  <2>2. CountOf(w, (8 * j) + k, 4) = CountOf(w, (8 * j) + k, 2) + CountOf(w, ((8 * j) + k) + 2, 2)
    BY <2>1, CountTwice
  <2>3. /\ CountOf(w, (8 * j) + k, 2) = BitIn(B, k) + BitIn(B, k + 1)
        /\ CountOf(w, (8 * j) + (k + 2), 2) = BitIn(B, k + 2) + BitIn(B, k + 3)
    BY <1>2, <2>1
  <2>4. k \in 0 .. 7 /\ k + 1 \in 0 .. 7 /\ k + 2 \in 0 .. 7 /\ k + 3 \in 0 .. 7
    BY SMT
  <2>5. /\ BitIn(B, k) \in {0, 1} /\ BitIn(B, k + 1) \in {0, 1}
        /\ BitIn(B, k + 2) \in {0, 1} /\ BitIn(B, k + 3) \in {0, 1}
    BY <2>4, ByteOfBits
  <2>6. CountOf(w, (8 * j) + k, 4) = (BitIn(B, k) + BitIn(B, k + 1)) + (BitIn(B, k + 2) + BitIn(B, k + 3))
    BY <2>1, <2>2, <2>3
  <2> QED
    BY SMT, <2>5, <2>6
<1>4. CountOf(w, 8 * j, 8) = BitIn(B, 0) + BitIn(B, 1) + BitIn(B, 2) + BitIn(B, 3)
                             + BitIn(B, 4) + BitIn(B, 5) + BitIn(B, 6) + BitIn(B, 7)
  <2>1. 8 * j \in Nat /\ (8 * j) + 0 = 8 * j /\ 0 \in 0 .. 4 /\ 4 \in 0 .. 4
    BY SMT
  <2>2. CountOf(w, 8 * j, 8) = CountOf(w, 8 * j, 4) + CountOf(w, (8 * j) + 4, 4)
    BY <2>1, CountTwice
  <2>3. CountOf(w, (8 * j) + 0, 4) = BitIn(B, 0) + BitIn(B, 0 + 1) + BitIn(B, 0 + 2) + BitIn(B, 0 + 3)
    BY <1>3, <2>1
  <2>4. CountOf(w, (8 * j) + 4, 4) = BitIn(B, 4) + BitIn(B, 4 + 1) + BitIn(B, 4 + 2) + BitIn(B, 4 + 3)
    BY <1>3, <2>1
  <2>5. 0 + 1 = 1 /\ 0 + 2 = 2 /\ 0 + 3 = 3 /\ 4 + 1 = 5 /\ 4 + 2 = 6 /\ 4 + 3 = 7
    BY SMT
  <2>6. /\ CountOf(w, 8 * j, 4) = BitIn(B, 0) + BitIn(B, 1) + BitIn(B, 2) + BitIn(B, 3)
        /\ CountOf(w, (8 * j) + 4, 4) = BitIn(B, 4) + BitIn(B, 5) + BitIn(B, 6) + BitIn(B, 7)
    BY <2>1, <2>3, <2>4, <2>5
  <2>7. /\ BitIn(B, 0) \in {0, 1} /\ BitIn(B, 1) \in {0, 1} /\ BitIn(B, 2) \in {0, 1}
        /\ BitIn(B, 3) \in {0, 1} /\ BitIn(B, 4) \in {0, 1} /\ BitIn(B, 5) \in {0, 1}
        /\ BitIn(B, 6) \in {0, 1} /\ BitIn(B, 7) \in {0, 1}
    BY SMT, ByteOfBits
  <2> QED
    BY SMT, <2>2, <2>6, <2>7
<1> QED
  BY <1>1, <1>2, <1>3, <1>4

-----------------------------------------------------------------------------
(* The fields count *)

(* The fields of a byte, by the divisions that find them.                  *)
LEMMA FieldsOfByte ==
  ASSUME NEW b \in ByteRange
  PROVE  /\ \A k \in {0, 2, 4, 6} :
              (PairsOf(b) \div 2 ^ k) % 2 ^ 2 = BitIn(b, k) + BitIn(b, k + 1)
         /\ \A k \in {0, 4} :
              (QuadsOf(PairsOf(b)) \div 2 ^ k) % 2 ^ 4
                = BitIn(b, k) + BitIn(b, k + 1) + BitIn(b, k + 2) + BitIn(b, k + 3)
         /\ EightsOf(QuadsOf(PairsOf(b)))
              = BitIn(b, 0) + BitIn(b, 1) + BitIn(b, 2) + BitIn(b, 3)
                + BitIn(b, 4) + BitIn(b, 5) + BitIn(b, 6) + BitIn(b, 7)
<1> DEFINE p == PairsOf(b)
           q == QuadsOf(p)
           e == EightsOf(q)
<1>1. PICK x0 \in {0, 1}, x1 \in {0, 1}, x2 \in {0, 1}, x3 \in {0, 1},
           x4 \in {0, 1}, x5 \in {0, 1}, x6 \in {0, 1}, x7 \in {0, 1} :
        /\ BitIn(b, 0) = x0 /\ BitIn(b, 1) = x1 /\ BitIn(b, 2) = x2 /\ BitIn(b, 3) = x3
        /\ BitIn(b, 4) = x4 /\ BitIn(b, 5) = x5 /\ BitIn(b, 6) = x6 /\ BitIn(b, 7) = x7
  <2>1. /\ BitIn(b, 0) \in {0, 1} /\ BitIn(b, 1) \in {0, 1} /\ BitIn(b, 2) \in {0, 1}
        /\ BitIn(b, 3) \in {0, 1} /\ BitIn(b, 4) \in {0, 1} /\ BitIn(b, 5) \in {0, 1}
        /\ BitIn(b, 6) \in {0, 1} /\ BitIn(b, 7) \in {0, 1}
    BY SMT, ByteOfBits
  <2> QED
    BY <2>1
<1>2. b = x0 + (2 * x1) + (4 * x2) + (8 * x3) + (16 * x4) + (32 * x5) + (64 * x6) + (128 * x7)
  BY <1>1, ByteOfBits
<1>3. /\ p = (x0 + x1) + (4 * (x2 + x3)) + (16 * (x4 + x5)) + (64 * (x6 + x7))
      /\ q = (x0 + x1 + x2 + x3) + (16 * (x4 + x5 + x6 + x7))
      /\ e = x0 + x1 + x2 + x3 + x4 + x5 + x6 + x7
  BY <1>2, CountsOfByte
<1> HIDE DEF p, q, e
<1>4. /\ (p \div 1) % 4 = x0 + x1 /\ (p \div 4) % 4 = x2 + x3
      /\ (p \div 16) % 4 = x4 + x5 /\ (p \div 64) % 4 = x6 + x7
  BY SMT, <1>3
<1>5. (q \div 1) % 16 = x0 + x1 + x2 + x3 /\ (q \div 16) % 16 = x4 + x5 + x6 + x7
  BY SMT, <1>3
<1>6. 2 ^ 0 = 1 /\ 2 ^ 2 = 4 /\ 2 ^ 4 = 16 /\ 2 ^ 6 = 64
  BY SMT
<1>7. /\ 0 + 1 = 1 /\ 0 + 2 = 2 /\ 0 + 3 = 3 /\ 2 + 1 = 3
      /\ 4 + 1 = 5 /\ 4 + 2 = 6 /\ 4 + 3 = 7 /\ 6 + 1 = 7
  BY SMT
<1>8. \A k \in {0, 2, 4, 6} : (p \div 2 ^ k) % 2 ^ 2 = BitIn(b, k) + BitIn(b, k + 1)
  BY <1>1, <1>4, <1>6, <1>7
<1>9. \A k \in {0, 4} : (q \div 2 ^ k) % 2 ^ 4
                          = BitIn(b, k) + BitIn(b, k + 1) + BitIn(b, k + 2) + BitIn(b, k + 3)
  BY <1>1, <1>5, <1>6, <1>7
<1>10. e = BitIn(b, 0) + BitIn(b, 1) + BitIn(b, 2) + BitIn(b, 3)
           + BitIn(b, 4) + BitIn(b, 5) + BitIn(b, 6) + BitIn(b, 7)
  BY <1>1, <1>3
<1> QED
  BY <1>8, <1>9, <1>10 DEF p, q, e

(* The bytes of the parameter while it is a word.                          *)
LEMMA BytesOfParameter ==
  ASSUME PopIInv, done < 4
  PROVE  \A j \in 0 .. 3 : Byte(i, j) = After(done, Byte(word, j))
<1> PICK b0 \in ByteRange, b1 \in ByteRange, b2 \in ByteRange, b3 \in ByteRange :
      b0 = Byte(word, 0) /\ b1 = Byte(word, 1) /\ b2 = Byte(word, 2) /\ b3 = Byte(word, 3)
  <2>1. 0 \in 0 .. 3 /\ 1 \in 0 .. 3 /\ 2 \in 0 .. 3 /\ 3 \in 0 .. 3
    BY SMT
  <2> QED
    BY <2>1, BytesOfArgument DEF PopIInv
<1>1. \A b \in ByteRange : After(done, b) \in ByteRange
  <2> TAKE b \in ByteRange
  <2>1. /\ PairsOf(b) \in ByteRange /\ QuadsOf(PairsOf(b)) \in ByteRange
        /\ EightsOf(QuadsOf(PairsOf(b))) \in CountRange
    BY AfterRange
  <2>2. EightsOf(QuadsOf(PairsOf(b))) \in ByteRange
    BY SMT, <2>1 DEF ByteRange, CountRange
  <2> QED
    BY <2>1, <2>2 DEF After
<1>2. i = Joined(After(done, b0), After(done, b1), After(done, b2), After(done, b3))
  BY DEF PopIInv
<1>3. /\ Byte(i, 0) = After(done, b0) /\ Byte(i, 1) = After(done, b1)
      /\ Byte(i, 2) = After(done, b2) /\ Byte(i, 3) = After(done, b3)
  BY <1>1, <1>2, BytesOfWord
<1>4. \A j \in 0 .. 3 : j = 0 \/ j = 1 \/ j = 2 \/ j = 3
  BY SMT
<1> QED
  BY <1>3, <1>4

(* Each field of the parameter counts its bits of the argument.            *)
FieldCounts(f) ==
  Field(i, f * Width(done), Width(done)) = CountOf(word, f * Width(done), Width(done))

LEMMA ZeroDone ==
  ASSUME PopIInv, done = 0, NEW f \in 0 .. 31
  PROVE  FieldCounts(f)
<1>1. Width(done) = 1 /\ f * 1 = f /\ 1 # 32 /\ 0 < 4 /\ 2 ^ 1 = 2 /\ f \in Nat
  BY SMT DEF Width
<1>2. PICK j \in 0 .. 3, k \in 0 .. 7 : f = (8 * j) + k
  <2>1. f \div 8 \in 0 .. 3 /\ f % 8 \in 0 .. 7 /\ f = (8 * (f \div 8)) + (f % 8)
    BY SMT
  <2> QED
    BY <2>1
<1>3. f \div 8 = j /\ f % 8 = k
  BY SMT, <1>2
<1>4. Byte(i, j) = Byte(word, j)
  BY <1>1, BytesOfParameter DEF After
<1>5. Field(i, f, 1) = BitIn(Byte(word, j), k)
  BY <1>1, <1>3, <1>4 DEF Field, BitIn
<1>6. CountOf(word, (8 * j) + k, 1) = BitIn(Byte(word, j), k)
  <2>1. Byte(word, j) \in ByteRange
    BY BytesOfArgument DEF PopIInv
  <2> QED
    BY <2>1, CountsOfWord
<1> QED
  BY <1>1, <1>2, <1>5, <1>6 DEF FieldCounts

LEMMA OneDone ==
  ASSUME PopIInv, done = 1, NEW f \in 0 .. 15
  PROVE  FieldCounts(f)
<1>1. Width(done) = 2 /\ 2 # 32 /\ 1 < 4 /\ f * 2 \in Nat
  BY SMT DEF Width
<1>2. PICK j \in 0 .. 3, k \in {0, 2, 4, 6} : f * 2 = (8 * j) + k
  <2> DEFINE j == f \div 4
             k == 2 * (f % 4)
  <2>1. j \in 0 .. 3 /\ k \in {0, 2, 4, 6} /\ f * 2 = (8 * j) + k
    BY SMT
  <2> QED
    BY <2>1
<1>3. (f * 2) \div 8 = j /\ (f * 2) % 8 = k /\ k \in 0 .. 6
  BY SMT, <1>2
<1>4. Byte(i, j) = PairsOf(Byte(word, j))
  <2>1. 1 # 0
    BY SMT
  <2> QED
    BY <1>1, <2>1, BytesOfParameter DEF After
<1>5. Byte(word, j) \in ByteRange
  BY BytesOfArgument DEF PopIInv
<1>6. Field(i, f * 2, 2) = BitIn(Byte(word, j), k) + BitIn(Byte(word, j), k + 1)
  <2>1. Field(i, f * 2, 2) = (PairsOf(Byte(word, j)) \div 2 ^ k) % 2 ^ 2
    BY <1>1, <1>3, <1>4 DEF Field
  <2> QED
    BY <1>5, <2>1, FieldsOfByte
<1>7. CountOf(word, (8 * j) + k, 2) = BitIn(Byte(word, j), k) + BitIn(Byte(word, j), k + 1)
  BY <1>3, <1>5, CountsOfWord
<1> QED
  BY <1>1, <1>2, <1>6, <1>7 DEF FieldCounts

LEMMA TwoDone ==
  ASSUME PopIInv, done = 2, NEW f \in 0 .. 7
  PROVE  FieldCounts(f)
<1>1. Width(done) = 4 /\ 4 # 32 /\ 2 < 4 /\ f * 4 \in Nat
  BY SMT DEF Width
<1>2. PICK j \in 0 .. 3, k \in {0, 4} : f * 4 = (8 * j) + k
  <2> DEFINE j == f \div 2
             k == 4 * (f % 2)
  <2>1. j \in 0 .. 3 /\ k \in {0, 4} /\ f * 4 = (8 * j) + k
    BY SMT
  <2> QED
    BY <2>1
<1>3. (f * 4) \div 8 = j /\ (f * 4) % 8 = k /\ k \in 0 .. 4
  BY SMT, <1>2
<1>4. Byte(i, j) = QuadsOf(PairsOf(Byte(word, j)))
  <2>1. 2 # 0 /\ 2 # 1
    BY SMT
  <2> QED
    BY <1>1, <2>1, BytesOfParameter DEF After
<1>5. Byte(word, j) \in ByteRange
  BY BytesOfArgument DEF PopIInv
<1> DEFINE B == Byte(word, j)
           four == BitIn(B, k) + BitIn(B, k + 1) + BitIn(B, k + 2) + BitIn(B, k + 3)
<1>6. Field(i, f * 4, 4) = four
  <2>1. Field(i, f * 4, 4) = (QuadsOf(PairsOf(B)) \div 2 ^ k) % 2 ^ 4
    BY <1>1, <1>3, <1>4 DEF Field
  <2> QED
    BY <1>5, <2>1, FieldsOfByte
<1>7. CountOf(word, (8 * j) + k, 4) = four
  BY <1>3, <1>5, CountsOfWord
<1> QED
  BY <1>1, <1>2, <1>6, <1>7 DEF FieldCounts

LEMMA ThreeDone ==
  ASSUME PopIInv, done = 3, NEW f \in 0 .. 3
  PROVE  FieldCounts(f)
<1>1. /\ Width(done) = 8 /\ 8 # 32 /\ 3 < 4 /\ f * 8 = 8 * f
      /\ (8 * f) \div 8 = f /\ (8 * f) % 8 = 0
  BY SMT DEF Width
<1>2. Byte(word, f) \in ByteRange
  BY BytesOfArgument DEF PopIInv
<1> DEFINE e == EightsOf(QuadsOf(PairsOf(Byte(word, f))))
<1>3. Byte(i, f) = e
  <2>1. 3 # 0 /\ 3 # 1 /\ 3 # 2
    BY SMT
  <2> QED
    BY <1>1, <2>1, BytesOfParameter DEF After
<1>4. e \in CountRange
  BY <1>2, AfterRange
<1>5. CountOf(word, 8 * f, 8) = e
  BY <1>2, CountsOfWord, FieldsOfByte
<1> HIDE DEF e
<1>6. (e \div 2 ^ 0) % 2 ^ 8 = e
  BY SMT, <1>4 DEF CountRange
<1>7. Field(i, 8 * f, 8) = e
  BY Zenon, <1>1, <1>3, <1>6 DEF Field
<1> QED
  BY <1>1, <1>5, <1>7 DEF FieldCounts

LEMMA FourDone ==
  ASSUME PopIInv, done = 4
  PROVE  FieldCounts(0)
<1> DEFINE e(j) == EightsOf(QuadsOf(PairsOf(Byte(word, j))))
<1>1. Width(done) = 32 /\ 0 * 32 = 0
  BY SMT DEF Width
<1>2. \A j \in 0 .. 3 : e(j) \in CountRange /\ CountOf(word, 8 * j, 8) = e(j)
  <2> TAKE j \in 0 .. 3
  <2>1. Byte(word, j) \in ByteRange
    BY BytesOfArgument DEF PopIInv
  <2>2. e(j) \in CountRange
    BY <2>1, AfterRange
  <2>3. CountOf(word, 8 * j, 8) = e(j)
    BY <2>1, CountsOfWord, FieldsOfByte
  <2> QED
    BY <2>2, <2>3
<1>3. i = e(0) + e(1) + e(2) + e(3)
  <2>1. 3 # 0 /\ 3 # 1 /\ 3 # 2
    BY SMT
  <2> QED
    BY <2>1 DEF PopIInv, After
<1> HIDE DEF e
<1>4. /\ e(0) \in CountRange /\ e(1) \in CountRange /\ e(2) \in CountRange /\ e(3) \in CountRange
      /\ CountOf(word, 0, 8) = e(0) /\ CountOf(word, 8, 8) = e(1)
      /\ CountOf(word, 16, 8) = e(2) /\ CountOf(word, 24, 8) = e(3)
  <2>1. 0 \in 0 .. 3 /\ 1 \in 0 .. 3 /\ 2 \in 0 .. 3 /\ 3 \in 0 .. 3
    BY SMT
  <2>2. 8 * 0 = 0 /\ 8 * 1 = 8 /\ 8 * 2 = 16 /\ 8 * 3 = 24
    BY SMT
  <2>3. /\ CountOf(word, 8 * 0, 8) = e(0) /\ CountOf(word, 8 * 1, 8) = e(1)
        /\ CountOf(word, 8 * 2, 8) = e(2) /\ CountOf(word, 8 * 3, 8) = e(3)
    BY <1>2, <2>1
  <2> QED
    BY <1>2, <2>1, <2>2, <2>3
<1>5. /\ CountOf(word, 0, 32) = CountOf(word, 0, 16) + CountOf(word, 16, 16)
      /\ CountOf(word, 0, 16) = CountOf(word, 0, 8) + CountOf(word, 8, 8)
      /\ CountOf(word, 16, 16) = CountOf(word, 16, 8) + CountOf(word, 24, 8)
  <2>1. 0 \in Nat /\ 16 \in Nat /\ 0 + 16 = 16 /\ 0 + 8 = 8 /\ 16 + 8 = 24
    BY SMT
  <2>2. /\ CountOf(word, 0, 32) = CountOf(word, 0, 16) + CountOf(word, 0 + 16, 16)
        /\ CountOf(word, 0, 16) = CountOf(word, 0, 8) + CountOf(word, 0 + 8, 8)
        /\ CountOf(word, 16, 16) = CountOf(word, 16, 8) + CountOf(word, 16 + 8, 8)
    BY <2>1, CountTwice
  <2> QED
    BY <2>1, <2>2
<1>6. CountOf(word, 0, 32) = (e(0) + e(1)) + (e(2) + e(3))
  BY <1>4, <1>5
<1>7. CountOf(word, 0, 32) = i
  BY SMT, <1>3, <1>4, <1>6 DEF CountRange
<1>8. Field(i, 0, 32) = i
  BY DEF Field
<1> QED
  BY <1>1, <1>7, <1>8 DEF FieldCounts

(* Every parity flag rests on this: after each assignment every field      *)
(* holds the number of bits that the argument has set in it, whatever the  *)
(* word of 32 bits.                                                        *)
THEOREM BitsAreCounted == PopSpec => []FieldsCount
<1>1. PopIInv => FieldsCount
  <2> SUFFICES ASSUME PopIInv, NEW f \in 0 .. (31 \div Width(done))
               PROVE  FieldCounts(f)
    BY DEF FieldsCount, FieldCounts, CountOf
  <2>1. done = 0 \/ done = 1 \/ done = 2 \/ done = 3 \/ done = 4
    BY SMT DEF PopIInv
  <2>2. 31 \div 1 = 31 /\ 31 \div 2 = 15 /\ 31 \div 4 = 7 /\ 31 \div 8 = 3 /\ 31 \div 32 = 0
    BY SMT
  <2>3. CASE done = 0
    <3>1. Width(done) = 1
      BY SMT, <2>3 DEF Width
    <3> QED
      BY <2>2, <2>3, <3>1, ZeroDone
  <2>4. CASE done = 1
    <3>1. Width(done) = 2
      BY SMT, <2>4 DEF Width
    <3> QED
      BY <2>2, <2>4, <3>1, OneDone
  <2>5. CASE done = 2
    <3>1. Width(done) = 4
      BY SMT, <2>5 DEF Width
    <3> QED
      BY <2>2, <2>5, <3>1, TwoDone
  <2>6. CASE done = 3
    <3>1. Width(done) = 8
      BY SMT, <2>6 DEF Width
    <3> QED
      BY <2>2, <2>6, <3>1, ThreeDone
  <2>7. CASE done = 4
    <3>1. Width(done) = 32
      BY SMT, <2>7 DEF Width
    <3>2. f = 0
      BY SMT, <2>2, <3>1
    <3> QED
      BY <2>7, <3>2, FourDone
  <2> QED
    BY <2>1, <2>3, <2>4, <2>5, <2>6, <2>7
<1> QED
  BY <1>1, PopInvariance, PTL

-----------------------------------------------------------------------------
(* What the instructions get *)

(* The count of a byte is SetBits of it.                                   *)
LEMMA EightsAreSetBits ==
  ASSUME NEW b \in ByteRange
  PROVE  EightsOf(QuadsOf(PairsOf(b))) = SetBits(b)
<1>1. EightsOf(QuadsOf(PairsOf(b))) = BitIn(b, 0) + BitIn(b, 1) + BitIn(b, 2) + BitIn(b, 3)
                                      + BitIn(b, 4) + BitIn(b, 5) + BitIn(b, 6) + BitIn(b, 7)
  BY FieldsOfByte
<1>2. b \div 1 = b
  BY SMT DEF ByteRange
<1>3. /\ BitIn(b, 0) = b % 2 /\ BitIn(b, 1) = (b \div 2) % 2
      /\ BitIn(b, 2) = (b \div 4) % 2 /\ BitIn(b, 3) = (b \div 8) % 2
      /\ BitIn(b, 4) = (b \div 16) % 2 /\ BitIn(b, 5) = (b \div 32) % 2
      /\ BitIn(b, 6) = (b \div 64) % 2 /\ BitIn(b, 7) = (b \div 128) % 2
  BY <1>2, EightBits
<1> QED
  BY <1>1, <1>3 DEF SetBits

(* The parity of a result is taken from SetBits in Instructions; for every *)
(* byte that is what countWithOddSetBits returns.                          *)
THEOREM HandlersGetTheCount == PopSpec => []ReturnsSetBits
<1>1. PopIInv => ReturnsSetBits
  <2> SUFFICES ASSUME PopIInv, done = 4, word < 256
               PROVE  i = SetBits(word)
    BY DEF ReturnsSetBits
  <2> DEFINE e(b) == EightsOf(QuadsOf(PairsOf(b)))
  <2>1. word \in Nat
    BY WordsAssumption DEF PopIInv
  <2>2. word \in ByteRange /\ 0 \in ByteRange
    BY SMT, <2>1 DEF ByteRange
  <2>3. Byte(word, 0) = word /\ Byte(word, 1) = 0 /\ Byte(word, 2) = 0 /\ Byte(word, 3) = 0
    <3>1. word = Joined(word, 0, 0, 0)
      BY SMT, <2>1 DEF Joined
    <3> QED
      BY <2>2, <3>1, BytesOfWord
  <2>4. i = e(word) + e(0) + e(0) + e(0)
    <3>1. 3 # 0 /\ 3 # 1 /\ 3 # 2
      BY SMT
    <3>2. i = After(3, word) + After(3, 0) + After(3, 0) + After(3, 0)
      BY <2>3 DEF PopIInv
    <3> QED
      BY <3>1, <3>2 DEF After
  <2>5. e(0) = SetBits(0) /\ e(word) = SetBits(word) /\ e(word) \in CountRange
    BY <2>2, EightsAreSetBits, AfterRange
  <2>6. SetBits(0) = 0
    BY SMT DEF SetBits
  <2> HIDE DEF e
  <2> QED
    BY SMT, <2>4, <2>5, <2>6 DEF CountRange
<1> QED
  BY <1>1, PopInvariance, PTL

=============================================================================
