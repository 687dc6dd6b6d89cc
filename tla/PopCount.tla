------------------------------ MODULE PopCount ------------------------------
(***************************************************************************)
(* countWithOddSetBits (src/src/utils/utils.cpp): the number of set bits   *)
(* of a word, added up in fields of two, four and eight bits at a time and *)
(* the four bytes at the end.  Every parity flag comes from it.            *)
(***************************************************************************)
EXTENDS Bits, Sequences, FiniteSets

CONSTANT Words          \* arguments

\* A uint32_t.
ASSUME WordsAssumption == \A w \in Words : w \in Nat /\ w \div 65536 < 65536

VARIABLES
  word,                 \* the argument
  i,                    \* the parameter, which the function assigns to
  done                  \* assignments executed

popVars == <<word, i, done>>

-----------------------------------------------------------------------------
(* Bits.  A shift to the right by s bits is a division by 2^s.             *)

Byte(x, j) == (x \div 256 ^ j) % 256

\* What a mask of ones and zeros in turn, n of each, keeps of the byte b.
KeptOf(b, n) ==
  CASE n = 1 -> (b % 2) + 4 * ((b \div 4) % 2) + 16 * ((b \div 16) % 2) + 64 * ((b \div 64) % 2)
    [] n = 2 -> (b % 4) + 16 * ((b \div 16) % 4)
    [] n = 4 -> b % 16

\* x & 0x55555555 for n = 1, x & 0x33333333 for n = 2, x & 0x0F0F0F0F for n = 4.
Masked(x, n) ==
    KeptOf(Byte(x, 0), n) + 256 * KeptOf(Byte(x, 1), n)
  + 65536 * KeptOf(Byte(x, 2), n) + 16777216 * KeptOf(Byte(x, 3), n)

-----------------------------------------------------------------------------
PopInit == word \in Words /\ i = word /\ done = 0

\* Mutant: the mask of the second step for the first.
Pairs_wide ==
  /\ done = 0
  /\ i' = i - Masked(i \div 2, 2)
  /\ done' = 1
  /\ UNCHANGED word

\* i - ((i >> 1) & 0x55555555)
Pairs ==
  /\ done = 0
  /\ i' = i - Masked(i \div 2, 1)
  /\ done' = 1
  /\ UNCHANGED word

\* (i & 0x33333333) + ((i >> 2) & 0x33333333)
Quads ==
  /\ done = 1
  /\ i' = Masked(i, 2) + Masked(i \div 4, 2)
  /\ done' = 2
  /\ UNCHANGED word

\* Mutant: the mask of the third step forgotten.
Eights_unmasked ==
  /\ done = 2
  /\ i' = i + (i \div 16)
  /\ done' = 3
  /\ UNCHANGED word

\* (i + (i >> 4)) & 0x0F0F0F0F
Eights ==
  /\ done = 2
  /\ i' = Masked(i + (i \div 16), 4)
  /\ done' = 3
  /\ UNCHANGED word

\* (i * 0x01010101) >> 24: the bytes of i added up, each with the carry of
\* the sums to its right, modulo 2^8 because the product is one of 32 bits.
Sum ==
  /\ done = 3
  /\ i' = (i + ((i + ((i + (i \div 256)) \div 256)) \div 256)) % 256
  /\ done' = 4
  /\ UNCHANGED word

PopNext == Pairs \/ Quads \/ Eights \/ Sum

PopSpec == PopInit /\ [][PopNext]_popVars

-----------------------------------------------------------------------------
\* The width of the fields that hold a count after n assignments.
Width(n) == <<1, 2, 4, 8, 32>>[n + 1]

BitOf(w, k) == (Byte(w, k \div 8) \div 2 ^ (k % 8)) % 2

SetBitsIn(w, from, n) == {k \in from .. from + n - 1 : BitOf(w, k) = 1}

\* The n bits of x from bit from upwards; they do not cross a byte.
Field(x, from, n) ==
  IF n = 32 THEN x ELSE (Byte(x, from \div 8) \div 2 ^ (from % 8)) % 2 ^ n

(* After each assignment every field holds the number of bits that the     *)
(* argument has set in it, at the end in all of it: no borrow of the       *)
(* subtraction, no carry of a sum and none of the product reaches the next *)
(* field.                                                                  *)
FieldsCount ==
  \A f \in 0 .. (31 \div Width(done)) :
    LET from == f * Width(done)
    IN  Field(i, from, Width(done)) = Cardinality(SetBitsIn(word, from, Width(done)))

(* For a byte, the only argument of the instructions, the function returns *)
(* what Instructions takes every PF from.                                  *)
ReturnsSetBits == done = 4 /\ word < 256 => i = SetBits(word)
=============================================================================
