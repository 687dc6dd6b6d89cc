-------------------------------- MODULE Bits --------------------------------
(***************************************************************************)
(* The bit count as the instructions see it: PopCount shows that           *)
(* countWithOddSetBits (src/src/utils/utils.cpp) computes it.              *)
(***************************************************************************)
EXTENDS Integers

\* countWithOddSetBits of one byte, the only argument it is given.
SetBits(b) ==
  (b % 2) + ((b \div 2) % 2) + ((b \div 4) % 2) + ((b \div 8) % 2) +
  ((b \div 16) % 2) + ((b \div 32) % 2) + ((b \div 64) % 2) + ((b \div 128) % 2)
=============================================================================
