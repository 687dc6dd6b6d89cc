------------------------------- MODULE Memory -------------------------------
(***************************************************************************)
(* The memory of the machine (src/src/memory/memory.cpp): one array of     *)
(* bytes, allocated and never cleared, read and written in units of one,   *)
(* two or four bytes, the least significant byte first.  No accessor looks *)
(* at the size of the array.                                               *)
(*                                                                         *)
(* The array is kept sparse.  ram holds the bytes the program has written, *)
(* and every other byte is the one new[] found on the heap.                *)
(***************************************************************************)
EXTENDS Integers

CONSTANTS
  MemorySize,     \* bytes in the array (MEM_SIZE is 0xFFFFF in main.cpp)
  TopByte,        \* values of the top byte of a uint32_t: 256 in the program
  Heaps,          \* what the allocation may have left in the array
  Garbage(_, _)   \* Garbage(h, a): the byte that heap h has at address a

Byte  == 256
Word  == 65536
Dword == 16777216 * TopByte

Address    == 0 .. MemorySize - 1
ByteValue  == 0 .. Byte - 1
WordValue  == 0 .. Word - 1
DwordValue == 0 .. Dword - 1

\* Instruction fetch leaves the array before a uint32_t address wraps.
ASSUME MemoryAssumption ==
  /\ TopByte \in 1 .. 256
  /\ MemorySize \in Nat \ {0}
  /\ MemorySize + 16 <= Dword

ASSUME HeapAssumption ==
  \A h \in Heaps : \A a \in Address : Garbage(h, a) \in ByteValue

VARIABLES
  heap,           \* the heap that holds the array
  ram,            \* the bytes written since, by address
  strayed         \* an access has left the array: nothing is known any more

memoryVars == <<heap, ram, strayed>>

-----------------------------------------------------------------------------
(* Reading *)

readImm8(a) == IF a \in DOMAIN ram THEN ram[a] ELSE Garbage(heap, a)

readImm16(a) == (readImm8(a + 1) * Byte) + readImm8(a)

\* The modulus keeps the value in the width of a register (a no-op for 256).
readImm32(a) ==
  ((readImm8(a + 3) % TopByte) * 16777216) + (readImm8(a + 2) * Word) + readImm16(a)

\* The value of n bytes at address a; an absent field counts as zero.
readImm(a, n) ==
  CASE n = 1 -> readImm8(a)
    [] n = 2 -> readImm16(a)
    [] n = 4 -> readImm32(a)
    [] OTHER -> 0

-----------------------------------------------------------------------------
(* Writing: each operator is the contents of ram after the call *)

\* Byte i of the unsigned value v, byte 0 the least significant one.
ByteOf(v, i) ==
  CASE i = 0 -> v % Byte
    [] i = 1 -> (v \div Byte) % Byte
    [] i = 2 -> (v \div Word) % Byte
    [] OTHER -> (v \div 16777216) % Byte

Window(a, n) == a .. (a + n - 1)

writeImm(v, a, n) ==
  [x \in DOMAIN ram \cup Window(a, n) |->
     IF x \in Window(a, n) THEN ByteOf(v, x - a) ELSE ram[x]]

writeImm8(v, a)  == writeImm(v, a, 1)
writeImm16(v, a) == writeImm(v, a, 2)
writeImm32(v, a) == writeImm(v, a, 4)

-----------------------------------------------------------------------------
MemoryTypeOK ==
  /\ heap \in Heaps
  /\ DOMAIN ram \subseteq Address
  /\ \A a \in DOMAIN ram : ram[a] \in ByteValue
  /\ strayed \in BOOLEAN
=============================================================================
