------------------------------- MODULE MCI386 -------------------------------
(***************************************************************************)
(* Values for the constants of I386.                                       *)
(***************************************************************************)
EXTENDS I386Properties, SequencesExt

\* Heaps: one of zeros, of hlt, of prefixes, one where a byte tells its address.
MCGarbage(h, a) ==
  CASE h = "zeros" -> 0
    [] h = "hlts" -> 244
    [] h = "prefixes" -> OPERAND_SIZE
    [] OTHER -> a % Byte

-----------------------------------------------------------------------------
(* One instruction of every shape, behind a prologue that gives the        *)
(* registers different values:                                             *)
(*   add eax, 0x000881F0 ; add ebx, eax ; add al, 0x11 ; add esi, eax ;    *)
(*   add al, 0x7E ; add edi, eax ; add ecx, eax ; adc ax, 0xFFFF ;         *)
(*   add ebp, eax ; add edx, ebx                                           *)
Prologue ==
  <<102, 5, 240, 129, 8, 0>> \o <<102, 1, 195>> \o <<4, 17>> \o <<102, 1, 198>> \o
  <<4, 126>> \o <<102, 1, 199>> \o <<102, 1, 193>> \o <<21, 255, 255>> \o
  <<102, 1, 197>> \o <<102, 1, 218>>

PrefixChoices == {<<>>, <<102>>, <<103>>, <<102, 103>>, <<46, 103, 46>>}
ModRMOpcodes == {o \in 0 .. 19 : o % 8 < 4}
OtherOpcodes == (0 .. 23 \cup {144, 244}) \ ModRMOpcodes

\* Displacements of one byte with the sign bit set.
NegativeImages ==
  {Prologue \o p \o <<o, 64 + m, d>> : p \in {<<>>, <<103>>}, o \in {0, 17}, m \in 0 .. 63, d \in {128, 254}}

\* SIB bytes, with and without a base.
SibImages ==
  {Prologue \o p \o <<o, m, s>> \o <<3, 2, 1, 0>> :
     p \in {<<103>>, <<102, 103>>}, o \in {0, 1, 18},
     m \in {n \in 0 .. 191 : n % 8 = 4}, s \in {5, 37, 77, 227}}

DecodeImages == NegativeImages \cup SibImages \cup
  {Prologue \o p \o <<o, m>> \o <<3, 2, 1, 0>> :
     p \in PrefixChoices, o \in ModRMOpcodes, m \in 0 .. 255} \cup
  {Prologue \o p \o <<o>> \o <<3, 2, 1, 0>> : p \in PrefixChoices, o \in OtherOpcodes}

-----------------------------------------------------------------------------
(* Programs: up to three instructions of a menu, after a start that leaves *)
(* the carry set or not.  The menu holds an instruction of every handler   *)
(* that takes no ModRM byte, computations at every size around the values  *)
(* where they wrap or change sign, writes to the code and to the stack,    *)
(* moves of ESP, and accesses past the array.                              *)
Menu ==
  {<<6>>, <<7>>, <<14>>, <<22>>, <<23>>, <<244>>, <<15>>, <<144>>,
   <<4, 128>>, <<12, 1>>, <<20, 128>>,                \* op al , imm8
   <<5, 255, 255>>, <<13, 0, 128>>, <<21, 255, 127>>, <<21, 255, 255>>, \* op ax , imm16
   <<102, 5, 255, 255, 255, 63>>,                     \* add eax , imm32
   <<102, 13, 0, 0, 0, 32>>, <<102, 21, 0, 0, 0, 0>>, \* or, adc eax , imm32
   <<5, 1, 0>>, <<1, 195>>, <<16, 192>>,
   <<0, 0>>, <<1, 6, 254, 255>>,                      \* add [bx+si] , al ; add [0xFFFE] , ax
   <<1, 196>>, <<102, 1, 196>>,                       \* add sp , ax ; add esp , eax
   <<102, 103, 1, 5, 255, 255, 15, 0>>,               \* add [0xFFFFF] , eax
   <<103, 2, 133, 0, 0, 0, 32>>}                      \* add al , [ebp+0x20000000]

Starts == {<<>>, <<5, 255, 255, 5, 1, 0>>}

ProgramImages ==
  {s \o FlattenSeq(p) : s \in Starts, p \in UNION {[1 .. n -> Menu] : n \in 0 .. 3}}

-----------------------------------------------------------------------------
(* Fragments of programs for a memory of a few bytes, so that execution    *)
(* runs over the end of the image into what the heap held.                 *)
FragmentImages ==
  UNION {[1 .. n -> {0, 4, 6, 15, 46, 102, 103, 144, 244}] : n \in 0 .. 3}
=============================================================================
