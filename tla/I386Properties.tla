--------------------------- MODULE I386Properties ---------------------------
(***************************************************************************)
(* What the machine of I386 promises, and what the repository says of it   *)
(* that it does not keep.                                                  *)
(***************************************************************************)
EXTENDS I386, FiniteSets

\* The instruction that the next cycle executes: one, or none.
DecodedNow == {Opcode(n) : n \in {m \in 0 .. MaxPrefixes : Fetched(m)}}

Computes(op) == HasModRM(op) \/ HasImmediate(op)

IsAdc(op) == Computes(op) /\ op.instruction >= 16
IsOr(op)  == Computes(op) /\ op.instruction \in 8 .. 15

\* Opcodes whose comment in i386.cpp names r as the first operand: r , r/m.
NamesR(op) == HasModRM(op) /\ op.instruction % 4 \in {2, 3}

\* The segment register of a push and of a pop.
PushedSegment(op) ==
  CASE op.instruction = 6  -> "ES"
    [] op.instruction = 14 -> "CS"
    [] OTHER -> "SS"

PoppedSegment(op) == IF op.instruction = 7 THEN "ES" ELSE "SS"

-----------------------------------------------------------------------------
(* Flags *)

(* A zero result has an even number of set bits and no sign: in whatever   *)
(* order instructions of different sizes run, and whatever runs in         *)
(* between, ZF is never seen with SF, nor without PF.                      *)
FlagsCoherent == flags["ZF"] = 1 => flags["PF"] = 1 /\ flags["SF"] = 0

\* One step of CarryDiscipline.
CarryStep ==
  \A op \in DecodedNow :
    /\ flags'["CF"] = 1 /\ flags'["SF"] = 1 /\ flags' # flags => IsAdc(op)
    /\ flags["OF"] = 1 /\ flags'["OF"] = 0 => IsOr(op)
    /\ ~Computes(op) => flags' = flags

(* Carry with sign is a state only adc can produce: add turns that pair    *)
(* into OF, or clears CF.  OF, once set, survives everything but an or.    *)
(* An instruction that does not compute touches no flag.                   *)
CarryDiscipline == [][CarryStep]_vars

\* The operands of a computing instruction.
FirstOf(op) == IF HasImmediate(op) THEN getRegister(Numbered(SizeOf(op), 0))
                                   ELSE FirstOperand(SizeOf(op), op)
SecondOf(op) == IF HasImmediate(op) THEN readImm(op.at + 1, SizeOf(op))
                                    ELSE SecondOperand(SizeOf(op), op)

ExactSum(op) == FirstOf(op) + SecondOf(op) + (IF IsAdc(op) THEN flags["CF"] ELSE 0)

\* One step of WrapIsReported.
WrapStep ==
  ~strayed' => \A op \in DecodedNow :
    Computes(op) /\ ~IsOr(op) /\ ExactSum(op) >= Modulus(SizeOf(op)) =>
      flags'["CF"] = 1 \/ flags'["OF"] = 1

(* A sum that does not fit its operand is reported, in CF or, where the    *)
(* code turns the carry around, in OF.  The test for it in adc (r < f)     *)
(* misses f + max + 1, which is f again; that is made good only because CF *)
(* is never cleared by a sum that stays in range.                          *)
WrapIsReported == [][WrapStep]_vars

(* VIOLATED.  CF is set in a branch commented "Overflow" (i386im.cpp:49),  *)
(* and adc adds it: it says whether the sum just computed overflowed.      *)
(* It is left set by a sum that fits, and cleared when the sign is set.    *)
CarryIsOfThisSum ==
  [][~strayed' => \A op \in DecodedNow : Computes(op) /\ ~IsOr(op) =>
       (flags'["CF"] = 1 <=> ExactSum(op) >= Modulus(SizeOf(op)))]_vars

\* Where the result of a computing instruction ends up.
ResultInRegister(op) == HasImmediate(op) \/ NamesR(op) \/ ModOf(ModRM(op)) = 3
ResultRegister(op) ==
  CASE HasImmediate(op) -> Numbered(SizeOf(op), 0)
    [] HasModRM(op) /\ ModOf(ModRM(op)) = 3 -> RmRegister(SizeOf(op), ModRM(op))
    [] OTHER -> TopRegister(SizeOf(op), ModRM(op))

DescribedBy(v, n) ==
  /\ flags["ZF"] = 1 <=> v = 0
  /\ flags["SF"] = 1 <=> 2 * v >= Modulus(n)
  /\ flags["PF"] = 1 <=> Cardinality({i \in 0 .. 7 : (v \div 2 ^ i) % 2 = 1}) % 2 = 0

\* One step of FlagsDescribeDestination.
FlagsStep ==
  ~strayed' => \A op \in DecodedNow : Computes(op) =>
    \A n \in {SizeOf(op)} :
      IF ResultInRegister(op)
        THEN \A reg \in {ResultRegister(op)} :
               (DescribedBy(getRegister(reg) % Modulus(n), n))'
        ELSE \A a \in {OperandAddress(n, op)} : (DescribedBy(readImm(a, n), n))'

(* The flags are computed from the operands a second time, apart from the  *)
(* value that is stored.  They still describe what a later instruction     *)
(* finds in the destination: the register or the bytes of memory, read     *)
(* back at the size of the operation.                                      *)
FlagsDescribeDestination == [][FlagsStep]_vars

-----------------------------------------------------------------------------
(* The instruction pointer *)

Status ==
  CASE strayed  -> "strayed"
    [] isHalted /\ ~strayed -> "halted"
    [] OTHER    -> "running"

Abstract == INSTANCE Walk WITH
  Limit <- MemorySize, at <- registers["EIP"], status <- Status

(* Execution is one walk upwards through the memory.  No instruction       *)
(* stands still or moves EIP back, none that stays inside the array is     *)
(* left with EIP beyond its end, and a machine that has halted or strayed  *)
(* does so for good.                                                       *)
WalksThroughMemory == Abstract!Spec

\* The encoding table that cpu.h:122 links.  It is written down here once more,
\* apart from the decoder of CPU, as what the decoder is compared with.

\* rm = 4 under an address-size prefix: a SIB byte follows the ModRM byte.
HasSib(op) == a32(op) /\ ModOf(ModRM(op)) # 3 /\ RmOf(ModRM(op)) = 4

SibBase(op) == readImm8(op.at + 2) % 8

\* The forms of mod 0 that have a displacement in the place of the base.
NoBase(op) ==
  /\ ModOf(ModRM(op)) = 0
  /\ \/ ~a32(op) /\ RmOf(ModRM(op)) = 6
     \/ a32(op) /\ RmOf(ModRM(op)) = 5
     \/ HasSib(op) /\ SibBase(op) = 5

EncodedBytes(op) ==
  CASE ModOf(ModRM(op)) = 1 -> 1
    [] ModOf(ModRM(op)) = 2 \/ NoBase(op) -> IF a32(op) THEN 4 ELSE 2
    [] OTHER -> 0

\* Bytes from the opcode to the end of the instruction: ModRM, SIB, displacement
\* and immediate.  A "two-byte instruction" has two of them at least.
EncodedLength(op) ==
  CASE HasModRM(op) -> 2 + (IF HasSib(op) THEN 1 ELSE 0) + EncodedBytes(op)
    [] HasImmediate(op) -> 1 + SizeOf(op)
    [] op.instruction = 15 -> 2
    [] OTHER -> 1

(* VIOLATED.  An instruction is as long as its encoding.  cpu.h points at  *)
(* the encoding table; cpu.cpp:206 reads a 16 bit displacement and moves   *)
(* EIP by one, so that its second byte runs as the next opcode.            *)
InstructionLength ==
  [][~strayed' => \A op \in DecodedNow : HasModRM(op) /\ ~a32(op) =>
       registers'["EIP"] = op.at + EncodedLength(op)]_vars

\* What the code leaves unread of an encoding: a byte of the displacement that
\* InstructionLength shows, the SIB byte with all that follows it for base 5,
\* and the second byte of a "two-byte instruction" (i386.cpp:107).
Unread(op) ==
  LET m == ModRM(op)
  IN  CASE op.instruction = 15 -> 1
        [] HasModRM(op) /\ ~a32(op) /\ ModOf(m) = 2 /\ RmOf(m) < 4 -> 1
        [] HasModRM(op) /\ a32(op) /\ ModOf(m) # 3 /\ RmOf(m) = 4 ->
             IF ModOf(m) = 0 /\ SibBase(op) = 5 THEN 5 ELSE 1
        [] OTHER -> 0

\* One step of LengthOfOtherEncodings.
LengthStep ==
  ~strayed' => \A op \in DecodedNow :
    op.instruction \in Defined \cup {15} =>
      registers'["EIP"] = op.at + EncodedLength(op) - Unread(op)

(* In these three forms an instruction ends early, by just those bytes,    *)
(* which then run as opcodes.  In every other form, with any prefixes in   *)
(* any order and number, the next opcode is the byte behind the encoding.  *)
LengthOfOtherEncodings == [][LengthStep]_vars

-----------------------------------------------------------------------------
(* What one instruction may change *)

ChangedSlots == {r \in Slot \ {"EIP"} : registers'[r] # registers[r]}

\* One step of OneDestination.
DestinationStep ==
  ~strayed' => \A op \in DecodedNow :
    /\ Computes(op) => /\ Cardinality(ChangedSlots) <= 1
                       /\ ChangedSlots = {} \/ ram' = ram
    /\ IsPush(op) => ChangedSlots = {"ESP"}
    /\ IsPop(op) => /\ "ESP" \in ChangedSlots
                    /\ ChangedSlots \subseteq {"ESP", PoppedSegment(op)}
                    /\ ram' = ram
    /\ \A a \in DOMAIN ram' \ DataWindow(op) : a \in DOMAIN ram /\ ram'[a] = ram[a]

(* One instruction has one destination.  A computation changes one         *)
(* register or its bytes of memory and never both; a push changes ESP and  *)
(* two bytes; a pop ESP and its segment register.  Every other byte of     *)
(* the memory, code and stack included, is left as it was.                 *)
OneDestination == [][DestinationStep]_vars

\* One step of UpperHalvesKept.
UpperHalvesStep ==
  \A op \in DecodedNow :
    Computes(op) /\ SizeOf(op) < 4
    /\ ~(NamesR(op) /\ ModOf(ModRM(op)) \in {1, 2}) =>
      \A r \in Slot \ {"EIP"} : registers'[r] \div Word = registers[r] \div Word

(* An 8 or 16 bit computation leaves the upper half of every register      *)
(* alone, although the handler stores a sum that was not cut to the size   *)
(* of the operand.  (Not where the register operand decodes to EAX for     *)
(* mod 1 and 2: see TopSideRegister.)                                      *)
UpperHalvesKept == [][UpperHalvesStep]_vars

(* VIOLATED.  "add r8 , r/m8" (i386.cpp:55): r is the destination, so two  *)
(* register operands leave every register but r as it was.                 *)
RegisterDirection ==
  [][\A op \in DecodedNow : NamesR(op) /\ ModOf(ModRM(op)) = 3 =>
       ChangedSlots \subseteq {SlotOf(Numbered(SizeOf(op), RegOf(ModRM(op))))}]_vars

(* VIOLATED.  "side = true ; get from top side" (cpu.h): the register      *)
(* operand is the one the reg field names, also next to a displacement.    *)
TopSideRegister ==
  [][\A op \in DecodedNow : NamesR(op) /\ ModOf(ModRM(op)) # 3 =>
       ChangedSlots \subseteq {SlotOf(Numbered(SizeOf(op), RegOf(ModRM(op))))}]_vars

-----------------------------------------------------------------------------
(* Stack, bounds, termination *)

\* One step of PushedWordIsNextPop.
NextPopStep ==
  ~strayed' => \A op \in DecodedNow : IsPush(op) =>
    \A w \in {registers[PushedSegment(op)] % Word} : (readImm16(PopAddress) = w)'

(* The word a push leaves is the word the next pop reads, although the two *)
(* move ESP by different amounts and start from different sides of it.     *)
PushedWordIsNextPop == [][NextPopStep]_vars

\* One step of SixteenBitAddressingStaysInside.
InsideStep ==
  strayed' => \A op \in DecodedNow :
    \/ a32(op) /\ SizeOf(op) = 4
    \/ IsPush(op) \/ IsPop(op)
    \/ LastByteRead(op) \notin Address

(* Sums of two index registers and a displacement are not cut to 16 bits   *)
(* for a 32 bit operand, and those of 8 and 16 bits lose the upper half of *)
(* a 32 bit address.  So no operand leaves the array of main but a 32 bit  *)
(* one behind an address-size prefix; for the rest only the stack, or a    *)
(* fetch past the end does.                                                *)
SixteenBitAddressingStaysInside == [][InsideStep]_vars

\* The bytes of memory that a step gives another value.
ChangedBytes == {a \in DOMAIN ram' : readImm8(a)' # readImm8(a)}

\* The registers that the table adds up, by row: for 16 bit addresses the lower
\* halves of one or two, for 32 bit ones a whole register.
TableBase16  == <<"EBX", "EBX", "EBP", "EBP", "none", "none", "EBP", "EBX">>
TableIndex16 == <<"ESI", "EDI", "ESI", "EDI", "ESI", "EDI", "none", "none">>
TableBase32  == <<"EAX", "ECX", "EDX", "EBX", "SIB", "EBP", "ESI", "EDI">>

ContentsOf(r) == IF r = "none" THEN 0 ELSE registers[r]

EncodedBase(op) ==
  LET row == RmOf(ModRM(op)) + 1
  IN  IF NoBase(op) THEN 0
      ELSE IF a32(op) THEN ContentsOf(TableBase32[row])
      ELSE (ContentsOf(TableBase16[row]) % Word) + (ContentsOf(TableIndex16[row]) % Word)

\* A displacement of one byte has a sign; a longer one wraps with the sum.
Displacement(op) ==
  LET v == readImm(op.at + 2, EncodedBytes(op))
  IN  IF EncodedBytes(op) = 1 /\ v >= 128 THEN v - 256 ELSE v

\* The address that the table gives a form without a SIB byte.
EncodedAddress(op) == EncodedBase(op) + Displacement(op)

\* How far the code misses it: cpu.cpp:190-197 and 289-296 add what readImm8
\* returns, a uint8_t, so that [bx-2] comes out as [bx+254].
Missed(op) == IF Displacement(op) < 0 THEN 256 ELSE 0

\* The handlers keep the address in a uint16_t for operands of 8 and 16 bits and
\* in a uint32_t for those of 32 (i386im.cpp:35, 93, 100), whatever its own width.
AddressWidth(op) == IF SizeOf(op) = 4 THEN Dword ELSE Word

HasMemoryForm(op) == HasModRM(op) /\ ModOf(ModRM(op)) # 3

\* One step of StoredWhereEncoded.
StoreStep ==
  ~strayed' => \A op \in DecodedNow :
    HasMemoryForm(op) /\ ~HasSib(op) =>
      \A ea \in {(EncodedAddress(op) + Missed(op)) % AddressWidth(op)} :
        ChangedBytes \subseteq Window(ea, SizeOf(op))

(* A computation stores at the address that the encoding table gives for   *)
(* its ModRM byte, cut to the width of the variable that holds it, whether *)
(* the prefixes ask for 16 or 32 bits.  The decoder spells the rows of the *)
(* table out once per mod and width (cpu.cpp:174-213, 273-312); a register *)
(* or a width wrong in one of them would store over some other byte.  A    *)
(* negative displacement of one byte misses the address by just 256.       *)
(* (Not where the table has a SIB byte, of which the code reads nothing:   *)
(* the address is then none of the encoding's, see Unread.)                *)
StoredWhereEncoded == [][StoreStep]_vars

(* The loop of main ends for every image: at a hlt, or past the array.     *)
Terminates == <>(isHalted \/ strayed)
=============================================================================
