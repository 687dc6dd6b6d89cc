---------------------------- MODULE Instructions ----------------------------
(***************************************************************************)
(* The instructions (src/src/cpu/im/i386im.cpp).  An operator named after  *)
(* a handler is the action of that handler together with the increment of  *)
(* EIP that closes i386::cycle.                                            *)
(*                                                                         *)
(* op is the decoded struct Opcode: op.at is the address of the opcode     *)
(* byte, where EIP stands when the handler is called, op.prefixes the set  *)
(* of prefixes before it, op.instruction the byte itself.                  *)
(***************************************************************************)
EXTENDS CPU, Bits

OPERAND_SIZE == 102
ADDRESS_SIZE == 103

a32(op) == ADDRESS_SIZE \in op.prefixes

\* longMode() is constantly false: only the prefix selects 32 bit operands.
OperandSize(op) == IF OPERAND_SIZE \in op.prefixes THEN 4 ELSE 2

ModRM(op) == readImm8(op.at + 1)

\* uint16_t addr for operands of 8 and 16 bits, uint32_t addr for 32 bits.
OperandAddress(n, op) ==
  LET ea == IF a32(op) THEN ModRMValue32bit(ModRM(op), op.at + 1)
                       ELSE ModRMValue16bit(ModRM(op), op.at + 1)
  IN  IF n = 4 THEN ea ELSE ea % Word

-----------------------------------------------------------------------------
(* Arithmetic *)

\* The bit of x | y that has weight p.
OrBit(x, y, p) == IF (x \div p) % 2 = 1 \/ (y \div p) % 2 = 1 THEN p ELSE 0

OrByte(x, y) ==
  OrBit(x, y, 1) + OrBit(x, y, 2) + OrBit(x, y, 4) + OrBit(x, y, 8) +
  OrBit(x, y, 16) + OrBit(x, y, 32) + OrBit(x, y, 64) + OrBit(x, y, 128)

OrValue(x, y) ==
  OrByte(ByteOf(x, 0), ByteOf(y, 0)) + (OrByte(ByteOf(x, 1), ByteOf(y, 1)) * Byte) +
  (OrByte(ByteOf(x, 2), ByteOf(y, 2)) * Word) +
  ((OrByte(ByteOf(x, 3), ByteOf(y, 3)) % TopByte) * 16777216)

\* carryFlag, read before anything is written.
CarryIn(alu) == IF alu = "adc" THEN flags["CF"] ELSE 0

\* What the handler hands to setRegister and writeImm: 8 and 16 bit operands
\* are promoted to int, so the value may be wider than the operand.
Raw(alu, n, f, s) ==
  LET v == IF alu = "or" THEN OrValue(f, s) ELSE f + s + CarryIn(alu)
  IN  IF n = 4 THEN v % Dword ELSE v

\* Mutant: flags computed without the incoming carry.
Result_dropsCarry(alu, n, f, s) ==
  (IF alu = "or" THEN OrValue(f, s) ELSE f + s) % Modulus(n)

Result(alu, n, f, s) == Raw(alu, n, f, s) % Modulus(n)

\* Mutant: the sign taken from bit 7 at every size.
SignOf_byte(n, r) == r \div 128

SignOf(n, r) == r \div (Modulus(n) \div 2)

Bit(b) == IF b THEN 1 ELSE 0

\* Mutant: PF for an odd number of bits.
Described_odd(n, r) ==
  [flags EXCEPT !["SF"] = SignOf(n, r),
                !["ZF"] = Bit(r = 0),
                !["PF"] = SetBits(r % Byte) % 2]

\* SF, ZF and PF, which every handler sets from its result.
Described(n, r) ==
  [flags EXCEPT !["SF"] = SignOf(n, r),
                !["ZF"] = Bit(r = 0),
                !["PF"] = Bit(SetBits(r % Byte) % 2 = 0)]

HalfCarry(c, f, s) == Bit((f % 16) + (s % 16) + c > 15)

\* Mutant: the carry is not cleared when it is turned into OF.
AddFlags_keepsCarry(n, f, s) ==
  LET r  == Result("add", n, f, s)
      cf == IF r < f THEN 1 ELSE flags["CF"]
      moved == cf = 1 /\ SignOf(n, r) = 1
  IN  [Described(n, r) EXCEPT !["AF"] = HalfCarry(0, f, s),
                              !["CF"] = cf,
                              !["OF"] = IF moved THEN 1 ELSE @]

\* CF is set by a wrapping sum and otherwise left as it was; a carry that
\* meets a set sign bit is turned into OF, which no addition ever clears.
AddFlags(n, f, s) ==
  LET r  == Result("add", n, f, s)
      cf == IF r < f THEN 1 ELSE flags["CF"]
      moved == cf = 1 /\ SignOf(n, r) = 1
  IN  [Described(n, r) EXCEPT !["AF"] = HalfCarry(0, f, s),
                              !["CF"] = IF moved THEN 0 ELSE cf,
                              !["OF"] = IF moved THEN 1 ELSE @]

\* Mutant: the incoming carry is forgotten by a sum that does not wrap.
AdcFlags_forgets(n, f, s) ==
  LET r  == Result("adc", n, f, s)
      cf == IF r < f THEN 1 ELSE 0
      moved == flags["CF"] = 1 /\ SignOf(n, r) = 1
  IN  [Described(n, r) EXCEPT !["AF"] = HalfCarry(flags["CF"], f, s),
                              !["CF"] = IF moved THEN 0 ELSE cf,
                              !["OF"] = IF moved THEN 1 ELSE @]

\* The same, except that it is the incoming carry that the sign bit meets.
AdcFlags(n, f, s) ==
  LET r  == Result("adc", n, f, s)
      cf == IF r < f THEN 1 ELSE flags["CF"]
      moved == flags["CF"] = 1 /\ SignOf(n, r) = 1
  IN  [Described(n, r) EXCEPT !["AF"] = HalfCarry(flags["CF"], f, s),
                              !["CF"] = IF moved THEN 0 ELSE cf,
                              !["OF"] = IF moved THEN 1 ELSE @]

\* AF is left alone.
OrFlags(n, f, s) ==
  [Described(n, Result("or", n, f, s)) EXCEPT !["CF"] = 0, !["OF"] = 0]

FlagsAfter(alu, n, f, s) ==
  CASE alu = "add" -> AddFlags(n, f, s)
    [] alu = "adc" -> AdcFlags(n, f, s)
    [] alu = "or"  -> OrFlags(n, f, s)

-----------------------------------------------------------------------------
(* The shapes the handlers share *)

\* Mutant: the closing increment of EIP is missing.
NextInstruction_stays(regs, op, consumed) ==
  [regs EXCEPT !["EIP"] = (op.at + consumed) % Dword]

\* EIP stands on the last byte consumed; the end of cycle() steps over it.
NextInstruction(regs, op, consumed) ==
  [regs EXCEPT !["EIP"] = (op.at + consumed + 1) % Dword]

FirstOperand(n, op) ==
  IF ModOf(ModRM(op)) = 3 THEN getRegister(RmRegister(n, ModRM(op)))
                          ELSE readImm(OperandAddress(n, op), n)

SecondOperand(n, op) == getRegister(TopRegister(n, ModRM(op))) % Modulus(n)

AfterModRM(regs, op) ==
  NextInstruction(regs, op, 1 + DisplacementStep(a32(op), ModRM(op)))

\* Mutant: the memory form stores to the register as well.
IntoRm_both(alu, n, op) ==
  LET f == FirstOperand(n, op)
      s == SecondOperand(n, op)
      v == Raw(alu, n, f, s)
  IN  /\ registers' = AfterModRM(setRegister(registers, RmRegister(n, ModRM(op)), v), op)
      /\ ram' = IF ModOf(ModRM(op)) = 3 THEN ram ELSE writeImm(v, OperandAddress(n, op), n)
      /\ flags' = FlagsAfter(alu, n, f, s)
      /\ UNCHANGED <<heap, strayed, isHalted>>

\* alu r/m , r
IntoRm(alu, n, op) ==
  LET f == FirstOperand(n, op)
      s == SecondOperand(n, op)
      v == Raw(alu, n, f, s)
  IN  /\ IF ModOf(ModRM(op)) = 3
         THEN /\ registers' = AfterModRM(setRegister(registers, RmRegister(n, ModRM(op)), v), op)
              /\ ram' = ram
         ELSE /\ registers' = AfterModRM(registers, op)
              /\ ram' = writeImm(v, OperandAddress(n, op), n)
      /\ flags' = FlagsAfter(alu, n, f, s)
      /\ UNCHANGED <<heap, strayed, isHalted>>

\* alu r , r/m: between two registers it is the r/m one that is written.
IntoR(alu, n, op) ==
  LET f == FirstOperand(n, op)
      s == SecondOperand(n, op)
      target == IF ModOf(ModRM(op)) = 3 THEN RmRegister(n, ModRM(op))
                                        ELSE TopRegister(n, ModRM(op))
  IN  /\ registers' = AfterModRM(setRegister(registers, target, Raw(alu, n, f, s)), op)
      /\ flags' = FlagsAfter(alu, n, f, s)
      /\ UNCHANGED <<memoryVars, isHalted>>

\* alu accumulator , immediate
IntoAccumulator(alu, n, op) ==
  LET reg == Numbered(n, 0)
      f == getRegister(reg)
      s == readImm(op.at + 1, n)
  IN  /\ registers' = NextInstruction(setRegister(registers, reg, Raw(alu, n, f, s)), op, n)
      /\ flags' = FlagsAfter(alu, n, f, s)
      /\ UNCHANGED <<memoryVars, isHalted>>

\* Mutant: a segment register pushed as a double word.
PushSegment_wide(reg, op) ==
  /\ registers' = NextInstruction(AfterPush(2), op, 0)
  /\ ram' = writeImm32(registers[reg] % Word, PushAddress)
  /\ UNCHANGED <<heap, strayed, flags, isHalted>>

PushSegment(reg, op) ==
  /\ registers' = NextInstruction(AfterPush(2), op, 0)
  /\ ram' = writeImm16(registers[reg] % Word, PushAddress)
  /\ UNCHANGED <<heap, strayed, flags, isHalted>>

PopSegment(reg, op) ==
  /\ registers' = NextInstruction(setRegister(AfterPop(2), reg, readImm16(PopAddress)), op, 0)
  /\ UNCHANGED <<memoryVars, flags, isHalted>>

-----------------------------------------------------------------------------
(* The handlers *)

add_rm8_r8(op)         == IntoRm("add", 1, op)
add_rm16_32_r16_32(op) == IntoRm("add", OperandSize(op), op)
add_r8_rm8(op)         == IntoR("add", 1, op)
add_r16_32_rm16_32(op) == IntoR("add", OperandSize(op), op)
add_al_imm8(op)        == IntoAccumulator("add", 1, op)
add_eAX_imm16_32(op)   == IntoAccumulator("add", OperandSize(op), op)

or_rm8_r8(op)          == IntoRm("or", 1, op)
or_rm16_32_r16_32(op)  == IntoRm("or", OperandSize(op), op)
or_r8_rm8(op)          == IntoR("or", 1, op)
or_r16_32_rm16_32(op)  == IntoR("or", OperandSize(op), op)
or_al_imm8(op)         == IntoAccumulator("or", 1, op)
or_eAX_imm16_32(op)    == IntoAccumulator("or", OperandSize(op), op)

adc_rm8_r8(op)         == IntoRm("adc", 1, op)
adc_rm16_32_r16_32(op) == IntoRm("adc", OperandSize(op), op)
adc_r8_rm8(op)         == IntoR("adc", 1, op)
adc_r16_32_rm16_32(op) == IntoR("adc", OperandSize(op), op)
adc_al_imm8(op)        == IntoAccumulator("adc", 1, op)
adc_eAX_imm16_32(op)   == IntoAccumulator("adc", OperandSize(op), op)

push_es(op) == PushSegment("ES", op)
push_cs(op) == PushSegment("CS", op)
push_ss(op) == PushSegment("SS", op)
pop_es(op)  == PopSegment("ES", op)
pop_ss(op)  == PopSegment("SS", op)

halt(op) ==
  /\ isHalted' = TRUE
  /\ registers' = NextInstruction(registers, op, 0)
  /\ UNCHANGED <<memoryVars, flags>>
=============================================================================
