-------------------------------- MODULE I386 --------------------------------
(***************************************************************************)
(* The processor running a program (src/src/cpu/i386.cpp).  One step is    *)
(* one call of i386::cycle: the prefixes, the opcode, the handler, and the *)
(* final increment of EIP.                                                 *)
(*                                                                         *)
(* No accessor of Memory checks an address, so a cycle that reaches past   *)
(* the array has undefined behaviour.  Such a cycle is CycleStrays, after  *)
(* which the machine takes no more steps.                                  *)
(***************************************************************************)
EXTENDS Instructions

CONSTANTS
  Images,         \* byte sequences a program file may hold
  PatchAddress,   \* where main stores a double word of its own (0xfa)
  MaxPrefixes     \* bound on the prefixes of one instruction

ASSUME ImageAssumption ==
  \A img \in Images : /\ img \in Seq(ByteValue)
                      /\ Len(img) <= MemorySize

ASSUME PatchAssumption ==
  /\ PatchAddress \in Nat
  /\ PatchAddress + 4 <= MemorySize

ASSUME PrefixAssumption == MaxPrefixes \in Nat

vars == <<heap, ram, strayed, registers, flags, isHalted>>

\* main stores 0xaafa113 over the image.
Patch == 179282195
Patched == Window(PatchAddress, 4)

Loaded(img) ==
  [a \in (0 .. (Len(img) - 1)) \cup Patched |->
     IF a \in Patched THEN ByteOf(Patch, a - PatchAddress) ELSE img[a + 1]]

\* reset() on a new machine, and the image copied to EIP = 0 and patched.
Init ==
  /\ heap \in Heaps
  /\ strayed = FALSE
  /\ registers = ResetRegisters
  /\ flags = ResetFlags
  /\ isHalted = FALSE
  /\ \E img \in Images : ram = Loaded(img)

-----------------------------------------------------------------------------
(* Fetch *)

InstructionPrefix == {46, 54, 62, 38, 100, 101, 102, 103}

\* The bytes from EIP on begin with exactly n prefixes.
PrefixRun(n) ==
  \A i \in 0 .. n - 1 : /\ registers["EIP"] + i \in Address
                        /\ readImm8(registers["EIP"] + i) \in InstructionPrefix

Opcode(n) ==
  [at          |-> registers["EIP"] + n,
   prefixes    |-> {readImm8(registers["EIP"] + i) : i \in 0 .. n - 1},
   instruction |-> readImm8(registers["EIP"] + n)]

Fetched(n) == PrefixRun(n) /\ Opcode(n).instruction \notin InstructionPrefix

-----------------------------------------------------------------------------
(* Decoding, for the addresses a handler touches *)

HasModRM(op)     == op.instruction < 24 /\ op.instruction % 8 < 4
HasImmediate(op) == op.instruction < 24 /\ op.instruction % 8 \in {4, 5}
IsPush(op)       == op.instruction \in {6, 14, 22}
IsPop(op)        == op.instruction \in {7, 23}

SizeOf(op) == IF op.instruction % 2 = 0 THEN 1 ELSE OperandSize(op)

\* The last byte of the instruction stream that the handler reads.
LastByteRead(op) ==
  CASE HasModRM(op)     -> op.at + 1 + DisplacementBytes(a32(op), ModRM(op))
    [] HasImmediate(op) -> op.at + SizeOf(op)
    [] OTHER            -> op.at

\* The operand in memory, on the stack or elsewhere, if there is one.
DataWindow(op) ==
  CASE HasModRM(op) /\ ModOf(ModRM(op)) # 3 -> Window(OperandAddress(SizeOf(op), op), SizeOf(op))
    [] IsPush(op) -> Window(PushAddress, 2)
    [] IsPop(op)  -> Window(PopAddress, 2)
    [] OTHER      -> {}

InArray(op) ==
  /\ LastByteRead(op) \in Address
  /\ DataWindow(op) \subseteq Address

-----------------------------------------------------------------------------
(* Execute: the switch on the opcode byte *)

SkipOpcode(op) ==
  /\ registers' = NextInstruction(registers, op, 0)
  /\ UNCHANGED <<memoryVars, flags, isHalted>>

TwoByteOpcode(op) == SkipOpcode(op)
InvalidOpcode(op) == SkipOpcode(op)

Defined == 0 .. 23 \cup {244}

Execute(op) ==
  \/ op.instruction =   0 /\ add_rm8_r8(op)
  \/ op.instruction =   1 /\ add_rm16_32_r16_32(op)
  \/ op.instruction =   2 /\ add_r8_rm8(op)
  \/ op.instruction =   3 /\ add_r16_32_rm16_32(op)
  \/ op.instruction =   4 /\ add_al_imm8(op)
  \/ op.instruction =   5 /\ add_eAX_imm16_32(op)
  \/ op.instruction =   6 /\ push_es(op)
  \/ op.instruction =   7 /\ pop_es(op)
  \/ op.instruction =   8 /\ or_rm8_r8(op)
  \/ op.instruction =   9 /\ or_rm16_32_r16_32(op)
  \/ op.instruction =  10 /\ or_r8_rm8(op)
  \/ op.instruction =  11 /\ or_r16_32_rm16_32(op)
  \/ op.instruction =  12 /\ or_al_imm8(op)
  \/ op.instruction =  13 /\ or_eAX_imm16_32(op)
  \/ op.instruction =  14 /\ push_cs(op)
  \/ op.instruction =  15 /\ TwoByteOpcode(op)
  \/ op.instruction =  16 /\ adc_rm8_r8(op)
  \/ op.instruction =  17 /\ adc_rm16_32_r16_32(op)
  \/ op.instruction =  18 /\ adc_r8_rm8(op)
  \/ op.instruction =  19 /\ adc_r16_32_rm16_32(op)
  \/ op.instruction =  20 /\ adc_al_imm8(op)
  \/ op.instruction =  21 /\ adc_eAX_imm16_32(op)
  \/ op.instruction =  22 /\ push_ss(op)
  \/ op.instruction =  23 /\ pop_ss(op)
  \/ op.instruction = 244 /\ halt(op)
  \/ op.instruction \notin Defined /\ InvalidOpcode(op)

\* Mutant: a loop that does not ask whether the processor has halted.
Running_always == ~strayed

Running == ~isHalted /\ ~strayed

Cycle ==
  /\ Running
  /\ \E n \in 0 .. MaxPrefixes : /\ Fetched(n)
                                 /\ InArray(Opcode(n))
                                 /\ Execute(Opcode(n))

\* The fetch runs off the array, or the handler reaches outside it.
CycleStrays ==
  /\ Running
  /\ \E n \in 0 .. MaxPrefixes :
       /\ PrefixRun(n)
       /\ \/ Opcode(n).at \notin Address
          \/ Fetched(n) /\ ~InArray(Opcode(n))
  /\ strayed' = TRUE
  /\ UNCHANGED <<heap, ram, registers, flags, isHalted>>

Next == Cycle \/ CycleStrays

Spec == Init /\ [][Next]_vars

\* main calls cycle() in a loop for as long as the processor is not halted.
FairSpec == Spec /\ WF_vars(Next)

-----------------------------------------------------------------------------
(* The type of every variable (MemoryTypeOK, CPUTypeOK), and EIP at most   *)
(* one past the array: incGetRegister never carries it further before a    *)
(* fetch fails.                                                            *)
TypeOK ==
  /\ MemoryTypeOK
  /\ CPUTypeOK
  /\ registers["EIP"] <= MemorySize
=============================================================================
