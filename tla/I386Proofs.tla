----------------------------- MODULE I386Proofs -----------------------------
(***************************************************************************)
(* Theorems about the machine of I386, for every size of memory, every     *)
(* content of the heap and every image.                                    *)
(*                                                                         *)
(* The inductive invariant is the type of the variables together with the  *)
(* coherence of the flags.  Each handler is an instance of a few shapes;   *)
(* a lemma per shape says what one instruction of it leaves behind, and    *)
(* the theorems only sort the opcodes into the shapes.                     *)
(***************************************************************************)
EXTENDS I386Properties, CPUProofs

IInv == TypeOK /\ FlagsCoherent

\* What every instruction leaves behind: the invariant, and EIP at the start
\* of what follows it.
Completes(op) ==
  /\ IInv'
  /\ registers'["EIP"] \in (op.at + 1) .. MemorySize
  /\ UNCHANGED strayed

-----------------------------------------------------------------------------
(* Addresses of the instruction stream *)

(* When the last byte of a field is in the array, all of it is.            *)
LEMMA FieldInside ==
  ASSUME NEW a \in Nat, NEW n \in Nat, a + n \in Address
  PROVE  /\ \A k \in 0 .. n : a + k \in Address
         /\ Window(a + 1, n) \subseteq Address
         /\ a \in Address
  BY SMT, Widths DEF Window, Address

(* An instruction whose last byte lies inside the array lies there whole,  *)
(* and EIP stays on it until the closing increment.                        *)
LEMMA StreamRead ==
  ASSUME TypeOK, NEW op, op.at \in Nat, LastByteRead(op) \in Address
  PROVE  /\ op.at \in Address
         /\ HasModRM(op) =>
              /\ ModRM(op) \in ByteValue
              /\ Window(op.at + 2, DisplacementBytes(a32(op), ModRM(op))) \subseteq Address
              /\ DisplacementStep(a32(op), ModRM(op)) \in Nat
              /\ op.at + 1 + DisplacementStep(a32(op), ModRM(op)) \in Address
         /\ HasImmediate(op) => /\ Window(op.at + 1, SizeOf(op)) \subseteq Address
                                /\ op.at + SizeOf(op) \in Address
<1> DEFINE d == DisplacementBytes(a32(op), ModRM(op))
           e == DisplacementStep(a32(op), ModRM(op))
<1>1. LastByteRead(op) \in Address /\ MemoryTypeOK
  BY DEF TypeOK
<1>2. d \in {0, 1, 2, 4}
  BY SMT DEF DisplacementBytes
<1>3. SizeOf(op) \in {1, 2, 4}
  BY SMT DEF SizeOf, OperandSize
<1>4. ASSUME HasModRM(op)
      PROVE  /\ ModRM(op) \in ByteValue
             /\ Window(op.at + 2, d) \subseteq Address
             /\ e \in Nat
             /\ op.at + 1 + e \in Address
             /\ op.at \in Address
  <2>1. LastByteRead(op) = op.at + 1 + d
    BY SMT, <1>4 DEF LastByteRead, HasModRM, HasImmediate
  <2>2. op.at + 1 + d \in Address
    BY <1>1, <2>1
  <2> HIDE DEF d
  <2>3. op.at \in Address /\ op.at + 1 \in Address /\ Window(op.at + 2, d) \subseteq Address
    <3> DEFINE a == op.at + 1
    <3>1. a \in Nat /\ d \in Nat
      BY SMT, <1>2
    <3>2. a + d \in Address
      BY <2>2
    <3>3. a + 1 = op.at + 2
      BY SMT
    <3> HIDE DEF a
    <3>4. a \in Address /\ Window(a + 1, d) \subseteq Address
      BY <3>1, <3>2, FieldInside
    <3>5. op.at \in Address
      BY SMT, <3>4, Widths DEF Address, a
    <3> QED
      BY <3>3, <3>4, <3>5 DEF a
  <2>4. ModRM(op) \in ByteValue
    BY <1>1, <2>3, ReadByte DEF ModRM
  <2>5. a32(op) \in BOOLEAN
    BY DEF a32
  <2>6. e \in 0 .. d
    BY <2>4, <2>5, DisplacementTyped DEF d
  <2> HIDE DEF e
  <2>7. e \in Nat /\ op.at + 1 + e \in Address
    <3>1. op.at + 1 \in Nat /\ d \in Nat
      BY SMT, <1>2
    <3>2. \A k \in 0 .. d : op.at + 1 + k \in Address
      BY <2>2, <3>1, FieldInside
    <3>3. e \in Nat
      BY SMT, <2>6, <3>1
    <3> QED
      BY <2>6, <3>2, <3>3
  <2> QED
    BY <2>3, <2>4, <2>7
<1>5. ASSUME HasImmediate(op)
      PROVE  /\ Window(op.at + 1, SizeOf(op)) \subseteq Address
             /\ op.at + SizeOf(op) \in Address
             /\ op.at \in Address
  <2>1. LastByteRead(op) = op.at + SizeOf(op)
    BY SMT, <1>5 DEF LastByteRead, HasModRM, HasImmediate
  <2>2. op.at + SizeOf(op) \in Address
    BY <1>1, <2>1
  <2>3. SizeOf(op) \in Nat
    BY SMT, <1>3
  <2> QED
    BY <2>2, <2>3, FieldInside
<1>6. ASSUME ~HasModRM(op), ~HasImmediate(op)
      PROVE  op.at \in Address
  BY SMT, <1>1, <1>6 DEF LastByteRead
<1> QED
  BY <1>4, <1>5, <1>6

(* What a handler reads of the instruction lies inside the array, and EIP  *)
(* stays on it until the closing increment.                                *)
LEMMA StreamInside ==
  ASSUME TypeOK, NEW op, op.at \in Nat, InArray(op)
  PROVE  /\ op.at \in Address
         /\ HasModRM(op) =>
              /\ ModRM(op) \in ByteValue
              /\ Window(op.at + 2, DisplacementBytes(a32(op), ModRM(op))) \subseteq Address
              /\ DisplacementStep(a32(op), ModRM(op)) \in Nat
              /\ op.at + 1 + DisplacementStep(a32(op), ModRM(op)) \in Address
         /\ HasImmediate(op) => /\ Window(op.at + 1, SizeOf(op)) \subseteq Address
                                /\ op.at + SizeOf(op) \in Address
  BY StreamRead DEF InArray

(* The closing increment leaves EIP just past the last byte consumed.      *)
LEMMA NextInstructionTyped ==
  ASSUME NEW regs \in [Slot -> DwordValue], NEW op, op.at \in Nat,
         NEW c \in Nat, op.at + c \in Address
  PROVE  /\ NextInstruction(regs, op, c) \in [Slot -> DwordValue]
         /\ NextInstruction(regs, op, c)["EIP"] \in (op.at + 1) .. MemorySize
<1> DEFINE x == op.at + c + 1
<1>1. x \in (op.at + 1) .. MemorySize /\ x \in Nat /\ x < Dword
  BY SMT, Widths DEF Address
<1>2. NextInstruction(regs, op, c) = [regs EXCEPT !["EIP"] = x % Dword]
  BY DEF NextInstruction
<1> HIDE DEF x
<1>3. x % Dword = x
  BY SMT, <1>1, Widths
<1>4. x \in DwordValue
  BY SMT, <1>1, Widths DEF DwordValue
<1>5. "EIP" \in Slot
  BY DEF Slot
<1> QED
  BY <1>1, <1>2, <1>3, <1>4, <1>5

-----------------------------------------------------------------------------
(* One lemma for each shape of instruction *)

(* The operands of an instruction with a ModRM byte are values of its      *)
(* size, and its memory operand has an address.                            *)
LEMMA OperandsTyped ==
  ASSUME TypeOK, NEW op, op.at \in Nat, HasModRM(op), InArray(op), NEW n \in Size, n = SizeOf(op)
  PROVE  /\ FirstOperand(n, op) \in Nat
         /\ SecondOperand(n, op) \in Nat
         /\ FirstOperand(n, op) \in 0 .. (Modulus(n) - 1)
         /\ SecondOperand(n, op) \in 0 .. (Modulus(n) - 1)
         /\ ModOf(ModRM(op)) # 3 => /\ OperandAddress(n, op) \in Nat
                                    /\ Window(OperandAddress(n, op), n) \subseteq Address
<1>1. MemoryTypeOK /\ CPUTypeOK
  BY DEF TypeOK
<1>2. ModRM(op) \in ByteValue
  BY StreamInside
<1>3. Window(op.at + 2, DisplacementBytes(a32(op), ModRM(op))) \subseteq Address
  BY StreamInside
<1>4. OperandAddress(n, op) \in Nat
  BY <1>1, <1>2, <1>3, OperandAddressTyped
<1>5. ModOf(ModRM(op)) # 3 => Window(OperandAddress(n, op), n) \subseteq Address
  BY DEF InArray, DataWindow, IsPush, IsPop, HasModRM
<1>6. Modulus(n) \in Nat \ {0} /\ 0 .. (Modulus(n) - 1) \subseteq Nat
  BY SMT, Moduli
<1>7. ASSUME ModOf(ModRM(op)) = 3
      PROVE  FirstOperand(n, op) \in 0 .. (Modulus(n) - 1)
  <2>1. RmOf(ModRM(op)) \in 0 .. 7
    BY <1>2, ModRMFields
  <2>2. getRegister(RmRegister(n, ModRM(op))) \in 0 .. (Modulus(n) - 1)
    BY <1>1, <2>1, NumberedValue DEF RmRegister
  <2> QED
    BY <1>7, <2>2 DEF FirstOperand
<1>8. ASSUME ModOf(ModRM(op)) # 3
      PROVE  FirstOperand(n, op) \in 0 .. (Modulus(n) - 1)
  <2>1. readImm(OperandAddress(n, op), n) \in 0 .. (Modulus(n) - 1)
    BY <1>1, <1>4, <1>5, <1>8, ReadSized
  <2> QED
    BY <1>8, <2>1 DEF FirstOperand
<1>9. SecondOperand(n, op) \in 0 .. (Modulus(n) - 1)
  <2> DEFINE x == getRegister(TopRegister(n, ModRM(op)))
             mod == Modulus(n)
  <2>1. TopRegister(n, ModRM(op)) \in Registers
    BY <1>2, OperandRegisters
  <2>2. x \in DwordValue
    BY <1>1, <2>1, GetRegisterTyped
  <2>3. x \in Int
    BY SMT, <2>2, Widths DEF DwordValue
  <2> HIDE DEF x, mod
  <2>4. mod \in Nat \ {0}
    BY <1>6 DEF mod
  <2>5. x % mod \in 0 .. (mod - 1)
    BY SMT, <2>3, <2>4, ModRange
  <2> QED
    BY <2>5 DEF SecondOperand, x, mod
<1>10. FirstOperand(n, op) \in 0 .. (Modulus(n) - 1)
  BY <1>7, <1>8
<1> QED
  BY <1>4, <1>5, <1>6, <1>9, <1>10

(* What a computation does to the flags and leaves of the rest.            *)
LEMMA ComputationCompletes ==
  ASSUME IInv, NEW op, NEW alu \in {"add", "adc", "or"}, NEW n \in Size,
         NEW f \in Nat, NEW s \in Nat,
         flags' = FlagsAfter(alu, n, f, s),
         registers' \in [Slot -> DwordValue],
         registers'["EIP"] \in (op.at + 1) .. MemorySize,
         DOMAIN ram' \subseteq Address, \A a \in DOMAIN ram' : ram'[a] \in ByteValue,
         UNCHANGED <<heap, strayed, isHalted>>
  PROVE  Completes(op)
<1>1. CPUTypeOK
  BY DEF IInv, TypeOK
<1>2. /\ flags' \in [Flag -> {0, 1}]
      /\ flags'["ZF"] = 1 => flags'["PF"] = 1 /\ flags'["SF"] = 0
  BY <1>1, FlagsAfterTyped
<1>3. registers'["EIP"] <= MemorySize
  BY SMT, Widths
<1> QED
  BY <1>2, <1>3 DEF IInv, TypeOK, MemoryTypeOK, CPUTypeOK, FlagsCoherent, Completes

(* alu r/m , r                                                             *)
LEMMA IntoRmCompletes ==
  ASSUME IInv, NEW op, op.at \in Nat, HasModRM(op), InArray(op),
         NEW alu \in {"add", "adc", "or"}, NEW n \in Size, n = SizeOf(op),
         IntoRm(alu, n, op)
  PROVE  Completes(op)
<1> DEFINE f == FirstOperand(n, op)
           s == SecondOperand(n, op)
           v == Raw(alu, n, f, s)
           c == 1 + DisplacementStep(a32(op), ModRM(op))
<1>1. TypeOK /\ MemoryTypeOK /\ CPUTypeOK
  BY DEF IInv, TypeOK
<1>2. f \in Nat /\ s \in Nat
  BY <1>1, OperandsTyped
<1>3. flags' = FlagsAfter(alu, n, f, s) /\ UNCHANGED <<heap, strayed, isHalted>>
  BY DEF IntoRm
<1>4. ModOf(ModRM(op)) = 3 =>
        /\ registers' = NextInstruction(setRegister(registers, RmRegister(n, ModRM(op)), v), op, c)
        /\ ram' = ram
  BY DEF IntoRm, AfterModRM
<1>5. ModOf(ModRM(op)) # 3 =>
        /\ registers' = NextInstruction(registers, op, c)
        /\ ram' = writeImm(v, OperandAddress(n, op), n)
  BY DEF IntoRm, AfterModRM
<1>6. c \in Nat /\ op.at + c \in Address
  <2>1. /\ DisplacementStep(a32(op), ModRM(op)) \in Nat
        /\ op.at + 1 + DisplacementStep(a32(op), ModRM(op)) \in Address
    BY <1>1, StreamInside
  <2>2. \A x \in Nat : (op.at + 1) + x = op.at + (1 + x)
    BY SMT
  <2> QED
    BY SMT, <2>1, <2>2
<1> HIDE DEF f, s, c
<1>7. v \in Nat
  BY <1>1, <1>2, ResultTyped
<1>8. registers \in [Slot -> DwordValue]
  BY <1>1 DEF CPUTypeOK
<1> HIDE DEF v
<1>9. CASE ModOf(ModRM(op)) = 3
  <2> DEFINE regs == setRegister(registers, RmRegister(n, ModRM(op)), v)
  <2>1. RmRegister(n, ModRM(op)) \in Registers
    BY <1>1, StreamInside, OperandRegisters
  <2>2. regs \in [Slot -> DwordValue]
    BY <1>7, <1>8, <2>1, SetRegisterTyped
  <2> HIDE DEF regs
  <2>3. registers' = NextInstruction(regs, op, c)
    BY <1>4, <1>9 DEF regs
  <2>4. /\ registers' \in [Slot -> DwordValue]
        /\ registers'["EIP"] \in (op.at + 1) .. MemorySize
    BY <1>6, <2>2, <2>3, NextInstructionTyped
  <2>5. DOMAIN ram' \subseteq Address /\ \A a \in DOMAIN ram' : ram'[a] \in ByteValue
    BY <1>1, <1>4, <1>9 DEF MemoryTypeOK
  <2> QED
    BY <1>2, <1>3, <2>4, <2>5, ComputationCompletes
<1>10. CASE ModOf(ModRM(op)) # 3
  <2>1. OperandAddress(n, op) \in Nat /\ Window(OperandAddress(n, op), n) \subseteq Address
    BY <1>1, <1>10, OperandsTyped
  <2>2. DOMAIN ram' \subseteq Address /\ \A a \in DOMAIN ram' : ram'[a] \in ByteValue
    BY <1>1, <1>5, <1>7, <1>10, <2>1, WriteTyped
  <2>3. /\ registers' \in [Slot -> DwordValue]
        /\ registers'["EIP"] \in (op.at + 1) .. MemorySize
    BY <1>5, <1>6, <1>8, <1>10, NextInstructionTyped
  <2> QED
    BY <1>2, <1>3, <2>2, <2>3, ComputationCompletes
<1> QED
  BY <1>9, <1>10

(* alu r , r/m                                                             *)
LEMMA IntoRCompletes ==
  ASSUME IInv, NEW op, op.at \in Nat, HasModRM(op), InArray(op),
         NEW alu \in {"add", "adc", "or"}, NEW n \in Size, n = SizeOf(op),
         IntoR(alu, n, op)
  PROVE  Completes(op)
<1> DEFINE f == FirstOperand(n, op)
           s == SecondOperand(n, op)
           v == Raw(alu, n, f, s)
           c == 1 + DisplacementStep(a32(op), ModRM(op))
           target == IF ModOf(ModRM(op)) = 3 THEN RmRegister(n, ModRM(op))
                                             ELSE TopRegister(n, ModRM(op))
           regs == setRegister(registers, target, v)
<1>1. TypeOK /\ MemoryTypeOK /\ CPUTypeOK
  BY DEF IInv, TypeOK
<1>2. f \in Nat /\ s \in Nat
  BY <1>1, OperandsTyped
<1>3. flags' = FlagsAfter(alu, n, f, s) /\ UNCHANGED <<heap, ram, strayed, isHalted>>
  BY DEF IntoR, memoryVars
<1>4. registers' = NextInstruction(regs, op, c)
  BY DEF IntoR, AfterModRM
<1>5. c \in Nat /\ op.at + c \in Address
  <2>1. /\ DisplacementStep(a32(op), ModRM(op)) \in Nat
        /\ op.at + 1 + DisplacementStep(a32(op), ModRM(op)) \in Address
    BY <1>1, StreamInside
  <2>2. \A x \in Nat : (op.at + 1) + x = op.at + (1 + x)
    BY SMT
  <2> QED
    BY SMT, <2>1, <2>2
<1>6. target \in Registers
  BY <1>1, StreamInside, OperandRegisters
<1> HIDE DEF f, s, c, target
<1>7. v \in Nat
  BY <1>1, <1>2, ResultTyped
<1>8. registers \in [Slot -> DwordValue]
  BY <1>1 DEF CPUTypeOK
<1> HIDE DEF v
<1>9. regs \in [Slot -> DwordValue]
  BY <1>6, <1>7, <1>8, SetRegisterTyped
<1> HIDE DEF regs
<1>10. /\ registers' \in [Slot -> DwordValue]
       /\ registers'["EIP"] \in (op.at + 1) .. MemorySize
  BY <1>4, <1>5, <1>9, NextInstructionTyped
<1>11. DOMAIN ram' \subseteq Address /\ \A a \in DOMAIN ram' : ram'[a] \in ByteValue
  BY <1>1, <1>3 DEF MemoryTypeOK
<1> QED
  BY <1>2, <1>3, <1>10, <1>11, ComputationCompletes DEF f, s

(* alu accumulator , immediate                                             *)
LEMMA IntoAccumulatorCompletes ==
  ASSUME IInv, NEW op, op.at \in Nat, HasImmediate(op), InArray(op),
         NEW alu \in {"add", "adc", "or"}, NEW n \in Size, n = SizeOf(op),
         IntoAccumulator(alu, n, op)
  PROVE  Completes(op)
<1> DEFINE reg == Numbered(n, 0)
           f == getRegister(reg)
           s == readImm(op.at + 1, n)
           v == Raw(alu, n, f, s)
           regs == setRegister(registers, reg, v)
<1>1. TypeOK /\ MemoryTypeOK /\ CPUTypeOK
  BY DEF IInv, TypeOK
<1>2. 0 .. (Modulus(n) - 1) \subseteq Nat
  BY SMT, Moduli
<1>3. flags' = FlagsAfter(alu, n, f, s) /\ UNCHANGED <<heap, ram, strayed, isHalted>>
  BY DEF IntoAccumulator, memoryVars
<1>4. registers' = NextInstruction(regs, op, n)
  BY DEF IntoAccumulator
<1>5. n \in Nat /\ op.at + 1 \in Nat
  BY SMT DEF Size
<1>6. op.at + n \in Address /\ Window(op.at + 1, n) \subseteq Address
  BY <1>1, StreamInside
<1>7. 0 \in 0 .. 7
  BY SMT
<1>8. reg \in Registers /\ f \in Nat
  BY <1>1, <1>2, <1>7, NumberedRegister, NumberedValue
<1>9. s \in Nat
  BY <1>1, <1>2, <1>5, <1>6, ReadSized
<1> HIDE DEF reg, f, s
<1>10. v \in Nat
  BY <1>1, <1>8, <1>9, ResultTyped
<1> HIDE DEF v
<1>11. registers \in [Slot -> DwordValue]
  BY <1>1 DEF CPUTypeOK
<1>12. regs \in [Slot -> DwordValue]
  BY <1>8, <1>10, <1>11, SetRegisterTyped
<1> HIDE DEF regs
<1>13. /\ registers' \in [Slot -> DwordValue]
       /\ registers'["EIP"] \in (op.at + 1) .. MemorySize
  BY <1>4, <1>5, <1>6, <1>12, NextInstructionTyped
<1>14. DOMAIN ram' \subseteq Address /\ \A a \in DOMAIN ram' : ram'[a] \in ByteValue
  BY <1>1, <1>3 DEF MemoryTypeOK
<1> QED
  BY <1>3, <1>8, <1>9, <1>13, <1>14, ComputationCompletes

(* An instruction without operands only steps over its opcode.             *)
LEMMA OpcodeOnly ==
  ASSUME NEW regs \in [Slot -> DwordValue], NEW op, op.at \in Nat, op.at \in Address
  PROVE  /\ NextInstruction(regs, op, 0) \in [Slot -> DwordValue]
         /\ NextInstruction(regs, op, 0)["EIP"] \in (op.at + 1) .. MemorySize
<1>1. 0 \in Nat /\ op.at + 0 = op.at
  BY SMT
<1> QED
  BY <1>1, NextInstructionTyped

(* An instruction that computes nothing leaves the flags coherent.         *)
LEMMA OtherCompletes ==
  ASSUME IInv, NEW op, isHalted' \in BOOLEAN,
         registers' \in [Slot -> DwordValue],
         registers'["EIP"] \in (op.at + 1) .. MemorySize,
         DOMAIN ram' \subseteq Address, \A a \in DOMAIN ram' : ram'[a] \in ByteValue,
         UNCHANGED <<heap, strayed, flags>>
  PROVE  Completes(op)
<1>1. registers'["EIP"] <= MemorySize
  BY SMT, Widths
<1> QED
  BY <1>1 DEF IInv, TypeOK, MemoryTypeOK, CPUTypeOK, FlagsCoherent, Completes

(* push segment                                                            *)
LEMMA PushCompletes ==
  ASSUME IInv, NEW op, op.at \in Nat, IsPush(op), InArray(op),
         NEW reg \in Slot, PushSegment(reg, op)
  PROVE  Completes(op)
<1> DEFINE regs == AfterPush(2)
           w == registers[reg] % Word
<1>1. TypeOK /\ MemoryTypeOK /\ CPUTypeOK /\ op.at \in Address
  BY StreamInside DEF IInv, TypeOK
<1>2. registers \in [Slot -> DwordValue] /\ "ESP" \in Slot
  BY <1>1 DEF CPUTypeOK, Slot
<1>3. regs \in [Slot -> DwordValue]
  <2>1. -2 \in Int
    BY SMT
  <2> QED
    BY <1>2, <2>1, MovedTyped DEF AfterPush
<1>4. registers' = NextInstruction(regs, op, 0)
  BY DEF PushSegment
<1> HIDE DEF regs
<1>5. /\ registers' \in [Slot -> DwordValue]
      /\ registers'["EIP"] \in (op.at + 1) .. MemorySize
  BY <1>1, <1>3, <1>4, OpcodeOnly
<1>6. w \in Nat
  <2> DEFINE x == registers[reg]
  <2>1. x \in Int
    BY SMT, <1>2, Widths DEF DwordValue
  <2> HIDE DEF x
  <2>2. x % Word \in Nat
    BY SMT, <2>1, ModRange, WordWidth
  <2> QED
    BY <2>2 DEF x
<1>7. PushAddress \in Nat
  <2> DEFINE x == registers["ESP"] - 1
  <2>1. x \in Int
    BY SMT, <1>2, Widths DEF DwordValue
  <2> HIDE DEF x
  <2>2. x % Dword \in Nat
    BY SMT, <2>1, ModRange, Widths
  <2> QED
    BY <2>2 DEF x, PushAddress
<1>8. Window(PushAddress, 2) \subseteq Address
  BY SMT DEF InArray, DataWindow, HasModRM, IsPush, IsPop
<1>9. ram' = writeImm(w, PushAddress, 2)
  BY DEF PushSegment, writeImm16
<1>10. 2 \in Size
  BY DEF Size
<1> HIDE DEF w
<1>11. DOMAIN ram' \subseteq Address /\ \A a \in DOMAIN ram' : ram'[a] \in ByteValue
  BY <1>1, <1>6, <1>7, <1>8, <1>9, <1>10, WriteTyped
<1>12. UNCHANGED <<heap, strayed, flags, isHalted>> /\ isHalted' \in BOOLEAN
  BY <1>1 DEF PushSegment, CPUTypeOK
<1> QED
  BY <1>5, <1>11, <1>12, OtherCompletes

(* pop segment                                                             *)
LEMMA PopCompletes ==
  ASSUME IInv, NEW op, op.at \in Nat, IsPop(op), InArray(op),
         NEW reg \in Segment, PopSegment(reg, op)
  PROVE  Completes(op)
<1> DEFINE moved == AfterPop(2)
           w == readImm16(PopAddress)
           regs == setRegister(moved, reg, w)
<1>1. TypeOK /\ MemoryTypeOK /\ CPUTypeOK /\ op.at \in Address
  BY StreamInside DEF IInv, TypeOK
<1>2. registers \in [Slot -> DwordValue] /\ "ESP" \in Slot /\ reg \in Registers
  BY <1>1 DEF CPUTypeOK, Slot, Registers
<1>3. moved \in [Slot -> DwordValue]
  <2>1. PopStep(2) \in Int
    BY SMT DEF PopStep
  <2> QED
    BY <1>2, <2>1, MovedTyped DEF AfterPop
<1>4. PopAddress \in Address /\ PopAddress + 1 \in Address
  <2> DEFINE x == registers["ESP"] + 1
  <2>1. x \in Int
    BY SMT, <1>2, Widths DEF DwordValue
  <2> HIDE DEF x
  <2>2. x % Dword \in Nat
    BY SMT, <2>1, ModRange, Widths
  <2>3. PopAddress \in Nat
    BY <2>2 DEF x, PopAddress
  <2>4. Window(PopAddress, 2) \subseteq Address
    BY SMT DEF InArray, DataWindow, HasModRM, IsPush, IsPop
  <2> QED
    BY SMT, <2>3, <2>4 DEF Window
<1>5. w \in Nat
  <2>1. w \in WordValue
    BY <1>1, <1>4, ReadWord
  <2> QED
    BY SMT, <2>1, WordBounds
<1>6. registers' = NextInstruction(regs, op, 0)
  BY DEF PopSegment
<1> HIDE DEF moved, w
<1>7. regs \in [Slot -> DwordValue]
  BY <1>2, <1>3, <1>5, SetRegisterTyped
<1> HIDE DEF regs
<1>8. /\ registers' \in [Slot -> DwordValue]
      /\ registers'["EIP"] \in (op.at + 1) .. MemorySize
  BY <1>1, <1>6, <1>7, OpcodeOnly
<1>9. UNCHANGED <<heap, ram, strayed, flags, isHalted>> /\ isHalted' \in BOOLEAN
  BY <1>1 DEF PopSegment, memoryVars, CPUTypeOK
<1>10. DOMAIN ram' \subseteq Address /\ \A a \in DOMAIN ram' : ram'[a] \in ByteValue
  BY <1>1, <1>9 DEF MemoryTypeOK
<1> QED
  BY <1>8, <1>9, <1>10, OtherCompletes

(* hlt, and the opcodes that are stepped over                              *)
LEMMA HaltOrSkipCompletes ==
  ASSUME IInv, NEW op, op.at \in Nat, InArray(op), halt(op) \/ SkipOpcode(op)
  PROVE  Completes(op)
<1>1. TypeOK /\ MemoryTypeOK /\ CPUTypeOK /\ op.at \in Address
  BY StreamInside DEF IInv, TypeOK
<1>2. registers' = NextInstruction(registers, op, 0)
  BY DEF halt, SkipOpcode
<1>3. UNCHANGED <<heap, ram, strayed, flags>> /\ isHalted' \in BOOLEAN
  BY <1>1 DEF halt, SkipOpcode, memoryVars, CPUTypeOK
<1>4. registers \in [Slot -> DwordValue]
  BY <1>1 DEF CPUTypeOK
<1>5. /\ registers' \in [Slot -> DwordValue]
      /\ registers'["EIP"] \in (op.at + 1) .. MemorySize
  BY <1>1, <1>2, <1>4, OpcodeOnly
<1>6. DOMAIN ram' \subseteq Address /\ \A a \in DOMAIN ram' : ram'[a] \in ByteValue
  BY <1>1, <1>3 DEF MemoryTypeOK
<1> QED
  BY <1>3, <1>5, <1>6, OtherCompletes

-----------------------------------------------------------------------------
(* Every opcode is of one of the shapes *)

Alu(op) ==
  CASE IsAdc(op) -> "adc"
    [] IsOr(op)  -> "or"
    [] OTHER     -> "add"

(* Sorting the opcodes: what the handler that the switch selects does, and *)
(* at which operand size.                                                  *)
LEMMA Shapes ==
  ASSUME NEW op, op.instruction \in ByteValue, Execute(op)
  PROVE  \/ HasModRM(op) /\ ~NamesR(op) /\ IntoRm(Alu(op), SizeOf(op), op)
         \/ NamesR(op) /\ IntoR(Alu(op), SizeOf(op), op)
         \/ HasImmediate(op) /\ IntoAccumulator(Alu(op), SizeOf(op), op)
         \/ IsPush(op) /\ PushSegment(PushedSegment(op), op)
         \/ IsPop(op) /\ PopSegment(PoppedSegment(op), op)
         \/ /\ ~Computes(op) /\ ~IsPush(op) /\ ~IsPop(op)
            /\ halt(op) \/ SkipOpcode(op)
<1> DEFINE o == op.instruction
<1>1. o \in Int /\ 0 <= o
  BY SMT DEF ByteValue, Byte
<1>2. CASE \/ o = 0 /\ add_rm8_r8(op)
           \/ o = 1 /\ add_rm16_32_r16_32(op)
           \/ o = 8 /\ or_rm8_r8(op)
           \/ o = 9 /\ or_rm16_32_r16_32(op)
           \/ o = 16 /\ adc_rm8_r8(op)
           \/ o = 17 /\ adc_rm16_32_r16_32(op)
  BY SMT, <1>2 DEF HasModRM, HasImmediate, NamesR, SizeOf, Alu, IsAdc, IsOr, Computes,
                   add_rm8_r8, add_rm16_32_r16_32, or_rm8_r8, or_rm16_32_r16_32,
                   adc_rm8_r8, adc_rm16_32_r16_32
<1>3. CASE \/ o = 2 /\ add_r8_rm8(op)
           \/ o = 3 /\ add_r16_32_rm16_32(op)
           \/ o = 10 /\ or_r8_rm8(op)
           \/ o = 11 /\ or_r16_32_rm16_32(op)
           \/ o = 18 /\ adc_r8_rm8(op)
           \/ o = 19 /\ adc_r16_32_rm16_32(op)
  BY SMT, <1>3 DEF HasModRM, HasImmediate, NamesR, SizeOf, Alu, IsAdc, IsOr, Computes,
                   add_r8_rm8, add_r16_32_rm16_32, or_r8_rm8, or_r16_32_rm16_32,
                   adc_r8_rm8, adc_r16_32_rm16_32
<1>4. CASE \/ o = 4 /\ add_al_imm8(op)
           \/ o = 5 /\ add_eAX_imm16_32(op)
           \/ o = 12 /\ or_al_imm8(op)
           \/ o = 13 /\ or_eAX_imm16_32(op)
           \/ o = 20 /\ adc_al_imm8(op)
           \/ o = 21 /\ adc_eAX_imm16_32(op)
  BY SMT, <1>4 DEF HasModRM, HasImmediate, SizeOf, Alu, IsAdc, IsOr, Computes,
                   add_al_imm8, add_eAX_imm16_32, or_al_imm8, or_eAX_imm16_32,
                   adc_al_imm8, adc_eAX_imm16_32
<1>5. CASE \/ o = 6 /\ push_es(op)
           \/ o = 14 /\ push_cs(op)
           \/ o = 22 /\ push_ss(op)
  BY SMT, <1>5 DEF IsPush, PushedSegment, push_es, push_cs, push_ss
<1>6. CASE \/ o = 7 /\ pop_es(op)
           \/ o = 23 /\ pop_ss(op)
  BY SMT, <1>6 DEF IsPop, PoppedSegment, pop_es, pop_ss
<1>7. CASE \/ o = 15 /\ TwoByteOpcode(op)
           \/ o = 244 /\ halt(op)
           \/ o \notin Defined /\ InvalidOpcode(op)
  <2>1. o = 15 \/ o = 244 \/ o >= 24
    BY SMT, <1>1, <1>7 DEF Defined
  <2>2. ~Computes(op) /\ ~IsPush(op) /\ ~IsPop(op)
    BY SMT, <1>1, <2>1 DEF Computes, HasModRM, HasImmediate, IsPush, IsPop
  <2> QED
    BY <1>7, <2>2 DEF TwoByteOpcode, InvalidOpcode
<1> QED
  BY <1>2, <1>3, <1>4, <1>5, <1>6, <1>7 DEF Execute

(* The kinds of instruction exclude one another.                           *)
LEMMA Kinds ==
  ASSUME NEW op
  PROVE  /\ IsPush(op) => ~IsPop(op) /\ ~Computes(op)
         /\ IsPop(op) => ~IsPush(op) /\ ~Computes(op)
         /\ ~(HasModRM(op) /\ HasImmediate(op))
  BY SMT DEF IsPush, IsPop, Computes, HasModRM, HasImmediate

(* Whatever the opcode byte selects, the instruction completes.            *)
LEMMA ExecuteCompletes ==
  ASSUME IInv, NEW op, op.at \in Nat, op.instruction \in ByteValue, InArray(op), Execute(op)
  PROVE  Completes(op)
<1>1. SizeOf(op) \in Size
  BY DEF SizeOf, OperandSize, Size
<1>2. Alu(op) \in {"add", "adc", "or"}
  BY DEF Alu
<1>3. CASE HasModRM(op) /\ ~NamesR(op) /\ IntoRm(Alu(op), SizeOf(op), op)
  BY <1>1, <1>2, <1>3, IntoRmCompletes
<1>4. CASE NamesR(op) /\ IntoR(Alu(op), SizeOf(op), op)
  BY <1>1, <1>2, <1>4, IntoRCompletes DEF NamesR
<1>5. CASE HasImmediate(op) /\ IntoAccumulator(Alu(op), SizeOf(op), op)
  BY <1>1, <1>2, <1>5, IntoAccumulatorCompletes
<1>6. CASE IsPush(op) /\ PushSegment(PushedSegment(op), op)
  <2>1. PushedSegment(op) \in Slot
    BY DEF PushedSegment, Slot, Segment
  <2> QED
    BY <1>6, <2>1, PushCompletes
<1>7. CASE IsPop(op) /\ PopSegment(PoppedSegment(op), op)
  <2>1. PoppedSegment(op) \in Segment
    BY DEF PoppedSegment, Segment
  <2> QED
    BY <1>7, <2>1, PopCompletes
<1>8. CASE halt(op) \/ SkipOpcode(op)
  BY <1>8, HaltOrSkipCompletes
<1> QED
  BY <1>3, <1>4, <1>5, <1>6, <1>7, <1>8, Shapes

(* The prefixes before an opcode can be counted in one way only.           *)
LEMMA FetchIsUnique ==
  ASSUME NEW m \in 0 .. MaxPrefixes, NEW n \in 0 .. MaxPrefixes, Fetched(m), Fetched(n)
  PROVE  m = n
<1>1. m \in Int /\ n \in Int /\ 0 <= m /\ 0 <= n
  BY SMT, PrefixAssumption
<1>2. ASSUME NEW i \in 0 .. MaxPrefixes, NEW j \in 0 .. MaxPrefixes, Fetched(i), Fetched(j), i < j
      PROVE  FALSE
  <2>1. i \in 0 .. j - 1
    BY SMT, <1>2, PrefixAssumption
  <2>2. readImm8(registers["EIP"] + i) \in InstructionPrefix
    BY <1>2, <2>1 DEF Fetched, PrefixRun
  <2>3. readImm8(registers["EIP"] + i) \notin InstructionPrefix
    BY <1>2 DEF Fetched, Opcode
  <2> QED
    BY <2>2, <2>3
<1>3. ~(m < n) /\ ~(n < m)
  BY <1>2
<1> QED
  BY SMT, <1>1, <1>3

(* The instruction a cycle executes is the one decoded, and its bytes are  *)
(* inside the array.                                                       *)
LEMMA CycleExecutes ==
  ASSUME IInv, Cycle, NEW op \in DecodedNow
  PROVE  /\ op.at \in Nat /\ op.at >= registers["EIP"]
         /\ op.instruction \in ByteValue
         /\ InArray(op) /\ Execute(op)
<1>1. PICK n \in 0 .. MaxPrefixes : Fetched(n) /\ InArray(Opcode(n)) /\ Execute(Opcode(n))
  BY DEF Cycle
<1>2. PICK m \in 0 .. MaxPrefixes : Fetched(m) /\ op = Opcode(m)
  BY DEF DecodedNow
<1>3. op = Opcode(n)
  BY <1>1, <1>2, FetchIsUnique
<1>4. registers["EIP"] \in Nat
  BY SMT, Widths DEF IInv, TypeOK, CPUTypeOK, Slot, DwordValue
<1>5. n \in Nat
  BY SMT, PrefixAssumption
<1>6. op.at = registers["EIP"] + n /\ op.instruction = readImm8(registers["EIP"] + n)
  BY <1>3 DEF Opcode
<1>7. op.at \in Nat /\ op.at >= registers["EIP"]
  BY SMT, <1>4, <1>5, <1>6
<1>8. InArray(op) /\ Execute(op)
  BY <1>1, <1>3
<1>9. op.at \in Address
  BY <1>7, <1>8, StreamInside DEF IInv
<1>10. op.instruction \in ByteValue
  BY <1>6, <1>9, ReadByte DEF IInv, TypeOK
<1> QED
  BY <1>7, <1>8, <1>10

(* A cycle executes some instruction.                                      *)
LEMMA CycleDecodes == Cycle => DecodedNow # {}
  BY DEF Cycle, DecodedNow

(* One call of cycle() moves EIP forward and keeps the invariant.          *)
LEMMA CycleCompletes ==
  ASSUME IInv, Cycle
  PROVE  /\ IInv'
         /\ registers'["EIP"] \in (registers["EIP"] + 1) .. MemorySize
         /\ UNCHANGED strayed
<1>1. PICK op \in DecodedNow : TRUE
  BY CycleDecodes
<1>2. op.at \in Nat /\ op.at >= registers["EIP"] /\ Completes(op)
  BY CycleExecutes, ExecuteCompletes
<1>3. registers["EIP"] \in Nat
  BY SMT, Widths DEF IInv, TypeOK, CPUTypeOK, Slot, DwordValue
<1> QED
  BY SMT, <1>2, <1>3, Widths DEF Completes

(* A cycle that leaves the array is only recorded.                         *)
LEMMA StrayKeeps ==
  ASSUME IInv, CycleStrays
  PROVE  IInv'
  BY DEF CycleStrays, IInv, TypeOK, MemoryTypeOK, CPUTypeOK, FlagsCoherent

(* A new machine with an image in its memory.                              *)
LEMMA InitHolds == Init => IInv
<1> SUFFICES ASSUME Init PROVE IInv
  OBVIOUS
<1>1. MemoryTypeOK
  <2>1. PICK img \in Images : ram = Loaded(img)
    BY DEF Init
  <2>2. img \in Seq(ByteValue) /\ Len(img) <= MemorySize
    BY ImageAssumption
  <2>3. Len(img) \in Nat /\ \A i \in 1 .. Len(img) : img[i] \in ByteValue
    BY <2>2
  <2>4. DOMAIN ram \subseteq Address
    BY SMT, <2>1, <2>2, <2>3, Widths, PatchAssumption DEF Address, Loaded, Patched, Window
  <2>5. \A a \in DOMAIN ram : ram[a] \in ByteValue
    <3>1. \A a \in 0 .. (Len(img) - 1) : a + 1 \in 1 .. Len(img)
      BY SMT, <2>3
    <3>2. \A a \in Patched : ByteOf(Patch, a - PatchAddress) \in ByteValue
      BY SMT, BytesOf, PatchAssumption DEF Patched, Window, Patch
    <3> QED
      BY <2>1, <2>3, <3>1, <3>2 DEF Loaded
  <2> QED
    BY <2>4, <2>5 DEF Init, MemoryTypeOK
<1>2. CPUTypeOK
  <2>1. 65535 \in DwordValue /\ 0 \in DwordValue
    BY SMT, Widths DEF DwordValue
  <2>2. registers \in [Slot -> DwordValue]
    BY SMT, <2>1 DEF Init, ResetRegisters
  <2>3. flags \in [Flag -> {0, 1}]
    BY SMT DEF Init, ResetFlags
  <2> QED
    BY <2>2, <2>3 DEF Init, CPUTypeOK
<1>3. registers["EIP"] <= MemorySize
  BY SMT, Widths DEF Init, ResetRegisters, Slot
<1>4. FlagsCoherent
  BY SMT DEF Init, ResetFlags, Flag, FlagsCoherent
<1> QED
  BY <1>1, <1>2, <1>3, <1>4 DEF IInv, TypeOK

(* The invariant is inductive.                                             *)
LEMMA Invariance == Spec => []IInv
<1>1. Init => IInv
  BY InitHolds
<1>2. IInv /\ [Next]_vars => IInv'
  <2> SUFFICES ASSUME IInv, [Next]_vars PROVE IInv'
    OBVIOUS
  <2>1. CASE Cycle
    BY <2>1, CycleCompletes
  <2>2. CASE CycleStrays
    BY <2>2, StrayKeeps
  <2>3. CASE UNCHANGED vars
    BY <2>3 DEF vars, IInv, TypeOK, MemoryTypeOK, CPUTypeOK, FlagsCoherent
  <2> QED
    BY <2>1, <2>2, <2>3 DEF Next
<1> QED
  BY <1>1, <1>2, PTL DEF Spec

-----------------------------------------------------------------------------
(* The variables keep their types: every slot holds 32 bits whatever view  *)
(* stored to it, no byte is written outside the array, and EIP is never    *)
(* more than one past the end.                                             *)
THEOREM TypeCorrect == Spec => []TypeOK
<1>1. IInv => TypeOK
  BY DEF IInv
<1> QED
  BY <1>1, Invariance, PTL

(* A zero result is never seen with a sign or with odd parity, after any   *)
(* sequence of instructions.                                               *)
THEOREM FlagsAlwaysCoherent == Spec => []FlagsCoherent
<1>1. IInv => FlagsCoherent
  BY DEF IInv
<1> QED
  BY <1>1, Invariance, PTL

(* One step of WalksThroughMemory.                                         *)
LEMMA WalkStepHolds ==
  ASSUME IInv, [Next]_vars
  PROVE  [Abstract!Next]_<<registers["EIP"], Status>>
<1>1. CASE Cycle
  <2>1. IInv' /\ registers'["EIP"] \in (registers["EIP"] + 1) .. MemorySize /\ UNCHANGED strayed
    BY <1>1, CycleCompletes
  <2>2. Status = "running"
    BY <1>1 DEF Cycle, Running, Status
  <2>3. Status' \in {"running", "halted"}
    BY <1>1, <2>1 DEF Cycle, Running, Status
  <2> QED
    BY <2>1, <2>2, <2>3 DEF Abstract!Next, Abstract!Advance
<1>2. CASE CycleStrays
  <2>1. Status = "running" /\ Status' = "strayed" /\ registers'["EIP"] = registers["EIP"]
    BY <1>2 DEF CycleStrays, Running, Status
  <2> QED
    BY <2>1 DEF Abstract!Next, Abstract!Leave
<1>3. CASE UNCHANGED vars
  BY <1>3 DEF vars, Status
<1> QED
  BY <1>1, <1>2, <1>3 DEF Next

(* The machine implements Walk: one walk upwards through the memory, which *)
(* a hlt or an access past the array ends for good.                        *)
THEOREM WalksOnce == Spec => WalksThroughMemory
<1>1. Init => Abstract!Init
  BY SMT DEF Init, Abstract!Init, ResetRegisters, Slot, Status
<1>2. IInv /\ [Next]_vars => [Abstract!Next]_<<registers["EIP"], Status>>
  BY WalkStepHolds
<1> QED
  BY <1>1, <1>2, Invariance, PTL DEF Spec, WalksThroughMemory, Abstract!Spec

-----------------------------------------------------------------------------
(* What a computation does to CF and OF.                                   *)
LEMMA CarryAfter ==
  ASSUME CPUTypeOK, NEW op, Computes(op), NEW n, NEW f, NEW s,
         flags' = FlagsAfter(Alu(op), n, f, s)
  PROVE  /\ flags'["CF"] = 1 /\ flags'["SF"] = 1 => IsAdc(op)
         /\ flags["OF"] = 1 /\ flags'["OF"] = 0 => IsOr(op)
<1>1. flags \in [Flag -> {0, 1}]
  BY DEF CPUTypeOK
<1>2. CASE Alu(op) = "add"
  <2> DEFINE r == Result("add", n, f, s)
             sign == SignOf(n, r)
             cf == IF r < f THEN 1 ELSE flags["CF"]
             half == HalfCarry(0, f, s)
             zero == Bit(r = 0)
             even == Bit(SetBits(r % Byte) % 2 = 0)
  <2>1. flags' = [[flags EXCEPT !["SF"] = sign, !["ZF"] = zero, !["PF"] = even]
                  EXCEPT !["AF"] = half,
                         !["CF"] = IF cf = 1 /\ sign = 1 THEN 0 ELSE cf,
                         !["OF"] = IF cf = 1 /\ sign = 1 THEN 1 ELSE @]
    BY <1>2 DEF FlagsAfter, AddFlags, Described
  <2> HIDE DEF sign, cf, half, zero, even
  <2>2. /\ flags'["CF"] = IF cf = 1 /\ sign = 1 THEN 0 ELSE cf
        /\ flags'["SF"] = sign
        /\ flags'["OF"] = IF cf = 1 /\ sign = 1 THEN 1 ELSE flags["OF"]
    BY SMT, <1>1, <2>1 DEF Flag
  <2> QED
    BY SMT, <2>2
<1>3. CASE IsAdc(op)
  <2> DEFINE r == Result("adc", n, f, s)
             sign == SignOf(n, r)
             cf == IF r < f THEN 1 ELSE flags["CF"]
             moved == flags["CF"] = 1 /\ sign = 1
             half == HalfCarry(flags["CF"], f, s)
             zero == Bit(r = 0)
             even == Bit(SetBits(r % Byte) % 2 = 0)
  <2>1. Alu(op) = "adc"
    BY SMT, <1>3 DEF Alu, IsAdc, IsOr
  <2>2. flags' = [[flags EXCEPT !["SF"] = sign, !["ZF"] = zero, !["PF"] = even]
                  EXCEPT !["AF"] = half,
                         !["CF"] = IF moved THEN 0 ELSE cf,
                         !["OF"] = IF moved THEN 1 ELSE @]
    BY <2>1 DEF FlagsAfter, AdcFlags, Described
  <2> HIDE DEF sign, cf, moved, half, zero, even
  <2>3. flags'["OF"] = IF moved THEN 1 ELSE flags["OF"]
    BY SMT, <1>1, <2>2 DEF Flag
  <2> QED
    BY SMT, <1>3, <2>3
<1>4. CASE IsOr(op)
  <2>1. Alu(op) = "or"
    BY SMT, <1>4 DEF Alu, IsAdc, IsOr
  <2>2. flags' = [Described(n, Result("or", n, f, s)) EXCEPT !["CF"] = 0, !["OF"] = 0]
    BY <2>1 DEF FlagsAfter, OrFlags
  <2>3. flags'["CF"] = 0
    BY SMT, <1>1, <2>2 DEF Described, Flag
  <2> QED
    BY SMT, <1>4, <2>3
<1>5. IsAdc(op) \/ IsOr(op) \/ Alu(op) = "add"
  BY DEF Alu
<1> QED
  BY <1>2, <1>3, <1>4, <1>5

(* One step of CarryDiscipline.                                            *)
LEMMA CarryStepHolds == IInv /\ [Next]_vars => [CarryStep]_vars
<1> DEFINE Disciplined(op) ==
      /\ flags'["CF"] = 1 /\ flags'["SF"] = 1 /\ flags' # flags => IsAdc(op)
      /\ flags["OF"] = 1 /\ flags'["OF"] = 0 => IsOr(op)
      /\ ~Computes(op) => flags' = flags
<1>1. IInv /\ [Next]_vars => [\A op \in DecodedNow : Disciplined(op)]_vars
  <2> SUFFICES ASSUME IInv, [Next]_vars, vars' # vars, NEW op \in DecodedNow
               PROVE  Disciplined(op)
    BY DEF vars
  <2>1. CPUTypeOK
    BY DEF IInv, TypeOK
  <2>2. ASSUME flags' = flags PROVE Disciplined(op)
    BY SMT, <2>2
  <2>3. CASE Cycle
    <3>1. op.instruction \in ByteValue /\ Execute(op)
      BY <2>3, CycleExecutes
    <3>2. ASSUME Computes(op), NEW n, NEW f, NEW s, flags' = FlagsAfter(Alu(op), n, f, s)
          PROVE  Disciplined(op)
      BY <2>1, <3>2, CarryAfter
    <3>3. CASE HasModRM(op) /\ ~NamesR(op) /\ IntoRm(Alu(op), SizeOf(op), op)
      BY <3>2, <3>3 DEF IntoRm, Computes
    <3>4. CASE NamesR(op) /\ IntoR(Alu(op), SizeOf(op), op)
      BY <3>2, <3>4 DEF IntoR, Computes, NamesR
    <3>5. CASE HasImmediate(op) /\ IntoAccumulator(Alu(op), SizeOf(op), op)
      BY <3>2, <3>5 DEF IntoAccumulator, Computes
    <3>6. CASE IsPush(op) /\ PushSegment(PushedSegment(op), op)
      BY <2>2, <3>6 DEF PushSegment
    <3>7. CASE IsPop(op) /\ PopSegment(PoppedSegment(op), op)
      BY <2>2, <3>7 DEF PopSegment
    <3>8. CASE halt(op) \/ SkipOpcode(op)
      BY <2>2, <3>8 DEF halt, SkipOpcode
    <3> QED
      BY <3>1, <3>3, <3>4, <3>5, <3>6, <3>7, <3>8, Shapes
  <2>4. CASE CycleStrays
    BY <2>2, <2>4 DEF CycleStrays
  <2> QED
    BY <2>3, <2>4 DEF Next
<1> QED
  BY <1>1 DEF CarryStep

(* Carry with sign comes from adc only, OF is cleared by or only, and an   *)
(* instruction that does not compute touches no flag.                      *)
THEOREM CarryDisciplined == Spec => CarryDiscipline
  BY CarryStepHolds, Invariance, PTL DEF Spec, CarryDiscipline

-----------------------------------------------------------------------------
(* What a sum that wraps does to CF and OF.                                *)
LEMMA WrapAfter ==
  ASSUME CPUTypeOK, NEW op, Computes(op), ~IsOr(op), NEW n \in Size,
         NEW f \in 0 .. (Modulus(n) - 1), NEW s \in 0 .. (Modulus(n) - 1),
         flags' = FlagsAfter(Alu(op), n, f, s),
         f + s + (IF IsAdc(op) THEN flags["CF"] ELSE 0) >= Modulus(n)
  PROVE  flags'["CF"] = 1 \/ flags'["OF"] = 1
<1> DEFINE m == Modulus(n)
           c == CarryIn(Alu(op))
           r == Result(Alu(op), n, f, s)
           sign == SignOf(n, r)
           cf == IF r < f THEN 1 ELSE flags["CF"]
           zero == Bit(r = 0)
           even == Bit(SetBits(r % Byte) % 2 = 0)
<1>1. flags \in [Flag -> {0, 1}] /\ flags["CF"] \in {0, 1}
  BY SMT DEF CPUTypeOK, Flag
<1>2. Alu(op) = IF IsAdc(op) THEN "adc" ELSE "add"
  BY DEF Alu
<1>3. c = IF IsAdc(op) THEN flags["CF"] ELSE 0
  BY <1>2 DEF CarryIn
<1>4. c \in {0, 1}
  BY <1>1, <1>3
<1>5. m \in Nat \ {0} /\ f \in Nat /\ s \in Nat
  BY SMT, Moduli
<1>6. r = (f + s + c) % m
  BY <1>2, <1>5, ResultOfSum
<1>7. r < f \/ c = 1
  <2> HIDE DEF m, c, r
  <2>1. f \in 0 .. (m - 1) /\ s \in 0 .. (m - 1) /\ f + s + c >= m
    BY <1>3 DEF m
  <2> QED
    BY <1>4, <1>5, <1>6, <2>1, WrappedSum
<1>8. cf = 1
  BY <1>3, <1>7
<1>9. CASE ~IsAdc(op)
  <2> DEFINE half == HalfCarry(0, f, s)
  <2>1. flags' = [[flags EXCEPT !["SF"] = sign, !["ZF"] = zero, !["PF"] = even]
                  EXCEPT !["AF"] = half,
                         !["CF"] = IF cf = 1 /\ sign = 1 THEN 0 ELSE cf,
                         !["OF"] = IF cf = 1 /\ sign = 1 THEN 1 ELSE @]
    BY <1>2, <1>9 DEF FlagsAfter, AddFlags, Described
  <2> HIDE DEF r, sign, cf, half, zero, even
  <2>2. /\ flags'["CF"] = IF cf = 1 /\ sign = 1 THEN 0 ELSE cf
        /\ flags'["OF"] = IF cf = 1 /\ sign = 1 THEN 1 ELSE flags["OF"]
    BY SMT, <1>1, <2>1 DEF Flag
  <2> QED
    BY SMT, <1>8, <2>2
<1>10. CASE IsAdc(op)
  <2> DEFINE half == HalfCarry(flags["CF"], f, s)
             moved == flags["CF"] = 1 /\ sign = 1
  <2>1. flags' = [[flags EXCEPT !["SF"] = sign, !["ZF"] = zero, !["PF"] = even]
                  EXCEPT !["AF"] = half,
                         !["CF"] = IF moved THEN 0 ELSE cf,
                         !["OF"] = IF moved THEN 1 ELSE @]
    BY <1>2, <1>10 DEF FlagsAfter, AdcFlags, Described
  <2> HIDE DEF r, sign, cf, half, moved, zero, even
  <2>2. /\ flags'["CF"] = IF moved THEN 0 ELSE cf
        /\ flags'["OF"] = IF moved THEN 1 ELSE flags["OF"]
    BY SMT, <1>1, <2>1 DEF Flag
  <2> QED
    BY SMT, <1>8, <2>2
<1> QED
  BY <1>9, <1>10

(* One step of WrapIsReported.                                             *)
LEMMA WrapStepHolds == IInv /\ [Next]_vars => [WrapStep]_vars
<1> DEFINE Reports(op) ==
      Computes(op) /\ ~IsOr(op) /\ ExactSum(op) >= Modulus(SizeOf(op)) =>
        flags'["CF"] = 1 \/ flags'["OF"] = 1
<1>1. IInv /\ [Next]_vars => [~strayed' => \A op \in DecodedNow : Reports(op)]_vars
  <2> SUFFICES ASSUME IInv, [Next]_vars, vars' # vars, ~strayed', NEW op \in DecodedNow,
                      Computes(op), ~IsOr(op), ExactSum(op) >= Modulus(SizeOf(op))
               PROVE  flags'["CF"] = 1 \/ flags'["OF"] = 1
    BY DEF vars
  <2> DEFINE n == SizeOf(op)
             f == FirstOf(op)
             s == SecondOf(op)
  <2>1. TypeOK /\ MemoryTypeOK /\ CPUTypeOK
    BY DEF IInv, TypeOK
  <2>2. Cycle
    BY DEF Next, CycleStrays
  <2>3. op.at \in Nat /\ op.instruction \in ByteValue /\ InArray(op) /\ Execute(op)
    BY <2>2, CycleExecutes
  <2>4. n \in Size
    BY DEF SizeOf, OperandSize, Size
  <2>5. f \in 0 .. (Modulus(n) - 1) /\ s \in 0 .. (Modulus(n) - 1)
    <3>1. CASE HasModRM(op)
      <4>1. ~HasImmediate(op)
        BY <3>1, Kinds
      <4> QED
        BY <2>1, <2>3, <2>4, <3>1, <4>1, OperandsTyped DEF FirstOf, SecondOf
    <3>2. CASE HasImmediate(op)
      <4>1. Window(op.at + 1, n) \subseteq Address
        BY <2>1, <2>3, <3>2, StreamInside
      <4>2. 0 \in 0 .. 7 /\ op.at + 1 \in Nat
        BY SMT, <2>3
      <4>3. getRegister(Numbered(n, 0)) \in 0 .. (Modulus(n) - 1)
        BY <2>1, <2>4, <4>2, NumberedValue
      <4>4. readImm(op.at + 1, n) \in 0 .. (Modulus(n) - 1)
        BY <2>1, <2>4, <4>1, <4>2, ReadSized
      <4> QED
        BY <3>2, <4>3, <4>4 DEF FirstOf, SecondOf
    <3> QED
      BY <3>1, <3>2 DEF Computes
  <2>6. flags' = FlagsAfter(Alu(op), n, f, s)
    <3>1. CASE HasModRM(op) /\ ~NamesR(op) /\ IntoRm(Alu(op), SizeOf(op), op)
      BY <3>1, Kinds DEF IntoRm, FirstOf, SecondOf
    <3>2. CASE NamesR(op) /\ IntoR(Alu(op), SizeOf(op), op)
      BY <3>2, Kinds DEF IntoR, NamesR, FirstOf, SecondOf
    <3>3. CASE HasImmediate(op) /\ IntoAccumulator(Alu(op), SizeOf(op), op)
      BY <3>3 DEF IntoAccumulator, FirstOf, SecondOf
    <3> QED
      BY <2>3, <3>1, <3>2, <3>3, Shapes, Kinds
  <2>7. f + s + (IF IsAdc(op) THEN flags["CF"] ELSE 0) >= Modulus(n)
    BY DEF ExactSum
  <2> HIDE DEF n, f, s
  <2> QED
    BY <2>1, <2>4, <2>5, <2>6, <2>7, WrapAfter
<1> QED
  BY <1>1 DEF WrapStep

(* A sum that does not fit its operand is reported in CF or in OF, for     *)
(* every operand size and all values of the operands.                      *)
THEOREM WrapsAreReported == Spec => WrapIsReported
  BY WrapStepHolds, Invariance, PTL DEF Spec, WrapIsReported

-----------------------------------------------------------------------------
(* Memory *)

(* A word that was stored reads back.                                      *)
LEMMA ReadWritten ==
  ASSUME NEW v \in WordValue, NEW a \in Nat, ram' = writeImm(v, a, 2)
  PROVE  readImm16(a)' = v
<1>1. a \in Window(a, 2) /\ a + 1 \in Window(a, 2) /\ a - a = 0 /\ (a + 1) - a = 1
  BY SMT DEF Window
<1>2. ram'[a] = ByteOf(v, 0) /\ ram'[a + 1] = ByteOf(v, 1)
  BY <1>1 DEF writeImm
<1>3. a \in DOMAIN ram' /\ a + 1 \in DOMAIN ram'
  BY <1>1 DEF writeImm
<1>4. readImm16(a)' = (ram'[a + 1] * 256) + ram'[a]
  BY <1>3 DEF readImm16, readImm8, Byte
<1>5. ByteOf(v, 0) = v % 256 /\ ByteOf(v, 1) = (v \div 256) % 256
  BY SMT DEF ByteOf, Byte, Word
<1>6. v \in Int /\ 0 <= v /\ v < 65536
  BY SMT, WordBounds
<1>7. (((v \div 256) % 256) * 256) + (v % 256) = v
  BY SMT, <1>6
<1> QED
  BY <1>2, <1>4, <1>5, <1>7

(* A word outside what was written is read as before.                      *)
LEMMA ReadOutside ==
  ASSUME NEW v, NEW a, NEW n, NEW x \in Nat, ram' = writeImm(v, a, n), heap' = heap,
         Window(x, 2) \cap Window(a, n) = {}
  PROVE  readImm16(x)' = readImm16(x)
<1>1. \A y : y \notin Window(a, n) =>
        /\ y \in DOMAIN ram' <=> y \in DOMAIN ram
        /\ y \in DOMAIN ram => ram'[y] = ram[y]
  BY DEF writeImm
<1>2. \A y : y \notin Window(a, n) => readImm8(y)' = readImm8(y)
  BY <1>1 DEF readImm8
<1>3. x \in Window(x, 2) /\ x + 1 \in Window(x, 2)
  BY SMT DEF Window
<1>4. x \notin Window(a, n) /\ x + 1 \notin Window(a, n)
  BY <1>3
<1> QED
  BY <1>2, <1>4 DEF readImm16

(* Without a write every word is read as before.                           *)
LEMMA ReadUnchanged ==
  ASSUME NEW x, ram' = ram, heap' = heap
  PROVE  readImm16(x)' = readImm16(x)
  BY DEF readImm16, readImm8

-----------------------------------------------------------------------------
(* Stack pointer arithmetic *)

(* Where a push that stays inside the array stores, and where ESP is then: *)
(* the next pop reads the word just pushed.                                *)
LEMMA PushArithmetic ==
  ASSUME NEW e \in DwordValue, ((e - 1) % Dword) + 1 < MemorySize
  PROVE  /\ e >= 1
         /\ (e - 1) % Dword = e - 1
         /\ (e + 1) % Dword = e + 1
         /\ (((e - 2) % Dword) + 1) % Dword = e - 1
<1> DEFINE D == Dword
<1>1. D \in Nat \ {0} /\ MemorySize \in Nat /\ MemorySize < D /\ D > 2
  BY SMT, Widths
<1>2. e \in Int /\ 0 <= e /\ e < D
  BY SMT, Widths DEF DwordValue
<1>3. ((e - 1) % D) + 1 < MemorySize
  OBVIOUS
<1> HIDE DEF D
<1>4. e >= 1
  <2> SUFFICES ASSUME e = 0 PROVE FALSE
    BY SMT, <1>2
  <2>1. e - 1 \in Int /\ e - 1 < 0 /\ 0 <= (e - 1) + D
    BY SMT, <1>1
  <2>2. (e - 1) % D = (e - 1) + D
    BY <1>1, <2>1, ModNegative
  <2> QED
    BY SMT, <1>1, <1>3, <2>2
<1>5. (e - 1) % D = e - 1
  BY SMT, <1>1, <1>2, <1>4, ModSmall
<1>6. (e + 1) % D = e + 1
  BY SMT, <1>1, <1>2, <1>3, <1>5, ModSmall
<1>7. (((e - 2) % D) + 1) % D = e - 1
  <2>1. CASE e = 1
    <3>1. (1 - 2) % D = D - 1
      BY SMT, <1>1, ModNegative
    <3>2. ((D - 1) + 1) % D = 0
      BY SMT, <1>1
    <3> QED
      BY SMT, <2>1, <3>1, <3>2
  <2>2. CASE e >= 2
    <3>1. (e - 2) % D = e - 2
      BY SMT, <1>1, <1>2, <2>2, ModSmall
    <3>2. ((e - 2) + 1) % D = e - 1
      BY SMT, <1>1, <1>2, <2>2, ModSmall
    <3> QED
      BY <3>1, <3>2
  <2> QED
    BY SMT, <1>2, <1>4, <2>1, <2>2
<1> QED
  BY <1>4, <1>5, <1>6, <1>7 DEF D

(* A pop moves the next pop up by at most one.                             *)
LEMMA PopArithmetic ==
  ASSUME NEW e \in DwordValue
  PROVE  (((e + 1) % Dword) + 1) % Dword <= ((e + 1) % Dword) + 1
<1> DEFINE x == ((e + 1) % Dword) + 1
<1>1. e + 1 \in Int
  BY SMT, Widths DEF DwordValue
<1>2. x \in Nat
  BY SMT, <1>1, ModRange, Widths
<1> HIDE DEF x
<1>3. x % Dword <= x
  BY SMT, <1>2, Widths
<1> QED
  BY <1>3 DEF x

-----------------------------------------------------------------------------
(* The stack pointer after an instruction *)

(* The increment of EIP does not touch ESP.                                *)
LEMMA NextInstructionESP ==
  ASSUME NEW regs \in [Slot -> DwordValue], NEW op, NEW c
  PROVE  NextInstruction(regs, op, c)["ESP"] = regs["ESP"]
  BY DEF NextInstruction, Slot

(* A store to a register of another slot does not touch ESP.               *)
LEMMA SetRegisterESP ==
  ASSUME NEW regs \in [Slot -> DwordValue], NEW reg, NEW v, SlotOf(reg) # "ESP"
  PROVE  setRegister(regs, reg, v)["ESP"] = regs["ESP"]
  BY DEF setRegister, Slot

(* A push that stays inside the array stores a word whose address is the   *)
(* one that the next pop reads, two below that of a pop before it.         *)
LEMMA PushMoves ==
  ASSUME IInv, NEW op, IsPush(op), InArray(op), PushSegment(PushedSegment(op), op)
  PROVE  /\ PushAddress \in Nat /\ PushAddress + 1 < MemorySize
         /\ PopAddress = PushAddress + 2
         /\ PopAddress' = PushAddress
<1> DEFINE e == registers["ESP"]
<1>1. registers \in [Slot -> DwordValue] /\ "ESP" \in Slot
  BY DEF IInv, TypeOK, CPUTypeOK, Slot
<1>2. e \in DwordValue
  BY <1>1
<1>3. registers'["ESP"] = (e - 2) % Dword
  <2>1. -2 \in Int /\ e + (-2) = e - 2
    BY SMT, <1>2, Widths DEF DwordValue
  <2>2. AfterPush(2) \in [Slot -> DwordValue]
    BY <1>1, <2>1, MovedTyped DEF AfterPush
  <2>3. AfterPush(2)["ESP"] = (e - 2) % Dword
    BY <1>1, <2>1 DEF AfterPush, Moved
  <2> QED
    BY <2>2, <2>3, NextInstructionESP DEF PushSegment
<1> HIDE DEF e
<1>4. ((e - 1) % Dword) + 1 < MemorySize
  <2>1. Window(PushAddress, 2) \subseteq Address
    BY SMT DEF InArray, DataWindow, HasModRM, IsPush, IsPop
  <2>2. (e - 1) % Dword \in Nat
    BY SMT, <1>2, ModRange, Widths DEF DwordValue
  <2> QED
    BY SMT, <2>1, <2>2, Widths DEF Window, Address, PushAddress, e
<1>5. e \in Int /\ e >= 1 /\ PushAddress = e - 1 /\ PopAddress = e + 1 /\ PopAddress' = e - 1
  <2>1. e \in Int
    BY SMT, <1>2, Widths DEF DwordValue
  <2> QED
    BY <1>2, <1>3, <1>4, <2>1, PushArithmetic DEF PushAddress, PopAddress, e
<1>6. PushAddress + 1 < MemorySize
  BY <1>4 DEF PushAddress, e
<1> QED
  BY SMT, <1>5, <1>6

(* A pop moves ESP by one.                                                 *)
LEMMA PopMoves ==
  ASSUME IInv, NEW op, IsPop(op), PopSegment(PoppedSegment(op), op)
  PROVE  registers'["ESP"] = (registers["ESP"] + 1) % Dword
<1> DEFINE e == registers["ESP"]
           moved == AfterPop(2)
<1>1. registers \in [Slot -> DwordValue] /\ "ESP" \in Slot
  BY DEF IInv, TypeOK, CPUTypeOK, Slot
<1>2. PopStep(2) = 1 /\ 1 \in Int
  BY SMT DEF PopStep
<1>3. moved \in [Slot -> DwordValue]
  BY <1>1, <1>2, MovedTyped DEF AfterPop
<1>4. moved["ESP"] = (e + 1) % Dword
  BY <1>1, <1>2 DEF AfterPop, Moved
<1>5. SlotOf(PoppedSegment(op)) # "ESP" /\ PoppedSegment(op) \in Slot
  BY SMT DEF PoppedSegment, SlotOf, Slot, Segment
<1> DEFINE regs == setRegister(moved, PoppedSegment(op), readImm16(PopAddress))
<1>6. registers' = NextInstruction(regs, op, 0)
  BY DEF PopSegment
<1> HIDE DEF moved
<1>7. regs["ESP"] = moved["ESP"]
  BY <1>3, <1>5, SetRegisterESP
<1> HIDE DEF regs
<1>8. NextInstruction(regs, op, 0)["ESP"] = regs["ESP"]
  BY DEF NextInstruction
<1> QED
  BY <1>4, <1>6, <1>7, <1>8
=============================================================================
