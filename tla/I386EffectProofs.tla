--------------------------- MODULE I386EffectProofs ---------------------------
(***************************************************************************)
(* Theorems about what one instruction changes: its one destination, the   *)
(* halves of registers it leaves alone, the word a push leaves for the     *)
(* next pop, and where EIP stands afterwards.  All of them are action      *)
(* properties of I386Properties, and rest on one lemma: a computation      *)
(* stores its value in the register or at the address that the properties  *)
(* name, and nowhere else.                                                 *)
(***************************************************************************)
EXTENDS I386Proofs

\* What a computing instruction hands to setRegister or writeImm.
ValueOf(op) == Raw(Alu(op), SizeOf(op), FirstOf(op), SecondOf(op))

RestOfSlots(r) == (Slot \ {"EIP"}) \ {r}

StoresInRegister(op) ==
  LET reg == ResultRegister(op)
  IN  /\ registers'[SlotOf(reg)] = StoredIn(reg, registers[SlotOf(reg)], ValueOf(op))
      /\ \A r \in RestOfSlots(SlotOf(reg)) : registers'[r] = registers[r]
      /\ ram' = ram

StoresInMemory(op) ==
  /\ ram' = writeImm(ValueOf(op), OperandAddress(SizeOf(op), op), SizeOf(op))
  /\ DataWindow(op) = Window(OperandAddress(SizeOf(op), op), SizeOf(op))
  /\ \A r \in Slot \ {"EIP"} : registers'[r] = registers[r]

Stores(op) ==
  /\ ResultInRegister(op) => StoresInRegister(op)
  /\ ~ResultInRegister(op) => StoresInMemory(op)
  /\ flags' = FlagsAfter(Alu(op), SizeOf(op), FirstOf(op), SecondOf(op))
  /\ heap' = heap

\* The register operand is one the ModRM byte or the opcode names, and the
\* operands are values of the size of the operation.
WellFormed(op) ==
  LET n == SizeOf(op)
  IN  /\ n \in Size
      /\ ResultRegister(op) \in Registers
      /\ SlotOf(ResultRegister(op)) \in Slot \ {"EIP"}
      /\ FirstOf(op) \in 0 .. (Modulus(n) - 1)
      /\ SecondOf(op) \in 0 .. (Modulus(n) - 1)
      /\ ~ResultInRegister(op) => /\ HasModRM(op) /\ ModOf(ModRM(op)) # 3
                                  /\ OperandAddress(n, op) \in Nat
                                  /\ Window(OperandAddress(n, op), n) \subseteq Address

-----------------------------------------------------------------------------
(* One computation *)

(* The closing increment of EIP changes no other slot.                     *)
LEMMA NextInstructionSlots ==
  ASSUME NEW regs \in [Slot -> DwordValue], NEW op, NEW c, NEW r \in Slot \ {"EIP"}
  PROVE  NextInstruction(regs, op, c)[r] = regs[r]
  BY DEF NextInstruction

(* A store through a register changes its slot only.                       *)
LEMMA SetRegisterSlots ==
  ASSUME NEW regs \in [Slot -> DwordValue], NEW reg \in Registers, NEW v
  PROVE  /\ setRegister(regs, reg, v)[SlotOf(reg)] = StoredIn(reg, regs[SlotOf(reg)], v)
         /\ \A r \in Slot \ {SlotOf(reg)} : setRegister(regs, reg, v)[r] = regs[r]
  BY SlotOfRegister DEF setRegister

(* The operands and the destination of an instruction that computes.       *)
LEMMA ComputationWellFormed ==
  ASSUME TypeOK, NEW op, op.at \in Nat, Computes(op), InArray(op)
  PROVE  WellFormed(op)
<1> DEFINE n == SizeOf(op)
           m == ModRM(op)
<1>1. n \in Size
  BY DEF SizeOf, OperandSize, Size
<1>2. MemoryTypeOK /\ CPUTypeOK
  BY DEF TypeOK
<1>3. CASE HasModRM(op)
  <2>1. ~HasImmediate(op) /\ m \in ByteValue
    BY <1>3, Kinds, StreamInside
  <2>2. ResultRegister(op) \in {RmRegister(n, m), TopRegister(n, m)}
    BY <1>3, <2>1 DEF ResultRegister
  <2>3. ResultRegister(op) \in Registers /\ SlotOf(ResultRegister(op)) \in Slot \ {"EIP"}
    BY <1>1, <2>1, <2>2, OperandRegisters
  <2>4. FirstOf(op) = FirstOperand(n, op) /\ SecondOf(op) = SecondOperand(n, op)
    BY <2>1 DEF FirstOf, SecondOf
  <2>5. ~ResultInRegister(op) => ModOf(m) # 3
    BY DEF ResultInRegister
  <2> QED
    BY <1>1, <1>3, <2>3, <2>4, <2>5, OperandsTyped DEF WellFormed
<1>4. CASE HasImmediate(op)
  <2>1. ResultInRegister(op) /\ ResultRegister(op) = Numbered(n, 0)
    BY <1>4, Kinds DEF ResultInRegister, ResultRegister
  <2>2. 0 \in 0 .. 7 /\ op.at + 1 \in Nat
    BY SMT
  <2>3. Numbered(n, 0) \in Registers /\ SlotOf(Numbered(n, 0)) \in Slot \ {"EIP"}
    BY <1>1, <2>2, NumberedRegister
  <2>4. FirstOf(op) \in 0 .. (Modulus(n) - 1)
    BY <1>1, <1>2, <1>4, <2>2, NumberedValue DEF FirstOf
  <2>5. SecondOf(op) \in 0 .. (Modulus(n) - 1)
    <3>1. Window(op.at + 1, n) \subseteq Address
      BY <1>4, StreamInside
    <3> QED
      BY <1>1, <1>2, <1>4, <2>2, <3>1, ReadSized DEF SecondOf
  <2> QED
    BY <1>1, <2>1, <2>3, <2>4, <2>5 DEF WellFormed
<1> QED
  BY <1>3, <1>4 DEF Computes

(* What a computation stores is a natural number, not cut to its operand.  *)
LEMMA ValueTyped ==
  ASSUME TypeOK, NEW op, WellFormed(op)
  PROVE  ValueOf(op) \in Nat
<1> DEFINE n == SizeOf(op)
           top == Modulus(n) - 1
<1>1. n \in Size
  BY DEF WellFormed
<1>2. top \in Int
  BY SMT, <1>1, Moduli
<1>3. FirstOf(op) \in 0 .. top /\ SecondOf(op) \in 0 .. top
  BY DEF WellFormed
<1> HIDE DEF top
<1>4. FirstOf(op) \in Nat /\ SecondOf(op) \in Nat
  BY SMT, <1>2, <1>3
<1> QED
  BY <1>1, <1>4, ResultTyped DEF ValueOf, TypeOK

(* A computation stores its value at its destination, and nowhere else.    *)
LEMMA ComputationStores ==
  ASSUME TypeOK, NEW op, op.at \in Nat, Computes(op), InArray(op),
         \/ HasModRM(op) /\ ~NamesR(op) /\ IntoRm(Alu(op), SizeOf(op), op)
         \/ NamesR(op) /\ IntoR(Alu(op), SizeOf(op), op)
         \/ HasImmediate(op) /\ IntoAccumulator(Alu(op), SizeOf(op), op)
  PROVE  Stores(op)
<1> DEFINE n == SizeOf(op)
           m == ModRM(op)
           v == ValueOf(op)
           dest == ResultRegister(op)
<1>1. registers \in [Slot -> DwordValue] /\ CPUTypeOK
  BY DEF TypeOK, CPUTypeOK
<1>2. WellFormed(op)
  BY ComputationWellFormed
<1>3. n \in Size /\ dest \in Registers /\ SlotOf(dest) \in Slot \ {"EIP"}
  BY <1>2 DEF WellFormed
<1>4. v \in Nat
  BY <1>2, ValueTyped
<1> HIDE DEF v, dest
<1>5. ASSUME NEW c, registers' = NextInstruction(setRegister(registers, dest, v), op, c)
      PROVE  /\ registers'[SlotOf(dest)] = StoredIn(dest, registers[SlotOf(dest)], v)
             /\ \A r \in RestOfSlots(SlotOf(dest)) : registers'[r] = registers[r]
  <2> DEFINE regs == setRegister(registers, dest, v)
  <2>1. regs \in [Slot -> DwordValue]
    BY <1>1, <1>3, <1>4, SetRegisterTyped
  <2>2. /\ regs[SlotOf(dest)] = StoredIn(dest, registers[SlotOf(dest)], v)
        /\ \A r \in Slot \ {SlotOf(dest)} : regs[r] = registers[r]
    BY <1>1, <1>3, SetRegisterSlots
  <2> HIDE DEF regs
  <2>3. \A r \in Slot \ {"EIP"} : registers'[r] = regs[r]
    BY <1>5, <2>1, NextInstructionSlots DEF regs
  <2> QED
    BY <1>3, <2>2, <2>3 DEF RestOfSlots
<1>6. CASE HasModRM(op) /\ ~NamesR(op) /\ IntoRm(Alu(op), n, op)
  <2>1. ~HasImmediate(op)
    BY <1>6, Kinds
  <2>2. FirstOf(op) = FirstOperand(n, op) /\ SecondOf(op) = SecondOperand(n, op)
    BY <2>1 DEF FirstOf, SecondOf
  <2>3. v = Raw(Alu(op), n, FirstOperand(n, op), SecondOperand(n, op))
    BY <2>2 DEF v, ValueOf
  <2>4. /\ flags' = FlagsAfter(Alu(op), n, FirstOf(op), SecondOf(op))
        /\ heap' = heap
    BY <1>6, <2>2 DEF IntoRm
  <2>5. CASE ModOf(m) = 3
    <3>1. dest = RmRegister(n, m) /\ ResultInRegister(op)
      BY <1>6, <2>1, <2>5 DEF dest, ResultRegister, ResultInRegister
    <3>2. ram' = ram
      BY <1>6, <2>5 DEF IntoRm
    <3>3. registers' = NextInstruction(setRegister(registers, dest, v), op,
                                       1 + DisplacementStep(a32(op), m))
      BY <1>6, <2>3, <2>5, <3>1 DEF IntoRm, AfterModRM
    <3> QED
      BY <1>5, <2>4, <3>1, <3>2, <3>3 DEF Stores, StoresInRegister, v, dest
  <2>6. CASE ModOf(m) # 3
    <3>1. ~ResultInRegister(op)
      BY <1>6, <2>1, <2>6 DEF ResultInRegister
    <3>2. ram' = writeImm(v, OperandAddress(n, op), n)
      BY <1>6, <2>3, <2>6 DEF IntoRm
    <3>3. DataWindow(op) = Window(OperandAddress(n, op), n)
      BY <1>6, <2>6, Kinds DEF DataWindow
    <3>4. \A r \in Slot \ {"EIP"} : registers'[r] = registers[r]
      BY <1>1, <1>6, <2>6, NextInstructionSlots DEF IntoRm, AfterModRM
    <3> QED
      BY <2>4, <3>1, <3>2, <3>3, <3>4 DEF Stores, StoresInMemory, v
  <2> QED
    BY <2>5, <2>6
<1>7. CASE NamesR(op) /\ IntoR(Alu(op), n, op)
  <2>1. HasModRM(op) /\ ~HasImmediate(op) /\ ResultInRegister(op)
    BY <1>7, Kinds DEF NamesR, ResultInRegister
  <2>2. FirstOf(op) = FirstOperand(n, op) /\ SecondOf(op) = SecondOperand(n, op)
    BY <2>1 DEF FirstOf, SecondOf
  <2>3. v = Raw(Alu(op), n, FirstOperand(n, op), SecondOperand(n, op))
    BY <2>2 DEF v, ValueOf
  <2>4. dest = IF ModOf(m) = 3 THEN RmRegister(n, m) ELSE TopRegister(n, m)
    BY <2>1 DEF dest, ResultRegister
  <2>5. registers' = NextInstruction(setRegister(registers, dest, v), op,
                                     1 + DisplacementStep(a32(op), m))
    BY <1>7, <2>3, <2>4 DEF IntoR, AfterModRM
  <2>6. ram' = ram /\ heap' = heap
        /\ flags' = FlagsAfter(Alu(op), n, FirstOf(op), SecondOf(op))
    BY <1>7, <2>2 DEF IntoR, memoryVars
  <2> QED
    BY <1>5, <2>1, <2>5, <2>6 DEF Stores, StoresInRegister, v, dest
<1>8. CASE HasImmediate(op) /\ IntoAccumulator(Alu(op), n, op)
  <2>1. dest = Numbered(n, 0) /\ ResultInRegister(op)
    BY <1>8, Kinds DEF dest, ResultRegister, ResultInRegister
  <2>2. FirstOf(op) = getRegister(Numbered(n, 0)) /\ SecondOf(op) = readImm(op.at + 1, n)
    BY <1>8 DEF FirstOf, SecondOf
  <2>3. v = Raw(Alu(op), n, getRegister(Numbered(n, 0)), readImm(op.at + 1, n))
    BY <2>2 DEF v, ValueOf
  <2>4. registers' = NextInstruction(setRegister(registers, dest, v), op, n)
    BY <1>8, <2>1, <2>3 DEF IntoAccumulator
  <2>5. ram' = ram /\ heap' = heap
        /\ flags' = FlagsAfter(Alu(op), n, FirstOf(op), SecondOf(op))
    BY <1>8, <2>2 DEF IntoAccumulator, memoryVars
  <2> QED
    BY <1>5, <2>1, <2>4, <2>5 DEF Stores, StoresInRegister, v, dest
<1> QED
  BY <1>6, <1>7, <1>8

(* A step that stays inside the array executes the decoded instruction.    *)
LEMMA StepExecutes ==
  ASSUME IInv, [Next]_vars, vars' # vars, ~strayed', NEW op \in DecodedNow
  PROVE  /\ TypeOK
         /\ op.at \in Nat /\ op.instruction \in ByteValue
         /\ InArray(op) /\ Execute(op)
<1>1. Cycle
  BY DEF Next, CycleStrays
<1> QED
  BY <1>1, CycleExecutes DEF IInv

(* ... which for one that computes means: stores.                          *)
LEMMA StepStores ==
  ASSUME IInv, [Next]_vars, vars' # vars, ~strayed', NEW op \in DecodedNow, Computes(op)
  PROVE  WellFormed(op) /\ Stores(op)
<1>1. /\ TypeOK
      /\ op.at \in Nat /\ op.instruction \in ByteValue
      /\ InArray(op) /\ Execute(op)
  BY StepExecutes
<1> QED
  BY <1>1, Shapes, Kinds, ComputationWellFormed, ComputationStores

-----------------------------------------------------------------------------
(* One destination *)

(* A subset of one element has at most one.                                *)
LEMMA AtMostOne ==
  ASSUME NEW S, NEW x, S \subseteq {x}
  PROVE  Cardinality(S) <= 1
<1>1. IsFiniteSet({x}) /\ Cardinality({x}) = 1
  BY FS_Singleton
<1>2. S \in SUBSET {x}
  OBVIOUS
<1> QED
  BY <1>1, <1>2, FS_Subset

(* Bytes outside a written window are neither new nor changed.             *)
LEMMA BytesKept ==
  ASSUME NEW v, NEW a, NEW n, ram' = writeImm(v, a, n)
  PROVE  \A x \in DOMAIN ram' \ Window(a, n) : x \in DOMAIN ram /\ ram'[x] = ram[x]
  BY DEF writeImm

(* One step of OneDestination.                                             *)
LEMMA DestinationStepHolds == IInv /\ [Next]_vars => [DestinationStep]_vars
<1> DEFINE Outside(op) == \A a \in DOMAIN ram' \ DataWindow(op) : a \in DOMAIN ram /\ ram'[a] = ram[a]
           Alone(op) ==
             /\ Computes(op) => /\ Cardinality(ChangedSlots) <= 1
                                /\ ChangedSlots = {} \/ ram' = ram
             /\ IsPush(op) => ChangedSlots = {"ESP"}
             /\ IsPop(op) => /\ "ESP" \in ChangedSlots
                             /\ ChangedSlots \subseteq {"ESP", PoppedSegment(op)}
                             /\ ram' = ram
             /\ Outside(op)
<1>1. IInv /\ [Next]_vars => [~strayed' => \A op \in DecodedNow : Alone(op)]_vars
  <2> SUFFICES ASSUME IInv, [Next]_vars, vars' # vars, ~strayed', NEW op \in DecodedNow
               PROVE  Alone(op)
    BY DEF vars
  <2>1. /\ TypeOK
        /\ op.at \in Nat /\ op.instruction \in ByteValue
        /\ InArray(op) /\ Execute(op)
    BY StepExecutes
  <2>2. registers \in [Slot -> DwordValue] /\ "ESP" \in Slot \ {"EIP"}
    BY <2>1 DEF TypeOK, CPUTypeOK, Slot
  <2>3. ram' = ram => Outside(op)
    OBVIOUS
  <2>4. CASE Computes(op)
    <3>1. Stores(op)
      BY <2>4, StepStores
    <3>2. CASE ResultInRegister(op)
      <4>1. ChangedSlots \subseteq {SlotOf(ResultRegister(op))} /\ ram' = ram
        BY <3>1, <3>2 DEF Stores, StoresInRegister, RestOfSlots, ChangedSlots
      <4> QED
        BY <2>3, <2>4, <4>1, AtMostOne, Kinds
    <3>3. CASE ~ResultInRegister(op)
      <4>1. ChangedSlots = {}
        BY <3>1, <3>3 DEF Stores, StoresInMemory, ChangedSlots
      <4>2. Cardinality(ChangedSlots) <= 1
        BY <4>1, AtMostOne
      <4>3. Outside(op)
        BY <3>1, <3>3, BytesKept DEF Stores, StoresInMemory
      <4> QED
        BY <2>4, <4>1, <4>2, <4>3, Kinds
    <3> QED
      BY <3>2, <3>3
  <2>5. CASE IsPush(op)
    <3>1. PushSegment(PushedSegment(op), op)
      BY <2>1, <2>5, Shapes, Kinds DEF Computes, NamesR
    <3>2. DataWindow(op) = Window(PushAddress, 2)
      BY <2>5, Kinds DEF DataWindow, Computes
    <3>3. Outside(op)
      BY <3>1, <3>2, BytesKept DEF PushSegment, writeImm16
    <3>4. ChangedSlots \subseteq {"ESP"}
      <4>1. AfterPush(2) \in [Slot -> DwordValue]
        BY SMT, <2>2, MovedTyped DEF AfterPush
      <4>2. \A r \in Slot \ {"ESP"} : AfterPush(2)[r] = registers[r]
        BY <2>2 DEF AfterPush, Moved
      <4>3. \A r \in Slot \ {"EIP"} : registers'[r] = AfterPush(2)[r]
        BY <3>1, <4>1, NextInstructionSlots DEF PushSegment
      <4> QED
        BY <4>2, <4>3 DEF ChangedSlots
    <3>5. registers'["ESP"] # registers["ESP"]
      <4>1. PushAddress \in Nat /\ PopAddress = PushAddress + 2 /\ PopAddress' = PushAddress
        BY <2>1, <2>5, <3>1, PushMoves
      <4>2. PopAddress' # PopAddress
        BY SMT, <4>1
      <4> QED
        BY <4>2 DEF PopAddress
    <3>6. ChangedSlots = {"ESP"}
      BY <2>2, <3>4, <3>5 DEF ChangedSlots
    <3> QED
      BY <2>5, <3>3, <3>6, Kinds
  <2>6. CASE IsPop(op)
    <3>1. PopSegment(PoppedSegment(op), op)
      BY <2>1, <2>6, Shapes, Kinds DEF Computes, NamesR
    <3>2. ram' = ram
      BY <3>1 DEF PopSegment, memoryVars
    <3>3. PoppedSegment(op) \in Segment /\ PoppedSegment(op) \in Registers
          /\ SlotOf(PoppedSegment(op)) = PoppedSegment(op)
      BY SMT DEF PoppedSegment, SlotOf, Slot, Segment, Registers
    <3>4. AfterPop(2) \in [Slot -> DwordValue]
      BY SMT, <2>2, MovedTyped DEF AfterPop, PopStep
    <3>5. \A r \in Slot \ {"ESP"} : AfterPop(2)[r] = registers[r]
      BY <2>2 DEF AfterPop, Moved
    <3>6. readImm16(PopAddress) \in Nat
      <4>1. Window(PopAddress, 2) \subseteq Address
        BY <2>1, <2>6, Kinds DEF InArray, DataWindow, Computes
      <4>2. PopAddress \in Nat
        <5>1. registers["ESP"] + 1 \in Int
          BY SMT, <2>2, Widths DEF DwordValue
        <5> QED
          BY SMT, <5>1, ModRange, Widths DEF PopAddress
      <4>3. PopAddress \in Address /\ PopAddress + 1 \in Address
        BY SMT, <4>1, <4>2 DEF Window
      <4>4. readImm16(PopAddress) \in WordValue
        BY <2>1, <4>3, ReadWord DEF TypeOK
      <4> QED
        BY SMT, <4>4, WordBounds
    <3> DEFINE regs == setRegister(AfterPop(2), PoppedSegment(op), readImm16(PopAddress))
    <3>7. \A r \in Slot \ {PoppedSegment(op)} : regs[r] = AfterPop(2)[r]
      BY <3>3, <3>4, SetRegisterSlots
    <3>8. regs \in [Slot -> DwordValue]
      BY <3>3, <3>4, <3>6, SetRegisterTyped
    <3>9. \A r \in Slot \ {"EIP"} : registers'[r] = regs[r]
      BY <3>1, <3>8, NextInstructionSlots DEF PopSegment
    <3> HIDE DEF regs
    <3>10. ChangedSlots \subseteq {"ESP", PoppedSegment(op)}
      BY <3>5, <3>7, <3>9 DEF ChangedSlots
    <3>11. registers'["ESP"] # registers["ESP"]
      <4> DEFINE e == registers["ESP"]
      <4>1. registers'["ESP"] = (e + 1) % Dword
        BY <2>6, <3>1, PopMoves
      <4>2. e \in DwordValue
        BY <2>2
      <4> HIDE DEF e
      <4>3. (e + 1) % Dword # e
        <5>1. e \in Int /\ 0 <= e /\ e < Dword /\ Dword \in Nat \ {0} /\ Dword > 1
          BY SMT, <4>2, Widths DEF DwordValue
        <5>2. CASE e + 1 < Dword
          BY SMT, <5>1, <5>2, ModSmall
        <5>3. CASE e + 1 = Dword
          BY SMT, <5>1, <5>3
        <5> QED
          BY SMT, <5>1, <5>2, <5>3
      <4> QED
        BY <4>1, <4>3 DEF e
    <3> QED
      BY <2>2, <2>3, <2>6, <3>2, <3>10, <3>11, Kinds DEF ChangedSlots
  <2>7. CASE ~Computes(op) /\ ~IsPush(op) /\ ~IsPop(op)
    <3>1. ram' = ram
      BY <2>1, <2>7, Shapes DEF halt, SkipOpcode, memoryVars, Computes, NamesR
    <3> QED
      BY <2>3, <2>7, <3>1
  <2> QED
    BY <2>4, <2>5, <2>6, <2>7
<1> QED
  BY <1>1 DEF DestinationStep

(* A computation changes one register or its bytes of memory, a push ESP   *)
(* and two bytes, a pop ESP and its segment register; every other byte of  *)
(* the memory stays as it was.                                             *)
THEOREM OneDestinationOnly == Spec => OneDestination
  BY DestinationStepHolds, Invariance, PTL DEF Spec, OneDestination

-----------------------------------------------------------------------------
(* The upper halves *)

(* A store through a view of 8 or 16 bits keeps the upper half of the slot *)
(* whatever the width of the value.                                        *)
LEMMA NarrowStoreKeepsUpper ==
  ASSUME NEW reg \in Low16 \cup Low8 \cup High8, NEW x \in Nat, NEW v \in Nat
  PROVE  StoredIn(reg, x, v) \div Word = x \div Word
<1>1. (((x \div 65536) * 65536) + (v % 65536)) \div 65536 = x \div 65536
  BY SMT
<1>2. (((x \div 256) * 256) + (v % 256)) \div 65536 = x \div 65536
  BY SMT
<1>3. (((x \div 65536) * 65536) + ((v % 256) * 256) + (x % 256)) \div 65536 = x \div 65536
  BY SMT
<1>4. \/ StoredIn(reg, x, v) = ((x \div 65536) * 65536) + (v % 65536)
      \/ StoredIn(reg, x, v) = ((x \div 256) * 256) + (v % 256)
      \/ StoredIn(reg, x, v) = ((x \div 65536) * 65536) + ((v % 256) * 256) + (x % 256)
  BY SMT DEF StoredIn, Low16, Low8, High8, Byte, Word
<1> QED
  BY <1>1, <1>2, <1>3, <1>4 DEF Word

(* Where the register operand is decoded as the encoding says, one of 8 or *)
(* 16 bits is a view narrower than its slot.                               *)
LEMMA NarrowDestination ==
  ASSUME NEW op, Computes(op), ResultInRegister(op), SizeOf(op) < 4,
         SizeOf(op) \in Size, HasModRM(op) => ModRM(op) \in ByteValue,
         ~(NamesR(op) /\ ModOf(ModRM(op)) \in {1, 2})
  PROVE  ResultRegister(op) \in Low16 \cup Low8 \cup High8
<1> DEFINE n == SizeOf(op)
           m == ModRM(op)
<1>1. \A k \in 0 .. 7 : Numbered(n, k) \in Low16 \cup Low8 \cup High8
  BY SMT, NumberedRegister DEF Size
<1>2. CASE HasImmediate(op)
  <2>1. ResultRegister(op) = Numbered(n, 0)
    BY <1>2, Kinds DEF ResultRegister
  <2>2. 0 \in 0 .. 7
    BY SMT
  <2> QED
    BY <1>1, <2>1, <2>2
<1>3. CASE HasModRM(op)
  <2>1. ~HasImmediate(op)
    BY <1>3, Kinds
  <2>2. ModOf(m) \in 0 .. 3 /\ RegOf(m) \in 0 .. 7 /\ RmOf(m) \in 0 .. 7
    BY <1>3, ModRMFields
  <2>3. CASE ModOf(m) = 3
    BY <1>1, <1>3, <2>1, <2>2, <2>3 DEF ResultRegister, RmRegister
  <2>4. CASE ModOf(m) # 3
    <3>1. NamesR(op)
      BY <2>1, <2>4 DEF ResultInRegister
    <3>2. ModOf(m) = 0
      BY SMT, <2>2, <2>4, <3>1
    <3> QED
      BY <1>1, <2>1, <2>2, <2>4, <3>2 DEF ResultRegister, TopRegister
  <2> QED
    BY <2>3, <2>4
<1> QED
  BY <1>2, <1>3 DEF Computes

(* One step of UpperHalvesKept.                                            *)
LEMMA UpperHalvesStepHolds == IInv /\ [Next]_vars => [UpperHalvesStep]_vars
<1> DEFINE Upper(op) ==
      Computes(op) /\ SizeOf(op) < 4
      /\ ~(NamesR(op) /\ ModOf(ModRM(op)) \in {1, 2}) =>
        \A r \in Slot \ {"EIP"} : registers'[r] \div Word = registers[r] \div Word
<1>1. IInv /\ [Next]_vars => [\A op \in DecodedNow : Upper(op)]_vars
  <2> SUFFICES ASSUME IInv, [Next]_vars, vars' # vars, NEW op \in DecodedNow,
                      Computes(op), SizeOf(op) < 4,
                      ~(NamesR(op) /\ ModOf(ModRM(op)) \in {1, 2}),
                      NEW r \in Slot \ {"EIP"}
               PROVE  registers'[r] \div Word = registers[r] \div Word
    BY DEF vars
  <2>1. CASE registers' = registers
    BY <2>1
  <2>2. CASE registers' # registers
    <3>1. ~strayed'
      <4>1. Cycle
        BY <2>2 DEF Next, CycleStrays
      <4> QED
        BY <4>1, CycleCompletes DEF Cycle, Running
    <3>2. WellFormed(op) /\ Stores(op)
      BY <3>1, StepStores
    <3>3. /\ TypeOK /\ op.at \in Nat /\ InArray(op)
      BY <3>1, StepExecutes
    <3>4. CASE ResultInRegister(op)
      <4> DEFINE dest == ResultRegister(op)
                 v == ValueOf(op)
      <4>1. HasModRM(op) => ModRM(op) \in ByteValue
        BY <3>3, StreamInside
      <4>2. dest \in Low16 \cup Low8 \cup High8
        BY <3>2, <3>4, <4>1, NarrowDestination DEF WellFormed
      <4>3. registers[SlotOf(dest)] \in Nat /\ v \in Nat
        <5>1. registers[SlotOf(dest)] \in DwordValue
          BY <3>2, <3>3 DEF WellFormed, TypeOK, CPUTypeOK
        <5>2. v \in Nat
          BY <3>2, <3>3, ValueTyped
        <5> QED
          BY SMT, <5>1, <5>2, Widths DEF DwordValue
      <4>4. \/ registers'[r] = registers[r]
            \/ r = SlotOf(dest) /\ registers'[r] = StoredIn(dest, registers[r], v)
        BY <3>2, <3>4 DEF Stores, StoresInRegister, RestOfSlots
      <4> HIDE DEF dest, v
      <4> QED
        BY <4>2, <4>3, <4>4, NarrowStoreKeepsUpper
    <3>5. CASE ~ResultInRegister(op)
      BY <3>2, <3>5 DEF Stores, StoresInMemory
    <3> QED
      BY <3>4, <3>5
  <2> QED
    BY <2>1, <2>2
<1> QED
  BY <1>1 DEF UpperHalvesStep

(* A computation of 8 or 16 bits leaves the upper half of every register   *)
(* as it was, although the value stored is not cut to the operand.         *)
THEOREM UpperHalvesAreKept == Spec => UpperHalvesKept
  BY UpperHalvesStepHolds, Invariance, PTL DEF Spec, UpperHalvesKept

-----------------------------------------------------------------------------
(* A push and the pop after it *)

(* A value cut to 16 bits is a word.                                       *)
LEMMA CutToWord == \A x \in Int : x % Word \in WordValue
  BY SMT, ModRange, WordWidth DEF WordValue

(* One step of PushedWordIsNextPop.                                        *)
LEMMA NextPopStepHolds == IInv /\ [Next]_vars => [NextPopStep]_vars
<1> DEFINE Left(op) ==
      IsPush(op) => \A w \in {registers[PushedSegment(op)] % Word} : (readImm16(PopAddress) = w)'
<1>1. IInv /\ [Next]_vars => [~strayed' => \A op \in DecodedNow : Left(op)]_vars
  <2> SUFFICES ASSUME IInv, [Next]_vars, vars' # vars, ~strayed', NEW op \in DecodedNow,
                      IsPush(op), NEW w, w = registers[PushedSegment(op)] % Word
               PROVE  (readImm16(PopAddress) = w)'
    BY DEF vars
  <2>1. /\ TypeOK
        /\ op.at \in Nat /\ op.instruction \in ByteValue
        /\ InArray(op) /\ Execute(op)
    BY StepExecutes
  <2>2. PushSegment(PushedSegment(op), op)
    BY <2>1, Shapes, Kinds DEF Computes, NamesR
  <2>3. PushAddress \in Nat /\ PopAddress' = PushAddress
    BY <2>1, <2>2, PushMoves
  <2>4. PICK a \in Nat : a = PushAddress
    BY <2>3
  <2>5. w \in WordValue
    <3> DEFINE x == registers[PushedSegment(op)]
    <3>1. x \in DwordValue
      BY <2>1 DEF TypeOK, CPUTypeOK, PushedSegment, Slot, Segment
    <3> HIDE DEF x
    <3>2. x \in Int
      BY SMT, <3>1, Widths DEF DwordValue
    <3>3. x % Word \in WordValue
      BY <3>2, CutToWord
    <3> QED
      BY <3>3 DEF x
  <2>6. ram' = writeImm(w, a, 2)
    BY <2>2, <2>4 DEF PushSegment, writeImm16
  <2>7. readImm16(a)' = w
    BY <2>5, <2>6, ReadWritten
  <2> QED
    BY <2>3, <2>4, <2>7
<1> QED
  BY <1>1 DEF NextPopStep

(* The word a push leaves is the one the next pop reads.                   *)
THEOREM PushedWordIsPopped == Spec => PushedWordIsNextPop
  BY NextPopStepHolds, Invariance, PTL DEF Spec, PushedWordIsNextPop

-----------------------------------------------------------------------------
(* The length of an instruction *)

\* What a handler and the increment behind it move EIP by.
Taken(op) ==
  CASE HasModRM(op)     -> 2 + DisplacementStep(a32(op), ModRM(op))
    [] HasImmediate(op) -> 1 + SizeOf(op)
    [] OTHER            -> 1

(* EIP is one past the bytes consumed: inside the array nothing wraps.     *)
LEMMA NextInstructionEIP ==
  ASSUME NEW regs, "EIP" \in DOMAIN regs, NEW op, op.at \in Nat,
         NEW c \in Nat, op.at + c \in Address
  PROVE  NextInstruction(regs, op, c)["EIP"] = op.at + (c + 1)
<1> DEFINE e == op.at + c + 1
<1>1. e \in Int /\ 0 <= e /\ e < Dword
  BY SMT, Widths DEF Address
<1>2. NextInstruction(regs, op, c)["EIP"] = e % Dword
  BY DEF NextInstruction
<1> HIDE DEF e
<1>3. e % Dword = e
  BY <1>1, ModSmall, Widths
<1>4. e = op.at + (c + 1)
  BY SMT DEF e
<1> QED
  BY <1>2, <1>3, <1>4

(* Whatever the opcode, EIP moves by the bytes taken.                      *)
LEMMA StepTakes ==
  ASSUME TypeOK, NEW op, op.at \in Nat, op.instruction \in ByteValue, InArray(op), Execute(op)
  PROVE  registers'["EIP"] = op.at + Taken(op)
<1> DEFINE n == SizeOf(op)
           d == DisplacementStep(a32(op), ModRM(op))
<1>1. DOMAIN registers = Slot /\ "EIP" \in Slot /\ "ESP" \in Slot
  BY DEF TypeOK, CPUTypeOK, Slot
<1>2. \A reg, v : "EIP" \in DOMAIN setRegister(registers, reg, v)
  BY <1>1 DEF setRegister
<1>3. n \in Nat
  BY DEF SizeOf, OperandSize
<1>4. ASSUME NEW regs, "EIP" \in DOMAIN regs, HasModRM(op), registers' = AfterModRM(regs, op)
      PROVE  registers'["EIP"] = op.at + Taken(op)
  <2>1. d \in Nat /\ op.at + 1 + d \in Address
    BY <1>4, StreamInside
  <2>2. Taken(op) = 2 + d
    BY <1>4, Kinds DEF Taken
  <2> HIDE DEF d
  <2>3. 1 + d \in Nat /\ op.at + (1 + d) \in Address /\ (1 + d) + 1 = 2 + d
    <3>1. op.at + 1 + d = op.at + (1 + d)
      BY SMT, <2>1
    <3> QED
      BY SMT, <2>1, <3>1
  <2>4. registers' = NextInstruction(regs, op, 1 + d)
    BY <1>4 DEF AfterModRM, d
  <2> QED
    BY <1>4, <2>2, <2>3, <2>4, NextInstructionEIP
<1>5. ASSUME NEW regs, "EIP" \in DOMAIN regs, HasImmediate(op),
             registers' = NextInstruction(regs, op, n)
      PROVE  registers'["EIP"] = op.at + Taken(op)
  <2>1. op.at + n \in Address
    BY <1>5, StreamInside
  <2>2. Taken(op) = 1 + n /\ n + 1 = 1 + n
    BY SMT, <1>3, <1>5, Kinds DEF Taken
  <2> QED
    BY <1>3, <1>5, <2>1, <2>2, NextInstructionEIP
<1>6. ASSUME NEW regs, "EIP" \in DOMAIN regs, ~Computes(op),
             registers' = NextInstruction(regs, op, 0)
      PROVE  registers'["EIP"] = op.at + Taken(op)
  <2>1. op.at + 0 \in Address /\ 0 \in Nat /\ 0 + 1 = 1
    BY SMT, StreamInside
  <2>2. Taken(op) = 1
    BY <1>6 DEF Taken, Computes
  <2> QED
    BY <1>6, <2>1, <2>2, NextInstructionEIP
<1>7. CASE HasModRM(op) /\ ~NamesR(op) /\ IntoRm(Alu(op), n, op)
  BY <1>1, <1>2, <1>4, <1>7 DEF IntoRm
<1>8. CASE NamesR(op) /\ IntoR(Alu(op), n, op)
  BY <1>2, <1>4, <1>8 DEF IntoR, NamesR
<1>9. CASE HasImmediate(op) /\ IntoAccumulator(Alu(op), n, op)
  BY <1>2, <1>5, <1>9 DEF IntoAccumulator
<1>10. CASE IsPush(op) /\ PushSegment(PushedSegment(op), op)
  <2>1. "EIP" \in DOMAIN AfterPush(2)
    BY <1>1 DEF AfterPush, Moved
  <2> QED
    BY <1>6, <1>10, <2>1, Kinds DEF PushSegment
<1>11. CASE IsPop(op) /\ PopSegment(PoppedSegment(op), op)
  <2>1. \A reg, v : "EIP" \in DOMAIN setRegister(AfterPop(2), reg, v)
    BY <1>1 DEF AfterPop, Moved, setRegister
  <2> QED
    BY <1>6, <1>11, <2>1, Kinds DEF PopSegment
<1>12. CASE ~Computes(op) /\ (halt(op) \/ SkipOpcode(op))
  BY <1>1, <1>6, <1>12 DEF halt, SkipOpcode
<1> QED
  BY <1>7, <1>8, <1>9, <1>10, <1>11, <1>12, Shapes

(* The bytes taken are those of the encoding less the ones left unread.    *)
LEMMA TakenOfEncoding ==
  ASSUME NEW op, op.instruction \in ByteValue, HasModRM(op) => ModRM(op) \in ByteValue,
         op.instruction \in Defined \cup {15}
  PROVE  Taken(op) = EncodedLength(op) - Unread(op)
<1> DEFINE m == ModRM(op)
           o == op.instruction
<1>1. SizeOf(op) \in Nat
  BY DEF SizeOf, OperandSize
<1>2. CASE HasModRM(op)
  <2>1. ~HasImmediate(op) /\ o # 15
    BY SMT, <1>2 DEF HasModRM, HasImmediate
  <2>2. ModOf(m) \in 0 .. 3 /\ RmOf(m) \in 0 .. 7
    BY <1>2, ModRMFields
  <2>3. a32(op) \in BOOLEAN
    BY DEF a32
  <2>4. Taken(op) = 2 + DisplacementStep(a32(op), m)
    BY <1>2, <2>1 DEF Taken
  <2> DEFINE base5 == SibBase(op) = 5
             mod == ModOf(m)
             rm == RmOf(m)
             a == a32(op)
             sib == IF a /\ mod # 3 /\ rm = 4 THEN 1 ELSE 0
             none == mod = 0 /\ ((~a /\ rm = 6) \/ (a /\ rm = 5) \/ (sib = 1 /\ base5))
             disp == CASE mod = 1 -> 1
                       [] mod = 2 \/ none -> IF a THEN 4 ELSE 2
                       [] OTHER -> 0
             left == IF ~a /\ mod = 2 /\ rm < 4 THEN 1
                     ELSE IF a /\ mod # 3 /\ rm = 4 THEN (IF mod = 0 /\ base5 THEN 5 ELSE 1)
                     ELSE 0
             bytes == CASE mod = 1 -> 1
                        [] mod = 2 -> IF a THEN 4 ELSE 2
                        [] mod = 0 /\ a /\ rm = 5 -> 4
                        [] mod = 0 /\ ~a /\ rm = 6 -> 2
                        [] OTHER -> 0
             step == IF ~a /\ mod = 2 /\ rm < 4 THEN 1 ELSE bytes
  <2>5. EncodedLength(op) = 2 + sib + disp
    <3>1. HasSib(op) <=> sib = 1
      BY DEF HasSib
    <3>2. NoBase(op) <=> none
      BY <3>1 DEF NoBase
    <3>3. EncodedBytes(op) = disp
      BY <3>2 DEF EncodedBytes
    <3>4. (IF HasSib(op) THEN 1 ELSE 0) = sib
      BY <3>1
    <3>5. EncodedLength(op) = 2 + (IF HasSib(op) THEN 1 ELSE 0) + EncodedBytes(op)
      BY <1>2, <2>1 DEF EncodedLength
    <3> HIDE DEF sib, disp
    <3> QED
      BY <3>3, <3>4, <3>5
  <2>6. Unread(op) = left
    BY <1>2, <2>1 DEF Unread
  <2>7. DisplacementStep(a32(op), m) = step
    BY DEF DisplacementStep, DisplacementBytes
  <2> HIDE DEF base5, mod, rm, a
  <2>8. mod \in 0 .. 3 /\ rm \in 0 .. 7 /\ a \in BOOLEAN /\ base5 \in BOOLEAN
    BY <2>2, <2>3 DEF mod, rm, a, base5
  <2>9. 2 + step = (2 + sib + disp) - left
    BY SMT, <2>8
  <2> QED
    BY <2>4, <2>5, <2>6, <2>7, <2>9
<1>3. CASE HasImmediate(op)
  <2>1. ~HasModRM(op) /\ o # 15
    BY SMT, <1>3 DEF HasModRM, HasImmediate
  <2>2. EncodedLength(op) = 1 + SizeOf(op) /\ Unread(op) = 0 /\ Taken(op) = 1 + SizeOf(op)
    BY <1>3, <2>1 DEF EncodedLength, Unread, Taken
  <2> QED
    BY SMT, <1>1, <2>2
<1>4. CASE ~HasModRM(op) /\ ~HasImmediate(op)
  <2>1. Taken(op) = 1
    BY <1>4 DEF Taken
  <2>2. CASE o = 15
    <3>1. EncodedLength(op) = 2 /\ Unread(op) = 1
      BY <1>4, <2>2 DEF EncodedLength, Unread
    <3> QED
      BY SMT, <2>1, <3>1
  <2>3. CASE o # 15
    <3>1. EncodedLength(op) = 1 /\ Unread(op) = 0
      BY <1>4, <2>3 DEF EncodedLength, Unread
    <3> QED
      BY SMT, <2>1, <3>1
  <2> QED
    BY <2>2, <2>3
<1> QED
  BY <1>2, <1>3, <1>4

(* One step of LengthOfOtherEncodings.                                     *)
LEMMA LengthStepHolds == IInv /\ [Next]_vars => [LengthStep]_vars
<1> DEFINE Behind(op) ==
      op.instruction \in Defined \cup {15} =>
        registers'["EIP"] = op.at + EncodedLength(op) - Unread(op)
<1>1. IInv /\ [Next]_vars => [~strayed' => \A op \in DecodedNow : Behind(op)]_vars
  <2> SUFFICES ASSUME IInv, [Next]_vars, vars' # vars, ~strayed', NEW op \in DecodedNow,
                      op.instruction \in Defined \cup {15}
               PROVE  registers'["EIP"] = op.at + EncodedLength(op) - Unread(op)
    BY DEF vars
  <2>1. /\ TypeOK
        /\ op.at \in Nat /\ op.instruction \in ByteValue
        /\ InArray(op) /\ Execute(op)
    BY StepExecutes
  <2>2. registers'["EIP"] = op.at + Taken(op)
    BY <2>1, StepTakes
  <2>3. HasModRM(op) => ModRM(op) \in ByteValue
    BY <2>1, StreamInside
  <2>4. Taken(op) = EncodedLength(op) - Unread(op)
    BY <2>1, <2>3, TakenOfEncoding
  <2> QED
    BY <2>2, <2>4
<1> QED
  BY <1>1 DEF LengthStep

(* The next opcode is the byte behind the encoding, for any prefixes,      *)
(* sizes and operands, except in the three forms that leave bytes unread.  *)
THEOREM OtherEncodingsKeepLength == Spec => LengthOfOtherEncodings
  BY LengthStepHolds, Invariance, PTL DEF Spec, LengthOfOtherEncodings

-----------------------------------------------------------------------------
(* The address of an operand *)

(* A register of 16 bits shows at most 65535.                              *)
LEMMA WordRegisters ==
  ASSUME CPUTypeOK, NEW reg \in {"BX", "SI", "DI", "BP"}
  PROVE  getRegister(reg) \in Nat /\ getRegister(reg) < 65536
<1>1. \E k \in 0 .. 7 : reg = Numbered(2, k)
  <2>1. /\ Numbered(2, 3) = "BX" /\ Numbered(2, 5) = "BP"
        /\ Numbered(2, 6) = "SI" /\ Numbered(2, 7) = "DI"
    BY SMT DEF Numbered, General16
  <2>2. 3 \in 0 .. 7 /\ 5 \in 0 .. 7 /\ 6 \in 0 .. 7 /\ 7 \in 0 .. 7
    BY SMT
  <2> QED
    BY <2>1, <2>2
<1>2. 2 \in Size
  BY DEF Size
<1>3. getRegister(reg) \in 0 .. (Modulus(2) - 1)
  BY <1>1, <1>2, NumberedValue
<1> DEFINE x == getRegister(reg)
           top == Modulus(2)
<1>4. x \in 0 .. (top - 1)
  BY <1>3
<1>5. top \in Nat /\ top < 65537
  BY SMT, Moduli
<1> HIDE DEF x, top
<1>6. x \in Nat /\ x < 65536
  BY SMT, <1>4, <1>5
<1> QED
  BY <1>6 DEF x

(* So the sum of two of them has at most 17 bits.                          *)
LEMMA BaseBounded ==
  ASSUME CPUTypeOK, NEW m \in ByteValue
  PROVE  Base16(m) \in Nat /\ Base16(m) < 131071
<1> DEFINE bx == getRegister("BX")  si == getRegister("SI")
           di == getRegister("DI")  bp == getRegister("BP")
<1>1. /\ bx \in Nat /\ bx < 65536 /\ si \in Nat /\ si < 65536
      /\ di \in Nat /\ di < 65536 /\ bp \in Nat /\ bp < 65536
  BY WordRegisters
<1>2. RmOf(m) \in 0 .. 7
  BY ModRMFields
<1>3. Base16(m) \in {bx + si, bx + di, bp + si, bp + di, si, di, 0, bp, bx}
  BY SMT, <1>2 DEF Base16
<1> HIDE DEF bx, si, di, bp
<1> QED
  BY SMT, <1>1, <1>3

(* A displacement that goes with 16 bit addresses has at most 16 bits, one *)
(* of a single byte at most eight.                                         *)
LEMMA FieldBounded ==
  ASSUME MemoryTypeOK, NEW m \in ByteValue, NEW a \in BOOLEAN, NEW at \in Nat,
         Window(at, DisplacementBytes(a, m)) \subseteq Address
  PROVE  LET d == DisplacementBytes(a, m)
             field == readImm(at, d)
         IN  /\ d \in {0, 1, 2, 4}
             /\ field \in Nat
             /\ ~a => field < 65536
             /\ d = 1 => field < 256
<1> DEFINE d == DisplacementBytes(a, m)
           field == readImm(at, d)
<1>1. d \in {0, 1, 2, 4}
  BY DisplacementTyped
<1>2. ~a => d # 4
  <2>1. ModOf(m) \in 0 .. 3 /\ RmOf(m) \in 0 .. 7
    BY ModRMFields
  <2> QED
    BY SMT, <2>1 DEF DisplacementBytes
<1> HIDE DEF d
<1>3. field \in Nat
  BY <1>1, ReadField DEF d
<1>4. d = 0 => field = 0
  BY SMT DEF readImm
<1>5. d = 1 => field < 256
  <2> SUFFICES ASSUME d = 1 PROVE field < 256
    OBVIOUS
  <2>1. Window(at, 1) \subseteq Address /\ field = readImm(at, 1) /\ 1 \in Size
    BY SMT DEF d, Size
  <2>2. readImm(at, 1) \in 0 .. (Modulus(1) - 1)
    BY <2>1, ReadSized
  <2>3. readImm(at, 1) < 256
    BY SMT, <2>2, Moduli
  <2> QED
    BY <2>1, <2>3
<1>6. d = 2 => field < 65536
  <2> SUFFICES ASSUME d = 2 PROVE field < 65536
    OBVIOUS
  <2>1. Window(at, 2) \subseteq Address /\ field = readImm(at, 2) /\ 2 \in Size
    BY SMT DEF d, Size
  <2> DEFINE top == Modulus(2)
  <2>2. field \in 0 .. (top - 1)
    BY <2>1, ReadSized
  <2>3. top \in Nat /\ top < 65537
    BY SMT, Moduli
  <2> HIDE DEF field, top
  <2>4. field < 65536
    BY SMT, <2>2, <2>3
  <2> QED
    BY <2>4
<1> HIDE DEF field
<1>7. ~a => field < 65536
  BY SMT, <1>1, <1>2, <1>3, <1>4, <1>5, <1>6
<1> QED
  BY <1>1, <1>3, <1>5, <1>7 DEF d, field

(* An operand of 8 or 16 bits, or one that 16 bit registers address, lies  *)
(* below three times 64 KiB.                                               *)
LEMMA OperandBounded ==
  ASSUME TypeOK, NEW op, op.at \in Nat, HasModRM(op), LastByteRead(op) \in Address,
         ~(a32(op) /\ SizeOf(op) = 4)
  PROVE  /\ OperandAddress(SizeOf(op), op) \in Nat
         /\ OperandAddress(SizeOf(op), op) + SizeOf(op) < 196610
<1> DEFINE n == SizeOf(op)
           m == ModRM(op)
           d == DisplacementBytes(a32(op), m)
           field == readImm(op.at + 2, d)
           wide == IF a32(op) THEN (Base32(m) + field) % Dword ELSE Base16(m) + field
<1>1. MemoryTypeOK /\ CPUTypeOK /\ n \in Size /\ a32(op) \in BOOLEAN
  BY DEF TypeOK, SizeOf, OperandSize, Size, a32
<1>2. m \in ByteValue /\ Window(op.at + 2, d) \subseteq Address
  BY StreamRead
<1>3. op.at + 2 \in Nat /\ op.at + 1 + 1 = op.at + 2
  BY SMT
<1>4. field \in Nat /\ (~a32(op) => field < 65536)
  BY <1>1, <1>2, <1>3, FieldBounded
<1>5. Base16(m) \in Nat /\ Base16(m) < 131071 /\ Base32(m) \in Nat
  BY <1>1, <1>2, BaseBounded, BaseTyped
<1>6. OperandAddress(n, op) = IF n = 4 THEN wide ELSE wide % Word
  <2>1. a32(op) => ModRMValue32bit(m, op.at + 1) = (Base32(m) + field) % Dword
    BY <1>3 DEF ModRMValue32bit
  <2>2. ~a32(op) => ModRMValue16bit(m, op.at + 1) = Base16(m) + field
    BY <1>1, <1>3 DEF ModRMValue16bit
  <2> QED
    BY <2>1, <2>2 DEF OperandAddress
<1> HIDE DEF field
<1>7. wide \in Nat
  <2> DEFINE sum == Base32(m) + field
  <2>1. sum \in Int
    BY SMT, <1>4, <1>5
  <2> HIDE DEF sum
  <2>2. sum % Dword \in Nat
    BY SMT, <2>1, ModRange, Widths
  <2>3. Base16(m) + field \in Nat
    BY SMT, <1>4, <1>5
  <2> QED
    BY <2>2, <2>3 DEF sum
<1>8. ~a32(op) => wide < 196606
  BY SMT, <1>4, <1>5
<1> HIDE DEF wide
<1>9. wide % Word \in Nat /\ wide % Word < 65536
  BY SMT, <1>7 DEF Word
<1>10. CASE n = 4
  BY SMT, <1>6, <1>7, <1>8, <1>10
<1>11. CASE n # 4
  <2>1. n <= 2
    BY SMT, <1>1, <1>11 DEF Size
  <2>2. OperandAddress(n, op) = wide % Word
    BY <1>6, <1>11
  <2> HIDE DEF n
  <2> QED
    BY SMT, <1>1, <1>9, <2>1, <2>2 DEF Size, n
<1> QED
  BY <1>10, <1>11

(* A cycle strays at the instruction it has decoded, and at no other: the  *)
(* fetch fails before an opcode is found, or the handler leaves the array. *)
LEMMA StraysAtDecoded ==
  ASSUME IInv, CycleStrays, NEW op \in DecodedNow
  PROVE  op.at \in Nat /\ ~InArray(op)
<1>1. PICK n \in 0 .. MaxPrefixes :
        PrefixRun(n) /\ (Opcode(n).at \notin Address \/ (Fetched(n) /\ ~InArray(Opcode(n))))
  BY DEF CycleStrays
<1>2. PICK m \in 0 .. MaxPrefixes : Fetched(m) /\ op = Opcode(m)
  BY DEF DecodedNow
<1>3. m \in Int /\ n \in Int /\ 0 <= m /\ 0 <= n
  BY SMT, PrefixAssumption
<1>4. registers["EIP"] \in Nat
  BY SMT, Widths DEF IInv, TypeOK, CPUTypeOK, Slot, DwordValue
<1>5. op.at = registers["EIP"] + m /\ op.at \in Nat
  BY SMT, <1>2, <1>3, <1>4 DEF Opcode
<1>6. CASE Fetched(n) /\ ~InArray(Opcode(n))
  BY <1>1, <1>2, <1>5, <1>6, FetchIsUnique
<1>7. CASE Opcode(n).at \notin Address
  <2>1. ~(m < n)
    <3> SUFFICES ASSUME m < n PROVE FALSE
      OBVIOUS
    <3>1. m \in 0 .. n - 1
      BY SMT, <1>3
    <3>2. readImm8(registers["EIP"] + m) \in InstructionPrefix
      BY <1>1, <3>1 DEF PrefixRun
    <3>3. readImm8(registers["EIP"] + m) \notin InstructionPrefix
      BY <1>2 DEF Fetched, Opcode
    <3> QED
      BY <3>2, <3>3
  <2>2. ~(n < m)
    <3> SUFFICES ASSUME n < m PROVE FALSE
      OBVIOUS
    <3>1. n \in 0 .. m - 1
      BY SMT, <1>3
    <3>2. registers["EIP"] + n \in Address
      BY <1>2, <3>1 DEF Fetched, PrefixRun
    <3> QED
      BY <1>7, <3>2 DEF Opcode
  <2>3. op.at \notin Address
    <3>1. m = n
      BY SMT, <1>3, <2>1, <2>2
    <3> QED
      BY <1>2, <1>7, <3>1
  <2>4. LastByteRead(op) \notin Address
    <3>1. DisplacementBytes(a32(op), ModRM(op)) \in Nat
      BY SMT DEF DisplacementBytes
    <3>2. SizeOf(op) \in Nat
      BY DEF SizeOf, OperandSize
    <3>3. op.at >= MemorySize
      BY SMT, <1>5, <2>3, Widths DEF Address
    <3>4. LastByteRead(op) \in Int /\ LastByteRead(op) >= op.at
      <4>1. CASE HasModRM(op)
        BY SMT, <1>5, <3>1, <4>1, Kinds DEF LastByteRead
      <4>2. CASE HasImmediate(op)
        BY SMT, <1>5, <3>2, <4>2, Kinds DEF LastByteRead
      <4>3. CASE ~HasModRM(op) /\ ~HasImmediate(op)
        BY SMT, <1>5, <4>3 DEF LastByteRead
      <4> QED
        BY <4>1, <4>2, <4>3
    <3> QED
      BY SMT, <1>5, <3>3, <3>4, Widths DEF Address
  <2> QED
    BY <1>5, <2>4 DEF InArray
<1> QED
  BY <1>1, <1>6, <1>7

\* Room for the sum of two index registers and a displacement, and for the
\* three more bytes of an operand there.  MEM_SIZE is more than five times that.
RoomForSums == MemorySize >= 196609

(* One step of SixteenBitAddressingStaysInside.                            *)
LEMMA InsideStepHolds ==
  ASSUME RoomForSums
  PROVE  IInv /\ [Next]_vars => [InsideStep]_vars
<1> DEFINE Allowed(op) ==
      \/ a32(op) /\ SizeOf(op) = 4
      \/ IsPush(op) \/ IsPop(op)
      \/ LastByteRead(op) \notin Address
<1>1. IInv /\ [Next]_vars => [strayed' => \A op \in DecodedNow : Allowed(op)]_vars
  <2> SUFFICES ASSUME IInv, [Next]_vars, vars' # vars, strayed', NEW op \in DecodedNow,
                      ~(a32(op) /\ SizeOf(op) = 4), ~IsPush(op), ~IsPop(op),
                      LastByteRead(op) \in Address
               PROVE  FALSE
    BY DEF vars
  <2>1. CycleStrays
    <3>1. ASSUME Cycle PROVE FALSE
      <4>1. UNCHANGED strayed
        BY <3>1, CycleCompletes
      <4>2. ~strayed
        BY <3>1 DEF Cycle, Running
      <4> QED
        BY <4>1, <4>2
    <3> QED
      BY <3>1 DEF Next
  <2>2. op.at \in Nat /\ ~InArray(op)
    BY <2>1, StraysAtDecoded
  <2>3. ~(DataWindow(op) \subseteq Address)
    BY <2>2 DEF InArray
  <2>4. HasModRM(op) /\ DataWindow(op) = Window(OperandAddress(SizeOf(op), op), SizeOf(op))
    BY <2>3 DEF DataWindow
  <2> DEFINE a == OperandAddress(SizeOf(op), op)
             n == SizeOf(op)
  <2>5. a \in Nat /\ a + n < 196610 /\ n \in Nat
    BY <2>2, <2>4, OperandBounded DEF IInv, SizeOf, OperandSize
  <2> HIDE DEF a, n
  <2>6. Window(a, n) \subseteq Address
    BY SMT, <2>5, Widths DEF Window, Address, RoomForSums
  <2> QED
    BY <2>3, <2>4, <2>6 DEF a, n
<1> QED
  BY <1>1 DEF InsideStep

(* Where the array has that room, only the stack, a fetch past the end, or *)
(* a 32 bit operand behind an address-size prefix leaves it.               *)
THEOREM SixteenBitStaysInside ==
  ASSUME RoomForSums
  PROVE  Spec => SixteenBitAddressingStaysInside
  BY InsideStepHolds, Invariance, PTL DEF Spec, SixteenBitAddressingStaysInside

(* Cutting a value to 32 bits and then to 16 is cutting it to 16.          *)
LEMMA CutTwice == \A x \in Nat : (x % Dword) % Word = x % Word
<1> SUFFICES ASSUME NEW x \in Nat PROVE (x % Dword) % Word = x % Word
  OBVIOUS
<1> DEFINE q == x \div Dword
           r == x % Dword
           k == 256 * TopByte * q
<1>1. q \in Nat /\ r \in Nat
  BY SMT, Widths
<1>2. x = (Dword * q) + r
  BY SMT, Widths
<1>3. k \in Nat
  BY SMT, <1>1, Widths
<1>4. Dword * q = 65536 * k
  <2>1. TopByte * q \in Nat
    BY SMT, <1>1, Widths
  <2>2. PICK t \in Nat : t = TopByte * q
    BY <2>1
  <2>3. Dword * q = 16777216 * t
    BY SMT, <1>1, <2>2, Widths DEF Dword
  <2>4. k = 256 * t
    BY SMT, <1>1, <2>2, Widths
  <2> HIDE DEF k
  <2> QED
    BY SMT, <2>2, <2>3, <2>4
<1> HIDE DEF k, q, r
<1>5. x = (65536 * k) + r
  BY <1>2, <1>4
<1>6. ((65536 * k) + r) % 65536 = r % 65536
  BY SMT, <1>1, <1>3
<1> QED
  BY <1>5, <1>6 DEF r, Word

(* ... and likewise for any size of an operand.                            *)
LEMMA CutToSize ==
  ASSUME NEW x \in Nat, NEW n \in Size
  PROVE  (x % Dword) % Modulus(n) = x % Modulus(n)
<1> DEFINE r == x % Dword
<1>1. r \in Nat /\ r \in 0 .. (Dword - 1)
  BY SMT, ModRange, Widths
<1>2. r % 65536 = x % 65536
  BY CutTwice DEF Word
<1> HIDE DEF r
<1>3. CASE n = 1
  <2>1. r % 256 = (r % 65536) % 256 /\ x % 256 = (x % 65536) % 256
    BY SMT, <1>1
  <2> QED
    BY <1>2, <1>3, <2>1, Moduli DEF r
<1>4. CASE n = 2
  BY <1>2, <1>4, Moduli DEF r
<1>5. CASE n = 4
  <2>1. r % Dword = r
    BY SMT, <1>1, ModSmall, Widths
  <2> QED
    BY <1>5, <2>1, Moduli DEF r
<1> QED
  BY <1>3, <1>4, <1>5 DEF Size

(* Without a SIB byte the decoder reads a displacement of as many bytes as *)
(* the table gives the form ...                                            *)
LEMMA DisplacementOfEncoding ==
  ASSUME NEW op, ModRM(op) \in ByteValue, HasMemoryForm(op), ~HasSib(op)
  PROVE  EncodedBytes(op) = DisplacementBytes(a32(op), ModRM(op))
<1> DEFINE mod == ModOf(ModRM(op))
           rm  == RmOf(ModRM(op))
           a   == a32(op)
<1>1. mod \in 0 .. 2 /\ rm \in 0 .. 7 /\ a \in BOOLEAN
  <2>1. mod \in 0 .. 3 /\ mod # 3 /\ rm \in 0 .. 7
    BY ModRMFields DEF HasMemoryForm
  <2> QED
    BY SMT, <2>1 DEF a32
<1>2. NoBase(op) <=> mod = 0 /\ ((~a /\ rm = 6) \/ (a /\ rm = 5))
  BY DEF NoBase
<1>3. EncodedBytes(op) = CASE mod = 1 -> 1
                           [] mod = 2 \/ NoBase(op) -> IF a THEN 4 ELSE 2
                           [] OTHER -> 0
  BY DEF EncodedBytes
<1>4. DisplacementBytes(a, ModRM(op)) = CASE mod = 1 -> 1
                                          [] mod = 2 -> IF a THEN 4 ELSE 2
                                          [] mod = 0 /\ a /\ rm = 5 -> 4
                                          [] mod = 0 /\ ~a /\ rm = 6 -> 2
                                          [] OTHER -> 0
  BY DEF DisplacementBytes
<1> HIDE DEF mod, rm, a
<1>5. EncodedBytes(op) = DisplacementBytes(a, ModRM(op))
  BY SMT, <1>1, <1>2, <1>3, <1>4
<1> QED
  BY <1>5 DEF a

(* ... and adds the registers of its row: those of 16 bit addresses ...    *)
LEMMA BaseOfRow16 ==
  ASSUME CPUTypeOK, NEW op, ModRM(op) \in ByteValue, HasMemoryForm(op), ~a32(op)
  PROVE  EncodedBase(op) = Base16(ModRM(op))
<1> DEFINE rm  == RmOf(ModRM(op))
           mod == ModOf(ModRM(op))
           bx == registers["EBX"] % Word  bp == registers["EBP"] % Word
           si == registers["ESI"] % Word  di == registers["EDI"] % Word
<1>1. mod \in 0 .. 2 /\ rm \in 0 .. 7
  <2>1. mod \in 0 .. 3 /\ mod # 3 /\ rm \in 0 .. 7
    BY ModRMFields DEF HasMemoryForm
  <2> QED
    BY SMT, <2>1
<1>2. /\ getRegister("BX") = bx /\ getRegister("BP") = bp
      /\ getRegister("SI") = si /\ getRegister("DI") = di
  <2>1. /\ SlotOf("BX") = "EBX" /\ SlotOf("BP") = "EBP"
        /\ SlotOf("SI") = "ESI" /\ SlotOf("DI") = "EDI"
    BY SMT DEF SlotOf
  <2>2. \A x : /\ ViewOf("BX", x) = x % Word /\ ViewOf("BP", x) = x % Word
              /\ ViewOf("SI", x) = x % Word /\ ViewOf("DI", x) = x % Word
    BY DEF ViewOf, Low16, Low8, High8
  <2> QED
    BY <2>1, <2>2 DEF getRegister
<1>3. Base16(ModRM(op)) =
        CASE rm = 0 -> bx + si
          [] rm = 1 -> bx + di
          [] rm = 2 -> bp + si
          [] rm = 3 -> bp + di
          [] rm = 4 -> si
          [] rm = 5 -> di
          [] rm = 6 -> IF mod = 0 THEN 0 ELSE bp
          [] OTHER -> bx
  BY <1>2 DEF Base16
<1>4. NoBase(op) <=> mod = 0 /\ rm = 6
  BY DEF NoBase, HasSib
<1>5. /\ bx \in Nat /\ bp \in Nat /\ si \in Nat /\ di \in Nat
  BY SMT, Widths DEF CPUTypeOK, Slot, DwordValue, Word
<1>6. ContentsOf("none") = 0 /\ 0 % Word = 0
  BY SMT DEF ContentsOf, Word
<1>7. /\ ContentsOf("EBX") % Word = bx /\ ContentsOf("EBP") % Word = bp
      /\ ContentsOf("ESI") % Word = si /\ ContentsOf("EDI") % Word = di
  BY SMT DEF ContentsOf
<1>8. ~NoBase(op) => EncodedBase(op) = (ContentsOf(TableBase16[rm + 1]) % Word)
                                         + (ContentsOf(TableIndex16[rm + 1]) % Word)
  BY DEF EncodedBase
<1>9. NoBase(op) => EncodedBase(op) = 0
  BY DEF EncodedBase
<1> DEFINE base(k)  == ContentsOf(TableBase16[k]) % Word
           index(k) == ContentsOf(TableIndex16[k]) % Word
<1>10. /\ base(1) = bx /\ base(2) = bx /\ base(3) = bp /\ base(4) = bp
       /\ base(5) = 0 /\ base(6) = 0 /\ base(7) = bp /\ base(8) = bx
  <2> HIDE DEF bx, bp, si, di
  <2> QED
    BY <1>6, <1>7 DEF TableBase16
<1>11. /\ index(1) = si /\ index(2) = di /\ index(3) = si /\ index(4) = di
       /\ index(5) = si /\ index(6) = di /\ index(7) = 0 /\ index(8) = 0
  <2> HIDE DEF bx, bp, si, di
  <2> QED
    BY <1>6, <1>7 DEF TableIndex16
<1>12. ~NoBase(op) => EncodedBase(op) = base(rm + 1) + index(rm + 1)
  BY <1>8
<1> HIDE DEF rm, mod, bx, bp, si, di, base, index
<1>13. CASE NoBase(op)
  BY SMT, <1>3, <1>4, <1>9, <1>13
<1>14. CASE ~NoBase(op)
  <2>1. rm \in {0, 1, 2, 3, 4, 5, 6, 7}
    BY SMT, <1>1
  <2> QED
    BY SMT, <1>3, <1>4, <1>5, <1>10, <1>11, <1>12, <1>14, <2>1
<1> QED
  BY <1>13, <1>14

(* ... and those of 32 bits.                                               *)
LEMMA BaseOfRow32 ==
  ASSUME NEW op, ModRM(op) \in ByteValue, HasMemoryForm(op), a32(op), ~HasSib(op)
  PROVE  EncodedBase(op) = Base32(ModRM(op))
<1> DEFINE rm  == RmOf(ModRM(op))
           mod == ModOf(ModRM(op))
<1>1. rm \in 0 .. 7 /\ rm # 4
  BY ModRMFields DEF HasMemoryForm, HasSib
<1>2. NoBase(op) <=> mod = 0 /\ rm = 5
  BY DEF NoBase
<1>3. CASE NoBase(op)
  <2>1. EncodedBase(op) = 0
    BY <1>3 DEF EncodedBase
  <2>2. Base32(ModRM(op)) = 0
    BY SMT, <1>2, <1>3 DEF Base32
  <2> QED
    BY <2>1, <2>2
<1>4. CASE ~NoBase(op)
  <2>1. EncodedBase(op) = ContentsOf(TableBase32[rm + 1])
    BY <1>4 DEF EncodedBase
  <2>2. Base32(ModRM(op)) = registers[General[rm + 1]]
    BY <1>1, <1>2, <1>4 DEF Base32
  <2>3. TableBase32[rm + 1] = General[rm + 1] /\ TableBase32[rm + 1] # "none"
    <3> HIDE DEF rm
    <3> QED
      BY SMT, <1>1 DEF TableBase32, General
  <2> QED
    BY <2>1, <2>2, <2>3 DEF ContentsOf
<1> QED
  BY <1>3, <1>4

(* So the address of an operand is the sum of the table, 256 more where    *)
(* the sign of a byte was lost, cut to the width of the variable that the  *)
(* handler keeps it in.                                                    *)
LEMMA AddressOfEncoding ==
  ASSUME TypeOK, NEW op, op.at \in Nat, HasMemoryForm(op), LastByteRead(op) \in Address,
         ~HasSib(op)
  PROVE  OperandAddress(SizeOf(op), op) = (EncodedAddress(op) + Missed(op)) % AddressWidth(op)
<1> DEFINE n == SizeOf(op)
           m == ModRM(op)
           d == DisplacementBytes(a32(op), m)
           field == readImm(op.at + 2, d)
           base == IF a32(op) THEN Base32(m) ELSE Base16(m)
           sum == base + field
<1>1. MemoryTypeOK /\ CPUTypeOK /\ a32(op) \in BOOLEAN /\ HasModRM(op)
  BY SMT DEF TypeOK, a32, HasMemoryForm
<1>2. m \in ByteValue /\ Window(op.at + 2, d) \subseteq Address
  BY <1>1, StreamRead
<1>3. op.at + 2 \in Nat /\ op.at + 1 + 1 = op.at + 2
  BY SMT
<1>4. field \in Nat /\ (d = 1 => field < 256) /\ (~a32(op) => field < 65536)
  BY <1>1, <1>2, <1>3, FieldBounded
<1>5. base \in Nat /\ (~a32(op) => base < 131071)
  BY <1>1, <1>2, BaseTyped, BaseBounded
<1>6. EncodedBase(op) = base
  BY <1>1, <1>2, BaseOfRow16, BaseOfRow32
<1>7. Displacement(op) = IF d = 1 /\ field >= 128 THEN field - 256 ELSE field
  <2>1. EncodedBytes(op) = d
    BY <1>2, DisplacementOfEncoding
  <2> QED
    BY <2>1 DEF Displacement
<1>8. EncodedAddress(op) + Missed(op) = sum
  <2> DEFINE delta == Displacement(op)
  <2>1. delta = IF d = 1 /\ field >= 128 THEN field - 256 ELSE field
    BY <1>7
  <2>2. EncodedAddress(op) + Missed(op) = base + delta + (IF delta < 0 THEN 256 ELSE 0)
    BY <1>6 DEF EncodedAddress, Missed
  <2> HIDE DEF base, field, d, delta
  <2>3. base + delta + (IF delta < 0 THEN 256 ELSE 0) = base + field
    BY SMT, <1>4, <1>5, <2>1
  <2> QED
    BY <2>2, <2>3
<1>9. OperandAddress(n, op) = LET ea == IF a32(op) THEN sum % Dword ELSE sum
                              IN  IF n = 4 THEN ea ELSE ea % Word
  <2>1. a32(op) => ModRMValue32bit(m, op.at + 1) = sum % Dword
    BY <1>3 DEF ModRMValue32bit
  <2>2. ~a32(op) => ModRMValue16bit(m, op.at + 1) = sum
    BY <1>1, <1>3 DEF ModRMValue16bit
  <2> QED
    BY <1>1, <2>1, <2>2 DEF OperandAddress
<1> HIDE DEF field, base, d
<1>10. sum \in Nat /\ (~a32(op) => sum < 196607)
  BY SMT, <1>4, <1>5
<1> HIDE DEF sum
<1>11. ~a32(op) => sum % Dword = sum
  BY SMT, <1>10, ModSmall, Widths
<1>12. (sum % Dword) % Word = sum % Word
  BY <1>10, CutTwice
<1> QED
  BY <1>1, <1>8, <1>9, <1>11, <1>12 DEF AddressWidth

(* One step of StoredWhereEncoded.                                         *)
LEMMA StoreStepHolds == IInv /\ [Next]_vars => [StoreStep]_vars
<1> DEFINE There(op) ==
      HasMemoryForm(op) /\ ~HasSib(op) =>
        \A ea \in {(EncodedAddress(op) + Missed(op)) % AddressWidth(op)} :
          ChangedBytes \subseteq Window(ea, SizeOf(op))
<1>1. IInv /\ [Next]_vars => [~strayed' => \A op \in DecodedNow : There(op)]_vars
  <2> SUFFICES ASSUME IInv, [Next]_vars, vars' # vars, ~strayed', NEW op \in DecodedNow,
                      HasMemoryForm(op), ~HasSib(op)
               PROVE  ChangedBytes \subseteq
                        Window((EncodedAddress(op) + Missed(op)) % AddressWidth(op), SizeOf(op))
    BY DEF vars
  <2>1. TypeOK /\ op.at \in Nat /\ InArray(op)
    BY StepExecutes
  <2>2. Stores(op)
    BY StepStores DEF Computes, HasMemoryForm
  <2>3. heap' = heap
    BY <2>2 DEF Stores
  <2>4. CASE ResultInRegister(op)
    <3>1. ram' = ram
      BY <2>2, <2>4 DEF Stores, StoresInRegister
    <3>2. \A a : readImm8(a)' = readImm8(a)
      BY <2>3, <3>1 DEF readImm8
    <3>3. ChangedBytes = {}
      BY <3>2 DEF ChangedBytes
    <3> QED
      BY <3>3
  <2>5. CASE ~ResultInRegister(op)
    <3>1. PICK a : a = OperandAddress(SizeOf(op), op)
      OBVIOUS
    <3>2. PICK n : n = SizeOf(op)
      OBVIOUS
    <3>3. PICK v : ram' = writeImm(v, a, n)
      BY <2>2, <2>5, <3>1, <3>2 DEF Stores, StoresInMemory
    <3>4. \A x : x \notin Window(a, n) =>
            /\ x \in DOMAIN ram' <=> x \in DOMAIN ram
            /\ x \in DOMAIN ram => ram'[x] = ram[x]
      BY <3>3 DEF writeImm
    <3>5. \A x : x \notin Window(a, n) => readImm8(x)' = readImm8(x)
      BY <2>3, <3>4 DEF readImm8
    <3>6. ChangedBytes \subseteq Window(a, n)
      BY <3>5 DEF ChangedBytes
    <3>7. a = (EncodedAddress(op) + Missed(op)) % AddressWidth(op)
      <4>1. LastByteRead(op) \in Address
        BY <2>1 DEF InArray
      <4> QED
        BY <2>1, <3>1, <4>1, AddressOfEncoding
    <3> QED
      BY <3>2, <3>6, <3>7
  <2> QED
    BY <2>4, <2>5
<1> QED
  BY <1>1 DEF StoreStep

(* A computation changes no byte of memory but those at the address that   *)
(* the encoding table gives, cut to the width of the handler's variable,   *)
(* in every form without a SIB byte; 256 bytes above it for a negative     *)
(* displacement of one byte.                                               *)
THEOREM StoresWhereEncoded == Spec => StoredWhereEncoded
  BY StoreStepHolds, Invariance, PTL DEF Spec, StoredWhereEncoded

-----------------------------------------------------------------------------
(* The flags and the destination *)

(* The bits set in a byte, counted one by one and as a set.                *)
LEMMA SetBitsCounts ==
  ASSUME NEW v \in Nat
  PROVE  Cardinality({i \in 0 .. 7 : (v \div 2 ^ i) % 2 = 1}) = SetBits(v % Byte)
<1> DEFINE On(i) == (v \div 2 ^ i) % 2
           Below(k) == {i \in 0 .. (k - 1) : On(i) = 1}
<1>1. \A i \in 0 .. 7 : On(i) \in {0, 1}
  <2>1. /\ On(0) = v % 2
        /\ On(1) = (v \div 2) % 2
        /\ On(2) = (v \div 4) % 2
        /\ On(3) = (v \div 8) % 2
        /\ On(4) = (v \div 16) % 2
        /\ On(5) = (v \div 32) % 2
        /\ On(6) = (v \div 64) % 2
        /\ On(7) = (v \div 128) % 2
    BY SMT
  <2> HIDE DEF On
  <2> QED
    BY SMT, <2>1
<1>2. SetBits(v % Byte) = On(0) + On(1) + On(2) + On(3) + On(4) + On(5) + On(6) + On(7)
  BY SMT DEF SetBits, Byte
<1> HIDE DEF On
<1>3. IsFiniteSet(Below(0)) /\ Cardinality(Below(0)) = 0
  <2>1. Below(0) = {}
    BY SMT
  <2> QED
    BY <2>1, FS_EmptySet
<1>4. ASSUME NEW k \in 0 .. 7, IsFiniteSet(Below(k))
      PROVE  /\ IsFiniteSet(Below(k + 1))
             /\ Cardinality(Below(k + 1)) = Cardinality(Below(k)) + On(k)
  <2>1. k \notin Below(k)
    BY SMT
  <2>2. Below(k + 1) = IF On(k) = 1 THEN Below(k) \cup {k} ELSE Below(k)
    BY SMT
  <2> HIDE DEF Below
  <2> QED
    BY <1>1, <1>4, <2>1, <2>2, CountOneMore
<1>5. {i \in 0 .. 7 : On(i) = 1} = Below(8)
  BY SMT
<1> HIDE DEF Below
<1>6. /\ 0 \in 0 .. 7 /\ 1 \in 0 .. 7 /\ 2 \in 0 .. 7 /\ 3 \in 0 .. 7
      /\ 4 \in 0 .. 7 /\ 5 \in 0 .. 7 /\ 6 \in 0 .. 7 /\ 7 \in 0 .. 7
      /\ 0 + 1 = 1 /\ 1 + 1 = 2 /\ 2 + 1 = 3 /\ 3 + 1 = 4
      /\ 4 + 1 = 5 /\ 5 + 1 = 6 /\ 6 + 1 = 7 /\ 7 + 1 = 8
  BY SMT
<1>7. IsFiniteSet(Below(1)) /\ Cardinality(Below(1)) = 0 + On(0)
  BY <1>3, <1>4, <1>6
<1>8. IsFiniteSet(Below(2)) /\ Cardinality(Below(2)) = Cardinality(Below(1)) + On(1)
  BY <1>4, <1>6, <1>7
<1>9. IsFiniteSet(Below(3)) /\ Cardinality(Below(3)) = Cardinality(Below(2)) + On(2)
  BY <1>4, <1>6, <1>8
<1>10. IsFiniteSet(Below(4)) /\ Cardinality(Below(4)) = Cardinality(Below(3)) + On(3)
  BY <1>4, <1>6, <1>9
<1>11. IsFiniteSet(Below(5)) /\ Cardinality(Below(5)) = Cardinality(Below(4)) + On(4)
  BY <1>4, <1>6, <1>10
<1>12. IsFiniteSet(Below(6)) /\ Cardinality(Below(6)) = Cardinality(Below(5)) + On(5)
  BY <1>4, <1>6, <1>11
<1>13. IsFiniteSet(Below(7)) /\ Cardinality(Below(7)) = Cardinality(Below(6)) + On(6)
  BY <1>4, <1>6, <1>12
<1>14. Cardinality(Below(8)) = Cardinality(Below(7)) + On(7)
  BY <1>4, <1>6, <1>13
<1>15. Cardinality(Below(8)) = On(0) + On(1) + On(2) + On(3) + On(4) + On(5) + On(6) + On(7)
  BY SMT, <1>1, <1>7, <1>8, <1>9, <1>10, <1>11, <1>12, <1>13, <1>14
<1> QED
  BY <1>2, <1>5, <1>15 DEF On

(* SF, ZF and PF of a result say of it what DescribedBy asks.              *)
LEMMA DescribedDescribes ==
  ASSUME NEW n \in Size, NEW r \in 0 .. (Modulus(n) - 1)
  PROVE  /\ Bit(r = 0) = 1 <=> r = 0
         /\ SignOf(n, r) = 1 <=> 2 * r >= Modulus(n)
         /\ Bit(SetBits(r % Byte) % 2 = 0) = 1
              <=> Cardinality({i \in 0 .. 7 : (r \div 2 ^ i) % 2 = 1}) % 2 = 0
<1> DEFINE mod == Modulus(n)
           h == mod \div 2
<1>1. mod \in Nat \ {0} /\ mod = h + h /\ h \in Nat \ {0}
  BY HalfOfModulus, Moduli
<1>2. SignOf(n, r) = r \div h
  BY DEF SignOf
<1>3. r \in 0 .. (mod - 1)
  OBVIOUS
<1> HIDE DEF mod, h
<1>4. r \in Nat /\ r < h + h
  BY SMT, <1>1, <1>3
<1>5. r \div h = 1 <=> r >= h
  <2>1. CASE r < h
    <3>1. r \div h = 0
      BY SMT, <1>1, <1>4, <2>1
    <3> QED
      BY SMT, <1>1, <1>4, <2>1, <3>1
  <2>2. CASE r >= h
    <3>1. r \div h \in {0, 1}
      BY <1>1, <1>4, HalfDivides
    <3>2. r \div h # 0
      BY SMT, <1>1, <1>4, <2>2
    <3> QED
      BY <2>2, <3>1, <3>2
  <2> QED
    BY SMT, <1>1, <1>4, <2>1, <2>2
<1>6. SignOf(n, r) = 1 <=> 2 * r >= mod
  BY SMT, <1>1, <1>2, <1>4, <1>5
<1>7. Cardinality({i \in 0 .. 7 : (r \div 2 ^ i) % 2 = 1}) = SetBits(r % Byte)
  BY <1>4, SetBitsCounts
<1> QED
  BY <1>6, <1>7 DEF Bit, mod

(* Any value of a slot, stored through a register of a size, shows there   *)
(* cut to that size; so does what EAX holds when it stands in for one.     *)
LEMMA RegisterReadBack ==
  ASSUME NEW n \in Size, NEW reg, reg = "EAX" \/ \E k \in 0 .. 7 : reg = Numbered(n, k),
         NEW x \in DwordValue, NEW v \in Nat
  PROVE  ViewOf(reg, StoredIn(reg, x, v)) % Modulus(n) = v % Modulus(n)
<1>1. x \in Nat
  BY SMT, Widths DEF DwordValue
<1>2. ASSUME reg \in Slot
      PROVE  ViewOf(reg, StoredIn(reg, x, v)) % Modulus(n) = v % Modulus(n)
  <2>1. ViewOf(reg, StoredIn(reg, x, v)) = v % Dword
    BY SMT, <1>2 DEF ViewOf, StoredIn, Slot, Segment, Low16, Low8, High8
  <2>2. (v % Dword) % Modulus(n) = v % Modulus(n)
    BY CutToSize
  <2> QED
    BY <2>1, <2>2
<1>3. ASSUME n = 1, reg \in Low8 \cup High8
      PROVE  ViewOf(reg, StoredIn(reg, x, v)) % Modulus(n) = v % Modulus(n)
  <2>1. CASE reg \in Low8
    <3>1. ViewOf(reg, StoredIn(reg, x, v)) = (((x \div 256) * 256) + (v % 256)) % 256
      BY SMT, <2>1 DEF ViewOf, StoredIn, Low16, Low8, High8, Byte
    <3>2. ((((x \div 256) * 256) + (v % 256)) % 256) % 256 = v % 256
      BY SMT, <1>1
    <3> QED
      BY <1>3, <3>1, <3>2, Moduli
  <2>2. CASE reg \in High8
    <3>1. ViewOf(reg, StoredIn(reg, x, v))
            = ((((x \div 65536) * 65536) + ((v % 256) * 256) + (x % 256)) \div 256) % 256
      BY SMT, <2>2 DEF ViewOf, StoredIn, Low16, Low8, High8, Byte, Word
    <3>2. (((((x \div 65536) * 65536) + ((v % 256) * 256) + (x % 256)) \div 256) % 256) % 256 = v % 256
      BY SMT, <1>1
    <3> QED
      BY <1>3, <3>1, <3>2, Moduli
  <2> QED
    BY <1>3, <2>1, <2>2
<1>4. ASSUME n = 2, reg \in Low16
      PROVE  ViewOf(reg, StoredIn(reg, x, v)) % Modulus(n) = v % Modulus(n)
  <2>1. ViewOf(reg, StoredIn(reg, x, v)) = (((x \div 65536) * 65536) + (v % 65536)) % 65536
    BY SMT, <1>4 DEF ViewOf, StoredIn, Low16, Low8, High8, Word
  <2>2. ((((x \div 65536) * 65536) + (v % 65536)) % 65536) % 65536 = v % 65536
    BY SMT, <1>1
  <2> QED
    BY <1>4, <2>1, <2>2, Moduli
<1>5. CASE reg = "EAX"
  BY <1>2, <1>5 DEF Slot
<1>6. CASE \E k \in 0 .. 7 : reg = Numbered(n, k)
  <2>1. PICK k \in 0 .. 7 : reg = Numbered(n, k)
    BY <1>6
  <2>2. (n = 1 => reg \in Low8 \cup High8) /\ (n = 2 => reg \in Low16)
    BY <2>1, NumberedRegister
  <2>3. n = 4 => reg \in Slot
    BY SMT, <2>1 DEF Numbered, General, Slot
  <2> QED
    BY <1>2, <1>3, <1>4, <2>2, <2>3 DEF Size
<1> QED
  BY <1>5, <1>6

(* The register a computation writes is one its field names at its size,   *)
(* or EAX in its place.                                                    *)
LEMMA DestinationNumbered ==
  ASSUME NEW op, Computes(op), HasModRM(op) => ModRM(op) \in ByteValue
  PROVE  \/ ResultRegister(op) = "EAX"
         \/ \E k \in 0 .. 7 : ResultRegister(op) = Numbered(SizeOf(op), k)
<1> DEFINE n == SizeOf(op)
           m == ModRM(op)
<1>1. CASE HasImmediate(op)
  <2>1. ResultRegister(op) = Numbered(n, 0) /\ 0 \in 0 .. 7
    BY SMT, <1>1, Kinds DEF ResultRegister
  <2> QED
    BY <2>1
<1>2. CASE HasModRM(op)
  <2>1. ResultRegister(op) \in {RmRegister(n, m), TopRegister(n, m)}
    BY <1>2, Kinds DEF ResultRegister
  <2>2. RegOf(m) \in 0 .. 7 /\ RmOf(m) \in 0 .. 7
    BY <1>2, ModRMFields
  <2> QED
    BY <2>1, <2>2 DEF RmRegister, TopRegister
<1> QED
  BY <1>1, <1>2 DEF Computes

(* Every computation sets SF, ZF and PF from its result.                   *)
LEMMA FlagsOfResult ==
  ASSUME CPUTypeOK, NEW alu \in {"add", "adc", "or"}, NEW n, NEW f, NEW s,
         flags' = FlagsAfter(alu, n, f, s)
  PROVE  LET r == Result(alu, n, f, s)
         IN  /\ flags'["SF"] = SignOf(n, r)
             /\ flags'["ZF"] = Bit(r = 0)
             /\ flags'["PF"] = Bit(SetBits(r % Byte) % 2 = 0)
<1> DEFINE r == Result(alu, n, f, s)
           d == Described(n, r)
<1>1. /\ DOMAIN d = Flag
      /\ d["SF"] = SignOf(n, r)
      /\ d["ZF"] = Bit(r = 0)
      /\ d["PF"] = Bit(SetBits(r % Byte) % 2 = 0)
  <2> DEFINE sign == SignOf(n, r)
             zero == Bit(r = 0)
             even == Bit(SetBits(r % Byte) % 2 = 0)
  <2>1. d = [flags EXCEPT !["SF"] = sign, !["ZF"] = zero, !["PF"] = even]
    BY DEF Described
  <2> HIDE DEF sign, zero, even, d
  <2>2. DOMAIN d = Flag /\ d["SF"] = sign /\ d["ZF"] = zero /\ d["PF"] = even
    BY SMT, <2>1 DEF CPUTypeOK, Flag
  <2> QED
    BY <2>2 DEF sign, zero, even, d
<1>2. \E c, o, h :
        \/ flags' = [d EXCEPT !["AF"] = h, !["CF"] = c, !["OF"] = o]
        \/ flags' = [d EXCEPT !["CF"] = c, !["OF"] = o]
  <2>1. CASE alu = "add"
    BY <2>1 DEF FlagsAfter, AddFlags
  <2>2. CASE alu = "adc"
    BY <2>2 DEF FlagsAfter, AdcFlags
  <2>3. CASE alu = "or"
    BY <2>3 DEF FlagsAfter, OrFlags
  <2> QED
    BY <2>1, <2>2, <2>3
<1> HIDE DEF d, r
<1>3. flags'["SF"] = d["SF"] /\ flags'["ZF"] = d["ZF"] /\ flags'["PF"] = d["PF"]
  BY SMT, <1>1, <1>2 DEF Flag
<1> QED
  BY <1>1, <1>3 DEF r

(* A value of 32 bits is cut before it is stored.                          *)
LEMMA RawBounded ==
  ASSUME TypeOK, NEW op, WellFormed(op), SizeOf(op) = 4
  PROVE  ValueOf(op) < Dword
<1> DEFINE v == IF Alu(op) = "or" THEN OrValue(FirstOf(op), SecondOf(op))
                                  ELSE FirstOf(op) + SecondOf(op) + CarryIn(Alu(op))
<1>1. FirstOf(op) \in Nat /\ SecondOf(op) \in Nat
  BY SMT, Moduli, Widths DEF WellFormed
<1>2. v \in Int
  <2>1. OrValue(FirstOf(op), SecondOf(op)) \in Nat
    BY <1>1, OrValueTyped
  <2>2. CarryIn(Alu(op)) \in {0, 1}
    BY SMT DEF CarryIn, TypeOK, CPUTypeOK, Flag
  <2> QED
    BY SMT, <1>1, <2>1, <2>2
<1>3. ValueOf(op) = v % Dword
  BY DEF ValueOf, Raw
<1> HIDE DEF v
<1>4. v % Dword < Dword
  BY SMT, <1>2, ModRange, Widths
<1> QED
  BY <1>3, <1>4

(* One step of FlagsDescribeDestination.                                   *)
LEMMA FlagsStepHolds == IInv /\ [Next]_vars => [FlagsStep]_vars
<1> DEFINE Describes(op) ==
      Computes(op) =>
        \A n \in {SizeOf(op)} :
          IF ResultInRegister(op)
            THEN \A reg \in {ResultRegister(op)} :
                   (DescribedBy(getRegister(reg) % Modulus(n), n))'
            ELSE \A a \in {OperandAddress(n, op)} : (DescribedBy(readImm(a, n), n))'
<1>1. IInv /\ [Next]_vars => [~strayed' => \A op \in DecodedNow : Describes(op)]_vars
  <2> SUFFICES ASSUME IInv, [Next]_vars, vars' # vars, ~strayed', NEW op \in DecodedNow,
                      Computes(op), NEW n, n = SizeOf(op)
               PROVE  IF ResultInRegister(op)
                        THEN \A reg \in {ResultRegister(op)} :
                               (DescribedBy(getRegister(reg) % Modulus(n), n))'
                        ELSE \A a \in {OperandAddress(n, op)} : (DescribedBy(readImm(a, n), n))'
    BY DEF vars
  <2>1. TypeOK /\ CPUTypeOK /\ op.at \in Nat /\ InArray(op)
    BY StepExecutes DEF TypeOK
  <2>2. WellFormed(op) /\ Stores(op)
    BY StepStores
  <2>3. n \in Size
    BY <2>2 DEF WellFormed
  <2>4. PICK v \in Nat : v = ValueOf(op)
    BY <2>1, <2>2, ValueTyped
  <2>5. PICK r : r = v % Modulus(n)
    OBVIOUS
  <2>6. r \in 0 .. (Modulus(n) - 1)
    <3> DEFINE mod == Modulus(n)
    <3>1. mod \in Nat \ {0}
      BY <2>3, Moduli
    <3>2. r = v % mod
      BY <2>5
    <3> HIDE DEF mod
    <3>3. r \in 0 .. (mod - 1)
      BY SMT, <3>1, <3>2, ModRange
    <3> QED
      BY <3>3 DEF mod
  <2>7. Result(Alu(op), n, FirstOf(op), SecondOf(op)) = r
    BY <2>4, <2>5 DEF Result, ValueOf
  <2>8. /\ flags'["SF"] = SignOf(n, r)
        /\ flags'["ZF"] = Bit(r = 0)
        /\ flags'["PF"] = Bit(SetBits(r % Byte) % 2 = 0)
    <3>1. flags' = FlagsAfter(Alu(op), n, FirstOf(op), SecondOf(op))
      BY <2>2 DEF Stores
    <3>2. Alu(op) \in {"add", "adc", "or"}
      BY DEF Alu
    <3> QED
      BY <2>1, <2>7, <3>1, <3>2, FlagsOfResult
  <2>9. DescribedBy(r, n)'
    BY <2>3, <2>6, <2>8, DescribedDescribes DEF DescribedBy
  <2>10. CASE ResultInRegister(op)
    <3>1. PICK reg : reg = ResultRegister(op)
      OBVIOUS
    <3>2. PICK x \in DwordValue : x = registers[SlotOf(reg)]
      BY <2>1, <2>2, <3>1 DEF WellFormed, CPUTypeOK
    <3>3. registers'[SlotOf(reg)] = StoredIn(reg, x, v)
      BY <2>2, <2>4, <2>10, <3>1, <3>2 DEF Stores, StoresInRegister
    <3>4. HasModRM(op) => ModRM(op) \in ByteValue
      BY <2>1, StreamInside
    <3>5. reg = "EAX" \/ \E k \in 0 .. 7 : reg = Numbered(n, k)
      BY <3>1, <3>4, DestinationNumbered
    <3>6. ViewOf(reg, StoredIn(reg, x, v)) % Modulus(n) = r
      BY <2>3, <2>5, <3>5, RegisterReadBack
    <3>7. (getRegister(reg) % Modulus(n))' = r
      BY <3>3, <3>6 DEF getRegister
    <3>8. DescribedBy(getRegister(reg) % Modulus(n), n)'
      BY <2>9, <3>7 DEF DescribedBy
    <3> QED
      BY <2>10, <3>1, <3>8
  <2>11. CASE ~ResultInRegister(op)
    <3>1. PICK a \in Nat : a = OperandAddress(n, op)
      BY <2>2, <2>11 DEF WellFormed
    <3>2. ram' = writeImm(v, a, n)
      BY <2>2, <2>4, <2>11, <3>1 DEF Stores, StoresInMemory
    <3>3. n = 4 => v < Dword
      BY <2>1, <2>2, <2>4, RawBounded
    <3>4. readImm(a, n)' = r
      BY <2>3, <2>5, <3>2, <3>3, SizedReadBack
    <3>5. DescribedBy(readImm(a, n), n)'
      BY <2>9, <3>4 DEF DescribedBy
    <3> QED
      BY <2>11, <3>1, <3>5
  <2> QED
    BY <2>10, <2>11
<1> QED
  BY <1>1 DEF FlagsStep

(* After a computation SF, ZF and PF describe what a later instruction     *)
(* finds in its destination, at every size, whatever was there before.     *)
THEOREM FlagsAreOfDestination == Spec => FlagsDescribeDestination
  BY FlagsStepHolds, Invariance, PTL DEF Spec, FlagsDescribeDestination
=============================================================================
