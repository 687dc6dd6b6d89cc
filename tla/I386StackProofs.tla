--------------------------- MODULE I386StackProofs ---------------------------
(***************************************************************************)
(* Theorems about the stack record of I386Stack: pushed words are neither  *)
(* overlapped nor overwritten before they are popped, for every program    *)
(* and every memory.  The invariant adds to the one of I386Proofs that the *)
(* words lie apart and above the stack pointer: without it a push could    *)
(* land on a word that is still to be popped.                              *)
(***************************************************************************)
EXTENDS I386Stack, I386Proofs

FramesTypeOK == frames \subseteq [at : Nat, word : WordValue]

StackIInv ==
  /\ IInv
  /\ FramesTypeOK
  /\ FramesApart
  /\ FramesIntact

-----------------------------------------------------------------------------
(* Stack pointer *)

(* A computation whose destination is not ESP leaves ESP alone.            *)
LEMMA ComputationESP ==
  ASSUME IInv, NEW op, op.at \in Nat, InArray(op), ~MovesStackPointer(op),
         \/ HasModRM(op) /\ ~NamesR(op) /\ IntoRm(Alu(op), SizeOf(op), op)
         \/ NamesR(op) /\ IntoR(Alu(op), SizeOf(op), op)
         \/ HasImmediate(op) /\ IntoAccumulator(Alu(op), SizeOf(op), op)
  PROVE  registers'["ESP"] = registers["ESP"]
<1> DEFINE n == SizeOf(op)
           m == ModRM(op)
<1>1. TypeOK /\ CPUTypeOK /\ registers \in [Slot -> DwordValue]
  BY DEF IInv, TypeOK, CPUTypeOK
<1>2. n \in Size
  BY DEF SizeOf, OperandSize, Size
<1>3. Alu(op) \in {"add", "adc", "or"}
  BY DEF Alu
<1>4. ASSUME NEW reg \in Registers, SlotOf(reg) # "ESP", NEW v \in Nat, NEW c,
             registers' = NextInstruction(setRegister(registers, reg, v), op, c)
      PROVE  registers'["ESP"] = registers["ESP"]
  <2>1. setRegister(registers, reg, v) \in [Slot -> DwordValue]
    BY <1>1, SetRegisterTyped
  <2>2. setRegister(registers, reg, v)["ESP"] = registers["ESP"]
    BY <1>1, <1>4, SetRegisterESP
  <2> QED
    BY <1>4, <2>1, <2>2, NextInstructionESP
<1>5. HasModRM(op) => /\ FirstOperand(n, op) \in Nat
                      /\ SecondOperand(n, op) \in Nat
                      /\ RmRegister(n, m) \in Registers
                      /\ TopRegister(n, m) \in Registers
  <2> SUFFICES ASSUME HasModRM(op)
               PROVE  /\ FirstOperand(n, op) \in Nat
                      /\ SecondOperand(n, op) \in Nat
                      /\ RmRegister(n, m) \in Registers
                      /\ TopRegister(n, m) \in Registers
    OBVIOUS
  <2>1. m \in ByteValue
    BY <1>1, StreamInside
  <2> QED
    BY <1>1, <1>2, <2>1, OperandsTyped, OperandRegisters
<1>6. CASE HasModRM(op) /\ ~NamesR(op) /\ IntoRm(Alu(op), n, op)
  <2>1. Raw(Alu(op), n, FirstOperand(n, op), SecondOperand(n, op)) \in Nat
    BY <1>1, <1>2, <1>5, <1>6, ResultTyped
  <2>2. CASE ModOf(m) = 3
    <3>1. SlotOf(RmRegister(n, m)) # "ESP"
      BY <1>6, <2>2, Kinds DEF MovesStackPointer, Computes, ResultInRegister, ResultRegister
    <3> QED
      BY <1>4, <1>5, <1>6, <2>1, <2>2, <3>1 DEF IntoRm, AfterModRM
  <2>3. CASE ModOf(m) # 3
    BY <1>1, <1>6, <2>3, NextInstructionESP DEF IntoRm, AfterModRM
  <2> QED
    BY <2>2, <2>3
<1>7. CASE NamesR(op) /\ IntoR(Alu(op), n, op)
  <2> DEFINE target == IF ModOf(m) = 3 THEN RmRegister(n, m) ELSE TopRegister(n, m)
  <2>1. HasModRM(op) /\ ~HasImmediate(op)
    BY <1>7, Kinds DEF NamesR
  <2>2. Raw(Alu(op), n, FirstOperand(n, op), SecondOperand(n, op)) \in Nat
    BY <1>1, <1>2, <1>5, <2>1, ResultTyped
  <2>3. ResultRegister(op) = target
    BY <2>1 DEF ResultRegister
  <2>4. SlotOf(target) # "ESP"
    BY <1>7, <2>1, <2>3 DEF MovesStackPointer, Computes, ResultInRegister
  <2>5. target \in Registers
    BY <1>5, <2>1
  <2> HIDE DEF target
  <2> QED
    BY <1>4, <1>7, <2>2, <2>4, <2>5 DEF IntoR, AfterModRM, target
<1>8. CASE HasImmediate(op) /\ IntoAccumulator(Alu(op), n, op)
  <2>1. Numbered(n, 0) \in Registers /\ getRegister(Numbered(n, 0)) \in Nat
    <3>1. 0 \in 0 .. 7 /\ 0 .. (Modulus(n) - 1) \subseteq Nat
      BY SMT, <1>2, Moduli
    <3> QED
      BY <1>1, <1>2, <3>1, NumberedRegister, NumberedValue
  <2>2. readImm(op.at + 1, n) \in Nat
    <3>1. Window(op.at + 1, n) \subseteq Address
      BY <1>1, <1>8, StreamInside
    <3>2. op.at + 1 \in Nat /\ 0 .. (Modulus(n) - 1) \subseteq Nat
      BY SMT, <1>2, Moduli
    <3> QED
      BY <1>1, <1>2, <3>1, <3>2, ReadSized DEF TypeOK
  <2>3. Raw(Alu(op), n, getRegister(Numbered(n, 0)), readImm(op.at + 1, n)) \in Nat
    BY <1>1, <1>2, <2>1, <2>2, ResultTyped
  <2>4. SlotOf(Numbered(n, 0)) # "ESP"
    BY <1>8, Kinds DEF MovesStackPointer, Computes, ResultInRegister, ResultRegister
  <2> QED
    BY <1>4, <1>8, <2>1, <2>3, <2>4 DEF IntoAccumulator
<1> QED
  BY <1>6, <1>7, <1>8

-----------------------------------------------------------------------------
(* The record after an instruction *)

FramesKept == FramesTypeOK' /\ FramesApart' /\ FramesIntact'

(* A push stores below every word on record, and records the lowest.       *)
LEMMA PushKeeps ==
  ASSUME StackIInv, NEW op, op.at \in Nat, IsPush(op), InArray(op),
         PushSegment(PushedSegment(op), op), Record(op)
  PROVE  FramesKept
<1> DEFINE e == registers["ESP"]
           w == registers[PushedSegment(op)] % Word
<1>1. registers \in [Slot -> DwordValue] /\ "ESP" \in Slot /\ PushedSegment(op) \in Slot
  BY DEF StackIInv, IInv, TypeOK, CPUTypeOK, PushedSegment, Slot, Segment
<1>2. e \in DwordValue
  BY <1>1
<1>3. w \in WordValue
  <2> DEFINE x == registers[PushedSegment(op)]
  <2>1. x \in Int
    BY SMT, <1>1, Widths DEF DwordValue
  <2> HIDE DEF x
  <2>2. x % Word \in WordValue
    BY SMT, <2>1, ModRange, WordWidth DEF WordValue
  <2> QED
    BY <2>2 DEF x
<1>4. frames' = frames \cup {[at |-> PushAddress, word |-> w]}
  BY Kinds DEF Record, Frame, MovesStackPointer
<1> HIDE DEF e, w
<1>7. e \in Int /\ e >= 1 /\ PushAddress = e - 1 /\ PopAddress = e + 1 /\ PopAddress' = e - 1
  <2>1. e \in Int
    BY SMT, <1>2, Widths DEF DwordValue
  <2>2. /\ PushAddress \in Nat /\ PopAddress = PushAddress + 2
        /\ PopAddress' = PushAddress /\ PushAddress + 1 < MemorySize
    BY PushMoves DEF StackIInv
  <2>3. PushAddress = e - 1
    BY <1>2, <2>2, PushArithmetic DEF PushAddress, e
  <2> QED
    BY SMT, <2>1, <2>2, <2>3
<1>8. e - 1 \in Nat
  BY SMT, <1>7
<1>9. \A f \in frames : f.at \in Nat /\ f.word \in WordValue /\ e + 1 <= f.at
  BY <1>7 DEF StackIInv, FramesTypeOK, FramesApart
<1>10. FramesTypeOK'
  BY <1>3, <1>4, <1>7, <1>8 DEF FramesTypeOK, StackIInv
<1>11. FramesApart'
  <2> DEFINE new == [at |-> e - 1, word |-> w]
  <2>1. frames' = frames \cup {new} /\ new.at = e - 1
    BY <1>4, <1>7
  <2> HIDE DEF new
  <2>2. \A f \in frames' : e - 1 <= f.at
    BY SMT, <1>7, <1>9, <2>1
  <2>3. \A f \in frames : new.at + 2 <= f.at
    BY SMT, <1>7, <1>9, <2>1
  <2>4. \A f, g \in frames : f = g \/ f.at + 2 <= g.at \/ g.at + 2 <= f.at
    BY DEF StackIInv, FramesApart
  <2>5. \A f, g \in frames' : f = g \/ f.at + 2 <= g.at \/ g.at + 2 <= f.at
    BY <2>1, <2>3, <2>4
  <2> QED
    BY <1>7, <2>2, <2>5 DEF FramesApart
<1>12. FramesIntact'
  <2>1. PICK p \in Nat : p = e - 1
    BY <1>8
  <2>2. PICK v \in WordValue : v = w
    BY <1>3
  <2>3. ram' = writeImm(v, p, 2) /\ heap' = heap
    BY <1>7, <2>1, <2>2 DEF PushSegment, writeImm16, w
  <2>4. readImm16(p)' = v
    BY <2>3, ReadWritten
  <2>5. ASSUME NEW f \in frames PROVE readImm16(f.at)' = f.word
    <3>1. Window(f.at, 2) \cap Window(p, 2) = {}
      BY SMT, <1>7, <1>9, <2>1 DEF Window
    <3>2. f.at \in Nat
      BY <1>9
    <3>3. readImm16(f.at)' = readImm16(f.at)
      BY <2>3, <3>1, <3>2, ReadOutside
    <3> QED
      BY <3>3 DEF StackIInv, FramesIntact
  <2>6. \A f \in frames' : f \in frames \/ f = [at |-> p, word |-> v]
    BY <1>4, <1>7, <2>1, <2>2
  <2>7. \A f \in frames' : readImm16(f.at)' = f.word
    BY <2>4, <2>5, <2>6
  <2> QED
    BY <2>7 DEF FramesIntact
<1> QED
  BY <1>10, <1>11, <1>12 DEF FramesKept

(* A pop moves ESP by one only, so the words left lie above it all the     *)
(* more.                                                                   *)
LEMMA PopKeeps ==
  ASSUME StackIInv, NEW op, op.at \in Nat, IsPop(op), InArray(op),
         PopSegment(PoppedSegment(op), op), Record(op)
  PROVE  FramesKept
<1> DEFINE e == registers["ESP"]
<1>1. registers \in [Slot -> DwordValue] /\ "ESP" \in Slot
  BY DEF StackIInv, IInv, TypeOK, CPUTypeOK, Slot
<1>2. e \in DwordValue
  BY <1>1
<1>3. frames' = AllButTheLowest
  BY Kinds DEF Record, MovesStackPointer
<1>4. registers'["ESP"] = (e + 1) % Dword
  BY PopMoves DEF StackIInv
<1> HIDE DEF e
<1> DEFINE q == (e + 1) % Dword
<1>5. q \in Int /\ PopAddress = q /\ PopAddress' <= q + 1 /\ PopAddress' \in Int
  <2>1. e + 1 \in Int /\ q + 1 \in Int /\ q \in Int
    BY SMT, <1>2, ModRange, Widths DEF DwordValue
  <2>2. PopAddress = q /\ PopAddress' = (q + 1) % Dword
    BY <1>4 DEF PopAddress, e
  <2>3. (q + 1) % Dword <= q + 1
    BY <1>2, PopArithmetic
  <2> HIDE DEF q
  <2>4. (q + 1) % Dword \in Int
    BY SMT, <2>1, ModRange, Widths
  <2> QED
    BY <2>1, <2>2, <2>3, <2>4
<1> HIDE DEF q
<1>6. \A f \in frames : f.at \in Nat /\ q <= f.at
  BY <1>5 DEF StackIInv, FramesTypeOK, FramesApart
<1>7. \A f, g \in frames : f = g \/ f.at + 2 <= g.at \/ g.at + 2 <= f.at
  BY DEF StackIInv, FramesApart
<1>8. \A f \in frames' : f \in frames /\ q + 2 <= f.at
  <2> SUFFICES ASSUME NEW f \in frames' PROVE f \in frames /\ q + 2 <= f.at
    OBVIOUS
  <2>1. f \in frames
    BY <1>3 DEF AllButTheLowest
  <2>2. PICK g \in frames : g.at < f.at
    BY <1>3 DEF AllButTheLowest
  <2>3. g.at + 2 <= f.at
    BY SMT, <1>6, <1>7, <2>1, <2>2
  <2> QED
    BY SMT, <1>5, <1>6, <2>1, <2>3
<1>9. FramesTypeOK'
  BY <1>8 DEF FramesTypeOK, StackIInv
<1>10. FramesApart'
  <2>1. \A f \in frames' : PopAddress' <= f.at
    BY SMT, <1>5, <1>6, <1>8
  <2> QED
    BY <1>7, <1>8, <2>1 DEF FramesApart
<1>11. FramesIntact'
  <2>1. ram' = ram /\ heap' = heap
    BY DEF PopSegment, memoryVars
  <2> QED
    BY <1>8, <2>1, ReadUnchanged DEF FramesIntact, StackIInv
<1> QED
  BY <1>9, <1>10, <1>11 DEF FramesKept

(* ESP unchanged and a subset of the record, each word read as before.     *)
LEMMA SubsetKept ==
  ASSUME StackIInv, frames' \subseteq frames,
         frames' = {} \/ registers'["ESP"] = registers["ESP"],
         \A f \in frames' : readImm16(f.at)' = readImm16(f.at)
  PROVE  FramesKept
<1>1. FramesTypeOK' /\ FramesIntact'
  BY DEF StackIInv, FramesTypeOK, FramesIntact
<1>2. FramesApart'
  <2>1. CASE frames' = {}
    BY <2>1 DEF FramesApart
  <2>2. CASE registers'["ESP"] = registers["ESP"]
    <3>1. PopAddress' = PopAddress
      BY <2>2 DEF PopAddress
    <3> QED
      BY <3>1 DEF FramesApart, StackIInv
  <2> QED
    BY <2>1, <2>2
<1> QED
  BY <1>1, <1>2 DEF FramesKept

(* A computation either starts a new record, or leaves ESP where it is and *)
(* the words outside its destination as they were.                         *)
LEMMA ComputationKeeps ==
  ASSUME StackIInv, NEW op, op.at \in Nat, InArray(op), Record(op),
         \/ HasModRM(op) /\ ~NamesR(op) /\ IntoRm(Alu(op), SizeOf(op), op)
         \/ NamesR(op) /\ IntoR(Alu(op), SizeOf(op), op)
         \/ HasImmediate(op) /\ IntoAccumulator(Alu(op), SizeOf(op), op)
  PROVE  FramesKept
<1>1. Computes(op) /\ ~IsPush(op) /\ ~IsPop(op)
  BY Kinds DEF Computes, NamesR
<1>2. CASE MovesStackPointer(op)
  <2>1. frames' = {}
    BY <1>1, <1>2 DEF Record
  <2> QED
    BY <2>1, SubsetKept
<1>3. CASE ~MovesStackPointer(op)
  <2>1. frames' = {f \in frames : Window(f.at, 2) \cap Written(op) = {}}
    BY <1>1, <1>3 DEF Record
  <2>2. registers'["ESP"] = registers["ESP"]
    BY <1>3, ComputationESP DEF StackIInv
  <2>3. heap' = heap
    BY DEF IntoRm, IntoR, IntoAccumulator, memoryVars
  <2>4. ASSUME NEW f \in frames' PROVE readImm16(f.at)' = readImm16(f.at)
    <3>1. f \in frames /\ f.at \in Nat /\ Window(f.at, 2) \cap Written(op) = {}
      BY <2>1 DEF StackIInv, FramesTypeOK
    <3>2. CASE ram' = ram
      BY <2>3, <3>2, ReadUnchanged
    <3>3. CASE ram' # ram
      <4> DEFINE n == SizeOf(op)
                 raw == Raw(Alu(op), n, FirstOperand(n, op), SecondOperand(n, op))
      <4>1. HasModRM(op) /\ ~NamesR(op) /\ IntoRm(Alu(op), n, op)
        BY <3>3 DEF IntoR, IntoAccumulator, memoryVars
      <4>2. ModOf(ModRM(op)) # 3
        BY <3>3, <4>1 DEF IntoRm
      <4>3. Written(op) = Window(OperandAddress(n, op), n)
        BY <1>1, <4>1, <4>2 DEF Written, DataWindow
      <4>4. ram' = writeImm(raw, OperandAddress(n, op), n)
        BY <4>1, <4>2 DEF IntoRm
      <4> HIDE DEF n, raw
      <4> QED
        BY <2>3, <3>1, <4>3, <4>4, ReadOutside
    <3> QED
      BY <3>2, <3>3
  <2> QED
    BY <2>1, <2>2, <2>4, SubsetKept
<1> QED
  BY <1>2, <1>3

(* hlt and the skipped opcodes leave the record alone.                     *)
LEMMA SkipKeeps ==
  ASSUME StackIInv, NEW op, ~Computes(op), ~IsPush(op), ~IsPop(op),
         halt(op) \/ SkipOpcode(op), Record(op)
  PROVE  FramesKept
<1>1. frames' \subseteq frames
  BY DEF Record, MovesStackPointer
<1>2. ram' = ram /\ heap' = heap
  BY DEF halt, SkipOpcode, memoryVars
<1>3. registers'["ESP"] = registers["ESP"]
  BY NextInstructionESP DEF halt, SkipOpcode, StackIInv, IInv, TypeOK, CPUTypeOK
<1> QED
  BY <1>1, <1>2, <1>3, ReadUnchanged, SubsetKept

(* The invariant of the machine with its record is inductive.              *)
LEMMA StackInvariance == StackSpec => []StackIInv
<1>1. StackInit => StackIInv
  BY InitHolds DEF StackInit, StackIInv, FramesTypeOK, FramesApart, FramesIntact
<1>2. StackIInv /\ [StackNext]_stackVars => StackIInv'
  <2> SUFFICES ASSUME StackIInv, [StackNext]_stackVars PROVE StackIInv'
    OBVIOUS
  <2>1. ASSUME Cycle, NEW op \in DecodedNow, Record(op) PROVE StackIInv'
    <3>1. /\ op.at \in Nat /\ op.instruction \in ByteValue
          /\ InArray(op) /\ Execute(op)
      BY <2>1, CycleExecutes DEF StackIInv
    <3>2. IInv'
      BY <2>1, CycleCompletes DEF StackIInv
    <3>3. FramesKept
      BY <2>1, <3>1, Shapes, PushKeeps, PopKeeps, ComputationKeeps, SkipKeeps
    <3> QED
      BY <3>2, <3>3 DEF StackIInv, FramesKept
  <2>2. CASE CycleStrays /\ UNCHANGED frames
    <3>1. IInv'
      BY <2>2, StrayKeeps DEF StackIInv
    <3>2. ram' = ram /\ heap' = heap /\ registers' = registers /\ frames' = frames
      BY <2>2 DEF CycleStrays
    <3>3. FramesKept
      BY <3>2, ReadUnchanged, SubsetKept
    <3> QED
      BY <3>1, <3>3 DEF StackIInv, FramesKept
  <2>3. CASE UNCHANGED stackVars
    <3>1. IInv'
      BY <2>3 DEF stackVars, StackIInv, IInv, TypeOK, MemoryTypeOK, CPUTypeOK, FlagsCoherent
    <3>2. ram' = ram /\ heap' = heap /\ registers' = registers /\ frames' = frames
      BY <2>3 DEF stackVars
    <3>3. FramesKept
      BY <3>2, ReadUnchanged, SubsetKept
    <3> QED
      BY <3>1, <3>3 DEF StackIInv, FramesKept
  <2> QED
    BY <2>1, <2>2, <2>3 DEF StackNext
<1> QED
  BY <1>1, <1>2, PTL DEF StackSpec

-----------------------------------------------------------------------------
(* A word that has been pushed and not popped is still in memory, whatever *)
(* pushes, pops and computations ran since.                                *)
THEOREM StackIntact == StackSpec => []FramesIntact
<1>1. StackIInv => FramesIntact
  BY DEF StackIInv
<1> QED
  BY <1>1, StackInvariance, PTL

(* No push stores over a word that is still to be popped, and none of them *)
(* is below the stack pointer.                                             *)
THEOREM StackApart == StackSpec => []FramesApart
<1>1. StackIInv => FramesApart
  BY DEF StackIInv
<1> QED
  BY <1>1, StackInvariance, PTL
=============================================================================
