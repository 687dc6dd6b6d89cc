----------------------------- MODULE MainProofs -----------------------------
(***************************************************************************)
(* Theorems about the whole program of Main.  The invariant says what the  *)
(* boot sequence has done so far; when the loop is entered it amounts to   *)
(* the initial state of I386, and from there the lemmas of I386Proofs      *)
(* apply.  The last part proves that the program implements the machine.   *)
(***************************************************************************)
EXTENDS MainProperties, I386EffectProofs

\* While the image is copied, memory holds as much of it as has been copied.
Copied == [a \in 0 .. offset - 1 |-> data[a + 1]]

BootIInv ==
  /\ phase \in Phase
  /\ file \in Files
  /\ heap \in Heaps
  /\ phase \in {"reset", "read", "load"} => strayed = FALSE
  /\ phase \in {"reset", "read"} => /\ offset = 0
                                    /\ data = <<>>
                                    /\ ram = [a \in {} |-> 0]
  /\ phase \in {"read", "load"} => /\ registers = ResetRegisters
                                   /\ flags = ResetFlags
                                   /\ isHalted = FALSE
  /\ phase = "load" => /\ data = Delivered(file)
                       /\ offset \in 0 .. Len(data)
                       /\ offset <= MemorySize
                       /\ ram = Copied
  /\ phase \in {"load", "run", "returned"} => file.kind = "plain"
  /\ phase \in {"run", "returned"} => Fits(file.bytes) /\ IInv
  /\ phase = "crashed" => file.kind # "plain" \/ ~Fits(file.bytes)

-----------------------------------------------------------------------------
(* A file delivers as many bytes as it has.                                *)
LEMMA DeliveredTyped ==
  ASSUME NEW f \in Files
  PROVE  /\ Len(f.bytes) \in Nat
         /\ Delivered(f) = [i \in 1 .. Len(f.bytes) |-> Delivered(f)[i]]
         /\ \A i \in 1 .. Len(f.bytes) : Delivered(f)[i] \in ByteValue
         /\ Len(Delivered(f)) = Len(f.bytes)
         /\ Delivered(f) \in Seq(ByteValue)
<1>1. f.bytes \in Seq(ByteValue)
  BY FileAssumption
<1>2. Len(f.bytes) \in Nat /\ \A i \in 1 .. Len(f.bytes) : f.bytes[i] \in ByteValue
  BY <1>1
<1>3. 0 \in ByteValue
  BY SMT DEF ByteValue, Byte
<1>4. Delivered(f) \in [1 .. Len(f.bytes) -> ByteValue]
  BY <1>2, <1>3 DEF Delivered
<1>5. Delivered(f) \in Seq(ByteValue)
  BY <1>2, <1>4
<1>6. DOMAIN Delivered(f) = 1 .. Len(f.bytes) /\ DOMAIN Delivered(f) = 1 .. Len(Delivered(f))
  BY <1>4, <1>5
<1>7. Len(Delivered(f)) \in Nat
  BY <1>5
<1>8. Len(Delivered(f)) = Len(f.bytes)
  BY SMT, <1>2, <1>6, <1>7
<1> QED
  BY <1>2, <1>4, <1>5, <1>8

(* When the whole image has been copied, the double word makes of it the   *)
(* memory that I386 starts with.                                           *)
LEMMA PatchedImage ==
  ASSUME NEW f \in Files, NEW r, r = [a \in 0 .. Len(Delivered(f)) - 1 |-> Delivered(f)[a + 1]],
         ram = r, Fits(f.bytes)
  PROVE  writeImm32(Patch, PatchAddress) = Loaded(Fitted(Delivered(f)))
<1>1. Fitted(Delivered(f)) = Delivered(f)
  BY DeliveredTyped DEF Fitted, Fits
<1>2. Patched = Window(PatchAddress, 4)
  BY DEF Patched
<1>3. \A a \in Patched : ByteOf(Patch, a - PatchAddress) = ByteOf(Patch, a - PatchAddress)
  OBVIOUS
<1> DEFINE d == Delivered(f)
           w == writeImm32(Patch, PatchAddress)
           l == Loaded(d)
<1>4. DOMAIN ram = 0 .. Len(d) - 1
  OBVIOUS
<1>5. w = [x \in (0 .. Len(d) - 1) \cup Patched |->
             IF x \in Patched THEN ByteOf(Patch, x - PatchAddress) ELSE ram[x]]
  BY <1>2, <1>4 DEF writeImm32, writeImm
<1>6. l = [x \in (0 .. Len(d) - 1) \cup Patched |->
             IF x \in Patched THEN ByteOf(Patch, x - PatchAddress) ELSE d[x + 1]]
  BY DEF Loaded
<1>7. \A x \in (0 .. Len(d) - 1) \cup Patched : x \notin Patched => ram[x] = d[x + 1]
  OBVIOUS
<1> HIDE DEF d, w, l
<1>8. w = l
  BY <1>5, <1>6, <1>7
<1> QED
  BY <1>1, <1>8 DEF d, w, l

(* main starts where the invariant holds.                                  *)
LEMMA BootInit == MainInit => BootIInv
  BY DEF MainInit, BootIInv, Phase

(* Every step of main keeps it.                                            *)
LEMMA BootKeeps ==
  ASSUME BootIInv, [MainNext]_mainVars
  PROVE  BootIInv'
<1>1. CASE Reset
  BY <1>1 DEF Reset, BootIInv, Phase, memoryVars
<1>2. CASE ReadFile
  <2>1. 0 \in 0 .. Len(Delivered(file))
    BY SMT, DeliveredTyped DEF BootIInv
  <2>2. ram' = Copied'
    <3>1. offset' - 1 = -1 /\ 0 .. -1 = {}
      BY SMT, <1>2 DEF ReadFile, BootIInv
    <3> QED
      BY <1>2, <3>1 DEF ReadFile, BootIInv, vars, Copied
  <2> QED
    BY SMT, <1>2, <2>1, <2>2, Widths DEF ReadFile, BootIInv, Phase, vars
<1>3. CASE ReadFails
  BY <1>3 DEF ReadFails, BootIInv, Phase, vars
<1>4. CASE LoadByte
  <2>1. LoadAddress = offset
    <3>1. registers["EIP"] = 0
      BY SMT, <1>4 DEF LoadByte, BootIInv, ResetRegisters, Slot
    <3> QED
      BY SMT, <1>4, <3>1 DEF LoadByte, BootIInv, LoadAddress
  <2>2. data = Delivered(file) /\ Len(data) \in Nat /\ offset \in Nat /\ offset < Len(data)
    BY SMT, <1>4, DeliveredTyped DEF LoadByte, BootIInv
  <2>3. offset + 1 \in 0 .. Len(data) /\ offset + 1 <= MemorySize
    BY SMT, <1>4, <2>1, <2>2, Widths DEF LoadByte, Address
  <2>4. ram' = [a \in 0 .. offset |-> data[a + 1]]
    <3>1. \A x \in 0 .. offset : x = offset \/ x \in 0 .. offset - 1
      BY SMT, <2>2
    <3>2. Window(offset, 1) = {offset} /\ (0 .. offset - 1) \cup {offset} = 0 .. offset
      BY SMT, <2>2 DEF Window
    <3>3. data[offset + 1] \in ByteValue
      <4>1. offset + 1 \in 1 .. Len(file.bytes)
        BY SMT, <2>2, DeliveredTyped DEF BootIInv
      <4> QED
        BY <2>2, <4>1, DeliveredTyped DEF BootIInv
    <3>4. ByteOf(data[offset + 1], 0) = data[offset + 1]
      BY SMT, <3>3 DEF ByteOf, ByteValue, Byte
    <3>5. offset - offset = 0
      BY SMT, <2>2
    <3>6. ram = [a \in 0 .. offset - 1 |-> data[a + 1]]
      BY <1>4 DEF LoadByte, BootIInv, Copied
    <3>7. ram' = [x \in (DOMAIN ram) \cup {offset} |->
                    IF x \in {offset} THEN ByteOf(data[offset + 1], x - offset) ELSE ram[x]]
      BY <1>4, <2>1, <3>2 DEF LoadByte, writeImm8, writeImm
    <3>8. DOMAIN ram = 0 .. offset - 1
      BY <3>6
    <3> QED
      BY <3>1, <3>2, <3>4, <3>5, <3>6, <3>7, <3>8
  <2>5. ram' = Copied'
    <3>1. offset' - 1 = offset
      BY SMT, <1>4, <2>2 DEF LoadByte
    <3> QED
      BY <1>4, <2>4, <3>1 DEF LoadByte, Copied
  <2> QED
    BY <1>4, <2>2, <2>3, <2>5 DEF LoadByte, BootIInv, Phase
<1>5. CASE LoadStrays
  <2>1. registers["EIP"] = 0
    BY SMT, <1>5 DEF LoadStrays, BootIInv, ResetRegisters, Slot
  <2>2. ~Fits(file.bytes)
    BY SMT, <1>5, <2>1, DeliveredTyped, Widths
       DEF LoadStrays, BootIInv, LoadAddress, Address, Fits
  <2> QED
    BY <1>5, <2>2 DEF LoadStrays, BootIInv, Phase
<1>6. CASE StorePatch
  <2>1. Fits(file.bytes)
    BY SMT, <1>6, DeliveredTyped DEF StorePatch, BootIInv, Fits
  <2>2. ram = [a \in 0 .. Len(Delivered(file)) - 1 |-> Delivered(file)[a + 1]]
    BY <1>6 DEF StorePatch, BootIInv, Copied
  <2>3. ram' = Loaded(Fitted(Delivered(file)))
    BY <1>6, <2>1, <2>2, PatchedImage DEF StorePatch, BootIInv
  <2>4. Fitted(Delivered(file)) \in Images
    BY DeliveryAssumption DEF BootIInv
  <2>5. Init'
    BY <1>6, <2>3, <2>4 DEF StorePatch, BootIInv, Init, cpuVars
  <2>6. IInv'
    BY <2>5, InitHolds, PTL
  <2> QED
    BY <1>6, <2>1, <2>6 DEF StorePatch, BootIInv, Phase
<1>7. CASE RunCycle
  <2>1. IInv'
    BY <1>7, CycleCompletes, StrayKeeps DEF RunCycle, BootIInv, Next
  <2>2. heap' \in Heaps
    BY <2>1 DEF IInv, TypeOK, MemoryTypeOK
  <2> QED
    BY <1>7, <2>1, <2>2 DEF RunCycle, BootIInv, Phase
<1>8. CASE Return
  <2>1. IInv'
    BY <1>8 DEF Return, BootIInv, vars, IInv, TypeOK, MemoryTypeOK, CPUTypeOK, FlagsCoherent
  <2> QED
    BY <1>8, <2>1 DEF Return, BootIInv, vars, Phase
<1>9. CASE UNCHANGED mainVars
  BY <1>9 DEF mainVars, vars, BootIInv, IInv, TypeOK, MemoryTypeOK, CPUTypeOK, FlagsCoherent, Copied
<1> QED
  BY <1>1, <1>2, <1>3, <1>4, <1>5, <1>6, <1>7, <1>8, <1>9 DEF MainNext, Boot

-----------------------------------------------------------------------------
IsReset == registers = ResetRegisters /\ flags = ResetFlags /\ isHalted = FALSE
StartsTyped == CPUTypeOK /\ registers["EIP"] <= MemorySize

(* A reset processor has the type that I386 promises.                      *)
LEMMA ResetTyped == IsReset => StartsTyped
<1> SUFFICES ASSUME IsReset PROVE StartsTyped
  OBVIOUS
<1>1. 65535 \in DwordValue /\ 0 \in DwordValue
  BY SMT, Widths DEF DwordValue
<1>2. registers \in [Slot -> DwordValue]
  BY SMT, <1>1 DEF IsReset, ResetRegisters
<1>3. flags \in [Flag -> {0, 1}]
  BY SMT DEF IsReset, ResetFlags
<1>4. registers["EIP"] <= MemorySize
  BY SMT, Widths DEF IsReset, ResetRegisters, Slot
<1> QED
  BY <1>2, <1>3, <1>4 DEF IsReset, StartsTyped, CPUTypeOK

\* Statements of main that leave the processor alone.
CPUKept ==
  /\ UNCHANGED <<registers, flags, isHalted>>
  /\ phase # "reset"

(* What a statement of the boot sequence leaves alone keeps its type.      *)
LEMMA CPUKeepsType ==
  ASSUME MainTypeOK, CPUKept
  PROVE  CPUTypeOK' /\ registers'["EIP"] <= MemorySize
  BY DEF MainTypeOK, CPUKept, CPUTypeOK, TypeOK

LEMMA MemoryKeepsType ==
  ASSUME MainTypeOK, heap' = heap, ram' = ram, strayed' \in BOOLEAN
  PROVE  MemoryTypeOK'
  BY DEF MainTypeOK, MemoryTypeOK

(* The variables of main keep their types, given what the boot sequence    *)
(* has done so far.                                                        *)
LEMMA MainTypesKept ==
  ASSUME MainTypeOK, BootIInv, [MainNext]_mainVars
  PROVE  MainTypeOK'
<1>1. file' = file /\ phase' \in Phase
  <2>1. phase \in Phase
    BY DEF BootIInv
  <2> QED
    BY <2>1 DEF MainNext, Boot, Reset, ReadFile, ReadFails, LoadByte, LoadStrays, StorePatch,
                RunCycle, Return, mainVars, Phase
<1>2. file' \in Files
  BY <1>1 DEF BootIInv
<1>3. data' \in {<<>>, Delivered(file')} /\ offset' \in 0 .. Len(data')
  <2>1. CASE ReadFile
    <3>1. data' = Delivered(file) /\ offset' = 0
      BY <2>1 DEF ReadFile, BootIInv
    <3>2. Len(Delivered(file)) \in Nat
      BY DeliveredTyped DEF BootIInv
    <3> QED
      BY SMT, <1>1, <3>1, <3>2
  <2>2. CASE LoadByte
    <3>1. data = Delivered(file) /\ Len(data) \in Nat
      BY <2>2, DeliveredTyped DEF LoadByte, BootIInv
    <3>2. offset \in 0 .. Len(data) /\ offset < Len(data) /\ offset' = offset + 1 /\ data' = data
      BY <2>2 DEF LoadByte, MainTypeOK
    <3> QED
      BY SMT, <1>1, <3>1, <3>2
  <2>3. CASE ~ReadFile /\ ~LoadByte
    <3>1. data' = data /\ offset' = offset
      BY <2>3 DEF MainNext, Boot, Reset, ReadFails, LoadStrays, StorePatch, RunCycle, Return, mainVars
    <3> QED
      BY <1>1, <3>1 DEF MainTypeOK
  <2> QED
    BY <2>1, <2>2, <2>3
<1>4. MemoryTypeOK' /\ CPUTypeOK' /\ (phase' # "reset" => TypeOK')
  <2>1. CASE Reset
    <3>1. IsReset'
      BY <2>1 DEF Reset, IsReset
    <3>2. StartsTyped'
      BY <3>1, ResetTyped, PTL
    <3>3. MemoryTypeOK'
      BY <2>1, MemoryKeepsType DEF Reset, memoryVars, MainTypeOK, MemoryTypeOK
    <3> QED
      BY <3>2, <3>3 DEF StartsTyped, TypeOK
  <2>2. CASE ReadFile \/ ReadFails
    <3>1. CPUKept
      BY <2>2 DEF ReadFile, ReadFails, CPUKept, vars
    <3>2. MemoryTypeOK'
      BY <2>2, MemoryKeepsType DEF ReadFile, ReadFails, vars, MainTypeOK, MemoryTypeOK
    <3> QED
      BY <3>1, <3>2, CPUKeepsType DEF TypeOK
  <2>3. CASE LoadByte
    <3>1. CPUKept
      BY <2>3 DEF LoadByte, CPUKept
    <3>2. LoadAddress \in Nat
      BY SMT, <2>3, Widths DEF LoadByte, Address
    <3>3. Window(LoadAddress, 1) \subseteq Address
      BY SMT, <2>3, <3>2 DEF LoadByte, Window
    <3>4. data[offset + 1] \in Nat
      <4>1. data = Delivered(file) /\ file \in Files
        BY <2>3 DEF LoadByte, BootIInv
      <4>2. offset \in Nat /\ offset < Len(data) /\ Len(data) = Len(file.bytes)
        BY SMT, <2>3, <4>1, DeliveredTyped DEF LoadByte, BootIInv
      <4>3. offset + 1 \in 1 .. Len(file.bytes)
        BY SMT, <4>1, <4>2, DeliveredTyped
      <4>4. data[offset + 1] \in ByteValue
        BY <4>1, <4>3, DeliveredTyped
      <4> QED
        BY SMT, <4>4 DEF ByteValue, Byte
    <3>5. ram' = writeImm(data[offset + 1], LoadAddress, 1) /\ heap' = heap /\ strayed' = strayed
      BY <2>3 DEF LoadByte, writeImm8
    <3>6. MemoryTypeOK
      BY DEF MainTypeOK
    <3>7. 1 \in Size
      BY DEF Size
    <3>8. MemoryTypeOK'
      BY <3>2, <3>3, <3>4, <3>5, <3>6, <3>7, WriteTyped DEF MemoryTypeOK
    <3> QED
      BY <3>1, <3>8, CPUKeepsType DEF TypeOK
  <2>4. CASE LoadStrays
    <3>1. CPUKept
      BY <2>4 DEF LoadStrays, CPUKept
    <3>2. MemoryTypeOK'
      BY <2>4, MemoryKeepsType DEF LoadStrays
    <3> QED
      BY <3>1, <3>2, CPUKeepsType DEF TypeOK
  <2>5. CASE StorePatch \/ RunCycle \/ Return
    <3>1. phase' \in {"run", "returned"}
      BY <2>5 DEF StorePatch, RunCycle, Return
    <3>2. IInv'
      BY <3>1, BootKeeps DEF BootIInv
    <3> QED
      BY <3>2 DEF IInv, TypeOK
  <2>6. CASE UNCHANGED mainVars
    BY <2>6 DEF mainVars, vars, MainTypeOK, TypeOK, MemoryTypeOK, CPUTypeOK
  <2> QED
    BY <2>1, <2>2, <2>3, <2>4, <2>5, <2>6 DEF MainNext, Boot
<1> QED
  BY <1>1, <1>2, <1>3, <1>4 DEF MainTypeOK

LEMMA BootInvariance == MainSpec => []BootIInv
<1>1. BootIInv /\ [MainNext]_mainVars => BootIInv'
  BY BootKeeps
<1> QED
  BY BootInit, <1>1, PTL DEF MainSpec
-----------------------------------------------------------------------------
(* Before its first cycle the program gets lost on no other files than     *)
(* those that do not open, cannot be measured or do not fit the array, and *)
(* none of those reaches the loop.                                         *)
THEOREM OnlyBadFiles == MainSpec => []OnlyBadFilesCrash
<1>1. BootIInv => OnlyBadFilesCrash
  BY DEF BootIInv, OnlyBadFilesCrash, Looping
<1> QED
  BY <1>1, BootInvariance, PTL

(* The variables of main keep their types, and from reset() on those of    *)
(* the machine have the stronger one of I386, whatever the frame held and  *)
(* whatever the file is.                                                   *)
THEOREM MainTypeCorrect == MainSpec => []MainTypeOK
<1>1. MainInit => MainTypeOK
  <2> SUFFICES ASSUME MainInit PROVE MainTypeOK
    OBVIOUS
  <2>1. CPUTypeOK
    BY LeftoverAssumption DEF MainInit, CPUTypeOK
  <2>2. MemoryTypeOK
    BY DEF MainInit, MemoryTypeOK
  <2>3. offset \in 0 .. Len(data)
    BY SMT DEF MainInit
  <2> QED
    BY <2>1, <2>2, <2>3 DEF MainInit, MainTypeOK, Phase
<1>2. MainTypeOK /\ BootIInv /\ [MainNext]_mainVars => MainTypeOK'
  BY MainTypesKept
<1> QED
  BY <1>1, <1>2, BootInvariance, PTL DEF MainSpec

-----------------------------------------------------------------------------
(* The refinement.  The instance Machine is I386 over the variables as     *)
(* they are seen from the loop.  While main boots these stand still at the *)
(* initial state it is heading for, which is the state that StorePatch     *)
(* completes.  In the loop they are the variables themselves: SameSteps    *)
(* carries that from the accessors of the memory through every operator of *)
(* the model up to Next.                                                   *)

(* The operators of the initial state are those of the instance.           *)
LEMMA SameStart ==
  /\ Machine!ResetRegisters = ResetRegisters
  /\ Machine!ResetFlags = ResetFlags
  /\ \A img : Machine!Loaded(img) = Loaded(img)
<1>1. Machine!Byte = Byte /\ Machine!Word = Word /\ Machine!Patch = Patch
  BY DEF Byte, Machine!Byte, Word, Machine!Word, Patch, Machine!Patch
<1>2. Machine!Segment = Segment /\ Machine!Flag = Flag
  BY DEF Segment, Machine!Segment, Flag, Machine!Flag
<1>3. Machine!Slot = Slot
  BY <1>2 DEF Slot, Machine!Slot
<1>4. Machine!ResetRegisters = ResetRegisters
  BY <1>3 DEF ResetRegisters, Machine!ResetRegisters
<1>5. Machine!ResetFlags = ResetFlags
  BY <1>2 DEF ResetFlags, Machine!ResetFlags
<1>6. Machine!Patched = Patched
  BY DEF Patched, Machine!Patched, Window, Machine!Window
<1>7. \A v, i : Machine!ByteOf(v, i) = ByteOf(v, i)
  BY <1>1 DEF ByteOf, Machine!ByteOf
<1>8. \A img : Machine!Loaded(img) = Loaded(img)
  BY <1>1, <1>6, <1>7 DEF Loaded, Machine!Loaded
<1> QED
  BY <1>4, <1>5, <1>8

(* In the loop a step of the instance is a step of the machine.            *)
LEMMA SameSteps ==
  ASSUME Looping, Looping'
  PROVE  Machine!Next <=> Next
<1>0. /\ SeenRam = ram /\ SeenStrayed = strayed /\ SeenRegisters = registers
      /\ SeenFlags = flags /\ SeenHalted = isHalted
      /\ SeenRam' = ram' /\ SeenStrayed' = strayed' /\ SeenRegisters' = registers'
      /\ SeenFlags' = flags' /\ SeenHalted' = isHalted'
  BY DEF SeenRam, SeenStrayed, SeenRegisters, SeenFlags, SeenHalted
\* What depends on no variable.
<1>1. /\ Machine!Byte = Byte
      /\ Machine!Word = Word
      /\ Machine!Dword = Dword
      /\ Machine!Address = Address
      /\ Machine!OPERAND_SIZE = OPERAND_SIZE
      /\ Machine!ADDRESS_SIZE = ADDRESS_SIZE
      /\ Machine!Patch = Patch
  BY SMT DEF Byte, Machine!Byte, Word, Machine!Word, Dword, Machine!Dword, Address, Machine!Address,
     OPERAND_SIZE, Machine!OPERAND_SIZE, ADDRESS_SIZE, Machine!ADDRESS_SIZE, Patch, Machine!Patch
<1>2. /\ Machine!General = General
      /\ Machine!General16 = General16
      /\ Machine!General8 = General8
      /\ Machine!Segment = Segment
      /\ Machine!Low16 = Low16
      /\ Machine!Low8 = Low8
      /\ Machine!High8 = High8
      /\ Machine!Flag = Flag
      /\ Machine!InstructionPrefix = InstructionPrefix
      /\ Machine!Defined = Defined
  BY SMT DEF General, Machine!General, General16, Machine!General16, General8, Machine!General8,
     Segment, Machine!Segment, Low16, Machine!Low16, Low8, Machine!Low8, High8, Machine!High8, Flag,
     Machine!Flag, InstructionPrefix, Machine!InstructionPrefix, Defined, Machine!Defined
<1>3. /\ \A m : Machine!ModOf(m) = ModOf(m)
      /\ \A m : Machine!RegOf(m) = RegOf(m)
      /\ \A m : Machine!RmOf(m) = RmOf(m)
  BY SMT DEF ModOf, Machine!ModOf, RegOf, Machine!RegOf, RmOf, Machine!RmOf
<1>4. /\ \A op : Machine!HasModRM(op) <=> HasModRM(op)
      /\ \A op : Machine!HasImmediate(op) <=> HasImmediate(op)
  BY SMT DEF HasModRM, Machine!HasModRM, HasImmediate, Machine!HasImmediate
<1>5. /\ \A op : Machine!IsPush(op) <=> IsPush(op)
      /\ \A op : Machine!IsPop(op) <=> IsPop(op)
  BY SMT DEF IsPush, Machine!IsPush, IsPop, Machine!IsPop
<1>6. /\ \A x, y, p : Machine!OrBit(x, y, p) = OrBit(x, y, p)
      /\ \A b : Machine!SetBits(b) = SetBits(b)
      /\ \A b : Machine!Bit(b) = Bit(b)
  BY SMT DEF OrBit, Machine!OrBit, SetBits, Machine!SetBits, Bit, Machine!Bit
<1>7. \A a, n : Machine!Window(a, n) = Window(a, n)
  BY DEF Window, Machine!Window
<1>8. \A reg : Machine!SlotOf(reg) = SlotOf(reg)
  BY DEF SlotOf, Machine!SlotOf
<1>9. \A n : Machine!PopStep(n) = PopStep(n)
  BY DEF PopStep, Machine!PopStep
<1>10. /\ \A v, i : Machine!ByteOf(v, i) = ByteOf(v, i)
       /\ \A n : Machine!Modulus(n) = Modulus(n)
       /\ \A n, k : Machine!Numbered(n, k) = Numbered(n, k)
       /\ Machine!Patched = Patched
  BY SMT, <1>1, <1>2, <1>7 DEF ByteOf, Machine!ByteOf, Modulus, Machine!Modulus, Numbered,
     Machine!Numbered, Patched, Machine!Patched
<1>11. /\ Machine!Slot = Slot
       /\ \A reg, x : Machine!ViewOf(reg, x) = ViewOf(reg, x)
       /\ \A reg, x, v : Machine!StoredIn(reg, x, v) = StoredIn(reg, x, v)
       /\ \A regs, slot, n : Machine!Moved(regs, slot, n) = Moved(regs, slot, n)
       /\ Machine!ResetFlags = ResetFlags
       /\ \A regs, op, consumed :
              Machine!NextInstruction(regs, op, consumed) = NextInstruction(regs, op, consumed)
  BY SMT, <1>1, <1>2 DEF Slot, Machine!Slot, ViewOf, Machine!ViewOf, StoredIn, Machine!StoredIn,
     Moved, Machine!Moved, ResetFlags, Machine!ResetFlags, NextInstruction, Machine!NextInstruction
<1>12. /\ \A x, y : Machine!OrByte(x, y) = OrByte(x, y)
       /\ \A c, f, s : Machine!HalfCarry(c, f, s) = HalfCarry(c, f, s)
  BY SMT, <1>6 DEF OrByte, Machine!OrByte, HalfCarry, Machine!HalfCarry
<1>13. \A wide, m : Machine!DisplacementBytes(wide, m) = DisplacementBytes(wide, m)
  BY <1>3 DEF DisplacementBytes, Machine!DisplacementBytes
<1>14. \A op : Machine!a32(op) = a32(op)
  BY <1>1 DEF a32, Machine!a32
<1>15. \A op : Machine!OperandSize(op) = OperandSize(op)
  BY <1>1 DEF OperandSize, Machine!OperandSize
<1>16. \A op : Machine!SizeOf(op) = SizeOf(op)
  BY <1>15 DEF SizeOf, Machine!SizeOf
<1>17. /\ \A regs, reg, v : Machine!setRegister(regs, reg, v) = setRegister(regs, reg, v)
       /\ Machine!ResetRegisters = ResetRegisters
       /\ \A n, m : Machine!TopRegister(n, m) = TopRegister(n, m)
       /\ \A n, m : Machine!RmRegister(n, m) = RmRegister(n, m)
       /\ \A wide, m : Machine!DisplacementStep(wide, m) = DisplacementStep(wide, m)
       /\ \A x, y : Machine!OrValue(x, y) = OrValue(x, y)
       /\ \A n, r : Machine!SignOf(n, r) = SignOf(n, r)
       /\ \A img : Machine!Loaded(img) = Loaded(img)
  BY SMT, <1>1, <1>3, <1>8, <1>10, <1>11, <1>12, <1>13 DEF setRegister, Machine!setRegister,
     ResetRegisters, Machine!ResetRegisters, TopRegister, Machine!TopRegister, RmRegister,
     Machine!RmRegister, DisplacementStep, Machine!DisplacementStep, OrValue, Machine!OrValue,
     SignOf, Machine!SignOf, Loaded, Machine!Loaded
\* What reads the memory, the registers or the flags.
<1>18. \A a : Machine!readImm8(a) = readImm8(a)
  BY <1>0 DEF readImm8, Machine!readImm8
<1>19. \A v, a, n : Machine!writeImm(v, a, n) = writeImm(v, a, n)
  BY <1>0, <1>7, <1>10 DEF writeImm, Machine!writeImm
<1>20. \A reg : Machine!getRegister(reg) = getRegister(reg)
  BY <1>0, <1>8, <1>11 DEF getRegister, Machine!getRegister
<1>21. \A m : Machine!sibByte32bit(m) = sibByte32bit(m)
  BY <1>0, <1>1, <1>2, <1>3 DEF sibByte32bit, Machine!sibByte32bit
<1>22. Machine!PushAddress = PushAddress
  BY <1>0, <1>1 DEF PushAddress, Machine!PushAddress
<1>23. Machine!PopAddress = PopAddress
  BY <1>0, <1>1 DEF PopAddress, Machine!PopAddress
<1>24. \A n : Machine!AfterPush(n) = AfterPush(n)
  BY <1>0, <1>11 DEF AfterPush, Machine!AfterPush
<1>25. \A n : Machine!AfterPop(n) = AfterPop(n)
  BY <1>0, <1>9, <1>11 DEF AfterPop, Machine!AfterPop
<1>26. \A alu : Machine!CarryIn(alu) = CarryIn(alu)
  BY <1>0 DEF CarryIn, Machine!CarryIn
<1>27. \A n, r : Machine!Described(n, r) = Described(n, r)
  BY <1>0, <1>1, <1>6, <1>17 DEF Described, Machine!Described
<1>28. Machine!Running <=> Running
  BY <1>0 DEF Running, Machine!Running
<1>29. \A a : Machine!readImm16(a) = readImm16(a)
  BY <1>0, <1>1, <1>18 DEF readImm16, Machine!readImm16
<1>30. \A v, a : Machine!writeImm16(v, a) = writeImm16(v, a)
  BY <1>0, <1>19 DEF writeImm16, Machine!writeImm16
<1>31. \A m : Machine!Base16(m) = Base16(m)
  BY <1>0, <1>3, <1>20 DEF Base16, Machine!Base16
<1>32. \A m : Machine!Base32(m) = Base32(m)
  BY <1>0, <1>2, <1>3, <1>21 DEF Base32, Machine!Base32
<1>33. \A op : Machine!ModRM(op) = ModRM(op)
  BY <1>0, <1>18 DEF ModRM, Machine!ModRM
<1>34. \A alu, n, f, s : Machine!Raw(alu, n, f, s) = Raw(alu, n, f, s)
  BY <1>0, <1>1, <1>17, <1>26 DEF Raw, Machine!Raw
<1>35. \A n : Machine!PrefixRun(n) <=> PrefixRun(n)
  BY <1>0, <1>1, <1>2, <1>18 DEF PrefixRun, Machine!PrefixRun
<1>36. \A n : Machine!Opcode(n) = Opcode(n)
  BY <1>0, <1>18 DEF Opcode, Machine!Opcode
<1>37. \A a : Machine!readImm32(a) = readImm32(a)
  BY <1>0, <1>1, <1>18, <1>29 DEF readImm32, Machine!readImm32
<1>38. \A alu, n, f, s : Machine!Result(alu, n, f, s) = Result(alu, n, f, s)
  BY <1>0, <1>10, <1>34 DEF Result, Machine!Result
<1>39. \A n, op : Machine!SecondOperand(n, op) = SecondOperand(n, op)
  BY <1>0, <1>10, <1>17, <1>20, <1>33 DEF SecondOperand, Machine!SecondOperand
<1>40. \A regs, op : Machine!AfterModRM(regs, op) = AfterModRM(regs, op)
  BY <1>0, <1>11, <1>14, <1>17, <1>33 DEF AfterModRM, Machine!AfterModRM
<1>41. \A n : Machine!Fetched(n) <=> Fetched(n)
  BY <1>0, <1>2, <1>35, <1>36 DEF Fetched, Machine!Fetched
<1>42. \A op : Machine!LastByteRead(op) = LastByteRead(op)
  BY <1>0, <1>4, <1>13, <1>14, <1>16, <1>33 DEF LastByteRead, Machine!LastByteRead
<1>43. \A a, n : Machine!readImm(a, n) = readImm(a, n)
  BY <1>0, <1>18, <1>29, <1>37 DEF readImm, Machine!readImm
<1>44. \A n, f, s : Machine!AddFlags(n, f, s) = AddFlags(n, f, s)
  BY <1>0, <1>12, <1>17, <1>27, <1>38 DEF AddFlags, Machine!AddFlags
<1>45. \A n, f, s : Machine!AdcFlags(n, f, s) = AdcFlags(n, f, s)
  BY <1>0, <1>12, <1>17, <1>27, <1>38 DEF AdcFlags, Machine!AdcFlags
<1>46. \A n, f, s : Machine!OrFlags(n, f, s) = OrFlags(n, f, s)
  BY <1>0, <1>27, <1>38 DEF OrFlags, Machine!OrFlags
<1>47. \A m, at : Machine!ModRMValue16bit(m, at) = ModRMValue16bit(m, at)
  BY <1>0, <1>13, <1>31, <1>43 DEF ModRMValue16bit, Machine!ModRMValue16bit
<1>48. \A m, at : Machine!ModRMValue32bit(m, at) = ModRMValue32bit(m, at)
  BY <1>0, <1>1, <1>13, <1>32, <1>43 DEF ModRMValue32bit, Machine!ModRMValue32bit
<1>49. \A alu, n, f, s : Machine!FlagsAfter(alu, n, f, s) = FlagsAfter(alu, n, f, s)
  BY <1>0, <1>44, <1>45, <1>46 DEF FlagsAfter, Machine!FlagsAfter
<1>50. \A n, op : Machine!OperandAddress(n, op) = OperandAddress(n, op)
  BY <1>0, <1>1, <1>14, <1>33, <1>47, <1>48 DEF OperandAddress, Machine!OperandAddress
<1>51. \A n, op : Machine!FirstOperand(n, op) = FirstOperand(n, op)
  BY <1>0, <1>3, <1>17, <1>20, <1>33, <1>43, <1>50 DEF FirstOperand, Machine!FirstOperand
<1>52. \A op : Machine!DataWindow(op) = DataWindow(op)
  BY <1>0, <1>3, <1>4, <1>5, <1>7, <1>16, <1>22, <1>23, <1>33, <1>50 DEF DataWindow,
     Machine!DataWindow
<1>53. \A op : Machine!InArray(op) <=> InArray(op)
  BY <1>0, <1>1, <1>42, <1>52 DEF InArray, Machine!InArray
\* The steps.
<1>54. /\ \A alu, n, op : Machine!IntoRm(alu, n, op) <=> IntoRm(alu, n, op)
       /\ \A alu, n, op : Machine!IntoR(alu, n, op) <=> IntoR(alu, n, op)
       /\ \A alu, n, op : Machine!IntoAccumulator(alu, n, op) <=> IntoAccumulator(alu, n, op)
       /\ \A reg, op : Machine!PushSegment(reg, op) <=> PushSegment(reg, op)
       /\ \A reg, op : Machine!PopSegment(reg, op) <=> PopSegment(reg, op)
       /\ \A op : Machine!halt(op) <=> halt(op)
       /\ \A op : Machine!SkipOpcode(op) <=> SkipOpcode(op)
       /\ Machine!CycleStrays <=> CycleStrays
  BY SMT, <1>0, <1>1, <1>3, <1>10, <1>11, <1>17, <1>19, <1>20, <1>22, <1>23, <1>24, <1>25, <1>28,
     <1>29, <1>30, <1>33, <1>34, <1>35, <1>36, <1>39, <1>40, <1>41, <1>43, <1>49, <1>50, <1>51,
     <1>53 DEF IntoRm, Machine!IntoRm, IntoR, Machine!IntoR, memoryVars, Machine!memoryVars,
     IntoAccumulator, Machine!IntoAccumulator, PushSegment, Machine!PushSegment, PopSegment,
     Machine!PopSegment, halt, Machine!halt, SkipOpcode, Machine!SkipOpcode, CycleStrays,
     Machine!CycleStrays
<1>55. /\ \A op : Machine!add_rm8_r8(op) <=> add_rm8_r8(op)
       /\ \A op : Machine!add_rm16_32_r16_32(op) <=> add_rm16_32_r16_32(op)
       /\ \A op : Machine!add_r8_rm8(op) <=> add_r8_rm8(op)
       /\ \A op : Machine!add_r16_32_rm16_32(op) <=> add_r16_32_rm16_32(op)
       /\ \A op : Machine!add_al_imm8(op) <=> add_al_imm8(op)
       /\ \A op : Machine!add_eAX_imm16_32(op) <=> add_eAX_imm16_32(op)
       /\ \A op : Machine!or_rm8_r8(op) <=> or_rm8_r8(op)
       /\ \A op : Machine!or_rm16_32_r16_32(op) <=> or_rm16_32_r16_32(op)
       /\ \A op : Machine!or_r8_rm8(op) <=> or_r8_rm8(op)
       /\ \A op : Machine!or_r16_32_rm16_32(op) <=> or_r16_32_rm16_32(op)
       /\ \A op : Machine!or_al_imm8(op) <=> or_al_imm8(op)
       /\ \A op : Machine!or_eAX_imm16_32(op) <=> or_eAX_imm16_32(op)
       /\ \A op : Machine!adc_rm8_r8(op) <=> adc_rm8_r8(op)
       /\ \A op : Machine!adc_rm16_32_r16_32(op) <=> adc_rm16_32_r16_32(op)
       /\ \A op : Machine!adc_r8_rm8(op) <=> adc_r8_rm8(op)
       /\ \A op : Machine!adc_r16_32_rm16_32(op) <=> adc_r16_32_rm16_32(op)
       /\ \A op : Machine!adc_al_imm8(op) <=> adc_al_imm8(op)
       /\ \A op : Machine!adc_eAX_imm16_32(op) <=> adc_eAX_imm16_32(op)
       /\ \A op : Machine!push_es(op) <=> push_es(op)
       /\ \A op : Machine!push_cs(op) <=> push_cs(op)
       /\ \A op : Machine!push_ss(op) <=> push_ss(op)
       /\ \A op : Machine!pop_es(op) <=> pop_es(op)
       /\ \A op : Machine!pop_ss(op) <=> pop_ss(op)
       /\ \A op : Machine!TwoByteOpcode(op) <=> TwoByteOpcode(op)
       /\ \A op : Machine!InvalidOpcode(op) <=> InvalidOpcode(op)
  BY SMT, <1>0, <1>15, <1>54 DEF add_rm8_r8, Machine!add_rm8_r8, add_rm16_32_r16_32,
     Machine!add_rm16_32_r16_32, add_r8_rm8, Machine!add_r8_rm8, add_r16_32_rm16_32,
     Machine!add_r16_32_rm16_32, add_al_imm8, Machine!add_al_imm8, add_eAX_imm16_32,
     Machine!add_eAX_imm16_32, or_rm8_r8, Machine!or_rm8_r8, or_rm16_32_r16_32,
     Machine!or_rm16_32_r16_32, or_r8_rm8, Machine!or_r8_rm8, or_r16_32_rm16_32,
     Machine!or_r16_32_rm16_32, or_al_imm8, Machine!or_al_imm8, or_eAX_imm16_32,
     Machine!or_eAX_imm16_32, adc_rm8_r8, Machine!adc_rm8_r8, adc_rm16_32_r16_32,
     Machine!adc_rm16_32_r16_32, adc_r8_rm8, Machine!adc_r8_rm8, adc_r16_32_rm16_32,
     Machine!adc_r16_32_rm16_32, adc_al_imm8, Machine!adc_al_imm8, adc_eAX_imm16_32,
     Machine!adc_eAX_imm16_32, push_es, Machine!push_es, push_cs, Machine!push_cs, push_ss,
     Machine!push_ss, pop_es, Machine!pop_es, pop_ss, Machine!pop_ss, TwoByteOpcode,
     Machine!TwoByteOpcode, InvalidOpcode, Machine!InvalidOpcode
<1>56. \A op : Machine!Execute(op) <=> Execute(op)
  BY <1>0, <1>2, <1>54, <1>55 DEF Execute, Machine!Execute
<1>57. Machine!Cycle <=> Cycle
  BY <1>0, <1>28, <1>36, <1>41, <1>53, <1>56 DEF Cycle, Machine!Cycle
<1>58. Machine!Next <=> Next
  BY <1>0, <1>54, <1>57 DEF Next, Machine!Next
<1> QED
  BY <1>58

-----------------------------------------------------------------------------
\* The machine as it is seen before the loop.
Expected ==
  /\ SeenRam = Loaded(Fitted(Delivered(file)))
  /\ SeenStrayed = FALSE
  /\ SeenRegisters = ResetRegisters
  /\ SeenFlags = ResetFlags
  /\ SeenHalted = FALSE

\* Nothing that is seen of the machine changes.
SeenUnchanged == UNCHANGED <<heap, SeenRam, SeenStrayed, SeenRegisters, SeenFlags, SeenHalted>>

(* A step of main is seen as a step of the machine, or not at all.         *)
LEMMA StepSeen ==
  ASSUME BootIInv, [MainNext]_mainVars
  PROVE  [Machine!Next]_(Machine!vars)
<1>1. SeenUnchanged => UNCHANGED Machine!vars
  BY DEF SeenUnchanged, Machine!vars
<1>2. CASE Reset \/ ReadFile \/ ReadFails \/ LoadByte \/ LoadStrays
  <2>1. ~Looping /\ ~Looping' /\ file' = file /\ heap' = heap
    BY <1>2 DEF Reset, ReadFile, ReadFails, LoadByte, LoadStrays, Looping, memoryVars, vars
  <2>2. SeenUnchanged
    BY <2>1 DEF SeenUnchanged, SeenRam, SeenStrayed, SeenRegisters, SeenFlags, SeenHalted
  <2> QED
    BY <1>1, <2>2
<1>3. CASE StorePatch
  <2>1. ~Looping /\ Looping' /\ file' = file /\ heap' = heap
    BY <1>3 DEF StorePatch, Looping
  <2>2. Fits(file.bytes)
    BY SMT, <1>3, DeliveredTyped DEF StorePatch, BootIInv, Fits
  <2>3. ram = [a \in 0 .. Len(Delivered(file)) - 1 |-> Delivered(file)[a + 1]]
    BY <1>3 DEF StorePatch, BootIInv, Copied
  <2>4. ram' = Loaded(Fitted(Delivered(file)))
    BY <1>3, <2>2, <2>3, PatchedImage DEF StorePatch, BootIInv
  <2>5. /\ strayed' = FALSE /\ registers' = ResetRegisters
        /\ flags' = ResetFlags /\ isHalted' = FALSE
    BY <1>3 DEF StorePatch, BootIInv, cpuVars
  <2>6. Expected
    BY <2>1 DEF Expected, SeenRam, SeenStrayed, SeenRegisters, SeenFlags, SeenHalted
  <2>7. Expected'
    BY <2>1, <2>4, <2>5 DEF Expected, SeenRam, SeenStrayed, SeenRegisters, SeenFlags, SeenHalted
  <2>8. SeenUnchanged
    BY <2>1, <2>6, <2>7 DEF Expected, SeenUnchanged
  <2> QED
    BY <1>1, <2>8
<1>4. CASE RunCycle
  <2>1. Looping /\ Looping' /\ Next
    BY <1>4 DEF RunCycle, Looping
  <2> QED
    BY <2>1, SameSteps
<1>5. CASE Return \/ UNCHANGED mainVars
  <2>1. Looping' = Looping /\ file' = file /\ UNCHANGED vars
    BY <1>5 DEF Return, mainVars, vars, Looping
  <2>2. SeenUnchanged
    BY <2>1 DEF vars, SeenUnchanged, SeenRam, SeenStrayed, SeenRegisters, SeenFlags, SeenHalted
  <2> QED
    BY <1>1, <2>2
<1> QED
  BY <1>2, <1>3, <1>4, <1>5 DEF MainNext, Boot

(* The whole program implements the machine: whatever the frame of main    *)
(* held and whatever the file delivers, the loop is entered in an initial  *)
(* state of I386, and every later step of main is a cycle or is not seen.  *)
THEOREM MainImplementsMachine == MainSpec => BootsTheMachine
<1>1. MainInit => Machine!Init
  <2> SUFFICES ASSUME MainInit PROVE Machine!Init
    OBVIOUS
  <2>1. ~Looping /\ file \in Files /\ heap \in Heaps
    BY DEF MainInit, Looping
  <2>2. Expected
    BY <2>1 DEF Expected, SeenRam, SeenStrayed, SeenRegisters, SeenFlags, SeenHalted
  <2>3. Fitted(Delivered(file)) \in Images
    BY <2>1, DeliveryAssumption
  <2> QED
    BY <2>1, <2>2, <2>3, SameStart DEF Expected, Machine!Init
<1>2. BootIInv /\ [MainNext]_mainVars => [Machine!Next]_(Machine!vars)
  BY StepSeen
<1> QED
  BY <1>1, <1>2, BootInvariance, PTL DEF MainSpec, BootsTheMachine, Machine!Spec

-----------------------------------------------------------------------------
(* The machine's theorems over the variables of main *)

(* A turn of the loop starts in the invariant of the machine, and it is    *)
(* never idle: EIP moves, or the machine strays.                           *)
LEMMA TurnIsAStep ==
  ASSUME BootIInv, RunCycle
  PROVE  IInv /\ [Next]_vars /\ vars' # vars
<1>1. phase = "run" /\ Next /\ IInv
  BY DEF RunCycle, BootIInv
<1>2. CASE Cycle
  <2>1. registers'["EIP"] \in (registers["EIP"] + 1) .. MemorySize
    BY <1>1, <1>2, CycleCompletes
  <2>2. registers["EIP"] \in Int
    BY SMT, <1>1, Widths DEF IInv, TypeOK, CPUTypeOK, Slot, DwordValue
  <2> DEFINE a == registers["EIP"]
             b == registers'["EIP"]
  <2>3. a # b
    <3> HIDE DEF a, b
    <3>1. a \in Int /\ b \in (a + 1) .. MemorySize
      BY <2>1, <2>2 DEF a, b
    <3> QED
      BY SMT, <3>1, Widths
  <2> QED
    BY <1>1, <2>3 DEF vars
<1>3. CASE CycleStrays
  <2>1. strayed' # strayed
    BY <1>3 DEF CycleStrays, Running
  <2> QED
    BY <1>1, <2>1 DEF vars
<1> QED
  BY <1>1, <1>2, <1>3 DEF Next

(* In an array with the room of that of main no instruction of the file    *)
(* leaves it but through 32 bit addressing, the stack, or the end.         *)
THEOREM LoopStaysInside ==
  ASSUME RoomForSums
  PROVE  MainSpec => [][RunCycle => InsideStep]_mainVars
<1>1. ASSUME BootIInv, RunCycle PROVE InsideStep
  BY <1>1, TurnIsAStep, InsideStepHolds
<1>2. BootIInv /\ [MainNext]_mainVars => [RunCycle => InsideStep]_mainVars
  BY <1>1
<1> QED
  BY <1>2, BootInvariance, PTL DEF MainSpec

(* The program implements Walk, as the machine does: the boot sequence is  *)
(* seen as a machine that stands at address 0.                             *)
THEOREM ProgramWalksOnce == MainSpec => ProgramWalks
<1> DEFINE at     == SeenRegisters["EIP"]
           status == IF Looping THEN Status ELSE "running"
<1>1. MainInit => Walked!Init
  <2> SUFFICES ASSUME MainInit PROVE Walked!Init
    OBVIOUS
  <2>1. ~Looping
    BY DEF MainInit, Looping
  <2>2. ResetRegisters["EIP"] = 0
    BY SMT DEF ResetRegisters, Slot
  <2> QED
    BY <2>1, <2>2 DEF Walked!Init, SeenRegisters
<1>2. BootIInv /\ [MainNext]_mainVars => [Walked!Next]_<<at, status>>
  <2> SUFFICES ASSUME BootIInv, [MainNext]_mainVars
               PROVE  [Walked!Next]_<<at, status>>
    OBVIOUS
  <2>1. CASE Reset \/ ReadFile \/ ReadFails \/ LoadByte \/ LoadStrays
    <3>1. ~Looping /\ ~Looping'
      BY <2>1 DEF Reset, ReadFile, ReadFails, LoadByte, LoadStrays, Looping
    <3> QED
      BY <3>1 DEF SeenRegisters
  <2>2. CASE StorePatch
    <3>1. ~Looping /\ Looping'
      BY <2>2 DEF StorePatch, Looping
    <3>2. registers' = ResetRegisters /\ isHalted' = FALSE /\ strayed' = FALSE
      BY <2>2 DEF StorePatch, BootIInv, cpuVars
    <3>3. Status' = "running"
      BY <3>2 DEF Status
    <3> QED
      BY <3>1, <3>2, <3>3 DEF SeenRegisters
  <2>3. CASE RunCycle
    <3>1. Looping /\ Looping'
      BY <2>3 DEF RunCycle, Looping
    <3>2. [Abstract!Next]_<<registers["EIP"], Status>>
      BY <2>3, TurnIsAStep, WalkStepHolds
    <3>3. at = registers["EIP"] /\ at' = registers'["EIP"] /\ status = Status /\ status' = Status'
      BY <3>1 DEF SeenRegisters
    <3>4. CASE UNCHANGED <<registers["EIP"], Status>>
      BY <3>3, <3>4
    <3>5. CASE Abstract!Next
      BY <3>3, <3>5 DEF Abstract!Next, Abstract!Advance, Abstract!Leave,
                        Walked!Next, Walked!Advance, Walked!Leave
    <3> QED
      BY <3>2, <3>4, <3>5
  <2>4. CASE Return \/ UNCHANGED mainVars
    <3>1. Looping' = Looping /\ UNCHANGED vars
      BY <2>4 DEF Return, mainVars, vars, Looping
    <3> QED
      BY <3>1 DEF vars, SeenRegisters, Status
  <2> QED
    BY <2>1, <2>2, <2>3, <2>4 DEF MainNext, Boot
<1> QED
  BY <1>1, <1>2, BootInvariance, PTL DEF MainSpec, ProgramWalks, Walked!Spec
=============================================================================
