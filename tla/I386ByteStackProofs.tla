------------------------- MODULE I386ByteStackProofs -------------------------
(***************************************************************************)
(* The machine implements a stack of bytes, for every program, memory and  *)
(* heap.  The invariant says where the bytes of the stack are: at the      *)
(* address of the next pop and above, without a wrap, inside the array.    *)
(* Without it a push could store over the far end of the stack.            *)
(***************************************************************************)
EXTENDS I386ByteStack, I386StackProofs, SequenceTheorems

StackInside == depth > 0 => PopAddress + depth <= MemorySize

ByteIInv ==
  /\ IInv
  /\ depth \in Nat
  /\ popped \in WordValue
  /\ StackInside

\* The mapped variable of Bytewise.
TheStack == [i \in 1 .. depth |-> readImm8(Above(i))]

-----------------------------------------------------------------------------
(* The bytes of the stack follow one another from the next pop upwards.    *)
LEMMA AboveAt ==
  ASSUME registers \in [Slot -> DwordValue], NEW i \in Nat \ {0}, PopAddress + i <= MemorySize
  PROVE  /\ Above(i) = PopAddress + i - 1
         /\ PopAddress \in Nat
<1> DEFINE e == registers["ESP"]
           p == (e + 1) % Dword
           D == Dword
<1>1. e \in Int /\ 0 <= e /\ e < D
  BY SMT, Widths DEF DwordValue, Slot
<1>2. D \in Nat \ {0} /\ MemorySize < D /\ MemorySize \in Nat
  BY Widths
<1>3. Above(i) = (e + i) % D /\ PopAddress = (e + 1) % D
  BY DEF Above, PopAddress
<1>4. ((e + 1) % D) + i <= MemorySize
  BY <1>3
<1> HIDE DEF e, p, D
<1>5. CASE e + 1 < D
  <2>1. (e + 1) % D = e + 1
    BY SMT, <1>1, <1>2, <1>5, ModSmall
  <2>2. (e + i) % D = e + i
    BY SMT, <1>1, <1>2, <1>4, <2>1, ModSmall
  <2> QED
    BY SMT, <1>1, <1>3, <2>1, <2>2
<1>6. CASE e + 1 = D
  <2>1. (e + 1) % D = 0
    BY SMT, <1>1, <1>2, <1>6, ModOnce
  <2>2. (e + i) % D = (e + i) - D
    <3>1. i \in Int /\ i >= 1 /\ i <= MemorySize
      BY SMT, <1>4, <2>1
    <3>2. e + i \in Int /\ D <= e + i /\ e + i < D + D
      BY SMT, <1>1, <1>2, <1>6, <3>1
    <3> QED
      BY <1>2, <3>2, ModOnce
  <2> QED
    BY SMT, <1>1, <1>3, <1>6, <2>1, <2>2
<1> QED
  BY SMT, <1>1, <1>2, <1>5, <1>6

(* The stack is a sequence of bytes, readable at consecutive addresses.    *)
StackReads ==
  /\ PopAddress \in Nat
  /\ TheStack \in Seq(ByteValue)
  /\ Len(TheStack) = depth
  /\ \A i \in 1 .. depth : /\ PopAddress + i - 1 \in Address
                           /\ Above(i) = PopAddress + i - 1
                           /\ TheStack[i] = readImm8(PopAddress + i - 1)

LEMMA StackIsSequence == ByteIInv => StackReads
<1> SUFFICES ASSUME ByteIInv PROVE StackReads
  OBVIOUS
<1>1. registers \in [Slot -> DwordValue] /\ MemoryTypeOK /\ depth \in Nat
  BY DEF ByteIInv, IInv, TypeOK, CPUTypeOK
<1>2. PopAddress \in Nat
  <2>1. registers["ESP"] + 1 \in Int
    BY SMT, <1>1, Widths DEF DwordValue, Slot
  <2> QED
    BY SMT, <2>1, ModRange, Widths DEF PopAddress
<1>3. ASSUME NEW i \in 1 .. depth
      PROVE  /\ PopAddress + i - 1 \in Address
             /\ Above(i) = PopAddress + i - 1
             /\ readImm8(Above(i)) \in ByteValue
  <2>1. i \in Nat \ {0} /\ i <= depth /\ depth > 0
    BY SMT, <1>1, <1>3
  <2>2. PopAddress + i <= MemorySize
    BY SMT, <1>1, <1>2, <2>1, Widths DEF ByteIInv, StackInside
  <2>3. Above(i) = PopAddress + i - 1
    BY <1>1, <2>1, <2>2, AboveAt
  <2>4. PopAddress + i - 1 \in Address
    BY SMT, <1>2, <2>1, <2>2, Widths DEF Address
  <2> QED
    BY <1>1, <2>3, <2>4, ReadByte
<1>4. TheStack \in [1 .. depth -> ByteValue]
  BY <1>3 DEF TheStack
<1>5. TheStack \in Seq(ByteValue)
  BY <1>1, <1>4
<1>6. Len(TheStack) = depth
  <2>1. DOMAIN TheStack = 1 .. depth /\ DOMAIN TheStack = 1 .. Len(TheStack)
    BY <1>4, <1>5, LenProperties
  <2>2. Len(TheStack) \in Nat
    BY <1>5, LenProperties
  <2> QED
    BY SMT, <1>1, <2>1, <2>2
<1> QED
  BY <1>2, <1>3, <1>5, <1>6 DEF StackReads, TheStack

(* A byte outside what was written is read as before.                      *)
LEMMA ByteOutside ==
  ASSUME NEW v, NEW a, NEW n, NEW x, ram' = writeImm(v, a, n), heap' = heap,
         x \notin Window(a, n)
  PROVE  readImm8(x)' = readImm8(x)
<1>1. /\ x \in DOMAIN ram' <=> x \in DOMAIN ram
      /\ x \in DOMAIN ram => ram'[x] = ram[x]
  BY DEF writeImm
<1> QED
  BY <1>1 DEF readImm8

(* A sequence that is another one behind two more elements.                *)
LEMMA PrependTwo ==
  ASSUME NEW S, NEW s \in Seq(S), NEW t \in Seq(S), Len(t) = Len(s) + 2,
         \A i \in 1 .. Len(s) : t[i + 2] = s[i]
  PROVE  t = <<t[1], t[2]>> \o s
<1> DEFINE top == <<t[1], t[2]>>
<1>1. Len(s) \in Nat
  BY LenProperties
<1>2. t[1] \in S /\ t[2] \in S
  <2>1. 1 \in 1 .. Len(t) /\ 2 \in 1 .. Len(t)
    BY SMT, <1>1
  <2> QED
    BY <2>1, ElementOfSeq
<1>3. top \in Seq(S) /\ Len(top) = 2 /\ top[1] = t[1] /\ top[2] = t[2]
  BY <1>2
<1> HIDE DEF top
<1>4. /\ top \o s \in Seq(S)
      /\ Len(top \o s) = Len(top) + Len(s)
      /\ \A i \in 1 .. Len(top) + Len(s) :
           (top \o s)[i] = IF i <= Len(top) THEN top[i] ELSE s[i - Len(top)]
  BY <1>3, ConcatProperties
<1>5. Len(t) = Len(top \o s)
  BY SMT, <1>1, <1>3, <1>4
<1>6. ASSUME NEW i \in 1 .. Len(t) PROVE t[i] = (top \o s)[i]
  <2>1. i \in 1 .. Len(top) + Len(s) /\ i \in Int
    BY SMT, <1>1, <1>3
  <2>2. (top \o s)[i] = IF i <= 2 THEN top[i] ELSE s[i - 2]
    BY <1>3, <1>4, <2>1
  <2>3. CASE i <= 2
    <3>1. i = 1 \/ i = 2
      BY SMT, <2>3
    <3> QED
      BY <1>3, <2>2, <2>3, <3>1
  <2>4. CASE ~(i <= 2)
    <3>1. i - 2 \in 1 .. Len(s) /\ (i - 2) + 2 = i
      BY SMT, <1>1, <2>1, <2>4
    <3>2. t[(i - 2) + 2] = s[i - 2]
      BY <3>1
    <3> QED
      BY <2>2, <2>4, <3>1, <3>2
  <2> QED
    BY <2>3, <2>4
<1>7. t = top \o s
  BY <1>4, <1>5, <1>6, SeqEqual
<1> QED
  BY <1>7 DEF top

-----------------------------------------------------------------------------
(* What each kind of step does to the stack *)

StepSeenAbove == ByteIInv' /\ ([Bytewise!Next]_(Bytewise!stackState))

(* The stack does not change.                                              *)
LEMMA StackStands ==
  ASSUME ByteIInv, IInv', depth' = depth, popped' = popped,
         registers'["ESP"] = registers["ESP"],
         \A i \in 1 .. depth : readImm8(Above(i))' = readImm8(Above(i))
  PROVE  StepSeenAbove
<1>1. PopAddress' = PopAddress
  BY DEF PopAddress
<1>2. ByteIInv'
  BY <1>1 DEF ByteIInv, StackInside
<1>3. TheStack' = TheStack
  BY DEF TheStack
<1> QED
  BY <1>2, <1>3 DEF StepSeenAbove, TheStack, Bytewise!stackState

(* The stack is given up.                                                  *)
LEMMA StackForgotten ==
  ASSUME ByteIInv, IInv', depth' = 0, popped' = popped
  PROVE  StepSeenAbove
<1>1. ByteIInv'
  BY SMT DEF ByteIInv, StackInside
<1>2. TheStack' = <<>>
  <2>1. StackReads'
    BY <1>1, StackIsSequence, PTL
  <2> QED
    BY <2>1, EmptySeq DEF StackReads
<1> QED
  BY <1>1, <1>2 DEF StepSeenAbove, TheStack, Bytewise!Next, Bytewise!StartAgain

(* A push puts two bytes on the stack and leaves those below as they were. *)
LEMMA PushSeen ==
  ASSUME ByteIInv, IInv', NEW op, IsPush(op), InArray(op),
         PushSegment(PushedSegment(op), op), Watch(op)
  PROVE  StepSeenAbove
<1>1. depth \in Nat /\ depth' = depth + 2 /\ popped' = popped
  BY Kinds DEF Watch, ByteIInv
<1>2. /\ PushAddress \in Nat /\ PushAddress + 1 < MemorySize
      /\ PopAddress = PushAddress + 2 /\ PopAddress' = PushAddress
  BY PushMoves DEF ByteIInv
<1>3. StackInside'
  <2>1. PushAddress + (depth + 2) <= MemorySize
    BY SMT, <1>1, <1>2, Widths DEF ByteIInv, StackInside
  <2> QED
    BY <1>1, <1>2, <2>1 DEF StackInside
<1>4. ByteIInv'
  BY SMT, <1>1, <1>3 DEF ByteIInv
<1>5. StackReads /\ StackReads'
  BY <1>4, StackIsSequence, PTL
<1> DEFINE old == TheStack
           new == TheStack'
<1>6. old \in Seq(ByteValue) /\ new \in Seq(ByteValue) /\ Len(old) = depth /\ Len(new) = depth + 2
  BY <1>1, <1>5 DEF StackReads
<1>7. \A i \in 1 .. depth : new[i + 2] = old[i]
  <2> SUFFICES ASSUME NEW i \in 1 .. depth PROVE new[i + 2] = old[i]
    OBVIOUS
  <2>1. i + 2 \in 1 .. depth'
    BY SMT, <1>1
  <2>2. new[i + 2] = readImm8(PopAddress + (i + 2) - 1)'
    BY <1>5, <2>1 DEF StackReads
  <2>3. PICK x : x = PopAddress + i - 1
    OBVIOUS
  <2>4. PopAddress' + (i + 2) - 1 = x
    BY SMT, <1>1, <1>2, <2>3
  <2>5. x \notin Window(PushAddress, 2)
    BY SMT, <1>1, <1>2, <2>3 DEF Window
  <2>6. old[i] = readImm8(x)
    BY <1>5, <2>3 DEF StackReads
  <2>7. readImm8(x)' = readImm8(x)
    <3>1. \E v : ram' = writeImm(v, PushAddress, 2)
      BY DEF PushSegment, writeImm16
    <3>2. heap' = heap
      BY DEF PushSegment, memoryVars
    <3> QED
      BY <2>5, <3>1, <3>2, ByteOutside
  <2>8. readImm8(PopAddress + (i + 2) - 1)' = readImm8(x)'
    BY <2>4 DEF readImm8
  <2> QED
    BY <2>2, <2>6, <2>7, <2>8
<1> HIDE DEF old, new
<1>8. new[1] \in ByteValue /\ new[2] \in ByteValue
  <2>1. 1 \in 1 .. Len(new) /\ 2 \in 1 .. Len(new)
    BY SMT, <1>1, <1>6
  <2> QED
    BY <1>6, <2>1, ElementOfSeq
<1>9. new = <<new[1], new[2]>> \o old
  BY <1>6, <1>7, PrependTwo
<1>10. new[1] \in 0 .. 255 /\ new[2] \in 0 .. 255
  BY SMT, <1>8 DEF ByteValue, Byte
<1>11. Bytewise!Push
  BY <1>1, <1>6, <1>9, <1>10 DEF Bytewise!Push, Bytewise!Bytes, old, new, TheStack
<1> QED
  BY <1>4, <1>11 DEF StepSeenAbove, Bytewise!Next

(* A pop shows the word that the two bytes on top make, and takes one off. *)
LEMMA PopSeen ==
  ASSUME ByteIInv, IInv', NEW op, IsPop(op), InArray(op),
         PopSegment(PoppedSegment(op), op), Watch(op)
  PROVE  StepSeenAbove
<1>1. /\ depth \in Nat
      /\ depth' = IF depth < 2 THEN 0 ELSE depth - 1
      /\ popped' = registers'[PoppedSegment(op)]
  BY Kinds DEF Watch, ByteIInv
<1>2. /\ PopAddress \in Nat /\ PopAddress \in Address /\ PopAddress + 1 \in Address
  <2>1. Window(PopAddress, 2) \subseteq Address
    BY SMT DEF InArray, DataWindow, HasModRM, IsPush, IsPop
  <2>2. PopAddress \in Nat
    BY StackIsSequence DEF StackReads
  <2>3. PopAddress \in Window(PopAddress, 2) /\ PopAddress + 1 \in Window(PopAddress, 2)
    BY SMT, <2>2 DEF Window
  <2> QED
    BY <2>1, <2>2, <2>3
<1>3. MemoryTypeOK /\ registers \in [Slot -> DwordValue]
  BY DEF ByteIInv, IInv, TypeOK, CPUTypeOK
<1>4. readImm16(PopAddress) \in WordValue
  BY <1>2, <1>3, ReadWord
<1>5. popped' = readImm16(PopAddress)
  <2> DEFINE w == readImm16(PopAddress)
             seg == PoppedSegment(op)
             moved == AfterPop(2)
  <2>1. seg \in {"ES", "SS"}
    BY DEF PoppedSegment
  <2>2. moved \in [Slot -> DwordValue]
    <3>1. PopStep(2) = 1 /\ 1 \in Int /\ "ESP" \in Slot
      BY SMT DEF PopStep, Slot
    <3> QED
      BY <1>3, <3>1, MovedTyped DEF AfterPop
  <2>3. registers' = NextInstruction(setRegister(moved, seg, w), op, 0)
    BY DEF PopSegment
  <2> HIDE DEF w, moved
  <2>4. SlotOf(seg) = seg /\ seg \in Slot /\ seg # "EIP"
    BY SMT, <2>1 DEF SlotOf, Slot, Segment
  <2>5. StoredIn(seg, moved[seg], w) = w % Dword
    BY SMT, <2>1 DEF StoredIn, Low16, Low8, High8
  <2>6. w % Dword = w
    BY SMT, <1>4, WordBounds, Widths, ModSmall DEF w
  <2>7. setRegister(moved, seg, w)[seg] = w
    BY <2>2, <2>4, <2>5, <2>6 DEF setRegister
  <2> DEFINE regs == setRegister(moved, seg, w)
  <2> HIDE DEF regs
  <2>8. NextInstruction(regs, op, 0)[seg] = regs[seg]
    BY <2>4 DEF NextInstruction
  <2> QED
    BY <1>1, <2>3, <2>7, <2>8 DEF regs, w
<1>6. depth' \in Nat
  BY SMT, <1>1
<1>7. StackInside'
  <2>1. ASSUME depth' > 0 PROVE PopAddress' + depth' <= MemorySize
    <3>1. depth >= 2 /\ depth' = depth - 1
      BY SMT, <1>1, <2>1
    <3>2. PopAddress' <= PopAddress + 1 /\ PopAddress' \in Int
      <4>1. registers["ESP"] \in DwordValue
        BY <1>3 DEF Slot
      <4>2. registers'["ESP"] = PopAddress
        BY PopMoves DEF PopAddress, ByteIInv
      <4>3. (PopAddress + 1) % Dword <= PopAddress + 1
        BY <4>1, PopArithmetic DEF PopAddress
      <4>4. (PopAddress + 1) % Dword \in Int
        <5>1. PopAddress + 1 \in Int
          BY SMT, <1>2
        <5> QED
          BY SMT, <5>1, ModRange, Widths
      <4>5. PopAddress' = (PopAddress + 1) % Dword
        BY <4>2 DEF PopAddress
      <4> QED
        BY <4>3, <4>4, <4>5
    <3>3. PopAddress + depth <= MemorySize
      <4>1. depth > 0
        BY SMT, <1>1, <3>1
      <4> QED
        BY <4>1 DEF ByteIInv, StackInside
    <3>4. PopAddress' + (depth - 1) <= MemorySize
      <4>1. MemorySize \in Int /\ depth \in Int /\ PopAddress \in Int
        BY SMT, <1>1, <1>2, Widths
      <4>2. \A a, b, d, m \in Int : a <= b + 1 /\ b + d <= m => a + (d - 1) <= m
        BY SMT
      <4> QED
        BY <3>2, <3>3, <4>1, <4>2
    <3> QED
      BY <3>1, <3>4
  <2> QED
    BY <2>1 DEF StackInside
<1>8. ByteIInv'
  BY <1>4, <1>5, <1>6, <1>7 DEF ByteIInv
<1>9. StackReads /\ StackReads'
  BY <1>8, StackIsSequence, PTL
<1> DEFINE old == TheStack
           new == TheStack'
<1>10. old \in Seq(ByteValue) /\ new \in Seq(ByteValue) /\ Len(old) = depth /\ Len(new) = depth'
  BY <1>9 DEF StackReads
<1>11. CASE depth < 2
  <2>1. new = <<>>
    BY <1>1, <1>10, <1>11, EmptySeq
  <2>2. popped' \in Bytewise!Words
    <3>1. ASSUME NEW w \in WordValue PROVE w \in Bytewise!Words
      <4>1. w \in Int /\ 0 <= w /\ w < 65536
        BY WordBounds
      <4> QED
        BY SMT, <4>1 DEF Bytewise!Words
    <3> QED
      BY <1>4, <1>5, <3>1
  <2>3. Len(old) < 2
    BY <1>10, <1>11
  <2>4. Bytewise!PopPastBottom
    BY <2>1, <2>2, <2>3 DEF Bytewise!PopPastBottom, old, new, TheStack
  <2> QED
    BY <1>8, <2>4 DEF StepSeenAbove, Bytewise!Next
<1>12. CASE depth >= 2
  <2>1. depth' = depth - 1 /\ 1 \in 1 .. depth /\ 2 \in 1 .. depth
    BY SMT, <1>1, <1>12
  <2>2. popped' = (old[2] * 256) + old[1]
    <3>1. old[1] = readImm8(PopAddress + 1 - 1) /\ old[2] = readImm8(PopAddress + 2 - 1)
      BY <1>9, <2>1 DEF StackReads
    <3>2. PopAddress + 1 - 1 = PopAddress /\ PopAddress + 2 - 1 = PopAddress + 1
      BY SMT, <1>2
    <3> QED
      BY <1>5, <3>1, <3>2 DEF readImm16, Byte
  <2>3. \A i \in 1 .. depth - 1 : new[i] = old[i + 1]
    <3> SUFFICES ASSUME NEW i \in 1 .. depth - 1 PROVE new[i] = old[i + 1]
      OBVIOUS
    <3>1. i \in 1 .. depth' /\ i + 1 \in 1 .. depth
      BY SMT, <1>1, <2>1
    <3>2. new[i] = readImm8(Above(i))' /\ old[i + 1] = readImm8(Above(i + 1))
      BY <3>1 DEF TheStack
    <3>3. Above(i)' = Above(i + 1)
      <4>1. /\ Above(i + 1) = PopAddress + (i + 1) - 1
            /\ Above(i)' = PopAddress' + i - 1
        BY <1>9, <3>1 DEF StackReads
      <4>2. PopAddress + i + 1 <= MemorySize
        BY SMT, <1>1, <1>2, <1>12, <3>1, Widths DEF ByteIInv, StackInside
      <4>3. PopAddress' = PopAddress + 1
        <5>1. registers'["ESP"] = PopAddress
          BY PopMoves DEF PopAddress, ByteIInv
        <5>2. 0 <= PopAddress + 1 /\ PopAddress + 1 \in Int /\ PopAddress + 1 < Dword
          BY SMT, <1>2, Widths DEF Address
        <5>3. (PopAddress + 1) % Dword = PopAddress + 1
          BY SMT, <5>2, ModSmall, Widths
        <5>4. PopAddress' = (PopAddress + 1) % Dword
          BY <5>1 DEF PopAddress
        <5> QED
          BY <5>3, <5>4
      <4> QED
        BY SMT, <1>2, <4>1, <4>3
    <3>4. ram' = ram /\ heap' = heap
      BY DEF PopSegment, memoryVars
    <3> QED
      BY <3>2, <3>3, <3>4 DEF readImm8
  <2> HIDE DEF old, new
  <2>4. new = Tail(old)
    <3>1. old # <<>>
      BY SMT, <1>1, <1>10, <1>12, EmptySeq
    <3>2. /\ Tail(old) \in Seq(ByteValue) /\ Len(Tail(old)) = depth - 1
          /\ \A i \in 1 .. Len(Tail(old)) : Tail(old)[i] = old[i + 1]
      BY <1>10, <3>1, HeadTailProperties
    <3> QED
      BY <1>10, <2>1, <2>3, <3>2, SeqEqual
  <2>5. Bytewise!Pop
    BY <1>10, <1>12, <2>2, <2>4 DEF Bytewise!Pop, old, new, TheStack
  <2> QED
    BY <1>8, <2>5 DEF StepSeenAbove, Bytewise!Next
<1> QED
  BY SMT, <1>1, <1>11, <1>12

(* A computation moves ESP or writes into the stack, which is given up, or *)
(* leaves it as it was.                                                    *)
LEMMA ComputationSeen ==
  ASSUME ByteIInv, IInv', NEW op, op.at \in Nat, InArray(op), Watch(op),
         \/ HasModRM(op) /\ ~NamesR(op) /\ IntoRm(Alu(op), SizeOf(op), op)
         \/ NamesR(op) /\ IntoR(Alu(op), SizeOf(op), op)
         \/ HasImmediate(op) /\ IntoAccumulator(Alu(op), SizeOf(op), op)
  PROVE  StepSeenAbove
<1>1. Computes(op) /\ ~IsPush(op) /\ ~IsPop(op)
  BY Kinds DEF Computes, NamesR
<1>2. popped' = popped /\ depth' = IF Disturbs(op) THEN 0 ELSE depth
  BY <1>1 DEF Watch
<1>3. CASE Disturbs(op)
  BY <1>2, <1>3, StackForgotten
<1>4. CASE ~Disturbs(op)
  <2>1. ~MovesStackPointer(op) /\ StackBytes \cap Written(op) = {}
    BY <1>4 DEF Disturbs
  <2>2. registers'["ESP"] = registers["ESP"]
    BY <2>1, ComputationESP DEF ByteIInv
  <2>3. heap' = heap
    BY DEF IntoRm, IntoR, IntoAccumulator, memoryVars
  <2>4. ASSUME NEW i \in 1 .. depth PROVE readImm8(Above(i))' = readImm8(Above(i))
    <3>0. PICK x : x = Above(i)
      OBVIOUS
    <3>1. x \in StackBytes /\ Above(i)' = x
      BY <2>2, <3>0 DEF StackBytes, Above
    <3>2. x \notin Written(op)
      BY <2>1, <3>1
    <3>3. readImm8(x)' = readImm8(x)
      <4>1. CASE ram' = ram
        BY <2>3, <4>1 DEF readImm8
      <4>2. CASE ram' # ram
        <5> DEFINE n == SizeOf(op)
                   raw == Raw(Alu(op), n, FirstOperand(n, op), SecondOperand(n, op))
        <5>1. HasModRM(op) /\ ~NamesR(op) /\ IntoRm(Alu(op), n, op)
          BY <4>2 DEF IntoR, IntoAccumulator, memoryVars
        <5>2. ModOf(ModRM(op)) # 3
          BY <4>2, <5>1 DEF IntoRm
        <5>3. Written(op) = Window(OperandAddress(n, op), n)
          BY <1>1, <5>1, <5>2 DEF Written, DataWindow
        <5>4. ram' = writeImm(raw, OperandAddress(n, op), n)
          BY <5>1, <5>2 DEF IntoRm
        <5> HIDE DEF n, raw
        <5> QED
          BY <2>3, <3>2, <5>3, <5>4, ByteOutside
      <4> QED
        BY <4>1, <4>2
    <3>4. readImm8(Above(i))' = readImm8(x)'
      BY <3>1 DEF readImm8
    <3> QED
      BY <3>0, <3>3, <3>4
  <2> QED
    BY <1>2, <1>4, <2>2, <2>4, StackStands
<1> QED
  BY <1>3, <1>4

(* hlt and the skipped opcodes leave the stack alone.                      *)
LEMMA SkipSeen ==
  ASSUME ByteIInv, IInv', NEW op, ~Computes(op), ~IsPush(op), ~IsPop(op),
         halt(op) \/ SkipOpcode(op), Watch(op)
  PROVE  StepSeenAbove
<1>1. ~Disturbs(op)
  BY DEF Disturbs, MovesStackPointer, Written
<1>2. depth' = depth /\ popped' = popped
  BY <1>1 DEF Watch
<1>3. ram' = ram /\ heap' = heap
  BY DEF halt, SkipOpcode, memoryVars
<1>4. registers'["ESP"] = registers["ESP"]
  BY NextInstructionESP DEF halt, SkipOpcode, ByteIInv, IInv, TypeOK, CPUTypeOK
<1>5. \A i \in 1 .. depth : readImm8(Above(i))' = readImm8(Above(i))
  BY <1>3, <1>4 DEF Above, readImm8
<1> QED
  BY <1>2, <1>4, <1>5, StackStands

(* Every step of the machine is one of the stack of bytes, or none.        *)
LEMMA ByteStepSeen ==
  ASSUME ByteIInv, [ByteNext]_byteVars
  PROVE  StepSeenAbove
<1>1. ASSUME Cycle, NEW op \in DecodedNow, Watch(op) PROVE StepSeenAbove
  <2>1. op.at \in Nat /\ op.instruction \in ByteValue /\ InArray(op) /\ Execute(op)
    BY <1>1, CycleExecutes DEF ByteIInv
  <2>2. IInv'
    BY <1>1, CycleCompletes DEF ByteIInv
  <2> QED
    BY <1>1, <2>1, <2>2, Shapes, PushSeen, PopSeen, ComputationSeen, SkipSeen
<1>2. CASE CycleStrays /\ UNCHANGED <<frames, depth, popped>>
  <2>1. IInv'
    BY <1>2, StrayKeeps DEF ByteIInv
  <2>2. ram' = ram /\ heap' = heap /\ registers' = registers
    BY <1>2 DEF CycleStrays
  <2>3. \A i \in 1 .. depth : readImm8(Above(i))' = readImm8(Above(i))
    BY <2>2 DEF Above, readImm8
  <2> QED
    BY <1>2, <2>1, <2>2, <2>3, StackStands
<1>3. CASE UNCHANGED byteVars
  <2>1. IInv'
    BY <1>3 DEF byteVars, ByteIInv, IInv, TypeOK, MemoryTypeOK, CPUTypeOK, FlagsCoherent
  <2>2. ram' = ram /\ heap' = heap /\ registers' = registers /\ depth' = depth /\ popped' = popped
    BY <1>3 DEF byteVars
  <2>3. \A i \in 1 .. depth : readImm8(Above(i))' = readImm8(Above(i))
    BY <2>2 DEF Above, readImm8
  <2> QED
    BY <2>1, <2>2, <2>3, StackStands
<1> QED
  BY <1>1, <1>2, <1>3 DEF ByteNext

(* The stack of the machine is a stack of bytes: a push puts two on it, a  *)
(* pop returns the two on top and takes one off, and no byte changes in    *)
(* between, whatever else the program does.                                *)
THEOREM ImplementsByteStack == ByteSpec => StackOfBytes
<1>1. ByteInit => ByteIInv
  <2>1. 0 \in WordValue
    BY SMT, WordWidth DEF WordValue
  <2> QED
    BY SMT, <2>1, InitHolds DEF ByteInit, StackInit, ByteIInv, StackInside
<1>2. ByteInit => Bytewise!Init
  <2> SUFFICES ASSUME ByteInit PROVE Bytewise!Init
    OBVIOUS
  <2>1. StackReads /\ depth = 0 /\ popped = 0
    BY <1>1, StackIsSequence DEF ByteInit
  <2>2. TheStack = <<>>
    BY <2>1, EmptySeq DEF StackReads
  <2> QED
    BY <2>1, <2>2 DEF Bytewise!Init, TheStack
<1>3. ByteIInv /\ [ByteNext]_byteVars => ByteIInv' /\ [Bytewise!Next]_(Bytewise!stackState)
  BY ByteStepSeen DEF StepSeenAbove
<1> QED
  BY <1>1, <1>2, <1>3, PTL DEF ByteSpec, StackOfBytes, Bytewise!Spec
=============================================================================
