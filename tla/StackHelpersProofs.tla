------------------------- MODULE StackHelpersProofs --------------------------
(***************************************************************************)
(* Theorems about the six stack functions, for every sequence of calls.    *)
(*                                                                         *)
(* Two invariants.  Accounts says where ESP is: at its start, less what    *)
(* the calls so far pushed, plus what their pops gave back, cut to 32      *)
(* bits.  LastPush says what the memory and the stack pointer are like     *)
(* right after a push, and which record describes it.                      *)
(***************************************************************************)
EXTENDS StackHelpers, CPUProofs

HelperTypeOK ==
  /\ MemoryTypeOK
  /\ CPUTypeOK
  /\ calls \in Seq([name : {"push", "pop"}, size : Size])

\* The bytes that the first k calls pushed, and by how much their pops moved ESP.
PushedBytes(k) == Count("push", 1, k) + (2 * Count("push", 2, k)) + (4 * Count("push", 4, k))
PoppedBytes(k) == Count("pop", 1, k) + Count("pop", 2, k) + (3 * Count("pop", 4, k))

\* The calls of all names and sizes.
CountedCalls(k) ==
    (Count("push", 1, k) + Count("push", 2, k) + Count("push", 4, k))
  + (Count("pop", 1, k) + Count("pop", 2, k) + Count("pop", 4, k))

Accounts ==
  /\ CountedCalls(Len(calls)) = Len(calls)
  /\ registers["ESP"] = ((65535 - PushedBytes(Len(calls))) + PoppedBytes(Len(calls))) % Dword

FramesNumbered == \A f \in frames : f.nr \in Nat /\ f.nr < Len(calls)

\* A value of n bytes was stored from address a upwards, one byte below ESP.
PushedFrom(a, n) ==
  /\ result \in Nat
  /\ result < Modulus(n)
  /\ Window(a, n) \subseteq Address
  /\ registers["ESP"] = ((a + 1) - n) % Dword
  /\ \A i \in 0 .. 3 : i < n => readImm8(a + i) = ByteOf(result, i)
  /\ \E f \in Newest : Newest = {f} /\ f.at = a

LastPush ==
  calls # <<>> /\ LastCall.name = "push" =>
    \E a \in Address : PushedFrom(a, LastCall.size)

HelperIInv ==
  /\ HelperTypeOK
  /\ Accounts
  /\ FramesNumbered
  /\ LastPush

-----------------------------------------------------------------------------
(* Counting the calls *)

(* One call more adds one to its own count and nothing to the others.      *)
LEMMA CountAppend ==
  ASSUME HelperTypeOK, NEW nm \in {"push", "pop"}, NEW n \in Size, Call(nm, n)
  PROVE  /\ Len(calls)' = Len(calls) + 1
         /\ \A name \in {"push", "pop"}, m \in Size :
              /\ Count(name, m, Len(calls)) \in Nat
              /\ Count(name, m, Len(calls))' =
                   Count(name, m, Len(calls)) + (IF name = nm /\ m = n THEN 1 ELSE 0)
<1> DEFINE k == Len(calls)
           entry == [name |-> nm, size |-> n]
<1>1. k \in Nat /\ entry \in [name : {"push", "pop"}, size : Size]
  BY DEF HelperTypeOK
<1>2. /\ Len(calls') = k + 1
      /\ calls'[k + 1] = entry
      /\ \A j \in 1 .. k : calls'[j] = calls[j]
  BY <1>1 DEF Call, HelperTypeOK
<1> HIDE DEF k
<1> SUFFICES ASSUME NEW name \in {"push", "pop"}, NEW m \in Size
             PROVE  /\ Count(name, m, k) \in Nat
                    /\ Count(name, m, k)' =
                         Count(name, m, k) + (IF name = nm /\ m = n THEN 1 ELSE 0)
  BY <1>2 DEF k
<1> DEFINE wanted == [name |-> name, size |-> m]
           old == {j \in 1 .. k : calls[j] = wanted}
           new == {j \in 1 .. (k + 1) : calls'[j] = wanted}
           one == IF name = nm /\ m = n THEN 1 ELSE 0
<1>3. IsFiniteSet(1 .. k)
  BY <1>1, FS_Interval
<1>4. IsFiniteSet(old)
  BY <1>3, FS_Subset
<1>5. k + 1 \notin old
  BY SMT, <1>1
<1>6. calls'[k + 1] = wanted <=> name = nm /\ m = n
  BY <1>2
<1>7. 1 .. (k + 1) = (1 .. k) \cup {k + 1} /\ k + 1 \notin 1 .. k
  BY SMT, <1>1
<1>8. new = IF one = 1 THEN old \cup {k + 1} ELSE old
  <2>1. CASE name = nm /\ m = n
    BY <1>2, <1>6, <1>7, <2>1
  <2>2. CASE ~(name = nm /\ m = n)
    BY <1>2, <1>6, <1>7, <2>2
  <2> QED
    BY <2>1, <2>2
<1>9. one \in {0, 1}
  OBVIOUS
<1>10. Count(name, m, k) = Cardinality(old) /\ Count(name, m, k)' = Cardinality(new)
  BY <1>2 DEF Count, k
<1> HIDE DEF old, new, one
<1>11. Cardinality(new) = Cardinality(old) + one
  BY <1>4, <1>5, <1>8, <1>9, CountOneMore
<1>12. Cardinality(old) \in Nat
  BY <1>4, FS_CardinalityType
<1> QED
  BY <1>10, <1>11, <1>12 DEF one

-----------------------------------------------------------------------------
(* Types *)

(* A reset machine is of its types.                                        *)
LEMMA HelperInitTyped == HelperInit => HelperTypeOK
<1> SUFFICES ASSUME HelperInit PROVE HelperTypeOK
  OBVIOUS
<1>1. MemoryTypeOK
  BY DEF HelperInit, MemoryTypeOK
<1>2. 65535 \in DwordValue /\ 0 \in DwordValue
  BY SMT, Widths DEF DwordValue
<1>3. ResetRegisters \in [Slot -> DwordValue]
  BY <1>2 DEF ResetRegisters
<1>4. ResetFlags \in [Flag -> {0, 1}]
  BY DEF ResetFlags
<1>5. CPUTypeOK
  BY <1>3, <1>4 DEF HelperInit, CPUTypeOK
<1>6. calls \in Seq([name : {"push", "pop"}, size : Size])
  BY DEF HelperInit
<1> QED
  BY <1>1, <1>5, <1>6 DEF HelperTypeOK

(* Every call keeps them so.                                               *)
LEMMA PushTyped ==
  ASSUME HelperTypeOK, NEW n \in Size, NEW v \in Value(n), PushOnto(n, v)
  PROVE  HelperTypeOK'
<1>1. v \in Nat
  BY SMT, ValueAssumption, Moduli
<1>2. registers["ESP"] - 1 \in Int
  BY SMT, Widths DEF HelperTypeOK, CPUTypeOK, Slot, DwordValue
<1>3. PushAddress \in Nat
  BY SMT, <1>2, ModRange, Widths DEF PushAddress
<1>4. MemoryTypeOK'
  BY <1>1, <1>3, WriteTyped DEF PushOnto, HelperTypeOK, MemoryTypeOK
<1>5. -n \in Int
  BY SMT DEF Size
<1>6. CPUTypeOK'
  BY <1>5, MovedTyped DEF PushOnto, HelperTypeOK, CPUTypeOK, AfterPush, Slot
<1> QED
  BY <1>4, <1>6 DEF HelperTypeOK, PushOnto, Call

(* The same for a pop.                                                     *)
LEMMA PopTyped ==
  ASSUME HelperTypeOK, NEW n \in Size, PopFrom(n)
  PROVE  HelperTypeOK'
<1>1. PopStep(n) \in Int
  BY DEF PopStep, Size
<1>2. CPUTypeOK'
  BY <1>1, MovedTyped DEF PopFrom, HelperTypeOK, CPUTypeOK, AfterPop, Slot
<1>3. MemoryTypeOK'
  BY DEF PopFrom, HelperTypeOK, MemoryTypeOK, memoryVars, readImm8
<1> QED
  BY <1>2, <1>3 DEF HelperTypeOK, PopFrom, Call

-----------------------------------------------------------------------------
(* The accounts *)

(* Before the first call nothing was counted.                              *)
LEMMA CountNone ==
  ASSUME NEW name, NEW n
  PROVE  Count(name, n, 0) = 0
<1>1. {j \in 1 .. 0 : calls[j] = [name |-> name, size |-> n]} = {}
  BY SMT
<1> QED
  BY <1>1, FS_EmptySet DEF Count

(* The accounts of a reset machine.                                        *)
LEMMA HelperInitAccounts == HelperInit => Accounts
<1> SUFFICES ASSUME HelperInit PROVE Accounts
  OBVIOUS
<1>1. Len(calls) = 0 /\ registers["ESP"] = 65535
  BY DEF HelperInit, ResetRegisters, Slot
<1>2. \A name, n : Count(name, n, 0) = 0
  BY CountNone
<1>3. 65535 % Dword = 65535
  BY SMT, ModSmall, Widths
<1> QED
  BY SMT, <1>1, <1>2, <1>3 DEF Accounts, CountedCalls, PushedBytes, PoppedBytes

(* A call is entered once, with the bytes it pushed or gave back.          *)
LEMMA SumsAppend ==
  ASSUME HelperTypeOK, NEW nm \in {"push", "pop"}, NEW n \in Size, Call(nm, n), NEW k, k = Len(calls)
  PROVE  /\ k \in Nat /\ Len(calls)' = k + 1
         /\ PushedBytes(k) \in Nat /\ PoppedBytes(k) \in Nat
         /\ PushedBytes(Len(calls))' = PushedBytes(k) + (IF nm = "push" THEN n ELSE 0)
         /\ PoppedBytes(Len(calls))' = PoppedBytes(k) + (IF nm = "pop" THEN PopStep(n) ELSE 0)
         /\ CountedCalls(Len(calls))' = CountedCalls(k) + 1
<1> DEFINE d(name, m) == IF name = nm /\ m = n THEN 1 ELSE 0
           p1 == Count("push", 1, k)
           p2 == Count("push", 2, k)
           p4 == Count("push", 4, k)
           q1 == Count("pop", 1, k)
           q2 == Count("pop", 2, k)
           q4 == Count("pop", 4, k)
<1>1. /\ k \in Nat /\ Len(calls)' = k + 1
      /\ \A name \in {"push", "pop"}, m \in Size :
           /\ Count(name, m, k) \in Nat
           /\ Count(name, m, Len(calls))' = Count(name, m, k) + d(name, m)
  BY CountAppend DEF HelperTypeOK
<1>2. /\ k \in Nat /\ Len(calls)' = k + 1
      /\ p1 \in Nat /\ p2 \in Nat /\ p4 \in Nat /\ q1 \in Nat /\ q2 \in Nat /\ q4 \in Nat
  BY <1>1 DEF Size
<1>3. /\ Count("push", 1, Len(calls))' = p1 + d("push", 1)
      /\ Count("push", 2, Len(calls))' = p2 + d("push", 2)
      /\ Count("push", 4, Len(calls))' = p4 + d("push", 4)
      /\ Count("pop", 1, Len(calls))' = q1 + d("pop", 1)
      /\ Count("pop", 2, Len(calls))' = q2 + d("pop", 2)
      /\ Count("pop", 4, Len(calls))' = q4 + d("pop", 4)
  BY <1>1 DEF Size
<1>4. /\ PushedBytes(k) = p1 + (2 * p2) + (4 * p4)
      /\ PoppedBytes(k) = q1 + q2 + (3 * q4)
      /\ CountedCalls(k) = (p1 + p2 + p4) + (q1 + q2 + q4)
  BY DEF PushedBytes, PoppedBytes, CountedCalls
<1>5. /\ PushedBytes(Len(calls))' =
           (p1 + d("push", 1)) + (2 * (p2 + d("push", 2))) + (4 * (p4 + d("push", 4)))
      /\ PoppedBytes(Len(calls))' =
           (q1 + d("pop", 1)) + (q2 + d("pop", 2)) + (3 * (q4 + d("pop", 4)))
      /\ CountedCalls(Len(calls))' =
             ((p1 + d("push", 1)) + (p2 + d("push", 2)) + (p4 + d("push", 4)))
           + ((q1 + d("pop", 1)) + (q2 + d("pop", 2)) + (q4 + d("pop", 4)))
  BY <1>3 DEF PushedBytes, PoppedBytes, CountedCalls
<1> HIDE DEF p1, p2, p4, q1, q2, q4
<1>6. PopStep(1) = 1 /\ PopStep(2) = 1 /\ PopStep(4) = 3
  BY SMT DEF PopStep
<1>7. CASE nm = "push"
  <2>1. CASE n = 1
    BY SMT, <1>2, <1>4, <1>5, <1>7, <2>1
  <2>2. CASE n = 2
    BY SMT, <1>2, <1>4, <1>5, <1>7, <2>2
  <2>3. CASE n = 4
    BY SMT, <1>2, <1>4, <1>5, <1>7, <2>3
  <2> QED
    BY <2>1, <2>2, <2>3 DEF Size
<1>8. CASE nm = "pop"
  <2>1. CASE n = 1
    BY SMT, <1>2, <1>4, <1>5, <1>6, <1>8, <2>1
  <2>2. CASE n = 2
    BY SMT, <1>2, <1>4, <1>5, <1>6, <1>8, <2>2
  <2>3. CASE n = 4
    BY SMT, <1>2, <1>4, <1>5, <1>6, <1>8, <2>3
  <2> QED
    BY <2>1, <2>2, <2>3 DEF Size
<1> QED
  BY <1>7, <1>8

(* A stack pointer that moves by d moves the accounts by d.                *)
LEMMA ESPMoves ==
  ASSUME NEW x \in Int, NEW d \in Int, registers["ESP"] = x % Dword,
         HelperTypeOK, registers' = Moved(registers, "ESP", d)
  PROVE  registers'["ESP"] = (x + d) % Dword
<1>1. registers'["ESP"] = ((x % Dword) + d) % Dword
  BY DEF Moved, HelperTypeOK, CPUTypeOK, Slot
<1>2. Dword \in Nat \ {0}
  BY Widths
<1> QED
  BY <1>1, <1>2, CutSum

(* A push of n bytes is entered as n bytes pushed, ...                     *)
LEMMA PushAccounts ==
  ASSUME HelperTypeOK, Accounts, NEW n \in Size, NEW v \in Value(n), PushOnto(n, v)
  PROVE  Accounts'
<1>1. PICK k : k = Len(calls)
  OBVIOUS
<1> DEFINE x == (65535 - PushedBytes(k)) + PoppedBytes(k)
           d == -n
<1>2. /\ k \in Nat /\ Len(calls)' = k + 1
      /\ PushedBytes(k) \in Nat /\ PoppedBytes(k) \in Nat
      /\ PushedBytes(Len(calls))' = PushedBytes(k) + n
      /\ PoppedBytes(Len(calls))' = PoppedBytes(k) + 0
      /\ CountedCalls(Len(calls))' = CountedCalls(k) + 1
  BY <1>1, SumsAppend DEF PushOnto
<1>3. registers["ESP"] = x % Dword /\ CountedCalls(k) = k
  BY <1>1 DEF Accounts
<1>4. /\ x \in Int /\ d \in Int
      /\ x + d = (65535 - (PushedBytes(k) + n)) + (PoppedBytes(k) + 0)
  BY SMT, <1>2 DEF Size
<1>5. registers' = Moved(registers, "ESP", d)
  BY DEF PushOnto, AfterPush
<1> HIDE DEF x, d
<1>6. registers'["ESP"] = (x + d) % Dword
  BY <1>3, <1>4, <1>5, ESPMoves
<1> QED
  BY <1>2, <1>3, <1>4, <1>6 DEF Accounts

(* ... and a pop as what it gave back, which is less than its size.        *)
LEMMA PopAccounts ==
  ASSUME HelperTypeOK, Accounts, NEW n \in Size, PopFrom(n)
  PROVE  Accounts'
<1>1. PICK k : k = Len(calls)
  OBVIOUS
<1> DEFINE x == (65535 - PushedBytes(k)) + PoppedBytes(k)
           d == PopStep(n)
<1>2. /\ k \in Nat /\ Len(calls)' = k + 1
      /\ PushedBytes(k) \in Nat /\ PoppedBytes(k) \in Nat
      /\ PushedBytes(Len(calls))' = PushedBytes(k) + 0
      /\ PoppedBytes(Len(calls))' = PoppedBytes(k) + d
      /\ CountedCalls(Len(calls))' = CountedCalls(k) + 1
  BY <1>1, SumsAppend DEF PopFrom
<1>3. registers["ESP"] = x % Dword /\ CountedCalls(k) = k
  BY <1>1 DEF Accounts
<1>4. /\ x \in Int /\ d \in Int
      /\ x + d = (65535 - (PushedBytes(k) + 0)) + (PoppedBytes(k) + d)
  BY SMT, <1>2 DEF Size, PopStep
<1>5. registers' = Moved(registers, "ESP", d)
  BY DEF PopFrom, AfterPop
<1> HIDE DEF x, d
<1>6. registers'["ESP"] = (x + d) % Dword
  BY <1>3, <1>4, <1>5, ESPMoves
<1> QED
  BY <1>2, <1>3, <1>4, <1>6 DEF Accounts

-----------------------------------------------------------------------------
(* The last push *)

(* The record of a push is the newest one.                                 *)
LEMMA NewestPushed ==
  ASSUME FramesNumbered, HelperTypeOK,
         NEW f, f.nr = Len(calls), frames' = frames \cup {f}
  PROVE  Newest' = {f}
<1>1. Len(calls) \in Nat
  BY DEF HelperTypeOK
<1>2. f \in Newest'
  BY SMT, <1>1 DEF Newest, FramesNumbered
<1>3. ASSUME NEW g \in Newest' PROVE g = f
  <2>1. g \in frames' /\ f.nr <= g.nr
    BY DEF Newest
  <2>2. g \in frames => g.nr \in Nat /\ g.nr < Len(calls)
    BY DEF FramesNumbered
  <2>3. g \notin frames
    BY SMT, <1>1, <2>1, <2>2
  <2> QED
    BY <2>1, <2>3
<1> QED
  BY <1>2, <1>3

(* Records are numbered below the calls made.                              *)
LEMMA PushNumbered ==
  ASSUME FramesNumbered, HelperTypeOK, NEW n \in Size, NEW v \in Value(n), PushOnto(n, v)
  PROVE  FramesNumbered'
<1>1. Len(calls) \in Nat /\ Len(calls)' = Len(calls) + 1
  BY DEF HelperTypeOK, PushOnto, Call
<1>2. PICK f : f.nr = Len(calls) /\ frames' = frames \cup {f}
  BY DEF PushOnto
<1> QED
  BY SMT, <1>1, <1>2 DEF FramesNumbered

(* A pop takes records away.                                               *)
LEMMA PopNumbered ==
  ASSUME FramesNumbered, HelperTypeOK, NEW n \in Size, PopFrom(n)
  PROVE  FramesNumbered'
<1>1. Len(calls) \in Nat /\ Len(calls)' = Len(calls) + 1
  BY DEF HelperTypeOK, PopFrom, Call
<1>2. frames' \subseteq frames
  BY DEF PopFrom
<1> QED
  BY SMT, <1>1, <1>2 DEF FramesNumbered

(* A push that stays inside the array starts at ESP - 1, without a wrap.   *)
LEMMA PushInside ==
  ASSUME HelperTypeOK, NEW n \in Size, Window(PushAddress, n) \subseteq Address
  PROVE  /\ PushAddress \in Address
         /\ registers["ESP"] = PushAddress + 1
<1>1. PICK e : e = registers["ESP"]
  OBVIOUS
<1>2. PICK D : D = Dword
  OBVIOUS
<1>3. e \in Int /\ 0 <= e /\ e < D /\ D \in Nat \ {0} /\ MemorySize \in Nat /\ MemorySize < D
  BY SMT, <1>1, <1>2, Widths DEF HelperTypeOK, CPUTypeOK, Slot, DwordValue
<1>4. PushAddress = (e - 1) % D
  BY <1>1, <1>2 DEF PushAddress
<1>5. (e - 1) % D \in Nat
  BY SMT, <1>3, ModRange
<1>6. PushAddress \in Address
  BY SMT, <1>4, <1>5 DEF Window, Size
<1>7. (e - 1) % D < MemorySize
  BY SMT, <1>3, <1>4, <1>6 DEF Address
<1>8. e # 0
  <2> SUFFICES ASSUME e = 0 PROVE FALSE
    OBVIOUS
  <2>1. (e - 1) % D = (e - 1) + D
    BY SMT, <1>3, ModNegative
  <2> QED
    BY SMT, <1>3, <1>7, <2>1
<1>9. (e - 1) % D = e - 1
  BY SMT, <1>3, <1>8, ModSmall
<1> QED
  BY SMT, <1>1, <1>3, <1>4, <1>6, <1>9

(* After a push LastPush describes it.                                     *)
LEMMA PushEntered ==
  ASSUME HelperTypeOK, FramesNumbered, NEW n \in Size, NEW v \in Value(n), PushOnto(n, v)
  PROVE  LastPush'
<1>1. PICK a : a = PushAddress
  OBVIOUS
<1>2. a \in Address /\ a \in Nat /\ registers["ESP"] = a + 1 /\ Window(a, n) \subseteq Address
  BY <1>1, PushInside DEF PushOnto, Address
<1>3. calls' # <<>> /\ LastCall' = [name |-> "push", size |-> n]
  BY DEF HelperTypeOK, PushOnto, Call, LastCall
<1>4. v \in Nat /\ v < Modulus(n) /\ result' = v
  BY SMT, ValueAssumption, Moduli DEF PushOnto
<1>5. registers'["ESP"] = ((a + 1) - n) % Dword
  <2>1. registers'["ESP"] = ((a + 1) + (-n)) % Dword
    BY <1>2 DEF PushOnto, AfterPush, Moved, HelperTypeOK, CPUTypeOK, Slot
  <2>2. (a + 1) + (-n) = (a + 1) - n
    BY SMT, <1>2 DEF Size
  <2> QED
    BY <2>1, <2>2
<1>6. \A i \in 0 .. 3 : i < n => readImm8(a + i)' = ByteOf(v, i)
  BY SMT, <1>1, <1>2, BytesWritten DEF PushOnto, Size
<1>7. \E f : f.at = a /\ Newest' = {f}
  <2> DEFINE f == [at |-> a, size |-> n, value |-> v, nr |-> Len(calls)]
  <2>1. f.nr = Len(calls) /\ f.at = a /\ frames' = frames \cup {f}
    BY <1>1 DEF PushOnto
  <2>2. Newest' = {f}
    BY <2>1, NewestPushed
  <2> QED
    BY <2>1, <2>2
<1>8. \E f \in Newest' : Newest' = {f} /\ f.at = a
  BY <1>7
<1>9. PushedFrom(a, n)'
  BY <1>2, <1>4, <1>5, <1>6, <1>8 DEF PushedFrom
<1> QED
  BY <1>2, <1>3, <1>9 DEF LastPush

-----------------------------------------------------------------------------
(* The invariant *)

(* A call outside the array, like no call at all, changes nothing of it.   *)
LEMMA NoCallKeeps ==
  ASSUME HelperIInv, UNCHANGED <<heap, ram, cpuVars, calls, result, frames>>,
         strayed' \in BOOLEAN
  PROVE  HelperIInv'
<1>1. HelperTypeOK'
  BY DEF HelperIInv, HelperTypeOK, MemoryTypeOK, CPUTypeOK, cpuVars
<1>2. Accounts'
  <2>1. \A name, n, k : Count(name, n, k)' = Count(name, n, k)
    BY DEF Count
  <2>2. calls' = calls /\ registers' = registers
    BY DEF cpuVars
  <2> QED
    BY <2>1, <2>2 DEF HelperIInv, Accounts, CountedCalls, PushedBytes, PoppedBytes
<1>3. FramesNumbered'
  BY DEF HelperIInv, FramesNumbered
<1>4. \A a : readImm8(a)' = readImm8(a)
  BY DEF readImm8
<1>5. \A a, n : PushedFrom(a, n) => PushedFrom(a, n)'
  BY <1>4 DEF PushedFrom, Newest, cpuVars
<1>6. LastPush'
  BY <1>5 DEF HelperIInv, LastPush, LastCall
<1> QED
  BY <1>1, <1>2, <1>3, <1>6 DEF HelperIInv

(* The invariant holds of every sequence of calls, of any length.          *)
LEMMA HelperInvariance == HelperSpec => []HelperIInv
<1>1. HelperInit => HelperIInv
  BY HelperInitTyped, HelperInitAccounts
  DEF HelperInit, HelperIInv, FramesNumbered, LastPush
<1>2. HelperIInv /\ [HelperNext]_helperVars => HelperIInv'
  <2> SUFFICES ASSUME HelperIInv, [HelperNext]_helperVars
               PROVE  HelperIInv'
    OBVIOUS
  <2> USE DEF HelperIInv
  <2>1. ASSUME NEW n \in Size, NEW v \in Value(n), PushOnto(n, v)
        PROVE  HelperIInv'
    BY <2>1, PushTyped, PushAccounts, PushNumbered, PushEntered
  <2>2. ASSUME NEW n \in Size, PopFrom(n)
        PROVE  HelperIInv'
    <3>1. LastCall'.name = "pop"
      BY <2>2 DEF HelperTypeOK, PopFrom, Call, LastCall
    <3>2. LastPush'
      BY <3>1 DEF LastPush
    <3> QED
      BY <2>2, <3>2, PopTyped, PopAccounts, PopNumbered
  <2>3. ASSUME NEW window, HelperStrays(window)
        PROVE  HelperIInv'
    BY <2>3, NoCallKeeps DEF HelperStrays
  <2>4. CASE UNCHANGED helperVars
    BY <2>4, NoCallKeeps DEF helperVars, memoryVars, HelperTypeOK, MemoryTypeOK
  <2> QED
    BY <2>1, <2>2, <2>3, <2>4 DEF HelperNext
<1> QED
  BY <1>1, <1>2, PTL DEF HelperSpec

-----------------------------------------------------------------------------
(* Balanced calls *)

(* A count is a number.                                                    *)
LEMMA CountTyped ==
  ASSUME NEW k \in Nat, NEW name, NEW n
  PROVE  Count(name, n, k) \in Nat
<1>1. IsFiniteSet(1 .. k)
  BY FS_Interval
<1>2. {j \in 1 .. k : calls[j] = [name |-> name, size |-> n]} \subseteq 1 .. k
  OBVIOUS
<1> QED
  BY <1>1, <1>2, FS_Subset, FS_CardinalityType DEF Count

(* Calls that pop at each size no more often than they push (cpu.cpp:436)  *)
(* leave ESP at or below 65,535, where a reset puts it, for any arguments  *)
(* and any memory, as long as there were too few of them to sink to zero.  *)
THEOREM BalancedCallsStayBelow == HelperSpec => []BalancedStaysBelow
<1>1. HelperIInv => BalancedStaysBelow
  <2> SUFFICES ASSUME HelperIInv, Balanced, Len(calls) < 16384
               PROVE  registers["ESP"] <= 65535
    BY DEF BalancedStaysBelow
  <2>1. PICK k : k = Len(calls)
    OBVIOUS
  <2>2. k \in Nat /\ k < 16384 /\ DOMAIN calls = 1 .. k
    BY <2>1 DEF HelperIInv, HelperTypeOK
  <2> DEFINE p1 == Count("push", 1, k)
             p2 == Count("push", 2, k)
             p4 == Count("push", 4, k)
             q1 == Count("pop", 1, k)
             q2 == Count("pop", 2, k)
             q4 == Count("pop", 4, k)
             x  == (65535 - (p1 + (2 * p2) + (4 * p4))) + (q1 + q2 + (3 * q4))
  <2>3. p1 \in Nat /\ p2 \in Nat /\ p4 \in Nat /\ q1 \in Nat /\ q2 \in Nat /\ q4 \in Nat
    BY <2>2, CountTyped
  <2>4. registers["ESP"] = x % Dword /\ (p1 + p2 + p4) + (q1 + q2 + q4) = k
    BY <2>1 DEF HelperIInv, Accounts, CountedCalls, PushedBytes, PoppedBytes
  <2>5. k # 0 => q1 <= p1 /\ q2 <= p2 /\ q4 <= p4
    <3> SUFFICES ASSUME k # 0 PROVE q1 <= p1 /\ q2 <= p2 /\ q4 <= p4
      OBVIOUS
    <3>1. k \in DOMAIN calls
      BY SMT, <2>2
    <3> QED
      BY <3>1 DEF Balanced, Size
  <2> HIDE DEF p1, p2, p4, q1, q2, q4
  <2>6. q1 <= p1 /\ q2 <= p2 /\ q4 <= p4
    BY SMT, <2>3, <2>4, <2>5
  <2>7. x \in Int /\ 0 <= x /\ x <= 65535
    BY SMT, <2>2, <2>3, <2>4, <2>6
  <2> HIDE DEF x
  <2>8. x % Dword = x
    BY SMT, <2>7, ModSmall, Widths
  <2> QED
    BY SMT, <2>4, <2>7, <2>8
<1> QED
  BY <1>1, HelperInvariance, PTL

-----------------------------------------------------------------------------
(* A pop after a push *)

\* The width of the program.  With fewer values of the top byte readImm32 cuts
\* it, and a pop of 32 bits has there a byte of the value that was pushed.
FullWidth == TopByte = 256

(* The record of the last push is the one that PushedAt names.             *)
LEMMA PushedAtLast ==
  ASSUME NEW a, NEW n, PushedFrom(a, n)
  PROVE  PushedAt = a
<1>1. PICK f \in Newest : Newest = {f} /\ f.at = a
  BY DEF PushedFrom
<1>2. (CHOOSE g \in Newest : TRUE) = f
  BY <1>1
<1> QED
  BY <1>1, <1>2 DEF PushedAt

(* Where a pop reads after a push of its size, without a wrap.             *)
LEMMA PopAddressAfterPush ==
  ASSUME NEW n \in Size, NEW a \in Address, PushedFrom(a, n),
         Window(PopAddress, n) \subseteq Address
  PROVE  PopAddress = (a + 2) - n
<1> DEFINE x == (a + 1) - n
           y == (a + 2) - n
<1>1. PICK D : D = Dword
  OBVIOUS
<1>2. /\ D \in Nat \ {0} /\ MemorySize + 16 <= D /\ MemorySize \in Nat
      /\ a \in Nat /\ a < MemorySize
  BY SMT, <1>1, Widths, MemoryAssumption DEF Address
<1>3. x \in Int /\ y \in Int /\ x + 1 = y /\ y < D /\ 0 <= y + 2
  BY SMT, <1>2 DEF Size
<1>4. PopAddress = ((x % D) + 1) % D
  BY <1>1 DEF PopAddress, PushedFrom
<1> HIDE DEF x, y
<1>5. PopAddress = y % D
  <2>1. PICK one : one = 1
    OBVIOUS
  <2>2. one \in Int
    BY SMT, <2>1
  <2>3. ((x % D) + one) % D = (x + one) % D
    BY <1>2, <1>3, <2>2, CutSum
  <2> QED
    BY <1>3, <1>4, <2>1, <2>3
<1>6. y % D \in Nat
  BY SMT, <1>2, <1>3, ModRange
<1>7. y % D \in Address
  BY SMT, <1>5, <1>6 DEF Window, Size
<1>8. y % D < MemorySize
  BY SMT, <1>2, <1>7 DEF Address
<1>9. y >= 0
  <2> SUFFICES ASSUME y < 0 PROVE FALSE
    BY SMT, <1>3
  <2>1. y % D = y + D
    BY SMT, <1>2, <1>3, ModNegative
  <2> QED
    BY SMT, <1>2, <1>3, <1>8, <2>1
<1>10. y % D = y
  BY SMT, <1>2, <1>3, <1>9, ModSmall
<1> QED
  BY <1>5, <1>10 DEF y

(* A pop of 16 bits returns the word that was stored there.                *)
LEMMA PoppedWord ==
  ASSUME NEW a \in Nat, PushedFrom(a, 2)
  PROVE  readImm(a, 2) = result
<1>1. readImm8(a + 0) = ByteOf(result, 0) /\ readImm8(a + 1) = ByteOf(result, 1)
  BY SMT DEF PushedFrom
<1>2. a + 0 = a /\ result \in Nat /\ result < 65536
  BY SMT, Moduli DEF PushedFrom
<1>3. readImm(a, 2) = (((result \div 256) % 256) * 256) + (result % 256)
  BY SMT, <1>1, <1>2 DEF readImm, readImm16, ByteOf, Byte
<1>4. (((result \div 256) % 256) * 256) + (result % 256) = result
  BY SMT, <1>2
<1> QED
  BY <1>3, <1>4

(* A pop of 32 bits has the lower half of the value pushed on top of the   *)
(* word below it.                                                          *)
LEMMA PoppedDword ==
  ASSUME FullWidth, MemoryTypeOK, NEW a \in Nat, a - 2 \in Address, a - 1 \in Address,
         PushedFrom(a, 4)
  PROVE  readImm(a - 2, 4) \div Word = result % Word
<1> DEFINE below == readImm16(a - 2)
           lo == readImm8(a)
           hi == readImm8(a + 1)
<1>1. lo = result % 256 /\ hi = (result \div 256) % 256 /\ result \in Nat
  <2>1. readImm8(a + 0) = ByteOf(result, 0) /\ readImm8(a + 1) = ByteOf(result, 1)
    BY SMT DEF PushedFrom
  <2>2. a + 0 = a
    BY SMT
  <2> QED
    BY SMT, <2>1, <2>2 DEF ByteOf, Byte, PushedFrom
<1>2. (a - 2) + 1 = a - 1 /\ (a - 2) + 2 = a /\ (a - 2) + 3 = a + 1
  BY SMT
<1>3. below \in Int /\ 0 <= below /\ below < 65536
  BY SMT, <1>2, ReadWord, WordBounds
<1>4. readImm(a - 2, 4) = ((hi % 256) * 16777216) + (lo * 65536) + below
  BY SMT, <1>2 DEF readImm, readImm32, FullWidth, Word
<1> HIDE DEF below, lo, hi
<1>5. readImm(a - 2, 4) = (((hi * 256) + lo) * 65536) + below
  BY SMT, <1>1, <1>3, <1>4
<1>6. (hi * 256) + lo = result % 65536
  BY SMT, <1>1
<1>7. (((result % 65536) * 65536) + below) \div 65536 = result % 65536
  BY SMT, <1>1, <1>3
<1> QED
  BY <1>5, <1>6, <1>7 DEF Word

(* What a pop returns right after a push of its size (cpu.cpp:436-458),    *)
(* wherever the calls before left the stack pointer and whatever the array *)
(* held: of the three pairs of functions only the two of 16 bits fit.      *)
THEOREM PopOfPushed ==
  ASSUME FullWidth
  PROVE  HelperSpec => PopAfterPush
<1>1. ASSUME HelperIInv, HelperNext, calls # <<>>, LastCall.name = "push", NEW n, n = LastCall.size,
             calls' # calls, calls'[Len(calls')] = [name |-> "pop", size |-> n]
      PROVE  CASE n = 1 -> result' = readImm8(PopAddress) /\ PopAddress # PushedAt
               [] n = 2 -> result' = result
               [] n = 4 -> result' \div Word = result % Word
  <2> USE <1>1 DEF HelperIInv
  <2>1. n \in Size
    <3> DEFINE Entry == [name : {"push", "pop"}, size : Size]
    <3>1. calls \in Seq(Entry) /\ calls # <<>>
      BY DEF HelperTypeOK
    <3> HIDE DEF Entry
    <3>2. LastCall \in Entry
      BY <3>1 DEF LastCall
    <3> QED
      BY <3>2 DEF Entry
  <2>2. PopFrom(n)
    <3>1. ASSUME NEW m \in Size, NEW v \in Value(m), PushOnto(m, v) PROVE FALSE
      BY <3>1 DEF PushOnto, Call, HelperTypeOK
    <3>2. ASSUME NEW m \in Size, PopFrom(m) PROVE m = n
      BY <3>2 DEF PopFrom, Call, HelperTypeOK
    <3>3. ASSUME NEW window, HelperStrays(window) PROVE FALSE
      BY <3>3 DEF HelperStrays
    <3> QED
      BY <3>1, <3>2, <3>3 DEF HelperNext
  <2>3. PICK a \in Address : PushedFrom(a, n)
    BY DEF LastPush
  <2>4. PopAddress = (a + 2) - n /\ a \in Nat /\ Window((a + 2) - n, n) \subseteq Address
    BY SMT, <2>1, <2>2, <2>3, PopAddressAfterPush DEF PopFrom, Address
  <2>5. PushedAt = a
    BY <2>3, PushedAtLast
  <2>6. result' = readImm(PopAddress, n)
    BY <2>2 DEF PopFrom
  <2>7. CASE n = 1
    <3>1. PopAddress = a + 1 /\ PopAddress # a
      BY SMT, <2>4, <2>7
    <3>2. result' = readImm8(PopAddress)
      BY SMT, <2>6, <2>7 DEF readImm
    <3> QED
      BY SMT, <2>5, <2>7, <3>1, <3>2
  <2>8. CASE n = 2
    <3>1. PopAddress = a
      BY SMT, <2>4, <2>8
    <3>2. result' = result
      BY <2>3, <2>4, <2>6, <2>8, <3>1, PoppedWord
    <3> QED
      BY SMT, <2>8, <3>2
  <2>9. CASE n = 4
    <3>1. PopAddress = a - 2
      BY SMT, <2>4, <2>9
    <3>2. a - 2 \in Address /\ a - 1 \in Address
      BY SMT, <2>4, <2>9 DEF Window
    <3>3. result' \div Word = result % Word
      BY <2>3, <2>4, <2>6, <2>9, <3>1, <3>2, PoppedDword DEF HelperTypeOK
    <3> QED
      BY SMT, <2>9, <3>3
  <2> QED
    BY <2>1, <2>7, <2>8, <2>9 DEF Size
<1>2. HelperIInv /\ [HelperNext]_helperVars => [
       calls' # calls /\ calls # <<>> /\ LastCall.name = "push" =>
         \A n \in {LastCall.size} :
           calls'[Len(calls')] = [name |-> "pop", size |-> n] =>
             CASE n = 1 -> result' = readImm8(PopAddress) /\ PopAddress # PushedAt
               [] n = 2 -> result' = result
               [] n = 4 -> result' \div Word = result % Word]_helperVars
  BY <1>1 DEF helperVars
<1> QED
  BY <1>2, HelperInvariance, PTL DEF HelperSpec, PopAfterPush

=============================================================================
