------------------------------ MODULE CPUProofs ------------------------------
(***************************************************************************)
(* Lemmas about the operators the machine is built from: what the reads,   *)
(* the writes, the views of the registers and the arithmetic return, for   *)
(* every size of memory and every content.                                 *)
(***************************************************************************)
EXTENDS Instructions, FiniteSetTheorems, TLAPS

(* The remainder by a positive number, which the solver is told once.      *)
LEMMA ModRange == \A a \in Int, b \in Nat \ {0} : a % b \in 0 .. (b - 1)
  BY SMT

(* A remainder is the number itself when it is small.                      *)
LEMMA ModSmall == \A a \in Int, b \in Nat \ {0} : 0 <= a /\ a < b => a % b = a
  BY SMT

(* ... and one modulus less when it is a little too large.                 *)
LEMMA ModOnce == \A a \in Int, b \in Nat \ {0} : b <= a /\ a < b + b => a % b = a - b
  BY SMT

(* A remainder is one modulus more when the number is a little below zero. *)
LEMMA ModNegative == \A a \in Int, b \in Nat \ {0} : a < 0 /\ 0 <= a + b => a % b = a + b
  BY SMT

(* What division leaves, and what it takes away.                           *)
LEMMA Division ==
  \A x \in Int, d \in Nat \ {0} :
    /\ x \div d \in Int /\ x % d \in Int
    /\ x = (d * (x \div d)) + (x % d)
    /\ 0 <= x % d /\ x % d < d
  BY SMT

(* The only multiple of d that is smaller than d is zero.                  *)
LEMMA SmallMultiple ==
  ASSUME NEW d \in Nat \ {0}, NEW z \in Int, d * z < d, -d < d * z
  PROVE  z = 0
<1>1. CASE z >= 1
  <2>1. d * z >= d
    BY SMT, <1>1
  <2> QED
    BY SMT, <2>1
<1>2. CASE z <= -1
  <2>1. d * z <= -d
    BY SMT, <1>2
  <2> QED
    BY SMT, <2>1
<1> QED
  BY SMT, <1>1, <1>2

(* A number has one remainder.                                             *)
LEMMA OneRemainder ==
  ASSUME NEW d \in Nat \ {0}, NEW p \in Int, NEW q \in Int, NEW r \in Int, NEW s \in Int,
         0 <= r, r < d, 0 <= s, s < d, (d * p) + r = (d * q) + s
  PROVE  r = s
<1>1. d * (p - q) = s - r
  BY SMT
<1>2. p - q \in Int /\ d * (p - q) < d /\ -d < d * (p - q)
  BY SMT, <1>1
<1>3. p - q = 0
  BY <1>2, SmallMultiple
<1> QED
  BY SMT, <1>3

(* A sum is cut the same when one of its terms was cut before.             *)
LEMMA CutSum ==
  ASSUME NEW d \in Nat \ {0}, NEW x \in Int, NEW k \in Int
  PROVE  ((x % d) + k) % d = (x + k) % d
<1> DEFINE q == x \div d
           r == x % d
           y == r + k
           z == x + k
           qy == y \div d
           ry == y % d
           qz == z \div d
           rz == z % d
<1>1. q \in Int /\ r \in Int /\ x = (d * q) + r
  BY Division
<1> HIDE DEF q, r
<1>2. y \in Int /\ z \in Int /\ z = (d * q) + y
  BY SMT, <1>1
<1> HIDE DEF y, z
<1>3. /\ qy \in Int /\ ry \in Int /\ 0 <= ry /\ ry < d /\ y = (d * qy) + ry
      /\ qz \in Int /\ rz \in Int /\ 0 <= rz /\ rz < d /\ z = (d * qz) + rz
  BY <1>2, Division
<1> HIDE DEF qy, ry, qz, rz
<1>4. q + qy \in Int /\ (d * (q + qy)) + ry = (d * qz) + rz
  BY SMT, <1>1, <1>2, <1>3
<1>5. ry = rz
  BY <1>3, <1>4, OneRemainder
<1> QED
  BY <1>5 DEF ry, rz, y, z, r

(* Adding an element or not adds its bit to the cardinality.               *)
LEMMA CountOneMore ==
  ASSUME NEW S, IsFiniteSet(S), NEW x, x \notin S, NEW b \in {0, 1},
         NEW T, T = IF b = 1 THEN S \cup {x} ELSE S
  PROVE  /\ IsFiniteSet(T)
         /\ Cardinality(T) = Cardinality(S) + b
<1>1. Cardinality(S) \in Nat
  BY FS_CardinalityType
<1>2. CASE b = 1
  BY <1>2, FS_AddElement
<1>3. CASE b = 0
  BY SMT, <1>1, <1>3
<1> QED
  BY <1>2, <1>3

(* The widths are positive, and the memory is smaller than an address.     *)
LEMMA Widths ==
  /\ TopByte \in Nat \ {0}
  /\ Dword \in Nat \ {0}
  /\ Dword >= 16777216
  /\ MemorySize \in Nat \ {0}
  /\ MemorySize < Dword
  BY SMT, MemoryAssumption DEF Dword

(* Arithmetic on a uint32_t stays one.                                     *)
LEMMA Wraps == \A a \in Int : a % Dword \in DwordValue
  BY SMT, ModRange, Widths DEF DwordValue

(* The value of Word, as bounds: an interval that ends at a numeral is     *)
(* spelled out element by element when it reaches the solver.              *)
LEMMA WordWidth == Word \in Nat /\ Word > 65535 /\ Word < 65537
  BY SMT DEF Word

(* A word is an integer of 16 bits.                                        *)
LEMMA WordBounds ==
  ASSUME NEW x
  PROVE  x \in WordValue <=> x \in Int /\ 0 <= x /\ x < 65536
  BY SMT, WordWidth DEF WordValue

(* A size selects one of three moduli.                                     *)
LEMMA Moduli ==
  /\ Modulus(1) = 256 /\ Modulus(2) = 65536 /\ Modulus(4) = Dword
  /\ \A n \in Size : Modulus(n) \in Nat \ {0} /\ Modulus(n) <= Dword
  BY SMT, Widths DEF Modulus, Size, Byte, Word

-----------------------------------------------------------------------------
(* Memory *)

(* A byte inside the array is a byte, whoever put it there.                *)
LEMMA ReadByte ==
  ASSUME MemoryTypeOK, NEW a \in Address
  PROVE  readImm8(a) \in ByteValue
  BY SMT, HeapAssumption DEF MemoryTypeOK, readImm8

(* A word inside the array is a 16 bit value.                              *)
LEMMA ReadWord ==
  ASSUME MemoryTypeOK, NEW a \in Address, a + 1 \in Address
  PROVE  readImm16(a) \in WordValue
<1> DEFINE lo == readImm8(a)
           hi == readImm8(a + 1)
<1>1. lo \in 0 .. 255 /\ hi \in 0 .. 255
  BY SMT, ReadByte DEF ByteValue, Byte
<1>2. readImm16(a) = (hi * 256) + lo
  BY DEF readImm16, Byte
<1> HIDE DEF lo, hi
<1>3. (hi * 256) + lo \in Int /\ 0 <= (hi * 256) + lo /\ (hi * 256) + lo < 65536
  BY SMT, <1>1
<1> QED
  BY SMT, <1>2, <1>3, WordBounds

(* A double word inside the array fits a register.                         *)
LEMMA ReadDword ==
  ASSUME MemoryTypeOK, NEW a \in Address,
         a + 1 \in Address, a + 2 \in Address, a + 3 \in Address
  PROVE  readImm32(a) \in DwordValue
<1> DEFINE low == readImm16(a)
           mid == readImm8(a + 2)
           top == readImm8(a + 3)
           cut == top % TopByte
<1>1. mid \in 0 .. 255 /\ top \in 0 .. 255
  BY SMT, ReadByte DEF ByteValue, Byte
<1>2. low \in Int /\ 0 <= low /\ low < 65536
  BY SMT, ReadWord, WordBounds
<1>3. readImm32(a) = (cut * 16777216) + (mid * 65536) + low
  BY SMT DEF readImm32, Word
<1> HIDE DEF low, mid, top
<1>4. cut \in 0 .. (TopByte - 1)
  BY SMT, <1>1, ModRange, Widths
<1> HIDE DEF cut
<1> QED
  BY SMT, <1>1, <1>2, <1>3, <1>4, Widths DEF DwordValue, Dword

(* A window inside the array, read at the size of an operand.              *)
LEMMA ReadSized ==
  ASSUME MemoryTypeOK, NEW n \in Size, NEW a \in Nat, Window(a, n) \subseteq Address
  PROVE  readImm(a, n) \in 0 .. (Modulus(n) - 1)
<1>1. CASE n = 1
  <2>1. a \in Address
    BY SMT, <1>1 DEF Window
  <2> QED
    BY SMT, <1>1, <2>1, ReadByte DEF readImm, Modulus, ByteValue
<1>2. CASE n = 2
  <2>1. a \in Address /\ a + 1 \in Address
    BY SMT, <1>2 DEF Window
  <2> QED
    BY SMT, <1>2, <2>1, ReadWord DEF readImm, Modulus, WordValue
<1>3. CASE n = 4
  <2>1. a \in Address /\ a + 1 \in Address /\ a + 2 \in Address /\ a + 3 \in Address
    BY SMT, <1>3 DEF Window
  <2> QED
    BY SMT, <1>3, <2>1, ReadDword DEF readImm, Modulus, DwordValue
<1> QED
  BY SMT, <1>1, <1>2, <1>3 DEF Size

(* A displacement or immediate field, possibly absent, is at least zero.   *)
LEMMA ReadField ==
  ASSUME MemoryTypeOK, NEW n \in {0, 1, 2, 4}, NEW a \in Nat, Window(a, n) \subseteq Address
  PROVE  readImm(a, n) \in Nat
<1>1. CASE n = 0
  BY SMT, <1>1 DEF readImm
<1>2. CASE n \in Size
  BY SMT, <1>2, ReadSized, Moduli
<1> QED
  BY SMT, <1>1, <1>2 DEF Size

(* The bytes of a natural number are bytes.                                *)
LEMMA BytesOf ==
  \A v \in Nat, i \in Nat : ByteOf(v, i) \in ByteValue
  BY SMT DEF ByteOf, ByteValue, Byte, Word

(* A write inside the array leaves a memory of the same type.              *)
LEMMA WriteTyped ==
  ASSUME MemoryTypeOK, NEW v \in Nat, NEW n \in Size, NEW a \in Nat,
         Window(a, n) \subseteq Address, ram' = writeImm(v, a, n)
  PROVE  DOMAIN ram' \subseteq Address /\ \A x \in DOMAIN ram' : ram'[x] \in ByteValue
<1>1. \A x \in Window(a, n) : x - a \in Nat
  BY SMT DEF Window, Size
<1>2. \A x \in Window(a, n) : ByteOf(v, x - a) \in ByteValue
  BY SMT, <1>1, BytesOf
<1> QED
  BY SMT, <1>2 DEF MemoryTypeOK, writeImm

(* What was written is there, byte by byte.                                *)
LEMMA BytesWritten ==
  ASSUME NEW n \in Nat, NEW v, NEW a \in Nat, ram' = writeImm(v, a, n)
  PROVE  \A i \in Nat : i < n => readImm8(a + i)' = ByteOf(v, i)
<1> SUFFICES ASSUME NEW i \in Nat, i < n
             PROVE  readImm8(a + i)' = ByteOf(v, i)
  OBVIOUS
<1>1. a + i \in Window(a, n) /\ (a + i) - a = i
  BY SMT DEF Window
<1> DEFINE x == a + i
<1>2. x \in DOMAIN ram' /\ ram'[x] = ByteOf(v, x - a)
  BY <1>1 DEF writeImm
<1> QED
  BY <1>1, <1>2 DEF readImm8

(* What was written at a size reads back at that size, cut to it.          *)
LEMMA SizedReadBack ==
  ASSUME NEW n \in Size, NEW v \in Nat, n = 4 => v < Dword, NEW a \in Nat,
         ram' = writeImm(v, a, n)
  PROVE  readImm(a, n)' = v % Modulus(n)
<1>1. \A i \in Nat : i < n => readImm8(a + i)' = ByteOf(v, i)
  BY BytesWritten DEF Size
<1>2. /\ ByteOf(v, 0) = v % 256
      /\ ByteOf(v, 1) = (v \div 256) % 256
      /\ ByteOf(v, 2) = (v \div 65536) % 256
      /\ ByteOf(v, 3) = (v \div 16777216) % 256
  BY SMT DEF ByteOf, Byte, Word
<1>3. a + 0 = a
  BY SMT
<1>4. CASE n = 1
  <2>1. readImm8(a)' = ByteOf(v, 0)
    BY SMT, <1>1, <1>3, <1>4
  <2> QED
    BY <1>2, <1>4, <2>1, Moduli DEF readImm
<1>5. ASSUME n # 1
      PROVE  readImm16(a)' = v % 65536
  <2>1. readImm8(a)' = ByteOf(v, 0) /\ readImm8(a + 1)' = ByteOf(v, 1)
    BY SMT, <1>1, <1>3, <1>5 DEF Size
  <2>2. readImm16(a)' = (ByteOf(v, 1) * 256) + ByteOf(v, 0)
    BY <2>1 DEF readImm16, Byte
  <2>3. (((v \div 256) % 256) * 256) + (v % 256) = v % 65536
    BY SMT
  <2> QED
    BY <1>2, <2>2, <2>3
<1>6. CASE n = 2
  <2>1. readImm(a, 2)' = readImm16(a)'
    BY SMT DEF readImm
  <2> QED
    BY SMT, <1>5, <1>6, <2>1, Moduli
<1>7. CASE n = 4
  <2>1. readImm(a, 4)' = readImm32(a)'
    BY SMT DEF readImm
  <2>2. readImm8(a + 2)' = ByteOf(v, 2) /\ readImm8(a + 3)' = ByteOf(v, 3)
    BY SMT, <1>1, <1>7
  <2>3. readImm16(a)' = v % 65536
    BY SMT, <1>5, <1>7
  <2>4. readImm32(a)' = ((ByteOf(v, 3) % TopByte) * 16777216) + (ByteOf(v, 2) * 65536) + (v % 65536)
    BY <2>2, <2>3 DEF readImm32, Word
  <2> DEFINE top == v \div 16777216
  <2>5. v < 16777216 * TopByte
    BY <1>7 DEF Dword
  <2>6. top \in Nat /\ top < TopByte /\ TopByte <= 256
    BY SMT, <2>5, MemoryAssumption
  <2>7. v = (top * 16777216) + (((v \div 65536) % 256) * 65536) + (v % 65536)
    BY SMT
  <2> HIDE DEF top
  <2>8. (top % 256) % TopByte = top
    <3>1. top % 256 = top
      BY SMT, <2>6, Widths
    <3>2. top % TopByte = top
      BY SMT, <2>6, ModSmall, Widths
    <3> QED
      BY <3>1, <3>2
  <2>9. readImm32(a)' = v
    BY <1>2, <2>4, <2>7, <2>8 DEF top
  <2>10. v % Dword = v
    BY SMT, <1>7, ModSmall, Widths
  <2> QED
    BY <1>7, <2>1, <2>9, <2>10, Moduli
<1> QED
  BY <1>4, <1>6, <1>7 DEF Size

-----------------------------------------------------------------------------
(* Registers *)

(* Every register name belongs to a slot.                                  *)
LEMMA SlotOfRegister == \A reg \in Registers : SlotOf(reg) \in Slot
  BY SMT DEF SlotOf, Registers, Slot, Segment, Low16, Low8, High8

(* What a register shows is never wider than its slot.                     *)
LEMMA ViewTyped ==
  ASSUME NEW reg, NEW x \in DwordValue
  PROVE  ViewOf(reg, x) \in DwordValue
  BY SMT, Widths DEF ViewOf, DwordValue, Byte, Word

(* A store through any view leaves a slot of 32 bits.                      *)
LEMMA StoredTyped ==
  ASSUME NEW reg, NEW x \in DwordValue, NEW v \in Nat
  PROVE  StoredIn(reg, x, v) \in DwordValue
<1>1. v % Dword \in DwordValue
  BY SMT, ModRange, Widths DEF DwordValue
<1>2. ((x \div 65536) * 65536) + (v % 65536) \in DwordValue
  BY SMT, Widths DEF DwordValue, Dword
<1>3. ((x \div 256) * 256) + (v % 256) \in DwordValue
  BY SMT, Widths DEF DwordValue, Dword
<1>4. ((x \div 65536) * 65536) + ((v % 256) * 256) + (x % 256) \in DwordValue
  BY SMT, Widths DEF DwordValue, Dword
<1> QED
  BY SMT, <1>1, <1>2, <1>3, <1>4 DEF StoredIn, Byte, Word

(* Reading any register, whatever its width, gives a 32 bit value.         *)
LEMMA GetRegisterTyped ==
  ASSUME CPUTypeOK, NEW reg \in Registers
  PROVE  getRegister(reg) \in DwordValue
<1>1. registers[SlotOf(reg)] \in DwordValue
  BY SMT, SlotOfRegister DEF CPUTypeOK
<1> QED
  BY SMT, <1>1, ViewTyped DEF getRegister

(* Storing through any register keeps the type of the file.                *)
LEMMA SetRegisterTyped ==
  ASSUME NEW regs \in [Slot -> DwordValue], NEW reg \in Registers, NEW v \in Nat
  PROVE  setRegister(regs, reg, v) \in [Slot -> DwordValue]
<1>1. SlotOf(reg) \in Slot
  BY SMT, SlotOfRegister
<1>2. StoredIn(reg, regs[SlotOf(reg)], v) \in DwordValue
  BY SMT, <1>1, StoredTyped
<1> QED
  BY SMT, <1>1, <1>2 DEF setRegister

(* incGetRegister and decGetRegister wrap.                                 *)
LEMMA MovedTyped ==
  ASSUME NEW regs \in [Slot -> DwordValue], NEW slot \in Slot, NEW n \in Int
  PROVE  Moved(regs, slot, n) \in [Slot -> DwordValue]
<1> DEFINE moved == regs[slot] + n
<1>1. moved \in Int
  BY SMT, Widths DEF DwordValue
<1>2. Moved(regs, slot, n) = [regs EXCEPT ![slot] = moved % Dword]
  BY SMT DEF Moved
<1> HIDE DEF moved
<1>3. moved % Dword \in DwordValue
  BY SMT, <1>1, Wraps
<1> QED
  BY SMT, <1>2, <1>3

(* The fields of a ModRM byte.                                             *)
LEMMA ModRMFields ==
  ASSUME NEW m \in ByteValue
  PROVE  ModOf(m) \in 0 .. 3 /\ RegOf(m) \in 0 .. 7 /\ RmOf(m) \in 0 .. 7
  BY SMT DEF ByteValue, Byte, ModOf, RegOf, RmOf

(* A register number names a register at every size, and the byte          *)
(* registers and the word registers show no more than their size.          *)
LEMMA NumberedRegister ==
  ASSUME NEW n \in Size, NEW k \in 0 .. 7
  PROVE  /\ Numbered(n, k) \in Registers
         /\ n = 1 => Numbered(n, k) \in Low8 \cup High8
         /\ n = 2 => Numbered(n, k) \in Low16
         /\ SlotOf(Numbered(n, k)) \in Slot \ {"EIP"}
<1>1. k = 0 \/ k = 1 \/ k = 2 \/ k = 3 \/ k = 4 \/ k = 5 \/ k = 6 \/ k = 7
  BY SMT
<1>2. CASE n = 1
  BY SMT, <1>1, <1>2 DEF Numbered, General8, Registers, Low8, High8, Slot, Segment, SlotOf
<1>3. CASE n = 2
  BY SMT, <1>1, <1>3 DEF Numbered, General16, Registers, Low16, Slot, Segment, SlotOf
<1>4. CASE n = 4
  BY SMT, <1>1, <1>4 DEF Numbered, General, Registers, Slot, Segment, SlotOf
<1> QED
  BY SMT, <1>2, <1>3, <1>4 DEF Size

(* The operands a ModRM byte names are registers.                          *)
LEMMA OperandRegisters ==
  ASSUME NEW n \in Size, NEW m \in ByteValue
  PROVE  /\ RmRegister(n, m) \in Registers
         /\ TopRegister(n, m) \in Registers
         /\ SlotOf(RmRegister(n, m)) \in Slot \ {"EIP"}
         /\ SlotOf(TopRegister(n, m)) \in Slot \ {"EIP"}
<1>1. RegOf(m) \in 0 .. 7 /\ RmOf(m) \in 0 .. 7
  BY SMT, ModRMFields
<1>2. "EAX" \in Registers /\ SlotOf("EAX") \in Slot \ {"EIP"}
  BY SMT DEF Registers, Slot, Segment, SlotOf
<1> QED
  BY SMT, <1>1, <1>2, NumberedRegister DEF RmRegister, TopRegister

(* A register named at a size shows a value of that size.                  *)
LEMMA NumberedValue ==
  ASSUME CPUTypeOK, NEW n \in Size, NEW k \in 0 .. 7
  PROVE  getRegister(Numbered(n, k)) \in 0 .. (Modulus(n) - 1)
<1> DEFINE reg == Numbered(n, k)
           x == registers[SlotOf(reg)]
<1>1. reg \in Registers /\ (n = 1 => reg \in Low8 \cup High8) /\ (n = 2 => reg \in Low16)
  BY SMT, NumberedRegister
<1>2. x \in DwordValue
  BY SMT, <1>1, SlotOfRegister DEF CPUTypeOK
<1> HIDE DEF x, reg
<1>3. CASE n = 1
  <2>1. ViewOf(reg, x) \in 0 .. 255
    <3>1. reg \notin Low16
      BY SMT, <1>1, <1>3 DEF Low8, High8, Low16
    <3> QED
      BY SMT, <1>1, <1>2, <1>3, <3>1, Widths DEF ViewOf, DwordValue, Byte
  <2> QED
    BY SMT, <1>3, <2>1, Moduli DEF getRegister, x, reg
<1>4. CASE n = 2
  <2>1. ViewOf(reg, x) = x % Word
    <3>1. reg \in Low16
      BY SMT, <1>1, <1>4
    <3>2. x \in Int
      BY SMT, <1>2, Widths DEF DwordValue
    <3> QED
      BY SMT, <3>1, <3>2 DEF ViewOf, Byte, Word, Low16, Low8, High8
  <2>2. x % Word \in 0 .. (Word - 1)
    BY SMT, <1>2, ModRange, WordWidth, Widths DEF DwordValue
  <2> QED
    BY SMT, <1>4, <2>1, <2>2 DEF getRegister, x, reg, Modulus
<1>5. CASE n = 4
  <2>1. ViewOf(reg, x) \in DwordValue
    BY SMT, <1>2, ViewTyped
  <2> QED
    BY SMT, <1>5, <2>1 DEF getRegister, x, reg, Modulus, DwordValue
<1> QED
  BY SMT, <1>3, <1>4, <1>5 DEF Size

-----------------------------------------------------------------------------
(* The address of an operand *)

(* The sum of registers that an effective address starts from.             *)
LEMMA BaseTyped ==
  ASSUME CPUTypeOK, NEW m \in ByteValue
  PROVE  Base16(m) \in Nat /\ Base32(m) \in Nat
<1>1. \A reg \in Registers : getRegister(reg) \in Nat
  <2>1. \A reg \in Registers : getRegister(reg) \in DwordValue
    BY GetRegisterTyped
  <2> QED
    BY SMT, <2>1, Widths DEF DwordValue
<1>2. RmOf(m) \in 0 .. 7
  BY SMT, ModRMFields
<1>3. {"BX", "SI", "DI", "BP"} \subseteq Registers
  BY SMT DEF Registers, Low16
<1>4. Base16(m) \in Nat
  <2> DEFINE bx == getRegister("BX")  si == getRegister("SI")
             di == getRegister("DI")  bp == getRegister("BP")
  <2>1. bx \in Nat /\ si \in Nat /\ di \in Nat /\ bp \in Nat
    BY SMT, <1>1, <1>3
  <2>2. Base16(m) \in {bx + si, bx + di, bp + si, bp + di, si, di, 0, bp, bx}
    BY SMT, <1>2 DEF Base16
  <2> HIDE DEF bx, si, di, bp
  <2> QED
    BY SMT, <2>1, <2>2
<1>5. \A k \in 0 .. 7 : registers[General[k + 1]] \in Nat
  <2>1. \A k \in 0 .. 7 : General[k + 1] \in Slot
    BY SMT DEF General, Slot
  <2> QED
    BY SMT, <2>1, Widths DEF CPUTypeOK, DwordValue
<1>6. Base32(m) \in Nat
  BY SMT, <1>2, <1>5 DEF Base32, sibByte32bit
<1> QED
  BY <1>4, <1>6

(* The displacement field is 0, 1, 2 or 4 bytes, and EIP moves over at     *)
(* most those bytes.                                                       *)
LEMMA DisplacementTyped ==
  ASSUME NEW a \in BOOLEAN, NEW m \in ByteValue
  PROVE  /\ DisplacementBytes(a, m) \in {0, 1, 2, 4}
         /\ DisplacementStep(a, m) \in 0 .. DisplacementBytes(a, m)
<1>1. ModOf(m) \in 0 .. 3 /\ RmOf(m) \in 0 .. 7
  BY SMT, ModRMFields
<1> QED
  BY SMT, <1>1 DEF DisplacementBytes, DisplacementStep

(* An effective address is a natural number: every addition is unsigned.   *)
LEMMA OperandAddressTyped ==
  ASSUME MemoryTypeOK, CPUTypeOK, NEW n \in Size, NEW op, op.at \in Nat, ModRM(op) \in ByteValue,
         Window(op.at + 2, DisplacementBytes(a32(op), ModRM(op))) \subseteq Address
  PROVE  OperandAddress(n, op) \in Nat
<1> DEFINE m == ModRM(op)
           d == DisplacementBytes(a32(op), m)
           field == readImm(op.at + 2, d)
<1>1. a32(op) \in BOOLEAN
  BY SMT DEF a32
<1>2. d \in {0, 1, 2, 4}
  BY SMT, <1>1, DisplacementTyped
<1>3. field \in Nat
  BY SMT, <1>2, ReadField
<1>4. op.at + 1 + 1 = op.at + 2
  BY SMT
<1>5. Base16(m) \in Nat /\ Base32(m) \in Nat
  BY BaseTyped
<1>6. a32(op) => ModRMValue32bit(m, op.at + 1) = (Base32(m) + field) % Dword
  BY <1>4 DEF ModRMValue32bit
<1>7. ~a32(op) => ModRMValue16bit(m, op.at + 1) = Base16(m) + field
  BY <1>1, <1>4 DEF ModRMValue16bit
<1>8. /\ a32(op) => OperandAddress(n, op) \in {(Base32(m) + field) % Dword, ((Base32(m) + field) % Dword) % Word}
      /\ ~a32(op) => OperandAddress(n, op) \in {Base16(m) + field, (Base16(m) + field) % Word}
  BY SMT, <1>6, <1>7 DEF OperandAddress
<1> HIDE DEF field, m
<1> DEFINE wide == Base32(m) + field
           narrow == Base16(m) + field
<1>9. wide \in Nat /\ narrow \in Nat
  BY SMT, <1>3, <1>5
<1> HIDE DEF wide, narrow
<1>10. wide % Dword \in Nat /\ narrow % Word \in Nat
  BY SMT, <1>9, ModRange, Widths, WordWidth
<1>11. (wide % Dword) % Word \in Nat
  <2> DEFINE cut == wide % Dword
  <2>1. cut \in Nat
    BY <1>10
  <2> HIDE DEF cut
  <2>2. cut % Word \in Nat
    BY SMT, <2>1, ModRange, WordWidth
  <2> QED
    BY <2>2 DEF cut
<1> QED
  BY SMT, <1>1, <1>8, <1>9, <1>10, <1>11 DEF wide, narrow

-----------------------------------------------------------------------------
(* Arithmetic *)

(* A bit that either operand has, or nothing.                              *)
LEMMA OrBitTyped ==
  \A x, y \in Nat, p \in Nat : OrBit(x, y, p) \in {0, p}
  BY SMT DEF OrBit

(* The union of the bits of two bytes is a byte.                           *)
LEMMA OrByteTyped ==
  ASSUME NEW x \in Nat, NEW y \in Nat
  PROVE  OrByte(x, y) \in ByteValue
<1>1. /\ OrBit(x, y, 1) \in {0, 1}
      /\ OrBit(x, y, 2) \in {0, 2}
      /\ OrBit(x, y, 4) \in {0, 4}
      /\ OrBit(x, y, 8) \in {0, 8}
      /\ OrBit(x, y, 16) \in {0, 16}
      /\ OrBit(x, y, 32) \in {0, 32}
      /\ OrBit(x, y, 64) \in {0, 64}
      /\ OrBit(x, y, 128) \in {0, 128}
  BY SMT, OrBitTyped
<1> QED
  BY SMT, <1>1 DEF OrByte, ByteValue, Byte

(* The bitwise or of two values is a natural number.                       *)
LEMMA OrValueTyped ==
  ASSUME NEW x \in Nat, NEW y \in Nat
  PROVE  OrValue(x, y) \in Nat
<1> DEFINE or(i) == OrByte(ByteOf(x, i), ByteOf(y, i))
<1>1. \A i \in Nat : or(i) \in Nat
  <2>1. \A i \in Nat : ByteOf(x, i) \in Nat /\ ByteOf(y, i) \in Nat
    <3>1. \A i \in Nat : ByteOf(x, i) \in ByteValue /\ ByteOf(y, i) \in ByteValue
      BY BytesOf
    <3>2. ByteValue \subseteq Nat
      BY SMT DEF ByteValue
    <3> QED
      BY <3>1, <3>2
  <2>2. \A i \in Nat : or(i) \in ByteValue
    BY <2>1, OrByteTyped
  <2> QED
    BY SMT, <2>2 DEF ByteValue, Byte
<1> DEFINE o0 == or(0)  o1 == or(1)  o2 == or(2)  o3 == or(3)
<1>2. o0 \in Nat /\ o1 \in Nat /\ o2 \in Nat /\ o3 \in Nat
  BY SMT, <1>1
<1>3. OrValue(x, y) = o0 + (o1 * 256) + (o2 * 65536) + ((o3 % TopByte) * 16777216)
  BY SMT DEF OrValue, Byte, Word
<1> HIDE DEF o0, o1, o2, o3
<1>4. o3 % TopByte \in Nat
  BY SMT, <1>2, ModRange, Widths
<1> QED
  BY SMT, <1>2, <1>3, <1>4

(* What is stored is a natural number, and what the flags are computed     *)
(* from fits the operand.                                                  *)
LEMMA ResultTyped ==
  ASSUME CPUTypeOK, NEW alu, NEW n \in Size, NEW f \in Nat, NEW s \in Nat
  PROVE  Raw(alu, n, f, s) \in Nat /\ Result(alu, n, f, s) \in 0 .. (Modulus(n) - 1)
<1> DEFINE v == IF alu = "or" THEN OrValue(f, s) ELSE f + s + CarryIn(alu)
           r == Raw(alu, n, f, s)
<1>1. OrValue(f, s) \in Nat
  BY OrValueTyped
<1>2. CarryIn(alu) \in {0, 1}
  BY SMT DEF CPUTypeOK, CarryIn, Flag
<1>3. v \in Nat
  BY SMT, <1>1, <1>2
<1>4. r \in {v, v % Dword}
  BY SMT DEF Raw
<1> HIDE DEF v
<1>5. v % Dword \in Nat
  BY SMT, <1>3, ModRange, Widths
<1>6. r \in Nat
  BY SMT, <1>3, <1>4, <1>5
<1>7. Result(alu, n, f, s) = r % Modulus(n)
  BY DEF Result
<1> DEFINE mod == Modulus(n)
<1>8. mod \in Nat \ {0}
  BY Moduli
<1> HIDE DEF r, mod
<1>9. r % mod \in 0 .. (mod - 1)
  BY SMT, <1>6, <1>8, ModRange
<1> QED
  BY <1>6, <1>7, <1>9 DEF r, mod

(* Half of a modulus divides a smaller value at most once.                 *)
LEMMA HalfDivides ==
  ASSUME NEW h \in Nat \ {0}, NEW r \in Nat, r < h + h
  PROVE  r \div h \in {0, 1}
<1> DEFINE q == r \div h
<1>1. q \in Nat /\ h * q <= r
  BY SMT
<1> HIDE DEF q
<1>2. q >= 2 => h * q >= h + h
  BY SMT, <1>1
<1>3. h * q \in Int
  BY SMT, <1>1
<1>4. q < 2
  BY SMT, <1>1, <1>2, <1>3
<1>5. q = 0 \/ q = 1
  BY SMT, <1>1, <1>4
<1> QED
  BY <1>5 DEF q

-----------------------------------------------------------------------------
(* Flags *)

(* The modulus of a size is even.                                          *)
LEMMA HalfOfModulus ==
  ASSUME NEW n \in Size
  PROVE  /\ Modulus(n) \div 2 \in Nat \ {0}
         /\ Modulus(n) = (Modulus(n) \div 2) + (Modulus(n) \div 2)
<1> DEFINE h == Modulus(n) \div 2
<1>1. CASE n = 1
  BY SMT, <1>1, Moduli
<1>2. CASE n = 2
  BY SMT, <1>2, Moduli
<1>3. CASE n = 4
  <2> DEFINE k == 8388608 * TopByte
  <2>1. k \in Nat \ {0} /\ Dword = k + k
    BY SMT, Widths DEF Dword
  <2> HIDE DEF k
  <2>2. (k + k) \div 2 = k
    BY SMT, <2>1
  <2>3. Modulus(n) = k + k
    BY <1>3, <2>1, Moduli
  <2>4. h = k
    BY <2>2, <2>3
  <2> QED
    BY <2>1, <2>3, <2>4
<1> QED
  BY <1>1, <1>2, <1>3 DEF Size

(* The sign of a result is a bit, and zero has none.                       *)
LEMMA SignTyped ==
  ASSUME NEW n \in Size, NEW r \in 0 .. (Modulus(n) - 1)
  PROVE  SignOf(n, r) \in {0, 1} /\ (r = 0 => SignOf(n, r) = 0)
<1> DEFINE h == Modulus(n) \div 2
<1>1. h \in Nat \ {0} /\ Modulus(n) = h + h
  BY HalfOfModulus
<1>2. SignOf(n, r) = r \div h
  BY DEF SignOf
<1> HIDE DEF h
<1>3. r \in Nat /\ r < h + h
  BY SMT, <1>1
<1>4. r \div h \in {0, 1}
  BY <1>1, <1>3, HalfDivides
<1>5. 0 \div h = 0
  BY SMT, <1>1
<1> QED
  BY <1>2, <1>4, <1>5

(* SF, ZF and PF as every handler sets them: bits, and a zero result has   *)
(* an even number of set bits and no sign.                                 *)
LEMMA DescribedTyped ==
  ASSUME CPUTypeOK, NEW n \in Size, NEW r \in 0 .. (Modulus(n) - 1)
  PROVE  /\ Described(n, r) \in [Flag -> {0, 1}]
         /\ Described(n, r)["ZF"] = 1 => /\ Described(n, r)["PF"] = 1
                                         /\ Described(n, r)["SF"] = 0
<1> DEFINE sign == SignOf(n, r)
           zero == Bit(r = 0)
           even == Bit(SetBits(r % Byte) % 2 = 0)
<1>1. sign \in {0, 1} /\ (r = 0 => sign = 0)
  BY SignTyped
<1>2. zero \in {0, 1} /\ (zero = 1 => r = 0)
  BY DEF Bit
<1>3. even \in {0, 1}
  BY DEF Bit
<1>4. r = 0 => even = 1
  BY SMT DEF Bit, SetBits, Byte
<1>5. Described(n, r) = [flags EXCEPT !["SF"] = sign, !["ZF"] = zero, !["PF"] = even]
  BY DEF Described
<1> HIDE DEF sign, zero, even
<1> QED
  BY SMT, <1>1, <1>2, <1>3, <1>4, <1>5 DEF CPUTypeOK, Flag

(* The flags after any computation are bits, and coherent.                 *)
LEMMA FlagsAfterTyped ==
  ASSUME CPUTypeOK, NEW alu \in {"add", "adc", "or"}, NEW n \in Size,
         NEW f \in Nat, NEW s \in Nat
  PROVE  /\ FlagsAfter(alu, n, f, s) \in [Flag -> {0, 1}]
         /\ FlagsAfter(alu, n, f, s)["ZF"] = 1 => /\ FlagsAfter(alu, n, f, s)["PF"] = 1
                                                  /\ FlagsAfter(alu, n, f, s)["SF"] = 0
<1> DEFINE r == Result(alu, n, f, s)
           d == Described(n, r)
<1>1. r \in 0 .. (Modulus(n) - 1)
  BY ResultTyped
<1> HIDE DEF r
<1>2. /\ d \in [Flag -> {0, 1}]
      /\ d["ZF"] = 1 => d["PF"] = 1 /\ d["SF"] = 0
  BY <1>1, DescribedTyped
<1>3. flags["CF"] \in {0, 1}
  BY SMT DEF CPUTypeOK, Flag
<1>4. \A c : HalfCarry(c, f, s) \in {0, 1}
  BY DEF HalfCarry, Bit
<1> HIDE DEF d
<1>5. \E c, o, h \in {0, 1} :
        \/ FlagsAfter(alu, n, f, s) = [d EXCEPT !["AF"] = h, !["CF"] = c, !["OF"] = o]
        \/ FlagsAfter(alu, n, f, s) = [d EXCEPT !["CF"] = c, !["OF"] = o]
  <2>1. d["OF"] \in {0, 1}
    BY SMT, <1>2 DEF Flag
  <2>2. CASE alu = "add"
    BY SMT, <1>3, <1>4, <2>1, <2>2 DEF FlagsAfter, AddFlags, d, r
  <2>3. CASE alu = "adc"
    BY SMT, <1>3, <1>4, <2>1, <2>3 DEF FlagsAfter, AdcFlags, d, r
  <2>4. CASE alu = "or"
    BY SMT, <2>4 DEF FlagsAfter, OrFlags, d, r
  <2> QED
    BY <2>2, <2>3, <2>4
<1> QED
  BY SMT, <1>2, <1>5 DEF Flag

-----------------------------------------------------------------------------
(* Sums that wrap *)

(* A wrapped sum is below its first operand, unless a carry came in.       *)
LEMMA WrappedSum ==
  ASSUME NEW m \in Nat \ {0}, NEW f \in 0 .. (m - 1), NEW s \in 0 .. (m - 1), NEW c \in {0, 1},
         f + s + c >= m
  PROVE  (f + s + c) % m < f \/ c = 1
<1> DEFINE t == f + s + c
<1>1. t \in Int /\ m <= t /\ t < m + m
  BY SMT
<1>2. t < m + f \/ c = 1
  BY SMT
<1> HIDE DEF t
<1>3. t % m = t - m
  BY <1>1, ModOnce
<1> QED
  BY SMT, <1>1, <1>2, <1>3 DEF t

(* The result of a sum is the exact sum, cut to the operand once.          *)
LEMMA ResultOfSum ==
  ASSUME CPUTypeOK, NEW alu \in {"add", "adc"}, NEW n \in Size, NEW f \in Nat, NEW s \in Nat
  PROVE  Result(alu, n, f, s) = (f + s + CarryIn(alu)) % Modulus(n)
<1> DEFINE v == f + s + CarryIn(alu)
<1>1. CarryIn(alu) \in {0, 1}
  BY SMT DEF CPUTypeOK, CarryIn, Flag
<1>2. v \in Nat
  BY SMT, <1>1
<1>3. Raw(alu, n, f, s) = IF n = 4 THEN v % Dword ELSE v
  BY DEF Raw
<1> HIDE DEF v
<1>4. (v % Dword) % Dword = v % Dword
  <2>1. v % Dword \in 0 .. (Dword - 1)
    BY SMT, <1>2, ModRange, Widths
  <2> QED
    BY SMT, <2>1, ModSmall, Widths
<1>5. CASE n = 4
  BY <1>3, <1>4, <1>5, Moduli DEF Result, v
<1>6. CASE n # 4
  BY <1>3, <1>6 DEF Result, v
<1> QED
  BY <1>5, <1>6
=============================================================================
