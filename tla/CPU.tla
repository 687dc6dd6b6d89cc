-------------------------------- MODULE CPU ---------------------------------
(***************************************************************************)
(* The state of the processor and the helpers the instructions are made    *)
(* of (src/src/cpu/cpu.cpp): the register file with its 8 and 16 bit       *)
(* views, the flags, the decoding of a ModRM byte, and the stack.          *)
(*                                                                         *)
(* A helper that stores something is the value of the store after it, so   *)
(* that one instruction can apply several of them in the order of the      *)
(* code.                                                                   *)
(***************************************************************************)
EXTENDS Memory, Sequences

VARIABLES
  registers,      \* _registers: the 32 bit slots, by name
  flags,          \* _flags: those some instruction touches
  isHalted        \* _isHalted

cpuVars == <<registers, flags, isHalted>>

-----------------------------------------------------------------------------
(* Registers *)

General == <<"EAX", "ECX", "EDX", "EBX", "ESP", "EBP", "ESI", "EDI">>
General16 == <<"AX", "CX", "DX", "BX", "SP", "BP", "SI", "DI">>
General8 == <<"AL", "CL", "DL", "BL", "AH", "CH", "DH", "BH">>

Segment == {"CS", "DS", "ES", "FS", "GS", "SS"}
Slot == {"EAX", "ECX", "EDX", "EBX", "ESP", "EBP", "ESI", "EDI", "EIP"} \cup Segment

Low16 == {"AX", "CX", "DX", "BX", "SP", "BP", "SI", "DI", "IP"}
Low8  == {"AL", "CL", "DL", "BL"}
High8 == {"AH", "CH", "DH", "BH"}
Registers == Slot \cup Low16 \cup Low8 \cup High8

\* The slot that holds a register: the index arithmetic reg - 9, - 13, - 17.
SlotOf(reg) ==
  CASE reg \in {"AX", "AL", "AH"} -> "EAX"
    [] reg \in {"CX", "CL", "CH"} -> "ECX"
    [] reg \in {"DX", "DL", "DH"} -> "EDX"
    [] reg \in {"BX", "BL", "BH"} -> "EBX"
    [] reg = "SP" -> "ESP"
    [] reg = "BP" -> "EBP"
    [] reg = "SI" -> "ESI"
    [] reg = "DI" -> "EDI"
    [] reg = "IP" -> "EIP"
    [] OTHER -> reg

\* What reg shows of the slot value x.
ViewOf(reg, x) ==
  CASE reg \in Low16 -> x % Word
    [] reg \in Low8  -> x % Byte
    [] reg \in High8 -> (x \div Byte) % Byte
    [] OTHER -> x

\* Mutant: a word store that does not cut its value.
StoredIn_uncut(reg, x, v) ==
  CASE reg \in Low16 -> ((x \div Word) * Word) + v
    [] reg \in Low8  -> ((x \div Byte) * Byte) + (v % Byte)
    [] reg \in High8 -> ((x \div Word) * Word) + ((v % Byte) * Byte) + (x % Byte)
    [] OTHER -> v % Dword

\* The slot value x after v was stored through reg.
StoredIn(reg, x, v) ==
  CASE reg \in Low16 -> ((x \div Word) * Word) + (v % Word)
    [] reg \in Low8  -> ((x \div Byte) * Byte) + (v % Byte)
    [] reg \in High8 -> ((x \div Word) * Word) + ((v % Byte) * Byte) + (x % Byte)
    [] OTHER -> v % Dword

getRegister(reg) == ViewOf(reg, registers[SlotOf(reg)])

setRegister(regs, reg, v) ==
  [regs EXCEPT ![SlotOf(reg)] = StoredIn(reg, @, v)]

\* The store of incGetRegister (n > 0) and of decGetRegister (n < 0).
Moved(regs, slot, n) == [regs EXCEPT ![slot] = (@ + n) % Dword]

-----------------------------------------------------------------------------
(* Flags *)

Flag == {"CF", "PF", "AF", "ZF", "SF", "OF"}

ResetRegisters == [r \in Slot |-> IF r = "ESP" THEN 65535 ELSE 0]
ResetFlags == [f \in Flag |-> 0]

-----------------------------------------------------------------------------
(* Operand sizes.  An operand is 1, 2 or 4 bytes, the code's offset 0, 1, 2 *)

Size == {1, 2, 4}

Modulus(n) ==
  CASE n = 1 -> Byte
    [] n = 2 -> Word
    [] OTHER -> Dword

\* The register that a 3 bit field k names at an operand size.
Numbered(n, k) ==
  CASE n = 1 -> General8[k + 1]
    [] n = 2 -> General16[k + 1]
    [] OTHER -> General[k + 1]

-----------------------------------------------------------------------------
(* The ModRM byte m *)

ModOf(m) == m \div 64
RegOf(m) == (m \div 8) % 8
RmOf(m)  == m % 8

\* side = true.  The switch on the high nibble covers mod 0 and 3 only; for
\* the two other values the function falls out and returns 0, which is EAX.
TopRegister(n, m) ==
  IF ModOf(m) \in {0, 3} THEN Numbered(n, RegOf(m)) ELSE "EAX"

\* side = false with mod 3.
RmRegister(n, m) == Numbered(n, RmOf(m))

\* side = false with mod 0, 1 and 2: bytes of displacement that are read ...
DisplacementBytes(a32, m) ==
  CASE ModOf(m) = 1 -> 1
    [] ModOf(m) = 2 -> IF a32 THEN 4 ELSE 2
    [] ModOf(m) = 0 /\ a32  /\ RmOf(m) = 5 -> 4
    [] ModOf(m) = 0 /\ ~a32 /\ RmOf(m) = 6 -> 2
    [] OTHER -> 0

\* Mutant: every 16 bit displacement counted as one byte.
DisplacementStep_short(a32, m) ==
  IF ~a32 /\ ModOf(m) = 2 THEN 1 ELSE DisplacementBytes(a32, m)

\* ... and how far EIP moves over them: only one byte for a 16 bit
\* displacement on top of a sum of two registers.
DisplacementStep(a32, m) ==
  IF ~a32 /\ ModOf(m) = 2 /\ RmOf(m) < 4 THEN 1 ELSE DisplacementBytes(a32, m)

\* Mutant: the row of BP and SI copied from the one above it but one.
Base16_copied(m) ==
  CASE RmOf(m) \in {0, 2} -> getRegister("BX") + getRegister("SI")
    [] RmOf(m) = 1 -> getRegister("BX") + getRegister("DI")
    [] RmOf(m) = 3 -> getRegister("BP") + getRegister("DI")
    [] RmOf(m) = 4 -> getRegister("SI")
    [] RmOf(m) = 5 -> getRegister("DI")
    [] RmOf(m) = 6 -> IF ModOf(m) = 0 THEN 0 ELSE getRegister("BP")
    [] OTHER -> getRegister("BX")

Base16(m) ==
  CASE RmOf(m) = 0 -> getRegister("BX") + getRegister("SI")
    [] RmOf(m) = 1 -> getRegister("BX") + getRegister("DI")
    [] RmOf(m) = 2 -> getRegister("BP") + getRegister("SI")
    [] RmOf(m) = 3 -> getRegister("BP") + getRegister("DI")
    [] RmOf(m) = 4 -> getRegister("SI")
    [] RmOf(m) = 5 -> getRegister("DI")
    [] RmOf(m) = 6 -> IF ModOf(m) = 0 THEN 0 ELSE getRegister("BP")
    [] OTHER -> getRegister("BX")

\* Called with rm = 4 only, and no SIB byte is fetched for it.
sibByte32bit(m) ==
  IF RmOf(m) = 4 THEN 0 ELSE (registers[General[RmOf(m) + 1]] * 2 ^ ModOf(m)) % Dword

Base32(m) ==
  CASE RmOf(m) = 4 -> sibByte32bit(m)
    [] RmOf(m) = 5 /\ ModOf(m) = 0 -> 0
    [] OTHER -> registers[General[RmOf(m) + 1]]

\* Mutant: a base scaled like a segment.
ModRMValue16bit_scaled(m, at) ==
  (Base16(m) * 16) + readImm(at + 1, DisplacementBytes(FALSE, m))

\* The displacement follows the ModRM byte, which is at address at.
ModRMValue16bit(m, at) == Base16(m) + readImm(at + 1, DisplacementBytes(FALSE, m))

ModRMValue32bit(m, at) ==
  (Base32(m) + readImm(at + 1, DisplacementBytes(TRUE, m))) % Dword

-----------------------------------------------------------------------------
(* The stack.  Every push starts one byte below ESP, whatever its size; a   *)
(* pop starts one byte above ESP and moves it by less than its size.        *)

PushAddress == (registers["ESP"] - 1) % Dword
\* Mutant: a pop that reads from ESP itself.
PopAddress_low == registers["ESP"] % Dword

PopAddress  == (registers["ESP"] + 1) % Dword

\* Mutant: a pop that moves past more than a word.
PopStep_far(n) ==
  CASE n = 1 -> 1
    [] n = 2 -> 3
    [] OTHER -> 3

PopStep(n) ==
  CASE n = 1 -> 1
    [] n = 2 -> 1
    [] OTHER -> 3

\* Mutant: a push that moves ESP like pop16 does.
AfterPush_short(n) == Moved(registers, "ESP", 1 - n)

AfterPush(n) == Moved(registers, "ESP", -n)
AfterPop(n)  == Moved(registers, "ESP", PopStep(n))

-----------------------------------------------------------------------------
CPUTypeOK ==
  /\ registers \in [Slot -> DwordValue]
  /\ flags \in [Flag -> {0, 1}]
  /\ isHalted \in BOOLEAN
=============================================================================
