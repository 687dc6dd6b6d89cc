-------------------------------- MODULE Main --------------------------------
(***************************************************************************)
(* The whole program (src/src/main.cpp with src/src/io/fs.cpp): the        *)
(* processor is built and reset, the program file is read, its bytes are   *)
(* copied to EIP one after the other, a double word is stored over them,   *)
(* and cycle() is called until the processor has halted.                   *)
(*                                                                         *)
(* The constructor initialises nothing but the memory's pointer and size:  *)
(* until reset() the registers, the flags and _isHalted hold whatever the  *)
(* stack frame of main held.  What the file system does is decided in the  *)
(* initial state and kept in file.                                         *)
(***************************************************************************)
EXTENDS I386

CONSTANTS
  Files,          \* what the path "../stuff/main" may lead to
  Leftovers       \* what main's stack frame may have held, as processor state

VARIABLES
  phase,          \* the statement of main about to run
  file,           \* what is found at the path
  data,           \* the vector that readfile returned
  offset          \* the loop variable of the copy

mainVars == <<vars, phase, file, data, offset>>

-----------------------------------------------------------------------------
(* The file system *)

\* A file cannot be opened, cannot be positioned, or yields its first got
\* bytes to fread.
FileKind == {"missing", "unseekable", "plain"}

ASSUME FileAssumption ==
  \A f \in Files : /\ f.kind \in FileKind
                   /\ f.bytes \in Seq(ByteValue)
                   /\ f.got \in 0 .. Len(f.bytes)

ASSUME LeftoverAssumption ==
  \A l \in Leftovers : /\ l.registers \in [Slot -> DwordValue]
                       /\ l.flags \in [Flag -> {0, 1}]
                       /\ l.isHalted \in BOOLEAN

\* The vector is filled with zeros before fread stores into it.
Delivered(f) == [i \in 1 .. Len(f.bytes) |-> IF i <= f.got THEN f.bytes[i] ELSE 0]

-----------------------------------------------------------------------------
MainInit ==
  /\ heap \in Heaps
  /\ ram = [a \in {} |-> 0]
  /\ strayed = FALSE
  /\ \E l \in Leftovers : /\ registers = l.registers
                          /\ flags = l.flags
                          /\ isHalted = l.isHalted
  /\ phase = "reset"
  /\ file \in Files
  /\ data = <<>>
  /\ offset = 0

\* Mutant: a reset that trusts EIP to start at zero.
Reset_trusting ==
  /\ phase = "reset"
  /\ registers' = [ResetRegisters EXCEPT !["EIP"] = registers["EIP"]]
  /\ flags' = ResetFlags
  /\ isHalted' = FALSE
  /\ phase' = "read"
  /\ UNCHANGED <<memoryVars, file, data, offset>>

Reset ==
  /\ phase = "reset"
  /\ registers' = ResetRegisters
  /\ flags' = ResetFlags
  /\ isHalted' = FALSE
  /\ phase' = "read"
  /\ UNCHANGED <<memoryVars, file, data, offset>>

ReadFile ==
  /\ phase = "read"
  /\ file.kind = "plain"
  /\ data' = Delivered(file)
  /\ phase' = "load"
  /\ UNCHANGED <<vars, file, offset>>

\* fopen returns a null pointer that fseek is given; or ftell returns -1,
\* and the vector is grown to the largest size_t.
ReadFails ==
  /\ phase = "read"
  /\ file.kind # "plain"
  /\ phase' = "crashed"
  /\ UNCHANGED <<vars, file, data, offset>>

\* Mutant: offset incremented before it is used.
LoadAddress_ahead == registers["EIP"] + offset + 1

LoadAddress == registers["EIP"] + offset

LoadByte ==
  /\ phase = "load"
  /\ offset < Len(data)
  /\ LoadAddress \in Address
  /\ ram' = writeImm8(data[offset + 1], LoadAddress)
  /\ offset' = offset + 1
  /\ UNCHANGED <<heap, strayed, registers, flags, isHalted, phase, file, data>>

\* The image is longer than the array.
LoadStrays ==
  /\ phase = "load"
  /\ offset < Len(data)
  /\ LoadAddress \notin Address
  /\ strayed' = TRUE
  /\ phase' = "crashed"
  /\ UNCHANGED <<heap, ram, registers, flags, isHalted, file, data, offset>>

\* Mutant: the double word stored only over an image that reaches it.
StorePatch_lazy ==
  /\ phase = "load"
  /\ offset = Len(data)
  /\ ram' = IF offset > PatchAddress THEN writeImm32(Patch, PatchAddress) ELSE ram
  /\ phase' = "run"
  /\ UNCHANGED <<heap, strayed, cpuVars, file, data, offset>>

StorePatch ==
  /\ phase = "load"
  /\ offset = Len(data)
  /\ ram' = writeImm32(Patch, PatchAddress)
  /\ phase' = "run"
  /\ UNCHANGED <<heap, strayed, cpuVars, file, data, offset>>

\* One turn of the loop; the printing after cycle() only reads.
RunCycle ==
  /\ phase = "run"
  /\ Next
  /\ UNCHANGED <<phase, file, data, offset>>

Return ==
  /\ phase = "run"
  /\ ~strayed
  /\ isHalted
  /\ phase' = "returned"
  /\ UNCHANGED <<vars, file, data, offset>>

Boot == Reset \/ ReadFile \/ ReadFails \/ LoadByte \/ LoadStrays \/ StorePatch

MainNext == Boot \/ RunCycle \/ Return

MainSpec == MainInit /\ [][MainNext]_mainVars

\* main is one thread of control: whatever its next statement is, it runs.
MainFairSpec == MainSpec /\ WF_mainVars(MainNext)

-----------------------------------------------------------------------------
Phase == {"reset", "read", "load", "run", "returned", "crashed"}

\* From reset on the machine has the type that I386 promises.
MainTypeOK ==
  /\ MemoryTypeOK
  /\ CPUTypeOK
  /\ phase # "reset" => TypeOK
  /\ phase \in Phase
  /\ file \in Files
  /\ data \in {<<>>, Delivered(file)}
  /\ offset \in 0 .. Len(data)
=============================================================================
