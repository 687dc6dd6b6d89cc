--------------------------- MODULE MainProperties ---------------------------
(***************************************************************************)
(* What the program of Main promises: after the boot sequence it is the    *)
(* machine of I386, and it ends.                                           *)
(***************************************************************************)
EXTENDS Main, I386Properties

-----------------------------------------------------------------------------
(* The machine as it is seen from the loop.  While main boots, it is the   *)
(* initial state that main is heading for; from then on it is what it is.  *)
Looping == phase \in {"run", "returned"}

Fits(bytes) == Len(bytes) <= MemorySize
Fitted(bytes) == IF Fits(bytes) THEN bytes ELSE SubSeq(bytes, 1, MemorySize)

\* The machine's Images are what the files of Files deliver.
ASSUME DeliveryAssumption == \A f \in Files : Fitted(Delivered(f)) \in Images

SeenRam       == IF Looping THEN ram ELSE Loaded(Fitted(Delivered(file)))
SeenStrayed   == IF Looping THEN strayed ELSE FALSE
SeenRegisters == IF Looping THEN registers ELSE ResetRegisters
SeenFlags     == IF Looping THEN flags ELSE ResetFlags
SeenHalted    == IF Looping THEN isHalted ELSE FALSE

Machine == INSTANCE I386 WITH
  ram <- SeenRam, strayed <- SeenStrayed, registers <- SeenRegisters,
  flags <- SeenFlags, isHalted <- SeenHalted

(* main implements the machine.  When the loop is entered the registers,   *)
(* the flags and _isHalted are those of a reset machine, whatever the      *)
(* frame of main held (main.cpp:65-66); the memory holds what the file     *)
(* delivered, each byte at its own address, under the double word of       *)
(* main.cpp:75, and elsewhere what the allocation left.  From then on only *)
(* cycle() changes any of it.                                              *)
BootsTheMachine == Machine!Spec

(* The program is one walk through the memory as well: while main boots,   *)
(* the machine stands at address 0 and has neither halted nor strayed, and *)
(* every turn of the loop (main.cpp:77) moves EIP upwards, ends the     *)
(* loop, or is the last that is defined.                                   *)
Walked == INSTANCE Walk WITH
  Limit <- MemorySize, at <- SeenRegisters["EIP"],
  status <- IF Looping THEN Status ELSE "running"

ProgramWalks == Walked!Spec

(* The program gets lost before its first cycle exactly where nothing      *)
(* checks: no file, no length, or an image longer than the array           *)
(* (fs.cpp:7-11, main.cpp:72).  An image that just fits is loaded.         *)
OnlyBadFilesCrash ==
  /\ phase = "crashed" => file.kind # "plain" \/ ~Fits(file.bytes)
  /\ Looping => file.kind = "plain" /\ Fits(file.bytes)

(* main returns, or gets lost: no file keeps it in the boot sequence or in *)
(* the loop for ever.                                                      *)
MainEnds == <>(phase \in {"returned", "crashed"} \/ strayed)
=============================================================================
