-------------------------------- MODULE Walk --------------------------------
(***************************************************************************)
(* What a run of the machine looks like from outside: the loop of main     *)
(* (src/src/main.cpp) walks once through the memory, from its first byte   *)
(* upwards, and stops at a hlt or by leaving the memory.                   *)
(***************************************************************************)
EXTENDS Integers

CONSTANT Limit          \* bytes of memory

VARIABLES
  at,                   \* the next byte to execute
  status                \* "running", "halted" or "strayed"

Init == at = 0 /\ status = "running"

\* One instruction: at least a byte further, never past the memory.
Advance ==
  /\ status = "running"
  /\ at' \in (at + 1) .. Limit
  /\ status' \in {"running", "halted"}

Leave ==
  /\ status = "running"
  /\ status' = "strayed"
  /\ at' = at

Next == Advance \/ Leave

Spec == Init /\ [][Next]_<<at, status>>
=============================================================================
