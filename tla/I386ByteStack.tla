---------------------------- MODULE I386ByteStack ----------------------------
(***************************************************************************)
(* The machine of I386Stack implements ByteStack.  Two more history        *)
(* variables say which bytes above ESP are the stack, and what the last    *)
(* pop returned; the instructions do not read them.                        *)
(***************************************************************************)
EXTENDS I386Stack

VARIABLES
  depth,          \* bytes pushed, and not popped, written over or moved from
  popped          \* the word that the last pop stored in its register

byteVars == <<heap, ram, strayed, registers, flags, isHalted, frames, depth, popped>>

\* The i-th byte of the stack, the first one the byte that a pop reads first.
Above(i) == (registers["ESP"] + i) % Dword

StackBytes == {Above(i) : i \in 1 .. depth}

\* The program moves ESP, or writes over a byte of the stack.
Disturbs(op) == MovesStackPointer(op) \/ StackBytes \cap Written(op) # {}

Watch(op) ==
  /\ depth' = CASE IsPush(op) -> depth + 2
                [] IsPop(op)  -> IF depth < 2 THEN 0 ELSE depth - 1
                [] OTHER      -> IF Disturbs(op) THEN 0 ELSE depth
  /\ popped' = IF IsPop(op) THEN registers'[PoppedSegment(op)] ELSE popped

ByteInit == StackInit /\ depth = 0 /\ popped = 0

ByteNext ==
  \/ Cycle /\ \E op \in DecodedNow : Record(op) /\ Watch(op)
  \/ CycleStrays /\ UNCHANGED <<frames, depth, popped>>

ByteSpec == ByteInit /\ [][ByteNext]_byteVars

-----------------------------------------------------------------------------
Bytewise == INSTANCE ByteStack WITH stack <- [i \in 1 .. depth |-> readImm8(Above(i))]

(* The stack of the machine is a stack of bytes.  Whatever pushes, pops    *)
(* and computations a program mixes, a pop returns the two bytes on top    *)
(* and takes one off, and no byte changes between its push and its pop,    *)
(* also where ESP wraps at address 0.                                      *)
StackOfBytes == Bytewise!Spec
=============================================================================
