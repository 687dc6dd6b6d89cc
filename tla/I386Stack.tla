------------------------------ MODULE I386Stack ------------------------------
(***************************************************************************)
(* The machine of I386 beside a record of its stack.  push16 moves ESP by  *)
(* two and stores from ESP - 1 upwards; pop16 reads from ESP + 1 upwards   *)
(* and moves ESP by one (cpu.cpp:440, 452).                                *)
(*                                                                         *)
(* frames is a history variable: the words pushed and not yet popped, each *)
(* with its address.  The stack grows downwards, so the lowest of them is  *)
(* the last one pushed, and the one that a pop is meant for.  The record   *)
(* only watches; a program that moves ESP itself starts a new one, and one *)
(* that writes over a word of the stack takes that word off it.            *)
(***************************************************************************)
EXTENDS I386Properties

VARIABLE frames

stackVars == <<heap, ram, strayed, registers, flags, isHalted, frames>>

Frame(op) == [at |-> PushAddress, word |-> registers[PushedSegment(op)] % Word]

AllButTheLowest == {f \in frames : \E g \in frames : g.at < f.at}

MovesStackPointer(op) ==
  Computes(op) /\ ResultInRegister(op) /\ SlotOf(ResultRegister(op)) = "ESP"

\* The bytes of memory a computation writes.
Written(op) == IF Computes(op) /\ ~NamesR(op) THEN DataWindow(op) ELSE {}

Record(op) ==
  frames' = CASE IsPush(op) -> frames \cup {Frame(op)}
              [] IsPop(op)  -> AllButTheLowest
              [] MovesStackPointer(op) -> {}
              [] OTHER -> {f \in frames : Window(f.at, 2) \cap Written(op) = {}}

StackInit == Init /\ frames = {}

StackNext ==
  \/ /\ Cycle
     /\ \E op \in DecodedNow : Record(op)
  \/ /\ CycleStrays
     /\ UNCHANGED frames

StackSpec == StackInit /\ [][StackNext]_stackVars

-----------------------------------------------------------------------------
(* Every word pushed and not yet popped is still in memory, in whatever    *)
(* order pushes, pops and computations run.  The addresses of pushes and   *)
(* pops drift apart, but always to the side where nothing is overwritten.  *)
FramesIntact == \A f \in frames : readImm16(f.at) = f.word

(* Each word lies wholly above the stack pointer and overlaps no other, so *)
(* that a later push is always the lower one, also when ESP wraps at       *)
(* address 0.                                                              *)
FramesApart ==
  /\ \A f \in frames : PopAddress <= f.at
  /\ \A f, g \in frames : f = g \/ f.at + 2 <= g.at \/ g.at + 2 <= f.at

(* VIOLATED.  "pop es" (i386.cpp:75) undoes "push es" (i386.cpp:71): the   *)
(* word popped is the last one pushed.  After one pop ESP is a byte short, *)
(* and the next pop reads half of each of two words.                       *)
LastInFirstOut ==
  [][~strayed' => \A op \in DecodedNow : IsPop(op) =>
       \A f \in frames \ AllButTheLowest :
         registers'[PoppedSegment(op)] = f.word]_stackVars
=============================================================================
