------------------------------ MODULE ByteStack ------------------------------
(***************************************************************************)
(* What the stack of the emulated machine is (cpu.cpp:440-454): a stack of *)
(* bytes.  A push puts the two bytes of a word on it; a pop shows the word *)
(* that the top two bytes make, and takes one of them off.                 *)
(***************************************************************************)
EXTENDS Integers, Sequences

VARIABLES
  stack,                \* the bytes, the top first
  popped                \* the word that the last pop showed

stackState == <<stack, popped>>

Bytes == 0 .. 255
Words == {word \in Nat : word < 65536}

Init == stack = <<>> /\ popped = 0

Push ==
  /\ Len(stack') = Len(stack) + 2
  /\ stack' = <<stack'[1], stack'[2]>> \o stack
  /\ stack'[1] \in Bytes /\ stack'[2] \in Bytes
  /\ popped' = popped

Pop ==
  /\ Len(stack) >= 2
  /\ popped' = (stack[2] * 256) + stack[1]
  /\ stack' = Tail(stack)

\* With less than a word on the stack, a pop shows whatever lies above it.
PopPastBottom ==
  /\ Len(stack) < 2
  /\ popped' \in Words
  /\ stack' = <<>>

\* The program moves the stack pointer, or writes into the stack.
StartAgain == stack' = <<>> /\ popped' = popped

Next == Push \/ Pop \/ PopPastBottom \/ StartAgain

Spec == Init /\ [][Next]_stackState
=============================================================================
