---------------------------- MODULE MCI386Stack ----------------------------
(***************************************************************************)
(* Values for the constants of I386Stack.                                  *)
(***************************************************************************)
EXTENDS I386ByteStack, SequencesExt

\* Above the stack: words that tell their address.
MCGarbage(h, a) == IF h = "address" /\ a >= 65530 THEN a % Byte ELSE 244

\* push es ; push cs ; push ss ; pop es ; pop ss, and computations that move
\* ESP or write to the stack.
StackMenu ==
  {<<6>>, <<14>>, <<22>>, <<7>>, <<23>>,
   <<5, 2, 0>>,                        \* add ax , 2
   <<1, 196>>, <<102, 1, 196>>,        \* add sp , ax ; add esp , eax
   <<1, 6, 252, 255>>}                 \* add [0xFFFC] , ax

Programs(longest) == {FlattenSeq(p) : p \in UNION {[1 .. n -> StackMenu] : n \in 0 .. longest}}

\* From the top of the stack; with a word of the heap in ES; and from ESP = 1:
\* nothing ; pop es ; add ax , 2 and add sp , ax.
Starts == {<<>>, <<7>>, <<5, 2, 0, 1, 196>>}

StackImages == {s \o p : s \in Starts, p \in Programs(4)}
=============================================================================
