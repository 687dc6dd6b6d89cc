------------------------------- MODULE MCMain -------------------------------
(***************************************************************************)
(* Values for the constants of Main: a memory of twelve bytes, and files   *)
(* shorter than, as long as and longer than it.                            *)
(***************************************************************************)
EXTENDS MainProperties, SequencesExt

MCGarbage(h, a) == IF h = "zeros" THEN 0 ELSE IF h = "hlts" THEN 244 ELSE a % Byte

\* hlt, adds to a register and to memory, a prefix, a push, an invalid opcode.
Bytes == {0, 4, 6, 102, 144, 244}

Long(n) == [i \in 1 .. n |-> IF i = n THEN 244 ELSE 144]

Contents == UNION {[1 .. n -> Bytes] : n \in 0 .. 2} \cup {Long(n) : n \in 7 .. 14}

MCFiles ==
  [kind : {"missing", "unseekable"}, bytes : {<<>>}, got : {0}]
    \cup UNION {[kind : {"plain"}, bytes : {c}, got : 0 .. Len(c)] : c \in Contents}

MCImages == {Fitted(Delivered(f)) : f \in MCFiles}

\* A frame of zeros that has halted, and one full of set bits.
MCLeftovers ==
  {[registers |-> [r \in Slot |-> 0], flags |-> [f \in Flag |-> 0], isHalted |-> TRUE],
   [registers |-> [r \in Slot |-> Dword - 1], flags |-> [f \in Flag |-> 1], isHalted |-> FALSE]}
=============================================================================
