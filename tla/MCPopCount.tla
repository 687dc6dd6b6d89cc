----------------------------- MODULE MCPopCount -----------------------------
(***************************************************************************)
(* Arguments for PopCount: every byte, which is all the instructions pass, *)
(* every such byte in each other place, and words full of ones, of zeros   *)
(* and of alternating fields, all below 2^31: the integers of TLC.         *)
(***************************************************************************)
EXTENDS PopCount, Bitwise

MCWords ==
  0 .. 255 \cup {b * 256 : b \in 0 .. 255} \cup {b * 65536 : b \in 0 .. 255}
    \cup {b * 16777216 : b \in 0 .. 127}
    \cup {2147483647 - b * 65536 : b \in 0 .. 255}
    \cup {1431655765, 715827882, 858993459, 252645135, 16843009, 2139062143, 2147483647}

\* Masked is the bitwise and with the masks of the code.
ASSUME MaskedAssumption ==
  \A w \in MCWords : /\ Masked(w, 1) = w & 1431655765
                     /\ Masked(w, 2) = w & 858993459
                     /\ Masked(w, 4) = w & 252645135
=============================================================================
