--------------------------- MODULE MCStackHelpers ---------------------------
(***************************************************************************)
(* Values for the constants of StackHelpers: an array that ends a few      *)
(* bytes above the stack, and arguments whose bytes all differ.            *)
(***************************************************************************)
EXTENDS StackHelpers

MCGarbage(h, a) == a % Byte

MCValue(n) ==
  CASE n = 1 -> {17, 34}
    [] n = 2 -> {258, 51966}
    [] OTHER -> {16909060}
=============================================================================
