---------------------------- MODULE StackHelpers ----------------------------
(***************************************************************************)
(* The six stack functions of the class CPU (cpu.h:130-136), called in any *)
(* order on a reset processor.  The instructions use the two of 16 bits    *)
(* only (PushSegment and PopSegment of module Instructions).               *)
(*                                                                         *)
(* The three variables after those of CPU are history: they record the     *)
(* calls and what came back, and no call reads them.                       *)
(***************************************************************************)
EXTENDS CPU, FiniteSets

CONSTANTS
  Value(_),       \* Value(n): arguments of n bytes
  MaxCalls        \* bound on the calls of a run

ASSUME ValueAssumption ==
  \A n \in Size : \A v \in Value(n) : v \in 0 .. Modulus(n) - 1

ASSUME CallsAssumption == MaxCalls \in Nat

VARIABLES
  calls,          \* the calls so far
  result,         \* what the last call returned; a push returns its argument
  frames          \* the values pushed and not popped: address, size and value

helperVars == <<memoryVars, cpuVars, calls, result, frames>>

HelperInit ==
  /\ heap \in Heaps
  /\ ram = [a \in {} |-> 0]
  /\ strayed = FALSE
  /\ registers = ResetRegisters
  /\ flags = ResetFlags
  /\ isHalted = FALSE
  /\ calls = <<>>
  /\ result = 0
  /\ frames = {}

Call(name, n) == calls' = Append(calls, [name |-> name, size |-> n])

\* pushOntoStackImm8, 16 and 32: all three store from the old ESP - 1 upwards.
PushOnto(n, v) ==
  /\ Window(PushAddress, n) \subseteq Address
  /\ registers' = AfterPush(n)
  /\ ram' = writeImm(v, PushAddress, n)
  /\ result' = v
  /\ frames' = frames \cup {[at |-> PushAddress, size |-> n, value |-> v, nr |-> Len(calls)]}
  /\ Call("push", n)
  /\ UNCHANGED <<heap, strayed, flags, isHalted>>

Newest == {f \in frames : \A g \in frames : g.nr <= f.nr}

\* popFromStackImm8, 16 and 32: all three read from the old ESP + 1 upwards.
PopFrom(n) ==
  /\ Window(PopAddress, n) \subseteq Address
  /\ registers' = AfterPop(n)
  /\ result' = readImm(PopAddress, n)
  /\ frames' = frames \ Newest
  /\ Call("pop", n)
  /\ UNCHANGED <<memoryVars, flags, isHalted>>

\* A call that reaches outside the array.
HelperStrays(window) ==
  /\ ~(window \subseteq Address)
  /\ strayed' = TRUE
  /\ UNCHANGED <<heap, ram, cpuVars, calls, result, frames>>

HelperNext ==
  /\ ~strayed
  /\ Len(calls) < MaxCalls
  /\ \E n \in Size : \/ \E v \in Value(n) : PushOnto(n, v)
                     \/ PopFrom(n)
                     \/ HelperStrays(Window(PushAddress, n))
                     \/ HelperStrays(Window(PopAddress, n))

HelperSpec == HelperInit /\ [][HelperNext]_helperVars

-----------------------------------------------------------------------------
LastCall == calls[Len(calls)]

\* The address the last push stored to.
PushedAt == (CHOOSE f \in Newest : TRUE).at

\* How many of the first k calls have this name and size.
Count(name, n, k) ==
  Cardinality({j \in 1 .. k : calls[j] = [name |-> name, size |-> n]})

\* No more pops of any size than pushes of it, at any time so far.
Balanced ==
  \A k \in DOMAIN calls : \A n \in Size : Count("pop", n, k) <= Count("push", n, k)

(* What a pop returns right after a push of the same size, whatever calls  *)
(* went before and wherever they left ESP.  Only of 16 bits is it what was *)
(* pushed (cpu.h:130-136 declare three pairs): of 8 bits it is the byte    *)
(* above the one pushed, as it was before; of 32 bits a double word that   *)
(* begins two bytes too low, with the lower half of the one pushed on top. *)
PopAfterPush ==
  [][calls' # calls /\ calls # <<>> /\ LastCall.name = "push" =>
       \A n \in {LastCall.size} :
         calls'[Len(calls')] = [name |-> "pop", size |-> n] =>
           CASE n = 1 -> result' = readImm8(PopAddress) /\ PopAddress # PushedAt
             [] n = 2 -> result' = result
             [] n = 4 -> result' \div Word = result % Word]_helperVars

(* Calls that pop at each size no more often than they push leave ESP at   *)
(* or below where it began: pops move it by less than their size, never by *)
(* more, so that the stack of a balanced program does not climb.  It still *)
(* sinks, by up to four bytes a push: 16,384 pushes can take ESP from      *)
(* 65,535 past zero, and then it is near the top of the address space.     *)
BalancedStaysBelow ==
  Balanced /\ Len(calls) < 16384 => registers["ESP"] <= 65535

=============================================================================
