# x86e in TLA+

x86e (`src/`) is a small emulator of an i386 processor: a byte array for the
memory, a register file, a decoder, 24 instruction handlers, and a loop that
loads one file and runs it. This directory holds a TLA+ model of it, the TLC
configurations that check the model, and proofs that TLAPS checks.

Paths below are relative to the repository root, `cpu.cpp` is
`src/cpu/cpu.cpp`, `i386im.cpp` is `src/cpu/im/i386im.cpp`, and so on.

## 1. The system

| component | state | operations | talks to |
|---|---|---|---|
| memory (`memory.cpp`) | `_memory`, `_size` | read and write 1, 2, 4 bytes, little endian | called by everything |
| register file and flags (`cpu.cpp`) | `_registers[64]`, `_flags[64]`, `_isHalted` | get, set, increment, decrement, reset, halt | instructions, loop |
| ModRM decoder (`cpu.cpp`) | moves EIP | `parseModRM`, `ModRMValue16bit`, `ModRMValue32bit`, `sibByte32bit` | reads memory and registers |
| stack (`cpu.cpp`) | moves ESP | push and pop of 8, 16, 32 bits | memory |
| instructions (`i386im.cpp`) | none of its own | 24 handlers | all of the above |
| i386 cycle (`i386.cpp`) | local `Opcode` | prefixes, dispatch, increment of EIP | handlers |
| boot and run loop (`main.cpp`) | the loop variable, the vector of bytes | reset, load, patch 0xfa, cycle until halted, print | cycle, file reader, logger |
| file reader (`fs.cpp`) | none | `readfile` | called by `main` |
| bit count (`utils.cpp`) | its parameter | `countWithOddSetBits` | called for every PF |
| logger (`Logger.cpp`), manager base class (`x86im.cpp`) | `startTime`; a pointer | print; none | called by `main`; base of the instructions |

The program has one thread and no callbacks; nothing is persisted and nothing
can be retried. What is hard in it is not concurrency but sequences:

* instructions hand state to one another that each handler treats by its own
  rules: CF is set and not cleared, a carry is turned into OF, ESP moves by
  different amounts in a push and in a pop;
* decoding moves EIP as a side effect of computing an operand, once per
  variant of each addressing mode, and a byte too few makes data run as code;
* the same number is an address or the index of a register, depending on `mod`;
* sums are computed wider than the operand, and cut (or not) by whoever stores
  them; the flags are computed a second time from copies of the operands;
* no access is checked against the size of the array, and the array is
  executed beyond the image, where it holds what the allocation left;
* the processor object is not initialised by its constructor, the image is
  loaded without a look at what `readfile` met or at the size of the array, and
  part of it is overwritten before the first cycle.

What makes each component correct: memory returns what was last written and
nothing else changes; a view of a register touches only its bits; the decoder
consumes as many bytes as the encoding has; the stack returns what was pushed
and overwrites nothing before; an instruction has one destination and flags
that describe it; the loop makes progress and ends; the boot sequence hands the
loop a machine that depends on the file and the heap alone.

## 2. Modules

```
Memory               the array, sparse                        memory.cpp
  CPU                registers, flags, ModRM, stack functions cpu.cpp, cpu.h
    StackHelpers     the six stack functions in any order     cpu.cpp
    Instructions     the 24 handlers                          i386im.cpp
      I386           fetch, dispatch, Init, Next, Spec        i386.cpp
        I386Properties    properties, refinement of Walk
          I386Stack       the machine beside a record of the words pushed
            I386ByteStack refinement of ByteStack
        Main              the whole program                   main.cpp, fs.cpp
          MainProperties  refinement of I386 and of Walk
Bits                 what the bit count returns for a byte    utils.cpp
  PopCount           the bit count, assignment by assignment  utils.cpp
Walk                 abstract: one walk through the memory
ByteStack            abstract: a stack of bytes
CPUProofs            lemmas about the operators of CPU and Instructions
I386Proofs           theorems about the machine: types, flags, the walk
  I386EffectProofs   ... about what one instruction changes
    MainProofs       ... about the whole program, refinement of I386 and Walk
  I386StackProofs    ... about the record of pushed words
    I386ByteStackProofs   refinement of ByteStack
StackHelpersProofs   theorems about the six stack functions
PopCountProofs       theorems about the bit count
MCI386, MCI386Stack, MCMain, MCStackHelpers, MCPopCount
                     values of the constants for TLC
```

`Bits` is extended by `Instructions` too, which takes every parity flag from it.

There are four refinements. The machine implements `Walk` (where EIP can go)
and, with two history variables, `ByteStack` (what pushes and pops do); the
program of `Main` implements the machine, and with its boot sequence `Walk`.

### State

| TLA+ | code |
|---|---|
| `ram`, `heap` | `_memory`: `ram` maps the addresses written so far to bytes, every other byte is `Garbage(heap, a)`, what `new uint8_t[size]` returned uncleared |
| `strayed` | an access has left the array; the behaviour is undefined from there and the model takes no more steps |
| `registers` | the fifteen 32 bit slots of `_registers`; the 8 and 16 bit names are views (`ViewOf`, `StoredIn`), as the index arithmetic in `setRegister` and `getRegister` makes them |
| `flags` | the six of `_flags` that an instruction touches |
| `isHalted` | `_isHalted` |
| `frames` (I386Stack) | not in the code: a history variable, the words pushed and not popped |
| `depth`, `popped` (I386ByteStack) | history: how many bytes from the next pop upwards are the stack, and the word the last pop showed |
| `phase` (Main) | the statement of `main` about to run |
| `file` (Main) | what the path leads to: its kind, its bytes, how many of them `fread` gets |
| `data`, `offset` (Main) | the vector `readfile` returned, the loop variable of the copy |
| `calls`, `result`, `frames` (StackHelpers) | history: the calls made, what the last one returned, the values pushed and not popped |
| `word`, `i`, `done` (PopCount) | the argument, the parameter the function assigns to, the assignments executed |

### Steps

One step is one call of `i386::cycle`. Inside it nothing else runs, so the
handler is one action: reading the operands, storing, setting flags, the
increments of EIP during decoding and the closing one. `Cycle` picks the number
`n` of prefixes (there is only one: lemma `FetchIsUnique`), and `Execute` is
the `switch`. The handlers are named as in the code and built from five shapes
(`IntoRm`, `IntoR`, `IntoAccumulator`, `PushSegment`, `PopSegment`), because
the code repeats the same body for each operation and size. `op.at`, the address of the opcode
byte, stands for the successive values of EIP while the handler runs: EIP is
not read by anything else in between, since no ModRM register is EIP.

`CycleStrays` is the cycle that fetches past the array or whose handler
reaches outside it. In C++ such a cycle is undefined behaviour; the model
records that it happened and stops.

`Init` of `I386` is the state in which `main` enters its loop: after `reset()`,
with the image copied to address 0 and the double word 0x0AAFA113 stored at 0xfa
over it (`Loaded`). `Main` has the steps that lead there, one action each:
`Reset` (from whatever the frame of `main` held: the constructor leaves
registers, flags and `_isHalted` as they are), `ReadFile` or `ReadFails`
(`fopen` and `ftell` are not checked), one `LoadByte` per byte or `LoadStrays`,
`StorePatch`, then `RunCycle` until `Return`. The file is chosen in the initial
state; a short `fread` leaves the zeros the vector was filled with.

`StackHelpers` takes the six stack functions out of the program and lets them be
called in any order and at any size, as the class offers them. `PopCount` steps
through the assignments of `countWithOddSetBits`. Its masks are written as the
fields that they keep of each byte (`Masked`), a shift to the right as a
division, and the closing product and shift as a sum of bytes with their
carries. `MCPopCount` has TLC compare `Masked` with the bitwise and (an `ASSUME`
over all the words of the run), and the lemma `SumIsProduct` compares the sum
with the product of 32 bits. `SetBits` in `Bits`, what the handlers use, is what
the function returns for a byte (`ReturnsSetBits`).

What the model keeps of the code's own behaviour, although it is unlike an
80386: prefixes of segments have no effect; an 8 bit displacement is not
sign-extended; a SIB byte is never fetched; 0x0f is skipped as a single byte;
`setRegister` of an 8 or 16 bit register cuts a wider value, and of a 32 bit
one (EAX, where the register operand falls through to it) does not.

### Arithmetic

TLC's integers have 32 bits with a sign, so a `uint32_t` cannot be computed
with directly. `TopByte` is the number of values of the most significant byte
of a double word: 256 in the program, 64 in the runs, so that the largest sum
of two operands and a carry is 2^31 - 1. Everything about 32 bit values is
stated over `Dword == 16777216 * TopByte`; the proofs hold for every `TopByte`
from 1 to 256, so for the program's own. 8 and 16 bit operands have their
full width in the runs.

## 3. What the runs check

| run | instance | states | shows |
|---|---|---|---|
| `decode` | every ModRM byte × 12 opcodes × 5 prefix sequences after a prologue that makes all registers different, the 14 other opcodes, displacements of one byte with the sign bit set, SIB bytes with and without a base | 240,470 | `FlagsDescribeDestination`, `LengthOfOtherEncodings`, `OneDestination`, `UpperHalvesKept`, `SixteenBitAddressingStaysInside`, `StoredWhereEncoded` |
| `programs` | up to three instructions of a menu of 27, with and without a carry before them | 226,575 | `TypeOK`, `FlagsCoherent`, `CarryDiscipline`, `WrapIsReported`, `OneDestination`, `PushedWordIsNextPop` |
| `termination` | 820 fragments of up to 3 bytes in a memory of 12 bytes, 4 heaps | 11,632 | `Terminates`, `WalksThroughMemory` |
| `stack` | up to four pushes, pops and computations on ESP and the stack, from the top of the stack, behind a pop, and with ESP at 1 (21,232 images) | 142,328 | `FramesIntact`, `FramesApart`, `StackOfBytes` |
| `helpers` | up to five calls of the six stack functions, in an array that ends two bytes above the stack | 20,953 | `PopAfterPush`, `BalancedStaysBelow` |
| `boot` | the whole program in a memory of 12 bytes: files that are missing, unseekable, read short, empty, shorter than, as long as and longer than the memory; 3 heaps, 2 frames | 9,612 | `MainTypeOK`, `OnlyBadFilesCrash`, `BootsTheMachine`, `ProgramWalks`, `MainEnds` |
| `count` | every byte in every place of a word, complements, alternating fields | 5,775 | `FieldsCount`, `ReturnsSetBits` |
| `carry`, `length`, `direction`, `topside`, `lifo` | the instances of `programs`, `decode` and `stack` | | each finds one property violated: section 5 |

* **FlagsDescribeDestination.** SF, ZF and PF agree with the register or the
  bytes of memory the result was stored in, read back at the operand's size.
  The code computes the two apart.
* **OneDestination.** A computation changes one register or its bytes of
  memory, never both; pushes and pops touch ESP, their segment and two bytes.
* **UpperHalvesKept.** The carry bit of an 8 or 16 bit sum does not reach the
  rest of the register. (It does where the operand decodes to EAX by mistake.)
* **LengthOfOtherEncodings.** EIP lands on the end of the encoding, less
  exactly the bytes of `Unread`: one of a 16 bit displacement on two registers
  (first finding), a SIB byte with what belongs to it, and the second byte of a
  two-byte opcode. The property says what of an encoding runs as code, in each
  of these forms and in no other.
* **StoredWhereEncoded.** The bytes a computation changes lie at the address
  that the encoding table gives. `EncodedAddress` writes that table down a second
  time, as registers by row, and shares nothing with the decoder but the fields
  of the ModRM byte, the registers and the memory. A negative displacement of one
  byte misses that address by exactly 256 (`Missed`). Forms with a SIB byte are
  left out: base and index are not in the address, and the byte is read as part of
  the displacement, so the address is none of the encoding's. The address is
  cut to the width of the variable that the handler keeps it in: 16 bits for
  operands of 8 and 16 bits, also behind an address-size prefix, and 32 bits for
  the others, also where the table's sum would wrap at 64 KiB.
* **SixteenBitAddressingStaysInside.** Only a 32 bit operand behind an
  address-size prefix, the stack, or a fetch past the end can make a cycle
  leave the array of `main`.
* **FlagsCoherent, CarryDiscipline, WrapIsReported.** What the flags can say
  after any sequence: ZF never with SF nor without PF; CF with SF only from
  adc; OF survives all but or; a sum that wraps leaves CF or OF set. The last
  one rests on CF being sticky: the overflow test of adc misses
  `f + max + 1`.
* **PushedWordIsNextPop, FramesIntact, FramesApart.** Pushes and pops do not
  undo one another, but a pop directly after a push reads the pushed word, and
  in no order do they overwrite a word that is still to be popped.
* **StackOfBytes.** What the stack is, since it is no stack of words: the
  machine implements `ByteStack`, in which a push puts two bytes on and a pop
  shows the top two and takes one off. No other instruction changes it, unless
  it moves ESP or writes into it, and then the record starts again. The mapping
  is `stack <- [i \in 1 .. depth |-> readImm8(Above(i))]`.
* **PopAfterPush, BalancedStaysBelow.** Of the three pairs of stack functions
  only the 16 bit one returns what was pushed; what the others return is said
  exactly. Calls that pop at each size no more often than they push leave ESP
  at or below its start, as long as there are fewer than 16,384 of them: by then
  pushes alone can take it from 65,535 past zero, and it goes on from the top of
  the address space.
* **BootsTheMachine.** The program implements `I386` under a mapping that, until
  the loop is entered, shows the initial state `main` is heading for. A slot
  that `reset()` missed, a byte copied to the wrong address or a patch that
  depends on the file would start a machine that is not in `Init`.
* **ProgramWalks.** The program over its own variables implements `Walk`, its
  boot sequence seen as a machine that stands at address 0. The promises of
  single steps hold in its loop because it implements the machine, and are not
  checked there once more.
* **OnlyBadFilesCrash, MainEnds.** Before the loop the program gets lost on
  files that do not open, cannot be measured or do not fit, and on those only,
  the image that just fits included; and it always ends.
* **FieldsCount.** After each assignment of `countWithOddSetBits` every field
  holds the number of bits set in it: nothing spills into a neighbour.
* **ReturnsSetBits.** For a byte the function returns what the model of the
  handlers takes PF from, so the two models of it agree.
* **WalksThroughMemory.** The machine implements `Walk`: EIP only moves up, by
  at least a byte a step, never past the end, and halting and straying are
  final. `Walk` is the abstract specification; the refinement mapping is
  `at <- registers["EIP"]`, `status <- Status`.
* **Terminates.** The loop of `main` ends for every image.

### Bounds

* `MaxPrefixes` bounds the prefixes of one instruction: 3 in the runs whose
  images have at most three, 12 in `termination`, which is the whole memory
  and therefore no bound at all there. In the other runs the heap holds hlt
  behind the image, so no longer run of prefixes exists.
* `MemorySize` is that of `main` (0xFFFFF) except in `termination`, where
  twelve bytes make a walk through all of it short and straying frequent;
  `boot` uses the same size, so that files around it can be enumerated, and
  `helpers` 65,538 bytes, so that calls stray above the stack. `PatchAddress` is
  0xfa as in `main`, and 8 where the memory has twelve bytes.
* The menus contain the operands around which sums wrap or change sign at each
  size, a carry before adc, accesses that leave the array through a
  displacement, an index or ESP, writes to code and to the stack. Three
  instructions are one to set a flag, one to turn it around and one to observe;
  four on the stack are two pushes and two pops, in any order and with a
  disturbance in any place, and one of the three starts has made a pop already.
* `MaxCalls` is five: two pushes, two pops and one call to shift what they find.
* The words of `PopCount` stop at 2^31 in the run, the integers of TLC; the
  theorems are about all words of 32 bits. The instructions pass bytes.
* One heap in the large runs, since the images end before it matters; four in
  `termination` and three in `boot`, where running into it is the point. Two
  frames in `boot`: one of zeros that has halted, one of set bits that has not.
* No symmetry: registers and bytes are not interchangeable.
* `CHECK_DEADLOCK FALSE` in all of them: the program stops when it has halted,
  the calls of `helpers` at their bound, and the bit count at its end.

### Fairness

`FairSpec` adds `WF_vars(Next)`: `main` calls `cycle()` in a loop for as long
as the processor is not halted, and nothing else runs. It is used by
`termination`. `MainFairSpec`, used by `boot`, adds `WF_mainVars(MainNext)`: the
program has one thread, and whatever its next statement is, it runs. No step
depends on fairness of a particular instruction or statement: both are
deterministic but for the initial choice of heap, image, file and frame.

### Mutants

For each property of a passing run there is a mutant of one definition of the
model, a plausible slip in the code, that makes TLC find that property
violated. They are the operators marked `Mutant:` beside the definition they
replace; `PROJECT.json` names the pairs. They belong to no behaviour.

## 4. What is proved

For every memory size, heap, image, bound on prefixes and width of the top
byte that satisfy the assumptions:

| theorem | statement |
|---|---|
| `TypeCorrect` | `Spec => []TypeOK` |
| `FlagsAlwaysCoherent` | `Spec => []FlagsCoherent` |
| `WalksOnce` | `Spec => WalksThroughMemory` |
| `CarryDisciplined` | `Spec => CarryDiscipline` |
| `WrapsAreReported` | `Spec => WrapIsReported` |
| `OneDestinationOnly` | `Spec => OneDestination` |
| `UpperHalvesAreKept` | `Spec => UpperHalvesKept` |
| `StoresWhereEncoded` | `Spec => StoredWhereEncoded` |
| `FlagsAreOfDestination` | `Spec => FlagsDescribeDestination` |
| `OtherEncodingsKeepLength` | `Spec => LengthOfOtherEncodings` |
| `SixteenBitStaysInside` | `Spec => SixteenBitAddressingStaysInside`, if `RoomForSums` |
| `PushedWordIsPopped` | `Spec => PushedWordIsNextPop` |
| `StackIntact` | `StackSpec => []FramesIntact` |
| `StackApart` | `StackSpec => []FramesApart` |
| `ImplementsByteStack` | `ByteSpec => StackOfBytes` |
| `PopOfPushed` | `HelperSpec => PopAfterPush`, if `FullWidth` |
| `BalancedCallsStayBelow` | `HelperSpec => []BalancedStaysBelow` |
| `OnlyBadFiles` | `MainSpec => []OnlyBadFilesCrash` |
| `MainTypeCorrect` | `MainSpec => []MainTypeOK` |
| `MainImplementsMachine` | `MainSpec => BootsTheMachine` |
| `ProgramWalksOnce` | `MainSpec => ProgramWalks` |
| `LoopStaysInside` | `MainSpec => [][RunCycle => InsideStep]_mainVars`, if `RoomForSums` |
| `BitsAreCounted` | `PopSpec => []FieldsCount` |
| `HandlersGetTheCount` | `PopSpec => []ReturnsSetBits` |

Assumptions: the array is at least 16 bytes smaller than the address space
(`MemoryAssumption`; an EIP that runs off the array is then noticed before it
wraps), the heap holds bytes, an image is a sequence of bytes that fits the
array, the patch lies inside it, `MaxPrefixes` is a natural number; files and
frames have the types of their C++ values (`FileAssumption`,
`LeftoverAssumption`), and the machine's `Images` are what the files deliver
(`DeliveryAssumption`); arguments of the stack functions fit their size
(`ValueAssumption`), and those of the bit count 32 bits (`WordsAssumption`).
Three theorems have a hypothesis of their own, which the program meets:

* `RoomForSums`: the array has at least 196,609 bytes. Two index registers and a
  16 bit displacement add up to 3 × 65,535 at most, and a double word there ends
  three bytes later. `MEM_SIZE` is 1,048,575. In a smaller array such an
  operand can lie outside.
* `FullWidth`: `TopByte` is 256, as in the program. With fewer values of the top
  byte the model cuts that byte in every 32 bit read, and the pop of 32 bits,
  which has a byte of the lower half pushed there, loses bits of it. The run
  pushes values that have none to lose.

**The machine.** The inductive invariant is `IInv == TypeOK /\ FlagsCoherent`.
The type is needed for the arithmetic of every handler (a remainder is only
below its modulus for a number), and the bound `EIP <= MemorySize` in it for
the walk: an instruction inside the array leaves EIP at most one past its end.
`CPUProofs` says what the operators return: reads and register views fit their
width, results fit the operand, the sign is a bit, a wrapped sum is below its
first operand unless a carry came in. `I386Proofs` proves for each shape of
handler that the instruction *completes* (`Completes`: the invariant again,
EIP beyond the opcode and inside the array, no stray), sorts the opcodes into
the shapes (`Shapes`), and shows that the instruction executed is the decoded
one (`CycleExecutes`). Each action property has a lemma about one step of it
(`CarryStepHolds`, `WrapStepHolds`, ..., `IInv /\ [Next]_vars => [CarryStep]_vars`),
proved by cases on the shape, from which the theorem follows at once;
`WalkStepHolds` is the step of the refinement of `Walk`. What pushes and pops do
to ESP, and what a stored word reads back as, is at the end of `I386Proofs`.

**One instruction.** The properties of `decode` and `programs` speak of the
instruction a cycle executes through the bytes in memory, by definitions that
the handlers do not use (`ResultRegister`, `DataWindow`, `EncodedLength`,
`EncodedAddress`). Three lemmas of `I386EffectProofs` bridge the two, by cases on
the shape:

* `ComputationStores`: a computation stores `Raw(...)` in the register or at the
  address the properties name, sets the flags of `FlagsAfter`, and leaves every
  other slot and byte alone. `OneDestinationOnly` and `UpperHalvesAreKept` follow
  from it, the latter from how `StoredIn` cuts; so does `StoresWhereEncoded`,
  with `AddressOfEncoding`: the decoder reads as many bytes of displacement as the
  table gives the form (`DisplacementOfEncoding`) and adds the registers of its
  row (`BaseOfRow16`, `BaseOfRow32`).
* `StepTakes` and `TakenOfEncoding`: how far EIP moves, and that this is the
  length of the encoding less `Unread`.
* `StraysAtDecoded`: a cycle that strays does so at the operand, the stack or a
  fetch of the decoded instruction. `OperandBounded` then bounds the operand by
  the widths of what is added up.

`FlagsAreOfDestination` needs both sides: what is read back at the operand's
size is the value modulo its width (`SizedReadBack`, `RegisterReadBack`), and
so is what the flags were computed from (`FlagsOfResult`), although the handler
computes it from other copies. The count of set bits enters as the cardinality
of a set (`SetBitsCounts`).
`PushedWordIsPopped` needs no bridge: a push whose two bytes lie inside the
array starts at ESP - 1 without a wrap, and the next pop reads there
(`PushArithmetic`).

**The stack.** `FramesIntact` is not inductive: to see that a push does not
overwrite an older word one must know where the older words are. The invariant
`StackIInv` adds `FramesApart` (each lies at or above the address of the next
pop, and they do not overlap) and the type of the frames. A push then stores
below all of them; a pop moves ESP up by one byte, which is at most the width
of the word it takes off; a computation that writes into a frame takes it off
the record. The wrap of ESP below address 0 is excluded by the array: such a
push strays.

**The stack of bytes.** `ByteIInv` adds to `IInv` that the bytes of the stack
end inside the array (`StackInside`: `PopAddress + depth <= MemorySize`). The
mapped stack is then a sequence of consecutive bytes (`StackIsSequence`), none
of them behind a wrap; without that a push could store over the far end of it.
One lemma per kind of step shows its abstract step: `PushSeen`, `PopSeen`,
`ComputationSeen` (the stack stands, or is given up), `SkipSeen`. That ESP
stays inside comes from `PushMoves` and `PopMoves` of `I386Proofs`.

**The stack functions.** `BalancedStaysBelow` is not inductive, since pops of one
size can be paid for by pushes of another. `Accounts` is: ESP is 65,535, less
the bytes pushed, plus 1, 1 and 3 for each pop of 8, 16 and 32 bits, modulo the
width, and the six counts add up to the number of calls. It holds for any number
of calls; only the last step, where the modulus is dropped, needs that they were
fewer than 16,384. (Without that bound the property is false, which the five
calls of the run are too few to show; the attempt to prove it did.) `LastPush`
says what is there right after a push: the bytes of the value from address `a`
upwards, ESP at `a + 1 - n`, and the newest record at `a`. The pop of the same
size then starts at `a + 2 - n` (`PopAddressAfterPush`; a pop that would wrap is
outside the array), and `PopOfPushed` reads off what it returns.

**The program.** `BootIInv` says what the boot sequence has built so far: before
`reset()` nothing but types; from it on a reset processor; while loading, memory
that holds exactly the first `offset` bytes of `data`, at their own addresses;
in the loop `IInv`. It yields `OnlyBadFiles` and `MainTypeCorrect`.
`MainImplementsMachine` needs two more facts: `SameStart`, that
the state `StorePatch` completes is an initial state of the instance, and
`SameSteps`, that in the loop the instance's `Next` is `Next`. The second holds
operator by operator, since the substituted variables are then the variables
themselves; the prover has to be led through the operators in the order in which
they are defined. For a promise of single steps no mapping is needed:
a turn of the loop is a step of the machine that starts in `IInv` and is never
idle (`TurnIsAStep`), and the step lemmas apply to it as they stand.
`LoopStaysInside` does so for the one whose hypothesis is about `main`, the size
of its array.
`ProgramWalksOnce` maps the boot sequence to stuttering and a turn to
`WalkStepHolds`.

**The bit count.** `FieldsCount` is not inductive: it counts the bits of each
field, but says nothing of the bits between the fields once these are wider than
their counts. `PopIInv` says what the whole word is: until the sum, four bytes,
each made of the argument's byte in the same place by the assignments so far
(`After`); then the sum of the four. So it suffices to look at one byte.
`PairsOfBytes`, `QuadsOfBytes` and `EightsOfBytes` show that an assignment treats
each byte alone: the bits that a shift brings in from the next byte are not kept
(`OwnBits`), no difference is negative, and with at most four in each half no sum
of two reaches the next byte; `SumOfBytes` needs that each byte counts at most
eight. `CountsOfByte` computes the three assignments for a byte given by its
eight bits. On the other side stands the cardinality of the set of set bits:
`CountSplit` cuts it in two, which leads from single bits to fields of 2, 4, 8
and 32 (`CountTwice`, `CountsOfWord`). `ZeroDone` to `FourDone` put both together.

**Only model-checked.** `Terminates` and `MainEnds`: liveness under fairness is
outside the prover's reach, although `WalksOnce` and `ProgramWalksOnce` give the
measure, `MemorySize - EIP`. Every other property of a passing run is a theorem.
That `Masked` is the bitwise and is compared by TLC on the words of the run,
since the prover cannot use the bitwise operators; the theorems about the bit
count are about `Masked`.

## 5. Where the code and what it says of itself part

* `length`: `cpu.cpp:206-209` read a 16 bit displacement and step over one
  byte of it; lines 210-213 step over both. The second byte runs as an opcode.
* `direction`: with two register operands the forms `r , r/m` write r/m
  (`i386im.cpp:183` and its siblings); the dispatch says `add r8 , r/m8`
  (`i386.cpp:55`).
* `topside`: next to a displacement the register operand is always EAX:
  `GET_REGISTER16(0x40)` compares a nibble with 0x40 (`cpu.cpp:187, 203, 286,
  302`); `cpu.h:120` says "get from top side".
* `carry`: a sum that wraps sets CF, in a branch commented "Overflow"
  (`i386im.cpp:47-58`), and only a sum with its sign bit set clears it. After any
  other sum that fits, CF still says what an earlier one did, and adc adds it.
* `lifo`: a pop moves ESP by one byte (`cpu.cpp:453`) and a push by two, so
  that after a pop the stack is not last in, first out.

Other things met on the way, and kept as they are in the model: a displacement of
one byte is added as a `uint8_t` (`cpu.cpp:190-197, 289-296`), so that `[bx-2]` is
256 bytes too high; `sibByte32bit`, called for rm = 4 only, fetches nothing and
returns 0 (`cpu.cpp:277, 389`), although the table that `cpu.h:122` links has a SIB
byte there; the condition
of the unused branch in `or` (`(f | s) < f`) is never true; `beginIP` is never
read; the 8 and 32 bit pops do not return what their pushes stored and move ESP
by other amounts, which nothing in the program calls (`PopAfterPush` says what
they do); `readfile` opens with "rb+", so that a file that may only be read counts
as missing; for an empty file `&data[0]` names an element that is not there, which
in this build does no harm, since nothing is read through it; a file read short
ends in zeros, and zeros run as `add [bx+si] , al`.

## 6. Not modelled, done, and left open

Not modelled:

* the logger and the printing between cycles: output only. `startTime`, its one
  variable, is read for the printed time stamp and by nothing else;
* the base class of the instruction manager: it keeps a pointer to the processor
  and has no behaviour;
* the flags and prefixes without effect, and `_registers` and `_flags` beyond
  those named: reset clears them and nothing reads them;
* what happens after an access outside the array: undefined behaviour, at which
  a run of the model ends (`strayed`, `crashed`).

Done, in the order it was done:

1. the machine: `Memory`, `CPU`, `Instructions`, `I386`, `Walk`, and the stack
   record `I386Stack`; the theorems on types, flags, the walk and the record;
2. `Main`, the boot sequence as steps, shown and proved to implement `I386`;
   `PopCount`; `StackHelpers`; `ByteStack`, shown and proved to be what the
   machine's stack is;
3. proofs of what one instruction changes (`I386EffectProofs`): all the action
   properties of `I386Properties` that hold;
4. proofs of `PopAfterPush` and `BalancedStaysBelow` (`StackHelpersProofs`);
5. the walk and the bounds of 16 bit addressing as theorems about the loop of `main`;
6. the bit count for every word of 32 bits (`PopCountProofs`).

Left open:

* the record of pushed words and the stack of bytes, proved of the machine, are
  not restated over the variables of `Main`: they need its history variables
  beside the program;
* a proof of termination, for a prover that handles fairness.
