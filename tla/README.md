# Comet in TLA+

A TLA+ model of Comet, the RV32I processor of this repository: its pipeline, its
memories and cache, the instruction encodings, the ELF loader, the simulator that
runs programs on it, the atomic test driver and the Vivado variant. TLC checks the
models on small instances; TLAPS proves the main results for every program, every
word size and every geometry.

Paths are relative to the root of the repository, whose own
sources are in `src/src` and `src/include`.

## 1. Inventory

| Part | State | Operations | What must be right |
|---|---|---|---|
| Core (`src/core.cpp`, `include/core.h`, `pipelineRegisters.h`) | `pc`, four pipeline registers, `regFile`, stall flags | `doCycle()`, which calls `fetch`, `decode`, `execute`, `memory`, `writeback`, `forwardUnit`, `branchUnit` and commits under the stalls; `doCore()` | the program runs as if one instruction at a time: youngest producer forwarded, load-use wait, wrong path squashed, no effect in a stalled cycle, nothing uninitialised used, progress |
| Plain memories (`include/memoryInterface.h`) | the data array, `pendingWrite`, `valueLoaded` | `process()` of `IncompleteMemory` and `SimpleMemory` | an array of bytes; a store takes effect once, when it is answered |
| Cache (`include/cacheMemory.h`) | 4-way lines with age, valid, dirty; the miss countdown `cacheState`; the delayed store; the pending operation on the next level | `process()`, the constructor | the same, and no line is dropped that the next level does not hold; every access is answered |
| ISA tables (`include/riscvISA.h`, `src/riscvISA.cpp`) | none | encodings, immediates, arithmetic, `isRecognized()`, disassembler text | the bits of a format; signed and unsigned apart; the monitor's table agrees with the switches |
| Loader (`src/elfFile.cpp`, `basic_simulator.cpp:79-129`, `:163-185`) | section and symbol tables, memory image, entry pc, heap | `ElfFile`, `readElf`, `pushArgsOnStack`, `printEnd` | sections, heap and arguments where the file and the program expect them |
| Simulator loop (`include/simulator.h`) | `exitFlag`, counters | `run()` | a system call per retired ecall, and no other |
| System calls (`src/basic_simulator.cpp`) | `heapAddress`, host files | `solveSyscall()`, eleven `do*` handlers, `ldb`/`stb` | precise: the call sees its predecessors, its successors see it, it changes `a0` only |
| Atomic tests (`src/atomicTest.cpp`) | a core, two caches, two arrays | 35 calls of `doCycle()` and a comparison | the test of an instruction sees that instruction |
| Vivado variant (`vivado/`) | as the core, and `regFileCopy`; the output port | `doCycle()`, `DirectMemory`, `DirectLoadMemory` | both register files agree; the port sees the word stores |
| Command line (`src/main.cpp`) | none | option parsing | |

How they interact: `run()` calls `doCycle(core, 0)` then `solveSyscall()`, for
ever. `doCycle()` calls `process()` of the instruction and of the data memory
once per cycle, through a virtual call with two reference parameters (`dataOut`,
`waitOut`). A memory that answers `waitOut` stalls the whole core, which repeats
the call; a stalled instruction memory turns the data call into `NONE`. A cache
calls `process()` of its next level. `solveSyscall()` reads and writes the
pipeline registers between two cycles, and calls the data memory itself.

Nothing runs in threads, but the behaviours are concurrent: five instructions
are in flight, memories answer after an arbitrary number of calls, stalls come
from three places and the simulator edits the pipeline from outside.

The hazards, each at its line and with the properties that cover it, are in
`PROJECT.json`.

## 2. Modules

```
Rv32              words, instructions, the parameters (ALU, loads and stores)
 |- Isa           abstract: the sequential machine
 |- Core          doCycle(), refines Isa          CoreProofs, MCCore
 |   |- VivadoCore       two register files, refines Isa   VivadoProofs, MCVivado
 |   |- CoreOnMemories   doCycle() with its memories, refines Core  MCOnMemories
 |   |   `- AtomicTest   the driver of atomicTest.cpp                MCAtomicTest
 |   `- Simulator        run() and solveSyscall(), refines SysIsa    MCSimulator
 |- Syscalls      solveSyscall()'s switch and handlers
 `- SysIsa        abstract: Isa with precise system calls

SubWord           bytes, halves and words of a word
 |- ByteMemory    abstract: an array of bytes, one request at a time
 |- Memories      IncompleteMemory, SimpleMemory
 |- DirectMemory  DirectMemory, DirectLoadMemory of vivado/
 |- CacheMemory   the cache, above any memory
 `- MemoryClient  how doCycle() calls a memory, refines ByteMemory
     |                                            MemoryProofs
     `- CacheClient  the same, and what holds inside a cache
                               CacheProofs, CacheRefinement, MCMemories

Instructions      decode() and execute() on the bits of an instruction
 `- InstructionSet  abstract: formats and meanings  InstructionProofs, MCInstructions

Loader            from an ELF file to a loaded program, and its signature
                                                   LoaderProofs, MCLoader

NumberLemmas      induction, recursive functions, quotients: for the last two
```

`Core`. The variables are the fields of `struct Core`, with the contents of the
two memories. The stages are functions of the pipeline registers (`FetchOut`,
`DecodeOut`, `ExecuteOut`, `MemoryOut`, `WritebackOut`, one per C++ function);
`StallDecode`, `Forward` and `NextPcOut` are `forwardUnit` and `branchUnit`;
`DoCycle(globalStall, stallIm, stallDm)` is the function of that name, and
`Advance` its commits. A field that no statement assigns holds `Undef`, as the
temporaries of `doCycle()` are not initialised. One such field is used: `execute()`
has no result for the instructions of the M extension (`core.cpp:306`), to which
`decode()` gives a destination all the same. Their result is `leftover`, whatever
word lies in the temporary. `nextPCFetch`, `funct7` and `byteEnable` are folded
into other fields or unused; `cycle` counts only.

`Rv32` keeps the data abstract. A word is a number below `WordSize` and addition
wraps. The instructions of the M extension are those with `funct` in `MulDiv`. The
ALU, the branch conditions and the sub-word accesses are operator
parameters: the pipeline's correctness does not depend on them, and the theorems
hold for all of them. Instruction and data memory are apart, so a store never
rewrites the program (in the simulator both are one array, `basic_simulator.cpp:44`).
`Core` sees its memories through the contract of `MemoryInterface`: a call waits
and has no effect, or answers and does the operation.

`Isa` is what the pipeline promises: fetch, execute, write back, one instruction
per step, no pipeline; an M instruction writes some word. The refinement maps its pc to the oldest instruction that
has not left the memory stage (`ArchPc`), its registers to the register file
with the write back about to happen (`ArchRegs`).

`CoreOnMemories` puts two memories inside: each cycle is a call of `process()` of
`core.im`, then one of `core.dm` whose operation depends on the first
(`ImCalled`, `OpType`, `DmCalled`), then the commits of `Core`. Its initial states
are those of the simulator's constructor and those of `doCore()`, which leaves
everything but `pc` and `ftoDC` to chance. It refines `Core`: the contract above
is discharged by the composition, not assumed of each memory alone.

`Memories`, `DirectMemory` and `CacheMemory` write `process()` as a function from
the record of everything it can read or assign (the object's fields, the
caller's `dataOut` and `waitOut`) to the new record, which is how a C++ method
with reference parameters behaves, stale values included. `MemoryClient` is the
caller: `Ask` (an access reaches the memory stage), `Retry` (the call of a cycle),
`Suspended` (the call with `NONE` of a cycle stalled from elsewhere), `Quiet` (a
cycle with nothing to ask). `ByteMemory` is the contract: bytes, a request, an
answer.

In `CacheMemory` each C++ statement block of `process()` has an operator:
`Commit`, `Hit`, `ChooseVictim`, `WriteBack`, `Refill`, `Fill`, `CallNextLevel`.
LONG accesses of the cache itself (no caller makes one), the statistics and the
verbose flag are left out.

`Instructions` has an instruction as a function from bit numbers to bits, and
the `slc`/`set_slc` of `decode()` as they stand; `execute()`'s arms; `isRecognized()`.
`InstructionSet` says the same from the other end: which bit of the instruction
each bit of an immediate is, and a relation between operands and result per
mnemonic, and for the link of JALR. Registers have `Xlen` bits; `Pow2` is the table of the powers of two that
shifts, signs and the bits of a number are defined with.

`Loader` has one action per statement block of the `ElfFile` constructor,
`readElf`, `pushArgsOnStack` and `printEnd`, one turn of a loop at a time. A file
is the records the readers slice out of its bytes, with its two string tables.
The code checks little of a file; what it counts on is stated as assumptions, of
the files that pass `checkElf()` only: `FileAssumption` (rows and headers of unsigned
numbers), `LayoutAssumption` (sections apart from one another and below the stack,
one `.text`, the bytes of a section all in the file) and `LinkAssumption` (one string
table, one address per name, a signature that lies in memory). TLC evaluates them on
the files of `MCLoader`.

`AtomicTest` is the loop of `atomicTest.cpp` around `CoreOnMemories!DoCycle`.

`Simulator` is the loop of `run()`, statement by statement: `Cycle`,
`SolveSyscall`, `Loop`, `Stop`. The timeout is a choice to stop at any turn.
`Syscalls` holds the handlers as functions of arguments, memory and simulator
state; what the host's files answer is a parameter (`HostBytes`, `HostResult`).
The instruction and data memories are `SimpleMemory`, as in the constructor,
hence never stall.

`VivadoCore` extends `Core` with `regFileCopy`: the second operand is the one the
same pipeline would produce on the copy (`OnCopy!ForwardedOut`). It has a cycle of
its own, `VivadoCycle(globalStall)`, with the commits under the stall and the call
of the data memory outside it, where only `opType` holds a store back (`DmemAsked`).

## 3. Runs

Each run is a module with a `.cfg` of the run's name.

| Run | Checks | Instance |
|---|---|---|
| `Core` | `TypeOK`, `UndefNeverUsed`, `OperandsCurrent`, `PathFollowed`, `StagesFaithful`, `ImplementsIsa`, `WaitsOnce`, `NeverDrains`, `KeepsRetiring` | every program of four instructions out of nine data instructions, and of four out of ten control ones; an M instruction and any three of an addition, a load, a store and a branch that read its result |
| `OnMemories` | `StepsAreCore`, `OneStaleStore`, `Settles`, `KeepsRetiring` | sixteen addresses, four words of code and four of data, sixteen instructions with accesses of every size; two `SimpleMemory`, two caches, or two `IncompleteMemory` under the leftovers `doCore()` may find |
| `Memories` | `ImplementsByteMemory`, `EffectWithAnswer`, `AccessAnswered`, `DroppableLinesBelow`, `OnlyLastWayUsed` | every memory: plain and direct ones with every mask at every address of a word; the cache with two places, four ways, two tags and two-word lines, above a level that answers at once or on the second call |
| `Instructions` | `ImmediatesFollowFormats`, `ResultsFollowMeaning`, `BranchesFollowMeaning`, `UnrecognizedHasNoEffect` | fourteen opcodes with each single bit above them, none and all, at three addresses of which one has a link that wraps; every arithmetic and branch encoding with all pairs of four-bit operands |
| `Loader` | `SectionsInPlace`, `HeapStartsFree`, `ArgumentsReadBack`, `MarksAreLinked`, `SignatureBytes` | nine files, sections and symbols in several orders, some not loadable, with `begin_signature` aligned and not; a memory of 44 bytes; up to three arguments of up to two characters, fitting or not |
| `Simulator` | `ImplementsSysIsa` | the programs of four instructions around an ecall that keep clear of the divergences of section 5 |
| `Vivado` | `ImplementsIsa` | the register files as the constructor leaves them, x2 not zero in the first only; the programs of four instructions out of ten that read x2 through the first port only, or write it first; an output port that keeps the last two values it was given |
| `AtomicTest`, `DroppedEcall`, `LostWrite`, `LostResult`, `VivadoFirst` | one property each, violated | section 5 |

Why the bounds are enough. A word of `Core` has four values and the pc wraps, so
a program of four instructions is also a loop: every sequence of instructions in
flight (four at most, with one being fetched) of the chosen set occurs, with a
jump or a branch taken at each distance. Three registers give x0, x2 and one
more: two distinct producers, equal or different to each consumer. The
instruction sets contain every opcode that the pipeline treats differently. The
cache needs two tags in a place for an eviction, two places to tell places
apart, and two words in a line for the countdown to have a first, a middle and a
last state; bytes have two values, since `SubWord` is defined for any even size.
Ages are compared modulo 2, the shortest wrap. An immediate is a map from bits
to bits, which single bits settle; comparison and shifts need a sign bit, two
bits below it and one more, hence four-bit registers. A byte of the loader has
eight values so that two of them hold a pointer.

Every property of a passing run has a mutant in `PROJECT.json`: a change of a
modelled definition, such as a dropped condition of the load-use wait, that TLC
finds to violate it.

Deadlock is checked wherever the system never stops. Simulated programs end, a
loader ends, an atomic test has 35 cycles and an instruction passes two stages,
so `Simulator` (with the runs beside it), `Loader`, `AtomicTest` and `Instructions`
do not check it.

Fairness. `Core!FairSpec` asks for `WF(Advance)`: `run()` calls `doCycle()` in a
loop with `globalStall` 0, and the memories answer in the end. `CoreOnMemories`
asks for `WF(Next)` only, `run()` calling for ever: that two memories which wait
for each other answer in the end is what its `KeepsRetiring` shows.
`MemoryClient` asks for `WF(Retry)`, a core that repeats its access; and
`AccessAnswered` concerns the callers that suspend cycles from outside finitely
often. One that did so in exactly the cycle after every store hit could keep the
cache from ever answering, since the commit takes a `NONE` call for its own; no
caller of the repository does, `run()` passing 0.

## 4. Proofs

| Module | Theorem | Says |
|---|---|---|
| `CoreProofs` | `TypeCorrect` | `Spec => []TypeOK` |
| | `UndefIsNeverUsed` | `Spec => []UndefNeverUsed` |
| | `NeverWaitsTwice` | `Spec => WaitsOnce` |
| | `PipelineNeverDrains` | `Spec => NeverDrains` |
| | `OperandsAlwaysCurrent` | `Spec => []OperandsCurrent` |
| | `PathAlwaysFollowed` | `Spec => []PathFollowed` |
| | `StagesAlwaysFaithful` | `Spec => []StagesFaithful` |
| | `Refinement` | `Spec => ImplementsIsa` |
| `VivadoProofs` | `VivadoRefinement` | `VivadoSpec => ImplementsIsa`, for every stack pointer, if the programs read x2 through the first port only (`SpOnFirstPort`) |
| `InstructionProofs` | `ImmediatesAlwaysFollowFormats` | for all 2^32 words |
| | `UnrecognizedNeverHasEffect` | for all words and operands |
| | `ResultsAlwaysFollowMeaning` | `Spec => []ResultsFollowMeaning`, for every width of a register |
| | `BranchesAlwaysFollowMeaning` | `Spec => []BranchesFollowMeaning` |
| `LoaderProofs` | `SectionsAlwaysInPlace` | `Spec => []SectionsInPlace` |
| | `HeapAlwaysFree` | `Spec => []HeapStartsFree` |
| | `ArgumentsAlwaysReadBack` | `Spec => []ArgumentsReadBack` |
| | `MarksAlwaysLinked` | `Spec => []MarksAreLinked` |
| | `SignatureAlwaysHeld` | `Spec => []SignatureBytes`, wherever the signature begins |
| `MemoryProofs` | `SimpleMemoryIsBytes` | `Spec => ImplementsByteMemory` |
| | `IncompleteMemoryIsBytes` | the same, for the memory whose sub-word stores take two calls |
| | `SimpleEffectWithAnswer`, `IncompleteEffectWithAnswer` | `Spec => EffectWithAnswer` |
| `CacheProofs` | `OnlyLastWayEverUsed` | `Spec => []OnlyLastWayUsed` |
| | `LinesNeverLost` | `Spec => []DroppableLinesBelow`, above a next level that keeps `LevelContract` |
| | `SimpleMemoryKeepsContract` | `SimpleMemory` is such a next level |
| `CacheRefinement` | `CacheIsBytes` | `Spec => ImplementsByteMemory`, for every geometry and next level |
| | `CacheEffectWithAnswer` | `Spec => EffectWithAnswer` |
| | `CacheOnSimpleMemory` | `Spec => ImplementsByteMemory` above `SimpleMemory`, nothing assumed of the next level |

The pipeline. `CoreProofs` assumes only `WordAssumption`,
`DataAssumption` and `ProgramAssumption` of `Rv32`: positive word size, at least
three registers, operator parameters that stay in their types. `TypeOK` is not
inductive alone: an instruction whose operand was never assigned would put
`Undef` in a register. It is proved together with
`UndefNeverUsed`, which says, stage by stage, which fields an opcode's
arm has assigned. The result of an M instruction is no `Undef` but any word: that
it does reach a register is in `Isa`, and `Refinement` says that it does no more. The invariant of the refinement adds the three invariants that say what the
pipeline registers mean: `StagesFaithful` (each holds what its stage computes for
the instruction at its pc, and a squashed one keeps no destination),
`OperandsCurrent` (the operands latched by decode are those of the registers
once every older instruction is over) and `PathFollowed` (each instruction in
flight is followed by its successor, architectural or assumed). None of the
three is inductive without the others: an operand is current after a cycle
because the instruction in memory was faithful before it, and the path is
followed because the branch was decided on current operands. Their conjunction
with the type invariants is preserved by `Advance`, with one lemma per conjunct,
by cases on whether decode waits and whether a branch is taken. From it, the
refinement: a cycle in which the memory stage holds a valid instruction is a
step of `Isa` for that instruction, any other cycle a stutter.

The Vivado pipeline. The constructor leaves two register files that differ in x2, and
nothing is assumed of how much. `IVivado` says that they differ nowhere else
(`FilesAgree`) and that no instruction of the program has x2 for its second source
(`SpOnFirstPort`, a condition on the constants; `DecodeSpares` is what it says of the
instruction in decode). So decode reads the same from the copy as from the first
file, every step is a step of `Core`, and the rest is `Refinement`. The condition is
not idle: `VivadoFirst` has a program that breaks it and the refinement with it. That writing
x2 first is enough as well is checked by the run `Vivado` and not proved.

The instructions. The strengthened invariant (`FromInput`) says that the two pipeline
registers are functions of the input, so that what is left is about the operators.
Each immediate is compared with its format bit by bit. The arithmetic is by induction
on the width of a register: a number below `Pow2[Xlen]` is the sum of its bits
(`FromBits` of `BitOf`), the bits of such a sum are the ones it was made of, and a quotient
by `Pow2[k]` drops the k lowest ones. From that `Xor`, `Or`, `And` and the shifts are what
`InstructionSet` says of the bits, and the wrap around of a sum and the sign of a number
follow from the quotient. No instruction outside the M extension announces a
destination and leaves its result unassigned. Assumed: `XlenAssumption`, that there is a bit, and
`InputAssumption`, that the pc and the operands are numbers a register holds.

Induction takes a detour. The theorems of the library have an operator as a parameter,
which no installed prover instantiates; `NumberLemmas` goes through
`WFMin` and the well-foundedness of `<` on the naturals, which have none. `SetInduction` is
induction over an initial segment of the naturals with the property as a set, and
`Recursion` the existence of the functions that `f[n] == ... f[n - 1] ...` defines, without
which nothing is known of a recursive definition.

The loader. `IInv` follows the constructor and has a part per loop. `TablesOK`: the
symbols are the rows of the symbol tables already read, in some order, and once named
each one is called what the string table says. `ImageOK`: every section before
the current one is in memory, the program break is above all of them but
`.text`, and every byte written below the stack is a section's. `ArgsOK`: `place` is where the
strings pushed so far end, each of these can be followed from its pointer, and
`overrun` is set exactly when one of them went past the array. `MarksOK` adds to `MarksAreLinked` that
the marks exist. The properties need all this because what makes each one true was done by a loop that is over,
and what keeps it true is that the loops after it write elsewhere: sections lie below
the stack and apart (`LayoutAssumption`), a string starts above the pointers and above
the strings before it. That a pointer read back is the address that was written is the
digits of a word again (`Digit`, `Value`), which is where `DramSize <= ByteSize^4` serves.

The plain memories. `MemoryProofs` first shows that a word is the number its four
bytes spell, that the slices of the LOAD and STORE switches are its digits, and
that a store leaves the other digits alone, for every even byte size: this is
where the arithmetic is (quotients, remainders, products of weights). On it,
each call of `process()` maps to a step of `ByteMemory` or
to a stutter, for any array, requests and suspended cycles, and changes bytes only
when it answers. For `IncompleteMemory`
the invariant says that while `pendingWrite` is set the request is a sub-word
store and `valueLoaded` is the word it will merge into. Assumed:
`WellFormed` (requests address words of the array), `OfSimple` or `OfIncomplete`
(which memory it is), the latter with `pendingWrite` clear at reset, which the
constructor leaves to chance, and without LONG accesses, which no core makes.

The cache. All of it assumes `Sized` (positive geometry) and `OfCache` (the
client's memory is `CacheMemory` above one of `Levels`). `OnlyLastWayEverUsed`
asks nothing else, not even of the next level. `OnlyLastWayUsed` is not inductive:
between two calls the way to fill is in `setMiss` and `setStore`, so `CInv`
follows them, and it keeps the ages of the three other ways at 0, which is why the
strict comparisons never choose one.

`LinesNeverLost` adds `InRange` (requests inside the memory) and `LevelContract`: a
call of the next level either waits and has no effect, or does what was asked.
Its invariant `MDInv` is `CInv`, with what the call under way has reached: in each
state of the countdown, which words of the victim the next level already holds
and which words of the new line were read (`Served`, `InHand`), and that the last
call is repeated until the next level has answered it. `SimpleMemory` keeps the
contract, which is proved; `IncompleteMemory` has no LONG case and does not, which
is the divergence that `AtomicTest` finds.

`CacheRefinement` maps the cache to `ByteMemory` through `At`, the word a reader sees:
that of the line that hits, or else the next level's. A word is written back under
the line that hides it; a refill changes no line before the commit; a victim is
replaced once the next level holds it. So only the commit is seen, and all it does
is the access the memory stage waits for. `RInv` adds to `MDInv` that a call which
asked for nothing is over (`Settled`), and that the line kept for the commit is what
a reader sees with the pending access done on it (`Due`). Two more assumptions:
`CacheOnly` (the words of the client's memory are those a reader sees) and
`NoneAnswers`, that the next level makes no call with `NONE` wait: above one that did,
a hit would be answered late, with the `dataOut` of another call. `CacheOnSimpleMemory`
discharges all that is assumed of the next level.

Every invariant a run checks is proved. Only model-checked: liveness (`KeepsRetiring`,
`AccessAnswered`, `Settles`), out of the prover's reach; the composition of the pipeline
with its memories (`StepsAreCore`, `OneStaleStore`); the simulator and its calls
(`ImplementsSysIsa`); the direct memories of `vivado/`.

## 5. Divergences found

| Run | What the code does |
|---|---|
| `AtomicTest` | The cache asks its next level for LONG accesses (`cacheMemory.h:387`); `IncompleteMemory`, the type of that level, has no LONG case, so a refill loads nothing and a write back stores 0. A test of one instruction never sees that instruction. |
| `DroppedEcall` | `solveSyscall()` does not test `extoMem.we` (`basic_simulator.cpp:284`): an ecall squashed behind a jump or a taken branch is executed. |
| `LostWrite` | The result of a call overwrites `memtoWB` (`:480`) while it holds the result of the instruction before the ecall. |
| `LostResult` | It does not set `memtoWB.we` (`:482`): behind a squashed instruction or a bubble, `a0` is not written. |
| `VivadoFirst` | The constructor sets `sp` in one of the two register files (`vivado/basic_simulator.cpp:58`). |

Without a run of its own: ages tie at reset and the comparison is strict
(`cacheMemory.h:263`), so that the last way is always the victim and the other
three stay empty for ever; `OnlyLastWayUsed` states it and `CacheProofs` proves it.
`doWrite` sends a write to any file to the `-o` file (`basic_simulator.cpp:522`),
which `Syscalls!DoWrite` models as it is. Arguments that do not fit above the
stack pointer are written past the array (`ArgumentsReadBack` says exactly when).
`printEnd` subtracts the misalignment of `begin_signature` from both ends
(`basic_simulator.cpp:173`, "correct address alignment" at `:166`), so that the last
bytes below `end_signature`, up to three of them, are not shown when the symbol is not
aligned and the last word has no room for them; `SignatureBytes` says exactly how many.
The comment at `:161` promises the signature "stored between begin_signature and
end_signature"; the tests align the symbol.
The `Simulator` run shows that programs whose ecalls are not jumped to, do not
stand in the shadow of a jump and do not follow a write of another register than
`a0` get precise calls.

## 6. Not modelled

- `src/main.cpp`: options parsed by CLI11, and the construction of a simulator.
- The text of the disassembler and of the traces; the counters of the monitor;
  `printCoreReg`.
- `close()` of a file number, the flags of `open`, the fields of `struct stat`, the
  conversion of the timeout from `int`.
- LONG accesses of the cache itself; the statistics of the cache.
- `doCoreMicroHLS`, whose loop never calls `doCycle()`; `doCoreHLS`, which is
  `doCore()` on other memories; `run()` of `vivado/`, whose port is a null pointer.
- Code and data in one array (`basic_simulator.cpp:44`): a program that writes its
  own instructions.
- `CLI11.hpp`, `ac_int.h` and `elf.h`, in `include/` and again in `vivado/`: libraries
  the repository carries along, three quarters of its lines. `ac_int`'s slices and
  wrap-around are modelled where the code uses them. Of the program's own
  7,000 lines, `vivado/` repeats most files of `src/` and `include/`.

## 7. Plan

Done: the pipeline, its proofs and its refinement; the memories and the cache
under their client; the pipeline on its memories; the simulator and its calls;
instructions and the loader, with their proofs; the atomic tests; the Vivado variant.

Left, to prove:

1. `StepsAreCore`: that the pipeline on its memories refines `Core`, for any memory
   that keeps the contract of `MemoryInterface`. The memories' side is the invariants
   of `MemoryProofs` and `CacheRefinement`; what is missing is their composition with
   the cycle, two memories being called in turn.
2. `ImplementsSysIsa`, under the discipline on programs that `MCSimulator` states
   (`Simulator` extends `Core`, so that `Refinement` serves for the cycles; the calls
   between cycles are new).
3. The direct memories of `vivado/`, as the plain ones.
