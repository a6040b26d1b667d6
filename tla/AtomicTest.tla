----------------------------- MODULE AtomicTest -----------------------------
(***************************************************************************)
(* atomicTest.cpp: each test of its file puts one instruction in a cleared *)
(* core on two caches, with given registers and one given word of data,    *)
(* runs doCycle() a fixed number of times and compares the registers and   *)
(* one word of the data array with those expected.                         *)
(***************************************************************************)
EXTENDS CoreOnMemories

CONSTANTS
    Tests,              \* records of instruction, regs, address and value
    NumberOfCycles,     \* 35
    NewCache(_),        \* the cache above IncompleteMemory over an array
    Uninitialised,      \* what the other words of the arrays hold
    Array(_)            \* the array below a cache

VARIABLES test, cyclesLeft

testVars == <<vars, test, cyclesLeft>>

\* im and dm with the words the test gives.
ImArray(t) == [w \in WordAddr |-> IF w = 0 THEN t.instruction ELSE Uninitialised]
DmArray(t) ==
    [w \in WordAddr |-> IF w = WordOf(t.address) THEN t.value ELSE Uninitialised]

TestInit ==
    /\ test \in Tests
    /\ cyclesLeft = NumberOfCycles
    /\ im = NewCache(ImArray(test))
    /\ dm = NewCache(DmArray(test))
    /\ pc = 0
    /\ regFile = test.regs
    /\ ftoDC = [instr |-> Nop, pc |-> 0, we |-> FALSE]
    /\ CORE!ClearedRegisters
    /\ leftover \in CORE!Found(dctoEx)

\* One turn of the loop; the comparison comes after the last one.
Cycle ==
    /\ cyclesLeft > 0
    /\ cyclesLeft' = cyclesLeft - 1
    /\ DoCycle(FALSE)
    /\ UNCHANGED test

TestSpec == TestInit /\ [][Cycle]_testVars

-----------------------------------------------------------------------------
(* Property.                                                               *)

\* The test of an instruction passes: the core leaves the registers and the
\* word of memory that executing the instruction once leaves.
TestPasses ==
    cyclesLeft = 0 =>
        LET i == Decode(test.instruction)
            memory == CORE!ISA!NextMem(i, test.regs, DmArray(test))
        IN  /\ \E found \in MemWord :
                  regFile = CORE!ISA!NextRegs(i, 0, test.regs, DmArray(test), found)
            /\ Array(dm)[WordOf(test.address)] = memory[WordOf(test.address)]
=============================================================================
