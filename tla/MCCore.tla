------------------------------- MODULE MCCore -------------------------------
(***************************************************************************)
(* Small instances of Core: two-bit words, three registers, and            *)
(* every program of four instructions over a small set of instructions.    *)
(* The pc wraps at WordSize, so each program is also a loop.               *)
(***************************************************************************)
EXTENDS Core

MCFuncts == {"ADD", "SUB", "EQ", "MUL"}
MCMemory == [Word -> Word]
MCAlu(f, a, b) == IF f = "SUB" THEN (a - b) % WordSize ELSE (a + b) % WordSize
MCTaken(f, a, b) == f = "EQ" /\ a = b
MCLoad(f, m, a) == m[a]
MCStore(f, m, a, v) == [m EXCEPT ![a] = v]

I(op, f, rd, rs1, rs2, imm) ==
    [opCode |-> op, funct |-> f, rd |-> rd, rs1 |-> rs1, rs2 |-> rs2, imm |-> imm]

\* Every producer and consumer of a register, next to one another.
DataInstrs ==
    {I("OP", "ADD", 1, 1, 2, 0), I("OP", "SUB", 2, 2, 1, 0),
     I("OPI", "ADD", 1, 0, 0, 1), I("OPI", "ADD", 0, 1, 0, 1),
     I("LD", "ADD", 1, 1, 0, 1), I("LD", "ADD", 2, 1, 2, 0),
     I("LD", "ADD", 0, 2, 0, 0),
     I("ST", "ADD", 1, 2, 1, 0), I("ST", "ADD", 2, 1, 2, 3)}

\* Every change of the pc, with the registers and the memory it must spare.
ControlInstrs ==
    {I("BR", "EQ", 1, 1, 0, 2),
     I("JAL", "ADD", 1, 0, 0, 2), I("JAL", "ADD", 0, 1, 2, 3),
     I("JALR", "ADD", 2, 1, 0, 1), I("JALR", "ADD", 1, 1, 0, 2),
     I("LUI", "ADD", 1, 0, 0, 2), I("LD", "ADD", 1, 2, 0, 1),
     I("ST", "ADD", 0, 2, 1, 0), I("AUIPC", "ADD", 2, 0, 0, 1),
     I("SYSTEM", "ADD", 1, 1, 0, 0)}

\* An M instruction, which execute() has no result for, before and behind its
\* readers, a load, a store and a branch.
Mul == I("OP", "MUL", 1, 1, 0, 0)
MulPrograms ==
    {[w \in Word |-> IF w = 0 THEN Mul ELSE p[w]] :
        p \in [1 .. 3 -> {I("OPI", "ADD", 2, 1, 0, 1), I("LD", "ADD", 1, 1, 0, 1),
                          I("ST", "ADD", 0, 0, 1, 0), I("BR", "EQ", 0, 1, 2, 2)}]}

CorePrograms ==
    [Word -> DataInstrs] \cup [Word -> ControlInstrs] \cup MulPrograms

MCImages == {[a \in Word |-> a]}
=============================================================================
