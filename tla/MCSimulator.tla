---------------------------- MODULE MCSimulator -----------------------------
(***************************************************************************)
(* Programs of four instructions around an ecall.  Words are 0 .. 3, so    *)
(* are the system call numbers; the seven registers are x0, a0, sp, a7, a1,*)
(* a2 and a3.                                                              *)
(***************************************************************************)
EXTENDS Simulator

MCFuncts == {"ADD", "EQ"}
MCMemory == [Word -> Word]
MCAlu(f, a, b) == (a + b) % WordSize
MCTaken(f, a, b) == a = b
MCLoad(f, m, a) == m[a]
MCStore(f, m, a, v) == [m EXCEPT ![a] = v]
MCImages == {[a \in Word |-> a]}

MCArgRegs == <<1, 4, 5, 6>>
MCSysName(n) ==
    CASE n = 0 -> "brk" [] n = 1 -> "write" [] n = 2 -> "read" [] OTHER -> "exit"
MCHostBytes(name, args) == [n \in 1 .. args[2] |-> 3]
MCHostResult(name, args) == args[2]

I(op, f, rd, rs1, rs2, imm) ==
    [opCode |-> op, funct |-> f, rd |-> rd, rs1 |-> rs1, rs2 |-> rs2, imm |-> imm]

ECALL == I("SYSTEM", "ADD", 0, 0, 0, 0)
NOP == I("OPI", "ADD", 0, 0, 0, 0)

\* Instructions that set up, use and surround a call.
Straight ==
    {ECALL, NOP, I("OPI", "ADD", 3, 3, 0, 1), I("OPI", "ADD", 1, 1, 0, 1),
     I("LD", "ADD", 1, 1, 0, 0), I("OP", "ADD", 4, 1, 4, 0),
     I("OPI", "ADD", 5, 0, 0, 1), I("ST", "ADD", 0, 1, 5, 0),
     I("LD", "ADD", 3, 5, 0, 2)}

Jumps ==
    {I("BR", "EQ", 0, 1, 0, 2), I("BR", "EQ", 0, 4, 3, 3), I("JAL", "ADD", 0, 0, 0, 2)}

AllPrograms == [Word -> Straight \cup Jumps]

\* The programs solveSyscall() serves: an ecall is not where the program
\* starts or a jump lands, no jump is one or two instructions before it, and
\* the instruction before it writes no register but a0.
Disciplined(p) ==
    \A a \in Word : p[a] = ECALL =>
        /\ a # Entry
        /\ p[(a - 1) % WordSize] \in Straight \ {ECALL}
        /\ p[(a - 2) % WordSize] \in Straight
        /\ WritesRd(p[(a - 1) % WordSize].opCode) =>
              p[(a - 1) % WordSize].rd \in {0, 1}
        /\ \A b \in Word : p[b] \in Jumps => (b + p[b].imm) % WordSize # a

DisciplinedPrograms == {p \in AllPrograms : Disciplined(p) /\ \E a \in Word : p[a] = ECALL}
=============================================================================
