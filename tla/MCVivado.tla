------------------------------ MODULE MCVivado ------------------------------
(***************************************************************************)
(* VivadoCore on programs of four instructions that read each register     *)
(* through both ports, behind loads, forwarded results and branches.  The  *)
(* data memory is DirectMemory's: word stores to one address, PortAddr,    *)
(* leave through *out1, of which the last two values are kept, so that a   *)
(* store done twice shows.                                                 *)
(***************************************************************************)
EXTENDS VivadoCore

MCFuncts == {"ADD", "SUB", "EQ"}
PortAddr == 3
MCMemory == [data : [Word -> Word], out : Word \X Word]
MCAlu(f, a, b) == IF f = "SUB" THEN (a - b) % WordSize ELSE (a + b) % WordSize
MCTaken(f, a, b) == a = b
MCLoad(f, m, a) == m.data[a]

\* "SUB" stands for the narrower stores, which never take the port.
MCStore(f, m, a, v) ==
    IF a = PortAddr /\ f # "SUB"
    THEN [m EXCEPT !.out = <<@[2], v>>]
    ELSE [m EXCEPT !.data[a] = v]

MCImages == {[data |-> [a \in Word |-> a], out |-> <<0, 0>>]}

I(op, f, rd, rs1, rs2, imm) ==
    [opCode |-> op, funct |-> f, rd |-> rd, rs1 |-> rs1, rs2 |-> rs2, imm |-> imm]

Instrs ==
    {I("OP", "ADD", 1, 1, 2, 0), I("OP", "SUB", 2, 2, 1, 0),
     I("OPI", "ADD", 1, 2, 0, 1), I("OPI", "ADD", 0, 1, 0, 1),
     I("LD", "ADD", 2, 1, 0, 1), I("LD", "ADD", 1, 2, 0, 0),
     I("ST", "ADD", 0, 1, 2, 0), I("ST", "ADD", 0, 2, 1, 3),
     I("ST", "SUB", 0, 0, 1, 3),
     I("BR", "EQ", 0, 1, 2, 2)}

AllPrograms == [Word -> Instrs]

\* i reads x2, the register the constructor sets, from the copy it does not.
ReadsCopyOfSp(i) == (UsesRs2(i.opCode) \/ UsesRs3(i.opCode)) /\ i.rs2 = 2

\* The programs the constructor serves: they read x2 through the first port
\* only, or their first instruction writes it.
SpWritten(p) ==
    \/ \A w \in Word : ~ReadsCopyOfSp(p[w])
    \/ WritesRd(p[0].opCode) /\ p[0].rd = 2 /\ ~ReadsCopyOfSp(p[0])

MCPrograms == {p \in AllPrograms : SpWritten(p)}
=============================================================================
