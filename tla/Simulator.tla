----------------------------- MODULE Simulator ------------------------------
(***************************************************************************)
(* simulator.h's run() around the pipeline, on SimpleMemory, which never   *)
(* waits: one doCycle(), then solveSyscall() on the registers it left,     *)
(* then the end of the loop.  The cycle counter and its timeout are a      *)
(* choice to stop at any cycle.                                            *)
(***************************************************************************)
EXTENDS Core, Syscalls

VARIABLES
    at,          \* the statement of run() that comes next
    exitFlag,
    host         \* the simulator's state, see Syscalls

simVars == <<vars, at, exitFlag, host>>

SimInit == Init /\ at = "doCycle" /\ exitFlag = FALSE /\ host = HostInit

Cycle ==
    /\ at = "doCycle"
    /\ Advance
    /\ at' = "solveSyscall"
    /\ UNCHANGED <<exitFlag, host>>

\* The instruction in extoMem is an ecall: its opcode and bits 31..20 say so,
\* and no stall is possible here.
EcallInMemory == extoMem.opCode = "SYSTEM" /\ imem[extoMem.pc].imm = 0

\* Mutant: the registers without the forwarding.
SysRegStale(r) == regFile[r]

\* An argument: the register file, or the result on its way to it.
SysReg(r) ==
    IF memtoWB.useRd /\ memtoWB.we /\ memtoWB.rd = r
    THEN memtoWB.result ELSE regFile[r]

SysOut ==
    LET args == [n \in 1 .. 4 |-> SysReg(ArgRegs[n])] IN
    Solved(SysName(SysReg(IdReg)), args, dmem, host)

\* The result takes the place of what is in memtoWB, and of the operands the
\* next instruction has read already.
SolveSyscall ==
    LET a0 == ArgRegs[1] IN
    /\ at = "solveSyscall"
    /\ at' = "endOfLoop"
    /\ IF EcallInMemory
       THEN /\ memtoWB' = [memtoWB EXCEPT !.result = SysOut.result, !.rd = a0,
                                          !.useRd = TRUE]
            /\ dctoEx' = [dctoEx EXCEPT
                 !.lhs = IF dctoEx.useRs1 /\ dctoEx.rs1 = a0 THEN SysOut.result ELSE @,
                 !.rhs = IF dctoEx.useRs2 /\ dctoEx.rs2 = a0 THEN SysOut.result ELSE @,
                 !.datac = IF dctoEx.useRs3 /\ dctoEx.rs2 = a0 THEN SysOut.result ELSE @]
            /\ dmem' = SysOut.mem
            /\ host' = SysOut.host
            /\ exitFlag' = (exitFlag \/ SysOut.exit)
       ELSE UNCHANGED <<memtoWB, dctoEx, dmem, host, exitFlag>>
    /\ UNCHANGED <<pc, ftoDC, extoMem, leftover, regFile, imem>>

Loop ==
    /\ at = "endOfLoop" /\ ~exitFlag
    /\ at' = "doCycle"
    /\ UNCHANGED <<vars, exitFlag, host>>

\* while (!exitFlag), and the break at the timeout.
Stop ==
    /\ at = "endOfLoop"
    /\ at' = "printEnd"
    /\ UNCHANGED <<vars, exitFlag, host>>

SimNext == Cycle \/ SolveSyscall \/ Loop \/ Stop

SimSpec == SimInit /\ [][SimNext]_simVars

-----------------------------------------------------------------------------
(* Properties.                                                             *)

\* The oldest instruction that is not over: an ecall in the memory stage is,
\* once solveSyscall() has run.
SimPc ==
    IF extoMem.we /\ EcallInMemory /\ at # "solveSyscall" THEN DecodedPc ELSE ArchPc

SYS == INSTANCE SysIsa WITH
    pc <- SimPc, regs <- ArchRegs, mem <- dmem, prog <- imem, exited <- exitFlag

\* The program sees the sequential machine with precise system calls.
ImplementsSysIsa == SYS!SysSpec

\* No system call is made for an instruction that was dropped.
DroppedEcallIgnored ==
    [][at = "solveSyscall" /\ ~extoMem.we => UNCHANGED <<dmem, host, exitFlag>>]_simVars

\* A system call writes a0 only: the register its predecessor is about to
\* write is still written.
PredecessorWriteKept ==
    [][at = "solveSyscall" /\ memtoWB.useRd /\ memtoWB.rd # ArgRegs[1] =>
         memtoWB'.useRd /\ memtoWB'.rd = memtoWB.rd
                        /\ memtoWB'.result = memtoWB.result]_simVars

\* The result of a system call is on its way to a0.
ResultWritten ==
    [][at = "solveSyscall" /\ extoMem.we /\ EcallInMemory =>
         ArchRegs'[ArgRegs[1]] = SysOut.result]_simVars
=============================================================================
