------------------------------- MODULE SysIsa -------------------------------
(***************************************************************************)
(* What the simulator promises a program: the sequential machine of Isa,   *)
(* where an ecall is one instruction that reads its arguments, does the    *)
(* call, and leaves the result in a0 and every other register alone.       *)
(***************************************************************************)
EXTENDS Isa, Syscalls

VARIABLES host, exited

sysVars == <<pc, regs, mem, prog, host, exited>>

IsEcall(i) == i.opCode = "SYSTEM" /\ i.imm = 0

SysInit == Init /\ host = HostInit /\ exited = FALSE

Ecall ==
    LET args == [n \in 1 .. 4 |-> regs[ArgRegs[n]]]
        out == Solved(SysName(regs[IdReg]), args, mem, host)
    IN  /\ IsEcall(prog[pc])
        /\ pc' = Add(pc, InstrSize)
        /\ regs' = [regs EXCEPT ![ArgRegs[1]] = out.result]
        /\ mem' = out.mem
        /\ host' = out.host
        /\ exited' = out.exit
        /\ UNCHANGED prog

Other == ~IsEcall(prog[pc]) /\ Step /\ UNCHANGED <<host, exited>>

SysSpec == SysInit /\ [][~exited /\ (Ecall \/ Other)]_sysVars
=============================================================================
