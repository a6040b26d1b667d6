-------------------------------- MODULE Isa ---------------------------------
(***************************************************************************)
(* What the pipeline promises: one instruction at a time, in program       *)
(* order, each one reading the registers its predecessor left.  No stage,  *)
(* no forwarding, no speculation.  MISC_MEM, SYSTEM and unknown opcodes do *)
(* nothing, as in core.cpp, where the simulator handles the ecalls.        *)
(***************************************************************************)
EXTENDS Rv32

VARIABLES pc, regs, mem, prog

vars == <<pc, regs, mem, prog>>

\* The value instruction i, at address p, writes to rd.  Comet has no M
\* extension: such an instruction writes whatever value it has found.
Result(i, p, r, m, found) ==
    CASE i.opCode = "LUI" -> i.imm
      [] i.opCode = "AUIPC" -> Add(p, i.imm)
      [] i.opCode \in {"JAL", "JALR"} -> Add(p, InstrSize)
      [] i.opCode = "LD" -> Load(i.funct, m, Add(r[i.rs1], i.imm))
      [] i.opCode = "OPI" -> Alu(i.funct, r[i.rs1], i.imm)
      [] IsMulDiv(i.opCode, i.funct) -> found
      [] i.opCode = "OP" /\ i.funct \notin MulDiv ->
            Alu(i.funct, r[i.rs1], r[i.rs2])
      [] OTHER -> 0

\* The opcodes with a destination register.
Writers == {"LUI", "AUIPC", "JAL", "JALR", "LD", "OPI", "OP"}

NextRegs(i, p, r, m, found) ==
    IF i.opCode \in Writers /\ i.rd # 0
    THEN [r EXCEPT ![i.rd] = Result(i, p, r, m, found)]
    ELSE r

NextMem(i, r, m) ==
    IF i.opCode = "ST"
    THEN Store(i.funct, m, Add(r[i.rs1], i.imm), r[i.rs2])
    ELSE m

NextPc(i, p, r) ==
    CASE i.opCode = "JAL" -> Add(p, i.imm)
      [] i.opCode = "JALR" -> Add(r[i.rs1], i.imm)
      [] i.opCode = "BR" /\ Taken(i.funct, r[i.rs1], r[i.rs2]) -> Add(p, i.imm)
      [] OTHER -> Add(p, InstrSize)

\* What the BasicSimulator constructor leaves: the registers are zero except
\* the stack pointer, and the pc is the start address of the program.
Init ==
    /\ prog \in Programs
    /\ mem \in Images
    /\ pc = Entry
    /\ regs = [r \in Reg |-> IF r = 2 THEN StackInit ELSE 0]

\* Execute the instruction at pc.
Step ==
    LET i == prog[pc] IN
    /\ pc' = NextPc(i, pc, regs)
    /\ \E found \in Word : regs' = NextRegs(i, pc, regs, mem, found)
    /\ mem' = NextMem(i, regs, mem)
    /\ UNCHANGED prog

Next == Step

Spec == Init /\ [][Next]_vars
=============================================================================
