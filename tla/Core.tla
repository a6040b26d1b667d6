-------------------------------- MODULE Core --------------------------------
(***************************************************************************)
(* The five-stage pipeline of core.cpp.  One action, DoCycle, is one call  *)
(* of doCycle(): every stage reads the registers the last cycle left, then *)
(* the results are committed, gated by the stalls.                         *)
(*                                                                         *)
(* The two memories are seen through MemoryInterface: a call either sets   *)
(* waitOut and has no effect, or clears it and does the operation.  Their  *)
(* answers, and the caller's globalStall, are the parameters of the cycle. *)
(* Instruction and data memories are distinct, so no store rewrites code.  *)
(***************************************************************************)
EXTENDS Rv32

VARIABLES
    pc,        \* core.pc
    ftoDC,     \* fetch to decode
    dctoEx,    \* decode to execute
    extoMem,   \* execute to memory
    memtoWB,   \* memory to write back
    leftover,  \* what lies where execute()'s extoMem_temp.result will
    regFile,   \* core.regFile
    dmem,      \* contents behind core.dm
    imem       \* contents behind core.im, never written

vars == <<pc, ftoDC, dctoEx, extoMem, memtoWB, leftover, regFile, dmem, imem>>

WordOrUndef == Word \cup {Undef}

\* The structs of pipelineRegisters.h; a field no statement assigned is Undef.
FtoDC == [instr : Instr, pc : Word, we : BOOLEAN]

DCtoEx ==
    [pc : Word, opCode : OpCodes, funct : Functs, rd : Reg, rs1 : Reg,
     rs2 : Reg, lhs : WordOrUndef, rhs : WordOrUndef, datac : WordOrUndef,
     nextPCDC : WordOrUndef, isBranch : BOOLEAN, useRs1 : BOOLEAN,
     useRs2 : BOOLEAN, useRs3 : BOOLEAN, useRd : BOOLEAN, we : BOOLEAN]

ExtoMem ==
    [pc : Word, opCode : OpCodes, funct : Functs, rd : Reg,
     result : WordOrUndef, datac : WordOrUndef, nextPC : WordOrUndef,
     isBranch : BOOLEAN, isLongInstruction : BOOLEAN, useRd : BOOLEAN,
     we : BOOLEAN]

MemtoWB ==
    [result : WordOrUndef, rd : Reg, useRd : BOOLEAN, address : WordOrUndef,
     valueToWrite : WordOrUndef, isLoad : BOOLEAN, isStore : BOOLEAN,
     we : BOOLEAN]

\* The operands and the destination each arm of decode()'s switch declares.
\* ST carries rs2 as a third operand, because its second is the offset.
UsesRs1(op) == op \in {"JALR", "BR", "LD", "ST", "OPI", "OP"}
UsesRs2(op) == op \in {"BR", "OP"}
UsesRs3(op) == op = "ST"

\* Mutant: decode() leaves useRd set for the opcodes its switch ignores.
WritesRdUnlessStore(op) == op \notin {"BR", "ST"}

WritesRd(op) == op \in {"LUI", "AUIPC", "JAL", "JALR", "LD", "OPI", "OP"}

-----------------------------------------------------------------------------
(* The stages: functions of the pipeline registers.                        *)

\* The uninitialised word execute() may find for the instruction d: any, for
\* an M instruction, whose result it becomes; no one reads it for another.
Found(d) == IF IsMulDiv(d.opCode, d.funct) THEN Word ELSE {0}

FetchOut == [instr |-> imem[pc], pc |-> pc, we |-> TRUE]

\* decode(), with the registers as regFile holds them: forwarding comes last.
DecodeOut ==
    LET i == ftoDC.instr
        op == i.opCode
        v1 == regFile[i.rs1]
        v2 == regFile[i.rs2]
    IN  [pc |-> ftoDC.pc, opCode |-> op, funct |-> i.funct,
         rd |-> IF op = "ST" THEN 0 ELSE i.rd,
         rs1 |-> i.rs1, rs2 |-> i.rs2,
         lhs |-> CASE op = "LUI" -> i.imm
                   [] op = "AUIPC" -> ftoDC.pc
                   [] op = "JAL" -> Add(ftoDC.pc, InstrSize)
                   [] UsesRs1(op) -> v1
                   [] OTHER -> Undef,
         rhs |-> CASE op \in {"AUIPC", "JALR", "LD", "ST", "OPI"} -> i.imm
                   [] op = "JAL" -> 0
                   [] UsesRs2(op) -> v2
                   [] OTHER -> Undef,
         datac |-> CASE op = "BR" -> i.imm
                     [] op = "ST" -> v2
                     [] OTHER -> Undef,
         nextPCDC |-> IF op = "JAL" THEN Add(ftoDC.pc, i.imm) ELSE Undef,
         isBranch |-> ftoDC.we /\ op = "JAL",
         useRs1 |-> ftoDC.we /\ UsesRs1(op),
         useRs2 |-> ftoDC.we /\ UsesRs2(op),
         useRs3 |-> ftoDC.we /\ UsesRs3(op),
         useRd |-> ftoDC.we /\ WritesRd(op) /\ i.rd # 0,
         we |-> ftoDC.we]

ExecuteOut ==
    LET d == dctoEx
        op == d.opCode
    IN  [pc |-> d.pc, opCode |-> op, funct |-> d.funct, rd |-> d.rd,
         result |-> CASE op \in {"LUI", "JAL"} -> d.lhs
                      [] op \in {"AUIPC", "LD", "ST"} -> Add(d.lhs, d.rhs)
                      [] op = "JALR" -> Add(d.pc, InstrSize)
                      [] IsMulDiv(op, d.funct) -> leftover
                      [] op = "OPI" \/ (op = "OP" /\ d.funct \notin MulDiv) ->
                            Alu(d.funct, d.lhs, d.rhs)
                      [] OTHER -> Undef,
         datac |-> IF op = "ST" THEN d.datac ELSE Undef,
         nextPC |-> CASE op = "JALR" -> Add(d.rhs, d.lhs)
                      [] op = "BR" -> Add(d.pc, d.datac)
                      [] OTHER -> Undef,
         isBranch |-> /\ d.we
                      /\ \/ op = "JALR"
                         \/ op = "BR" /\ Taken(d.funct, d.lhs, d.rhs),
         isLongInstruction |-> op = "LD",
         useRd |-> d.we /\ d.useRd,
         we |-> d.we]

\* memory(), and the answer of core.dm to the load it asks for.
MemoryOut ==
    LET x == extoMem
        isLoad == x.opCode = "LD"
        isStore == x.opCode = "ST"
    IN  [result |-> IF x.we /\ isLoad
                    THEN Load(x.funct, dmem, x.result)
                    ELSE x.result,
         rd |-> x.rd, useRd |-> x.useRd,
         address |-> IF isLoad \/ isStore THEN x.result ELSE Undef,
         valueToWrite |-> IF isStore THEN x.datac ELSE Undef,
         isLoad |-> isLoad, isStore |-> isStore, we |-> x.we]

\* The store the same call of core.dm does.
DmemOut ==
    IF MemoryOut.we /\ MemoryOut.isStore
    THEN Store(extoMem.funct, dmem, MemoryOut.address, MemoryOut.valueToWrite)
    ELSE dmem

WritebackOut ==
    [value |-> memtoWB.result, rd |-> memtoWB.rd, we |-> memtoWB.we,
     useRd |-> memtoWB.rd # 0 /\ memtoWB.we /\ memtoWB.useRd]

-----------------------------------------------------------------------------
(* forwardUnit(): where an operand of the decoded instruction comes from.  *)

\* Mutant: the wait forgets that the load may be a bubble.
WaitsForAnyLoad(use, rs) ==
    use /\ rs = ExecuteOut.rd /\ ExecuteOut.isLongInstruction

\* The operand is the result a load in execute has not fetched yet.
WaitsForLoad(use, rs) ==
    /\ use /\ ExecuteOut.useRd /\ rs = ExecuteOut.rd
    /\ ExecuteOut.isLongInstruction

\* Mutant: the data of a store does not wait.
StallDecodeTwoOperands ==
    \/ WaitsForLoad(DecodeOut.useRs1, DecodeOut.rs1)
    \/ WaitsForLoad(DecodeOut.useRs2, DecodeOut.rs2)

\* stallSignals[STALL_FETCH] and stallSignals[STALL_DECODE], always equal.
StallDecode ==
    \/ WaitsForLoad(DecodeOut.useRs1, DecodeOut.rs1)
    \/ WaitsForLoad(DecodeOut.useRs2, DecodeOut.rs2)
    \/ WaitsForLoad(DecodeOut.useRs3, DecodeOut.rs2)

\* Mutant: the memory stage goes before the execute stage.
ForwardOldest(use, rs, decoded) ==
    IF use /\ MemoryOut.useRd /\ rs = MemoryOut.rd
    THEN MemoryOut.result
    ELSE IF use /\ ExecuteOut.useRd /\ rs = ExecuteOut.rd
    THEN ExecuteOut.result
    ELSE IF use /\ WritebackOut.useRd /\ rs = WritebackOut.rd
    THEN WritebackOut.value
    ELSE decoded

\* The youngest producer wins; its value is taken if it was not squashed.
Forward(use, rs, decoded) ==
    IF use /\ ExecuteOut.useRd /\ rs = ExecuteOut.rd
    THEN IF ExecuteOut.we THEN ExecuteOut.result ELSE decoded
    ELSE IF use /\ MemoryOut.useRd /\ rs = MemoryOut.rd
    THEN IF MemoryOut.we THEN MemoryOut.result ELSE decoded
    ELSE IF use /\ WritebackOut.useRd /\ rs = WritebackOut.rd
    THEN WritebackOut.value
    ELSE decoded

ForwardedOut ==
    LET d == DecodeOut IN
    [d EXCEPT !.lhs = Forward(d.useRs1, d.rs1, @),
              !.rhs = Forward(d.useRs2, d.rs2, @),
              !.datac = Forward(d.useRs3, d.rs2, @)]

\* Mutant: the waiting stage leaves its instruction valid.
BubbleStillValid ==
    [dctoEx EXCEPT !.useRd = FALSE, !.isBranch = FALSE, !.pc = 0]

\* What the decode stage leaves behind when it waits: the old register,
\* opcode and operands included, with its control bits cleared.
Bubble ==
    [dctoEx EXCEPT !.we = FALSE, !.useRd = FALSE, !.isBranch = FALSE, !.pc = 0]

\* Mutant: one target port for the two redirections.
NextPcOnePort ==
    IF ExecuteOut.isBranch \/ DecodeOut.isBranch
    THEN ExecuteOut.nextPC
    ELSE Add(pc, InstrSize)

\* Mutant: the jump in decode goes before the older branch in execute.
NextPcYoungest ==
    CASE DecodeOut.isBranch -> DecodeOut.nextPCDC
      [] ExecuteOut.isBranch /\ ~DecodeOut.isBranch -> ExecuteOut.nextPC
      [] OTHER -> Add(pc, InstrSize)

\* branchUnit(): the pc, and whom the redirection squashes.
NextPcOut ==
    CASE ExecuteOut.isBranch -> ExecuteOut.nextPC
      [] DecodeOut.isBranch /\ ~ExecuteOut.isBranch -> DecodeOut.nextPCDC
      [] OTHER -> Add(pc, InstrSize)

FetchSurvives == ~ExecuteOut.isBranch /\ ~DecodeOut.isBranch

\* Mutant: a branch in execute squashes the fetched instruction only.
DecodeAlwaysSurvives == TRUE

\* Mutant: a jump squashes itself.
DecodeSurvivesNoRedirection == FetchSurvives

DecodeSurvives == ~ExecuteOut.isBranch

-----------------------------------------------------------------------------
(* The BasicSimulator constructor: memset(&core, 0), the start address and *)
(* the stack pointer.  The zero word is no instruction.                    *)

NullInstr ==
    [opCode |-> "UNKNOWN", funct |-> ZeroFunct, rd |-> 0, rs1 |-> 0, rs2 |-> 0,
     imm |-> 0]

\* No instruction behind the decode stage.
ClearedRegisters ==
    /\ dctoEx = [pc |-> 0, opCode |-> "UNKNOWN", funct |-> ZeroFunct, rd |-> 0,
                 rs1 |-> 0, rs2 |-> 0, lhs |-> 0, rhs |-> 0, datac |-> 0,
                 nextPCDC |-> 0, isBranch |-> FALSE, useRs1 |-> FALSE,
                 useRs2 |-> FALSE, useRs3 |-> FALSE, useRd |-> FALSE,
                 we |-> FALSE]
    /\ extoMem = [pc |-> 0, opCode |-> "UNKNOWN", funct |-> ZeroFunct, rd |-> 0,
                  result |-> 0, datac |-> 0, nextPC |-> 0, isBranch |-> FALSE,
                  isLongInstruction |-> FALSE, useRd |-> FALSE, we |-> FALSE]
    /\ memtoWB = [result |-> 0, rd |-> 0, useRd |-> FALSE, address |-> 0,
                  valueToWrite |-> 0, isLoad |-> FALSE, isStore |-> FALSE,
                  we |-> FALSE]

Init ==
    /\ imem \in Programs
    /\ dmem \in Images
    /\ pc = Entry
    /\ regFile = [r \in Reg |-> IF r = 2 THEN StackInit ELSE 0]
    /\ ftoDC = [instr |-> NullInstr, pc |-> 0, we |-> FALSE]
    /\ ClearedRegisters
    /\ leftover \in Found(dctoEx)

\* The commits of a cycle nobody stalls from outside.
Commit ==
    /\ IF StallDecode
       THEN /\ UNCHANGED <<pc, ftoDC>>
            /\ dctoEx' = Bubble
       ELSE /\ pc' = NextPcOut
            /\ ftoDC' = [FetchOut EXCEPT !.we = FetchSurvives]
            /\ dctoEx' = [ForwardedOut EXCEPT !.we = @ /\ DecodeSurvives]
    /\ extoMem' = ExecuteOut
    /\ memtoWB' = MemoryOut
    /\ leftover' \in Found(dctoEx')
    /\ regFile' = IF WritebackOut.we /\ WritebackOut.useRd
                  THEN [regFile EXCEPT ![WritebackOut.rd] = WritebackOut.value]
                  ELSE regFile

\* A cycle in which both memories answer: the commits, and the store.
Advance == Commit /\ dmem' = DmemOut /\ UNCHANGED imem

\* One call of doCycle(): any of the three stalls suspends every commit.
DoCycle(globalStall, stallIm, stallDm) ==
    IF globalStall \/ stallIm \/ stallDm THEN UNCHANGED vars ELSE Advance

Next == \E globalStall, stallIm, stallDm \in BOOLEAN :
            DoCycle(globalStall, stallIm, stallDm)

Spec == Init /\ [][Next]_vars

\* The caller keeps cycling and the memories answer in the end.
FairSpec == Spec /\ WF_vars(Advance)

-----------------------------------------------------------------------------
(* Properties.                                                             *)

\* Every register of the pipeline holds a value of its width, or nothing.
TypeOK ==
    /\ pc \in Word
    /\ ftoDC \in FtoDC
    /\ dctoEx \in DCtoEx
    /\ extoMem \in ExtoMem
    /\ memtoWB \in MemtoWB
    /\ leftover \in Word
    /\ regFile \in [Reg -> Word]
    /\ dmem \in Memory
    /\ imem \in [Word -> Instr]

\* The fields a stage is about to use were assigned: decode(), execute() and
\* memory() leave some fields of their temporaries uninitialised, and none of
\* those that are Undef here reaches a register, the pc, an address or the
\* memory.  One such field is used, and is no Undef: the result of an M
\* instruction, which execute() takes from leftover and ImplementsIsa follows
\* into that instruction's rd.
UndefNeverUsed ==
    /\ dctoEx.opCode \notin {"MISC_MEM", "SYSTEM", "UNKNOWN"} => dctoEx.lhs \in Word
    /\ dctoEx.opCode \in {"AUIPC", "JALR", "BR", "LD", "ST", "OPI", "OP"} =>
          dctoEx.rhs \in Word
    /\ dctoEx.opCode \in {"BR", "ST"} => dctoEx.datac \in Word
    /\ dctoEx.useRd => WritesRd(dctoEx.opCode)
    /\ extoMem.opCode \in {"LD", "ST"} \/ extoMem.useRd => extoMem.result \in Word
    /\ extoMem.opCode = "ST" => extoMem.datac \in Word
    /\ memtoWB.useRd => memtoWB.result \in Word

\* The registers once the instruction in write back has written its result.
ArchRegs ==
    IF WritebackOut.useRd
    THEN [regFile EXCEPT ![WritebackOut.rd] = WritebackOut.value]
    ELSE regFile

\* Where the fetch, decode and execute stages continue from, oldest last:
\* ArchPc is the oldest instruction that has not left the memory stage.
FetchedPc == IF ftoDC.we THEN ftoDC.pc ELSE pc
DecodedPc == IF dctoEx.we THEN dctoEx.pc ELSE FetchedPc
ArchPc == IF extoMem.we THEN extoMem.pc ELSE DecodedPc

ISA == INSTANCE Isa WITH pc <- ArchPc, regs <- ArchRegs, mem <- dmem, prog <- imem

\* The pipeline executes its program one instruction after the other: what
\* forwarding, load-use stalls, squashed fetches and branches in two stages
\* add up to.  An M instruction writes some word to its rd, and that word is
\* what every later reader sees.
ImplementsIsa == ISA!Spec

\* The registers once the instruction in the memory stage is over too.
RegsAfterMemory ==
    IF extoMem.we
    THEN ISA!NextRegs(imem[extoMem.pc], extoMem.pc, ArchRegs, dmem,
                      extoMem.result)
    ELSE ArchRegs

\* An operand latched by the decode stage is the one the instruction would
\* read if its predecessors were all complete, loads included.
OperandsCurrent ==
    dctoEx.we =>
        LET i == imem[dctoEx.pc] IN
        /\ UsesRs1(i.opCode) => dctoEx.lhs = RegsAfterMemory[i.rs1]
        /\ UsesRs2(i.opCode) => dctoEx.rhs = RegsAfterMemory[i.rs2]
        /\ UsesRs3(i.opCode) => dctoEx.datac = RegsAfterMemory[i.rs2]

\* What each stage owes the instruction at its pc, in StagesFaithful below.
FetchFaithful == ftoDC.we => ftoDC.instr = imem[ftoDC.pc]

DecodeFaithful ==
    dctoEx.we =>
        LET i == imem[dctoEx.pc] IN
        /\ dctoEx.opCode = i.opCode /\ dctoEx.funct = i.funct
        /\ dctoEx.useRd = (WritesRd(i.opCode) /\ i.rd # 0)
        /\ dctoEx.useRd => dctoEx.rd = i.rd
        /\ i.opCode = "LUI" => dctoEx.lhs = i.imm
        /\ i.opCode = "AUIPC" => dctoEx.lhs = dctoEx.pc
        /\ i.opCode = "JAL" => dctoEx.lhs = Add(dctoEx.pc, InstrSize)
        /\ i.opCode \in {"AUIPC", "JALR", "LD", "ST", "OPI"} => dctoEx.rhs = i.imm
        /\ i.opCode = "BR" => dctoEx.datac = i.imm

ExecuteFaithful ==
    extoMem.we =>
        LET i == imem[extoMem.pc] IN
        /\ extoMem.opCode = i.opCode /\ extoMem.funct = i.funct
        /\ extoMem.useRd = (WritesRd(i.opCode) /\ i.rd # 0)
        /\ extoMem.useRd => extoMem.rd = i.rd
        /\ extoMem.useRd /\ i.opCode # "LD" =>
              extoMem.result =
                  ISA!Result(i, extoMem.pc, ArchRegs, dmem, extoMem.result)
        /\ i.opCode \in {"LD", "ST"} =>
              extoMem.result = Add(ArchRegs[i.rs1], i.imm)
        /\ i.opCode = "ST" => extoMem.datac = ArchRegs[i.rs2]

SquashedWritesNothing ==
    /\ dctoEx.useRd => dctoEx.rd # 0
    /\ extoMem.useRd => extoMem.we /\ extoMem.rd # 0
    /\ memtoWB.useRd => memtoWB.we /\ memtoWB.rd # 0

\* Each pipeline register holds what its stage computes for the instruction
\* at its pc, whatever stalls and bubbles it went through, and a squashed
\* instruction keeps no destination.
StagesFaithful ==
    /\ FetchFaithful
    /\ DecodeFaithful
    /\ ExecuteFaithful
    /\ SquashedWritesNothing

\* What the front end takes for the successor of the instruction in execute:
\* the target of a JAL, which decode resolves, or the next address.
AssumedPc ==
    LET i == imem[dctoEx.pc] IN
    IF i.opCode = "JAL" THEN Add(dctoEx.pc, i.imm) ELSE Add(dctoEx.pc, InstrSize)

\* Each instruction in flight is followed by its successor: the
\* architectural one once its branch is resolved, before that the one the
\* front end assumes.
PathFollowed ==
    /\ extoMem.we =>
          DecodedPc = ISA!NextPc(imem[extoMem.pc], extoMem.pc, ArchRegs)
    /\ dctoEx.we => FetchedPc = AssumedPc
    /\ ftoDC.we => pc = Add(ftoDC.pc, InstrSize)

\* A load-use wait lasts one cycle of the pipeline: decode never waits
\* twice in a row, however the waiting instruction depends on the load.
WaitsOnce == [][StallDecode => ~StallDecode']_vars

\* Once running, the pipeline never empties, and its front empties only
\* behind a branch taken in execute.
NeverDrains ==
    [][/\ ftoDC'.we \/ dctoEx'.we \/ extoMem'.we
       /\ ~ftoDC'.we /\ ~dctoEx'.we => extoMem'.isBranch]_vars

\* Instructions keep completing, whatever the program.
KeepsRetiring == []<>extoMem.we
=============================================================================
