---------------------------- MODULE VivadoProofs ----------------------------
(***************************************************************************)
(* The pipeline with two register files is the pipeline with one, for the  *)
(* programs that never meet what its constructor forgets.  The files       *)
(* differ in x2 until the program writes it, so the argument is that no    *)
(* instruction in the decode stage asks the copy for x2: the operands      *)
(* latched are then those of Core, and each cycle is one of its cycles.    *)
(***************************************************************************)
EXTENDS VivadoCore, CoreProofs

\* x2, the register the constructor sets in one file only, is never read
\* through the second port: as the second operand, or as the data of a store.
SpOnFirstPort ==
    \A p \in Programs, a \in Word :
        UsesRs2(p[a].opCode) \/ UsesRs3(p[a].opCode) => p[a].rs2 # 2

\* The files agree but on x2, which the instruction in decode does not ask the
\* second one for.
FilesAgree == DOMAIN regFileCopy = Reg /\ \A r \in Reg \ {2} : regFileCopy[r] = regFile[r]

DecodeSpares ==
    LET i == ftoDC.instr IN UsesRs2(i.opCode) \/ UsesRs3(i.opCode) => i.rs2 # 2

IVivado == IInv /\ imem \in Programs /\ FilesAgree /\ DecodeSpares

\* The stages that read no register are those of the pipeline itself.
LEMMA SameStages ==
    /\ OnCopy!ExecuteOut = ExecuteOut
    /\ OnCopy!MemoryOut = MemoryOut
    /\ OnCopy!WritebackOut = WritebackOut
<1>1. /\ \A a, b : OnCopy!Add(a, b) = Add(a, b)
      /\ \A op, f : OnCopy!IsMulDiv(op, f) = IsMulDiv(op, f)
    BY DEF OnCopy!Add, Add, OnCopy!IsMulDiv, IsMulDiv
<1>2. OnCopy!ExecuteOut = ExecuteOut
    BY <1>1 DEF OnCopy!ExecuteOut, ExecuteOut
<1>3. OnCopy!MemoryOut = MemoryOut
    BY DEF OnCopy!MemoryOut, MemoryOut
<1>4. OnCopy!WritebackOut = WritebackOut
    BY DEF OnCopy!WritebackOut, WritebackOut
<1> QED
    BY <1>2, <1>3, <1>4

\* So is what decode reads through the second port.
LEMMA SameSecondPort ==
    ASSUME IVivado
    PROVE  LET c == OnCopy!DecodeOut
               d == DecodeOut
           IN  /\ c.rs2 = d.rs2 /\ c.useRs2 = d.useRs2 /\ c.useRs3 = d.useRs3
               /\ c.rhs = d.rhs /\ c.datac = d.datac
<1> DEFINE i == ftoDC.instr
<1>1. /\ \A op : /\ OnCopy!UsesRs1(op) = UsesRs1(op) /\ OnCopy!UsesRs2(op) = UsesRs2(op)
                 /\ OnCopy!UsesRs3(op) = UsesRs3(op)
    BY DEF OnCopy!UsesRs1, UsesRs1, OnCopy!UsesRs2, UsesRs2, OnCopy!UsesRs3, UsesRs3
<1>2. UsesRs2(i.opCode) \/ i.opCode = "ST" => regFileCopy[i.rs2] = regFile[i.rs2]
    <2>1. i.rs2 \in Reg
        BY DEF IVivado, IInv, TypeOK, FtoDC, Instr
    <2> QED
        BY <2>1 DEF IVivado, FilesAgree, DecodeSpares, UsesRs3
<1> HIDE DEF i
<1>3. OnCopy!DecodeOut.rhs = DecodeOut.rhs
    BY <1>1, <1>2 DEF OnCopy!DecodeOut, DecodeOut, i
<1>4. OnCopy!DecodeOut.datac = DecodeOut.datac
    BY <1>1, <1>2 DEF OnCopy!DecodeOut, DecodeOut, i
<1>5. /\ OnCopy!DecodeOut.rs2 = DecodeOut.rs2
      /\ OnCopy!DecodeOut.useRs2 = DecodeOut.useRs2
      /\ OnCopy!DecodeOut.useRs3 = DecodeOut.useRs3
    BY <1>1 DEF OnCopy!DecodeOut, DecodeOut
<1> QED
    BY <1>3, <1>4, <1>5

\* And what it latches, each operand from its own file.
LEMMA SameOperands ==
    ASSUME IVivado
    PROVE  TwoFilesOut = ForwardedOut
<1> DEFINE l == Forward(DecodeOut.useRs1, DecodeOut.rs1, DecodeOut.lhs)
           r == Forward(DecodeOut.useRs2, DecodeOut.rs2, DecodeOut.rhs)
           c == Forward(DecodeOut.useRs3, DecodeOut.rs2, DecodeOut.datac)
<1>1. \A use, rs, v : OnCopy!Forward(use, rs, v) = Forward(use, rs, v)
    BY SameStages DEF OnCopy!Forward, Forward
<1>2. OnCopy!ForwardedOut.rhs = r /\ OnCopy!ForwardedOut.datac = c
    <2>1. /\ OnCopy!Forward(OnCopy!DecodeOut.useRs2, OnCopy!DecodeOut.rs2,
                            OnCopy!DecodeOut.rhs) = r
          /\ OnCopy!Forward(OnCopy!DecodeOut.useRs3, OnCopy!DecodeOut.rs2,
                            OnCopy!DecodeOut.datac) = c
        BY <1>1, SameSecondPort
    <2>2. {"lhs", "rhs", "datac"} \subseteq DOMAIN OnCopy!DecodeOut
        BY DEF OnCopy!DecodeOut
    <2> HIDE DEF r, c
    <2> QED
        BY <2>1, <2>2 DEF OnCopy!ForwardedOut
<1>3. ForwardedOut = [DecodeOut EXCEPT !.lhs = l, !.rhs = r, !.datac = c]
    BY DEF ForwardedOut
<1> HIDE DEF l, r, c
<1> QED
    BY <1>2, <1>3 DEF TwoFilesOut

\* A cycle on such files is a cycle of the pipeline with one.
LEMMA VivadoStepIsCore ==
    ASSUME IVivado, [VivadoNext]_vivadoVars
    PROVE  [Next]_vars
<1>1. CASE VivadoCycle(FALSE)
    <2>1. Advance
        BY <1>1, SameOperands DEF VivadoCycle, VivadoCommit, DmemAsked, Advance, Commit
    <2> QED
        BY <2>1 DEF Next, DoCycle
<1>2. CASE VivadoCycle(TRUE)
    BY <1>2 DEF VivadoCycle, DmemAsked, vars
<1>3. CASE UNCHANGED vivadoVars
    BY <1>3 DEF vivadoVars, vars
<1> QED
    BY <1>1, <1>2, <1>3 DEF VivadoNext

\* Write back writes both files, so that they go on agreeing, and fetch brings
\* in instructions of the program only.
LEMMA VivadoInvariantStep ==
    ASSUME SpOnFirstPort, IVivado, [VivadoNext]_vivadoVars
    PROVE  IVivado'
<1>1. IInv'
    BY VivadoStepIsCore, NextInvariant DEF IVivado
<1>2. CASE UNCHANGED <<ftoDC, regFile, regFileCopy, imem>>
    BY <1>1, <1>2 DEF IVivado, FilesAgree, DecodeSpares
<1>3. CASE VivadoCycle(FALSE)
    <2>1. imem' \in Programs
        BY <1>3 DEF VivadoCycle, IVivado
    <2>2. FilesAgree'
        <3>1. DOMAIN regFile = Reg
            BY DEF IVivado, IInv, TypeOK
        <3>2. CASE WritebackOut.we /\ WritebackOut.useRd
            <4>1. /\ regFile' = [regFile EXCEPT ![WritebackOut.rd] = WritebackOut.value]
                  /\ regFileCopy' =
                        [regFileCopy EXCEPT ![WritebackOut.rd] = WritebackOut.value]
                BY <1>3, <3>2 DEF VivadoCycle, VivadoCommit, WriteCopy
            <4> QED
                BY <3>1, <4>1 DEF IVivado, FilesAgree
        <3>3. CASE ~(WritebackOut.we /\ WritebackOut.useRd)
            BY <1>3, <3>3 DEF VivadoCycle, VivadoCommit, WriteCopy, IVivado, FilesAgree
        <3> QED
            BY <3>2, <3>3
    <2>3. DecodeSpares'
        <3>1. CASE StallDecode
            BY <1>3, <3>1 DEF VivadoCycle, VivadoCommit, IVivado, DecodeSpares
        <3>2. CASE ~StallDecode
            <4>1. ftoDC'.instr = imem[pc]
                BY <1>3, <3>2 DEF VivadoCycle, VivadoCommit, FetchOut
            <4>2. pc \in Word /\ imem \in Programs
                BY DEF IVivado, IInv, TypeOK
            <4> QED
                BY <4>1, <4>2 DEF SpOnFirstPort, DecodeSpares
        <3> QED
            BY <3>1, <3>2
    <2> QED
        BY <1>1, <2>1, <2>2, <2>3 DEF IVivado
<1>4. CASE VivadoCycle(TRUE) \/ UNCHANGED vivadoVars
    BY <1>2, <1>4 DEF VivadoCycle, vivadoVars, vars
<1> QED
    BY <1>3, <1>4 DEF VivadoNext

\* Whatever stack pointer the constructor puts into the one file, the two-file
\* pipeline executes a program that reads x2 through the first port only one
\* instruction after the other, however the caller stalls it.
THEOREM VivadoRefinement ==
    ASSUME SpOnFirstPort
    PROVE  VivadoSpec => ImplementsIsa
<1>1. VivadoInit => IVivado
    <2> SUFFICES ASSUME VivadoInit PROVE IVivado
        OBVIOUS
    <2>1. IInv /\ imem \in Programs
        BY InitInvariant DEF VivadoInit, Init
    <2>2. FilesAgree
        BY DEF VivadoInit, Init, FilesAgree
    <2>3. DecodeSpares
        BY DEF VivadoInit, Init, DecodeSpares, NullInstr, UsesRs2, UsesRs3
    <2> QED
        BY <2>1, <2>2, <2>3 DEF IVivado
<1>2. IVivado /\ [VivadoNext]_vivadoVars => IVivado' /\ [Next]_vars
    BY VivadoInvariantStep, VivadoStepIsCore
<1>3. VivadoInit => Init
    BY DEF VivadoInit
<1>4. VivadoSpec => Spec
    BY <1>1, <1>2, <1>3, PTL DEF VivadoSpec, Spec
<1> QED
    BY <1>4, Refinement
=============================================================================
