----------------------------- MODULE CoreProofs -----------------------------
(***************************************************************************)
(* Theorems about Core, for every word size, program, instruction set      *)
(* semantics and initial memory: its types, its stalls, and last, that the *)
(* pipeline implements the sequential machine of Isa.                      *)
(*                                                                         *)
(* The invariant of the refinement says what every pipeline register       *)
(* means: each stage holds what it should for the instruction at its pc    *)
(* (StagesFaithful), with the operands the sequential machine would read   *)
(* (OperandsCurrent), and the instructions in flight are on the            *)
(* architectural path (PathFollowed).                                      *)
(***************************************************************************)
EXTENDS Core, TLAPS

\* Addition of words is closed: the pc and every address stay words.
LEMMA AddWord == \A a, b \in Word : Add(a, b) \in Word
BY WordAssumption, SMT DEF Add, Word

\* Zero is a word and a register.
LEMMA Zero == 0 \in Word /\ 0 \in Reg
BY WordAssumption, SMT DEF Word, Reg

\* What execute() finds in place of a result it does not assign is a word.
LEMMA FoundWord == \A d : Found(d) \subseteq Word
BY Zero DEF Found

\* The initial state is well typed and uses nothing that is Undef.
LEMMA InitType == Init => TypeOK /\ UndefNeverUsed
<1> SUFFICES ASSUME Init PROVE TypeOK /\ UndefNeverUsed
    OBVIOUS
<1> USE WordAssumption, ProgramAssumption, Zero
<1>1. regFile \in [Reg -> Word] /\ dmem \in Memory /\ imem \in [Word -> Instr]
      /\ pc \in Word
    BY DEF Init, ClearedRegisters
<1>2. ftoDC \in FtoDC
    BY DEF Init, ClearedRegisters, FtoDC, NullInstr, Instr, OpCodes
<1>3. dctoEx \in DCtoEx
    BY DEF Init, ClearedRegisters, DCtoEx, WordOrUndef, OpCodes
<1>4. extoMem \in ExtoMem
    BY DEF Init, ClearedRegisters, ExtoMem, WordOrUndef, OpCodes
<1>5. memtoWB \in MemtoWB
    BY DEF Init, ClearedRegisters, MemtoWB, WordOrUndef
<1>6. UndefNeverUsed
    BY DEF Init, ClearedRegisters, UndefNeverUsed
<1> QED
    BY <1>1, <1>2, <1>3, <1>4, <1>5, <1>6, FoundWord DEF Init, TypeOK

\* decode() fills its temporary with values of the right width, and the
\* operands its opcode uses.
LEMMA DecodeType ==
    ASSUME TypeOK
    PROVE  /\ DecodeOut \in DCtoEx
           /\ DecodeOut.opCode \notin {"MISC_MEM", "SYSTEM", "UNKNOWN"} =>
                 DecodeOut.lhs \in Word
           /\ DecodeOut.opCode \in {"AUIPC", "JALR", "BR", "LD", "ST", "OPI", "OP"} =>
                 DecodeOut.rhs \in Word
           /\ DecodeOut.opCode \in {"BR", "ST"} => DecodeOut.datac \in Word
           /\ DecodeOut.useRd => WritesRd(DecodeOut.opCode)
           /\ DecodeOut.isBranch => DecodeOut.nextPCDC \in Word
<1> DEFINE i == ftoDC.instr
<1>1. /\ i.opCode \in OpCodes /\ i.funct \in Functs /\ i.rd \in Reg
      /\ i.rs1 \in Reg /\ i.rs2 \in Reg /\ i.imm \in Word
      /\ ftoDC.pc \in Word /\ ftoDC.we \in BOOLEAN
    BY DEF TypeOK, FtoDC, Instr
<1>2. regFile[i.rs1] \in Word /\ regFile[i.rs2] \in Word
    BY <1>1 DEF TypeOK
<1>3. /\ Add(ftoDC.pc, InstrSize) \in Word
      /\ Add(ftoDC.pc, i.imm) \in Word
    BY <1>1, AddWord, WordAssumption
<1> DEFINE d == DecodeOut
<1>4. /\ d.opCode = i.opCode /\ d.funct = i.funct /\ d.pc = ftoDC.pc
      /\ d.rd \in Reg /\ d.rs1 = i.rs1 /\ d.rs2 = i.rs2
      /\ d.we = ftoDC.we /\ d.isBranch \in BOOLEAN
      /\ d.useRs1 \in BOOLEAN /\ d.useRs2 \in BOOLEAN /\ d.useRs3 \in BOOLEAN
      /\ d.useRd \in BOOLEAN
    BY <1>1, Zero DEF DecodeOut, UsesRs1, UsesRs2, UsesRs3, WritesRd
<1>5. /\ d.lhs \in WordOrUndef
      /\ d.opCode \notin {"MISC_MEM", "SYSTEM", "UNKNOWN"} => d.lhs \in Word
    BY <1>1, <1>2, <1>3, <1>4 DEF DecodeOut, WordOrUndef, OpCodes, UsesRs1
<1>6. /\ d.rhs \in WordOrUndef
      /\ d.opCode \in {"AUIPC", "JALR", "BR", "LD", "ST", "OPI", "OP"} => d.rhs \in Word
    BY <1>1, <1>2, <1>3, <1>4, Zero DEF DecodeOut, WordOrUndef, OpCodes, UsesRs2
<1>7. /\ d.datac \in WordOrUndef
      /\ d.opCode \in {"BR", "ST"} => d.datac \in Word
    BY <1>1, <1>2, <1>3, <1>4 DEF DecodeOut, WordOrUndef, OpCodes
<1>8. /\ d.nextPCDC \in WordOrUndef
      /\ d.isBranch => d.nextPCDC \in Word
    BY <1>1, <1>2, <1>3, <1>4 DEF DecodeOut, WordOrUndef, OpCodes
<1>9. d.useRd => WritesRd(d.opCode)
    BY <1>4 DEF DecodeOut
<1>10. d = [pc |-> d.pc, opCode |-> d.opCode, funct |-> d.funct, rd |-> d.rd,
            rs1 |-> d.rs1, rs2 |-> d.rs2, lhs |-> d.lhs, rhs |-> d.rhs,
            datac |-> d.datac, nextPCDC |-> d.nextPCDC,
            isBranch |-> d.isBranch, useRs1 |-> d.useRs1, useRs2 |-> d.useRs2,
            useRs3 |-> d.useRs3, useRd |-> d.useRd, we |-> d.we]
    BY DEF DecodeOut
<1> QED
    <2> HIDE DEF d
    <2>1. d \in DCtoEx
        BY <1>1, <1>4, <1>5, <1>6, <1>7, <1>8, <1>10 DEF DCtoEx
    <2> QED
        BY <2>1, <1>4, <1>5, <1>6, <1>7, <1>8, <1>9 DEF d

\* execute() computes a result for every opcode that writes a register or
\* addresses the memory, and a target for every branch it takes.
LEMMA ExecuteType ==
    ASSUME TypeOK, UndefNeverUsed
    PROVE  /\ ExecuteOut \in ExtoMem
           /\ ExecuteOut.opCode \in {"LD", "ST"} \/ ExecuteOut.useRd =>
                 ExecuteOut.result \in Word
           /\ ExecuteOut.opCode = "ST" => ExecuteOut.datac \in Word
           /\ ExecuteOut.isBranch => ExecuteOut.nextPC \in Word
<1> DEFINE d == dctoEx
           x == ExecuteOut
<1>1. /\ d.pc \in Word /\ d.opCode \in OpCodes /\ d.funct \in Functs
      /\ d.rd \in Reg /\ d.useRd \in BOOLEAN /\ d.we \in BOOLEAN
      /\ d.datac \in WordOrUndef /\ d.lhs \in WordOrUndef
      /\ leftover \in Word
    BY DEF TypeOK, DCtoEx
<1>2. /\ d.opCode \notin {"MISC_MEM", "SYSTEM", "UNKNOWN"} => d.lhs \in Word
      /\ d.opCode \in {"AUIPC", "JALR", "BR", "LD", "ST", "OPI", "OP"} => d.rhs \in Word
      /\ d.opCode \in {"BR", "ST"} => d.datac \in Word
      /\ d.useRd => WritesRd(d.opCode)
    BY DEF UndefNeverUsed
<1>3. Add(d.pc, InstrSize) \in Word
    BY <1>1, AddWord, WordAssumption
<1>4. d.opCode \in {"AUIPC", "JALR", "BR", "LD", "ST", "OPI", "OP"} =>
         /\ Add(d.lhs, d.rhs) \in Word
         /\ Add(d.rhs, d.lhs) \in Word
         /\ Alu(d.funct, d.lhs, d.rhs) \in Word
         /\ Taken(d.funct, d.lhs, d.rhs) \in BOOLEAN
    BY <1>1, <1>2, AddWord, DataAssumption
<1>5. d.opCode \in {"BR", "ST"} => Add(d.pc, d.datac) \in Word
    BY <1>1, <1>2, AddWord
<1> HIDE DEF d
<1>6. /\ x.pc = d.pc /\ x.opCode = d.opCode /\ x.funct = d.funct
      /\ x.rd = d.rd /\ x.we = d.we /\ x.isLongInstruction \in BOOLEAN
      /\ x.useRd = (d.we /\ d.useRd)
    BY DEF ExecuteOut, d
<1>7. x.isBranch \in BOOLEAN
    BY DEF ExecuteOut
<1>8. /\ x.result \in WordOrUndef
      /\ x.opCode \in {"LD", "ST"} \/ x.useRd => x.result \in Word
    BY <1>1, <1>2, <1>3, <1>4, <1>6
    DEF ExecuteOut, d, WordOrUndef, OpCodes, WritesRd, IsMulDiv
<1>9. /\ x.datac \in WordOrUndef
      /\ x.opCode = "ST" => x.datac \in Word
    BY <1>1, <1>2, <1>6 DEF ExecuteOut, d, WordOrUndef
<1>10. /\ x.nextPC \in WordOrUndef
       /\ x.isBranch => x.nextPC \in Word
    BY <1>1, <1>2, <1>4, <1>5 DEF ExecuteOut, d, WordOrUndef, OpCodes
<1>11. x = [pc |-> x.pc, opCode |-> x.opCode, funct |-> x.funct, rd |-> x.rd,
            result |-> x.result, datac |-> x.datac, nextPC |-> x.nextPC,
            isBranch |-> x.isBranch, isLongInstruction |-> x.isLongInstruction,
            useRd |-> x.useRd, we |-> x.we]
    BY DEF ExecuteOut
<1> QED
    <2> HIDE DEF x
    <2>1. x \in ExtoMem
        BY <1>1, <1>6, <1>7, <1>8, <1>9, <1>10, <1>11 DEF ExtoMem
    <2> QED
        BY <2>1, <1>8, <1>9, <1>10 DEF x

\* memory() and the data memory hand over a word to every register write,
\* and leave a memory behind.
LEMMA MemoryType ==
    ASSUME TypeOK, UndefNeverUsed
    PROVE  /\ MemoryOut \in MemtoWB
           /\ MemoryOut.useRd => MemoryOut.result \in Word
           /\ DmemOut \in Memory
<1> DEFINE x == extoMem
           m == MemoryOut
<1>1. /\ x.opCode \in OpCodes /\ x.funct \in Functs
      /\ x.rd \in Reg /\ x.useRd \in BOOLEAN /\ x.we \in BOOLEAN
      /\ x.result \in WordOrUndef /\ x.datac \in WordOrUndef
      /\ dmem \in Memory
    BY DEF TypeOK, ExtoMem
<1>2. /\ x.opCode \in {"LD", "ST"} \/ x.useRd => x.result \in Word
      /\ x.opCode = "ST" => x.datac \in Word
    BY DEF UndefNeverUsed
<1>3. x.opCode = "LD" => Load(x.funct, dmem, x.result) \in Word
    BY <1>1, <1>2, DataAssumption
<1>4. x.opCode = "ST" => Store(x.funct, dmem, x.result, x.datac) \in Memory
    BY <1>1, <1>2, DataAssumption
<1> HIDE DEF x
<1>5. /\ m.rd = x.rd /\ m.useRd = x.useRd /\ m.we = x.we
      /\ m.isLoad \in BOOLEAN /\ m.isStore = (x.opCode = "ST")
      /\ m.address \in WordOrUndef /\ m.valueToWrite \in WordOrUndef
      /\ x.opCode = "ST" => m.address = x.result /\ m.valueToWrite = x.datac
    BY <1>1 DEF MemoryOut, x, WordOrUndef
<1>6. /\ m.result \in WordOrUndef
      /\ m.useRd => m.result \in Word
    BY <1>1, <1>2, <1>3 DEF MemoryOut, x, WordOrUndef
<1>7. m = [result |-> m.result, rd |-> m.rd, useRd |-> m.useRd,
           address |-> m.address, valueToWrite |-> m.valueToWrite,
           isLoad |-> m.isLoad, isStore |-> m.isStore, we |-> m.we]
    BY DEF MemoryOut
<1> HIDE DEF m
<1>8. m \in MemtoWB
    BY <1>1, <1>5, <1>6, <1>7 DEF MemtoWB
<1>9. DmemOut \in Memory
    BY <1>1, <1>4, <1>5 DEF DmemOut, m, x
<1> QED
    BY <1>6, <1>8, <1>9 DEF m

\* What write back hands to the register file is a word.
LEMMA WritebackType ==
    ASSUME TypeOK, UndefNeverUsed
    PROVE  /\ WritebackOut.rd \in Reg
           /\ WritebackOut.useRd => WritebackOut.value \in Word
BY DEF WritebackOut, TypeOK, UndefNeverUsed, MemtoWB

\* A forwarded operand is a word if the decoded one was, and no operand that
\* is in use is ever replaced by an uninitialised result.
LEMMA ForwardType ==
    ASSUME TypeOK, UndefNeverUsed, NEW use \in BOOLEAN, NEW rs \in Reg,
           NEW v \in WordOrUndef
    PROVE  /\ Forward(use, rs, v) \in WordOrUndef
           /\ v \in Word => Forward(use, rs, v) \in Word
<1>1. /\ ExecuteOut.useRd => ExecuteOut.result \in Word
      /\ MemoryOut.useRd => MemoryOut.result \in Word
      /\ WritebackOut.useRd => WritebackOut.value \in Word
    BY ExecuteType, MemoryType, WritebackType
<1> QED
    BY <1>1 DEF Forward, WordOrUndef

\* What decode latches, forwarded operands included, is well typed.
LEMMA ForwardedType ==
    ASSUME TypeOK, UndefNeverUsed
    PROVE  /\ ForwardedOut \in DCtoEx
           /\ ForwardedOut.opCode \notin {"MISC_MEM", "SYSTEM", "UNKNOWN"} =>
                 ForwardedOut.lhs \in Word
           /\ ForwardedOut.opCode \in {"AUIPC", "JALR", "BR", "LD", "ST", "OPI", "OP"} =>
                 ForwardedOut.rhs \in Word
           /\ ForwardedOut.opCode \in {"BR", "ST"} => ForwardedOut.datac \in Word
           /\ ForwardedOut.useRd => WritesRd(ForwardedOut.opCode)
<1> DEFINE d == DecodeOut
           l == Forward(d.useRs1, d.rs1, d.lhs)
           r == Forward(d.useRs2, d.rs2, d.rhs)
           c == Forward(d.useRs3, d.rs2, d.datac)
<1>1. d \in DCtoEx
    BY DecodeType
<1>2. /\ d.useRs1 \in BOOLEAN /\ d.useRs2 \in BOOLEAN /\ d.useRs3 \in BOOLEAN
      /\ d.rs1 \in Reg /\ d.rs2 \in Reg
      /\ d.lhs \in WordOrUndef /\ d.rhs \in WordOrUndef /\ d.datac \in WordOrUndef
    BY <1>1 DEF DCtoEx
<1>3. /\ l \in WordOrUndef /\ (d.lhs \in Word => l \in Word)
      /\ r \in WordOrUndef /\ (d.rhs \in Word => r \in Word)
      /\ c \in WordOrUndef /\ (d.datac \in Word => c \in Word)
    BY <1>2, ForwardType
<1>4. ForwardedOut = [d EXCEPT !.lhs = l, !.rhs = r, !.datac = c]
    BY DEF ForwardedOut
<1> HIDE DEF d, l, r, c
<1>5. /\ ForwardedOut \in DCtoEx
      /\ ForwardedOut.opCode = d.opCode /\ ForwardedOut.useRd = d.useRd
      /\ ForwardedOut.lhs = l /\ ForwardedOut.rhs = r /\ ForwardedOut.datac = c
    BY <1>1, <1>3, <1>4 DEF DCtoEx
<1> QED
    BY <1>3, <1>5, DecodeType DEF d

\* One cycle keeps every register well typed and every used field assigned.
LEMMA NextType ==
    ASSUME TypeOK, UndefNeverUsed, [Next]_vars
    PROVE  TypeOK' /\ UndefNeverUsed'
<1>1. CASE UNCHANGED vars
    BY <1>1 DEF vars, TypeOK, UndefNeverUsed
<1>2. CASE Advance
    <2>1. pc' \in Word
        <3>1. pc \in Word
            BY DEF TypeOK
        <3>2. Add(pc, InstrSize) \in Word
            BY <3>1, AddWord, WordAssumption
        <3>3. NextPcOut \in Word
            BY <3>2, ExecuteType, DecodeType DEF NextPcOut
        <3> QED
            BY <1>2, <3>1, <3>3 DEF Advance, Commit
    <2>2. ftoDC' \in FtoDC
        <3>1. FetchSurvives \in BOOLEAN
            BY DEF FetchSurvives
        <3>2. [FetchOut EXCEPT !.we = FetchSurvives] \in FtoDC
            BY <3>1 DEF FetchOut, FtoDC, TypeOK
        <3> QED
            BY <1>2, <3>2 DEF Advance, Commit, TypeOK
    <2>3. /\ dctoEx' \in DCtoEx
          /\ dctoEx'.opCode \notin {"MISC_MEM", "SYSTEM", "UNKNOWN"} => dctoEx'.lhs \in Word
          /\ dctoEx'.opCode \in {"AUIPC", "JALR", "BR", "LD", "ST", "OPI", "OP"} =>
                dctoEx'.rhs \in Word
          /\ dctoEx'.opCode \in {"BR", "ST"} => dctoEx'.datac \in Word
          /\ dctoEx'.useRd => WritesRd(dctoEx'.opCode)
        <3>1. CASE StallDecode
            <4>1. dctoEx' = Bubble /\ dctoEx \in DCtoEx
                BY <1>2, <3>1 DEF Advance, Commit, TypeOK
            <4>2. /\ Bubble \in DCtoEx
                  /\ Bubble.opCode = dctoEx.opCode /\ Bubble.lhs = dctoEx.lhs
                  /\ Bubble.rhs = dctoEx.rhs /\ Bubble.datac = dctoEx.datac
                  /\ Bubble.useRd = FALSE
                BY <4>1, Zero DEF Bubble, DCtoEx
            <4> QED
                BY <4>1, <4>2 DEF UndefNeverUsed
        <3>2. CASE ~StallDecode
            <4> DEFINE f == ForwardedOut
                       e == [f EXCEPT !.we = f.we /\ DecodeSurvives]
            <4>1. dctoEx' = e
                BY <1>2, <3>2 DEF Advance, Commit
            <4>2. f \in DCtoEx
                BY ForwardedType
            <4> HIDE DEF f
            <4>3. /\ e \in DCtoEx
                  /\ e.opCode = f.opCode /\ e.lhs = f.lhs /\ e.rhs = f.rhs
                  /\ e.datac = f.datac /\ e.useRd = f.useRd
                BY <4>2 DEF DCtoEx
            <4> QED
                BY <4>1, <4>3, ForwardedType DEF f
        <3> QED
            BY <3>1, <3>2
    <2>4. /\ extoMem' \in ExtoMem
          /\ extoMem'.opCode \in {"LD", "ST"} \/ extoMem'.useRd => extoMem'.result \in Word
          /\ extoMem'.opCode = "ST" => extoMem'.datac \in Word
        BY <1>2, ExecuteType DEF Advance, Commit
    <2>5. /\ memtoWB' \in MemtoWB
          /\ memtoWB'.useRd => memtoWB'.result \in Word
          /\ dmem' \in Memory
        BY <1>2, MemoryType DEF Advance, Commit
    <2>6. regFile' \in [Reg -> Word]
        BY <1>2, WritebackType DEF Advance, Commit, TypeOK
    <2>7. imem' \in [Word -> Instr]
        BY <1>2 DEF Advance, Commit, TypeOK
    <2>8. leftover' \in Word
        BY <1>2, FoundWord DEF Advance, Commit
    <2> QED
        BY <2>1, <2>2, <2>3, <2>4, <2>5, <2>6, <2>7, <2>8 DEF TypeOK, UndefNeverUsed
<1> QED
    BY <1>1, <1>2 DEF Next, DoCycle

\* The pipeline's registers are well typed at every cycle.
THEOREM TypeCorrect == Spec => []TypeOK
<1>1. Init => TypeOK /\ UndefNeverUsed
    BY InitType
<1>2. TypeOK /\ UndefNeverUsed /\ [Next]_vars
      => TypeOK' /\ UndefNeverUsed'
    BY NextType
<1> QED
    BY <1>1, <1>2, PTL DEF Spec

\* No Undef is ever forwarded, written back, stored, or used as an address, an
\* operand or a branch target: of all the fields that decode(), execute() and
\* memory() leave uninitialised, only the result of an M instruction is used.
THEOREM UndefIsNeverUsed == Spec => []UndefNeverUsed
<1>1. Init => TypeOK /\ UndefNeverUsed
    BY InitType
<1>2. TypeOK /\ UndefNeverUsed /\ [Next]_vars
      => TypeOK' /\ UndefNeverUsed'
    BY NextType
<1> QED
    BY <1>1, <1>2, PTL DEF Spec
-----------------------------------------------------------------------------
(* What one cycle may never do.                                            *)

\* The bubble a load-use wait leaves in execute has no destination, so the
\* instruction in decode cannot wait for it again.
THEOREM NeverWaitsTwice == Spec => WaitsOnce
<1>1. TypeOK /\ [Next]_vars => [StallDecode => ~StallDecode']_vars
    <2>1. SUFFICES ASSUME TypeOK, Advance, StallDecode  PROVE ~StallDecode'
        BY DEF Next, DoCycle
    <2>2. dctoEx'.useRd = FALSE
        BY <2>1 DEF Advance, Commit, Bubble, TypeOK, DCtoEx
    <2>3. ~ExecuteOut'.useRd
        BY <2>2 DEF ExecuteOut
    <2> QED
        BY <2>3 DEF StallDecode, WaitsForLoad
<1> QED
    BY <1>1, TypeCorrect, PTL DEF Spec, WaitsOnce

\* A cycle leaves some instruction in flight, and empties the two front
\* stages only when a branch taken in execute squashed them.
THEOREM PipelineNeverDrains == Spec => NeverDrains
<1> DEFINE Kept ==
        /\ ftoDC'.we \/ dctoEx'.we \/ extoMem'.we
        /\ ~ftoDC'.we /\ ~dctoEx'.we => extoMem'.isBranch
<1>1. TypeOK /\ UndefNeverUsed /\ [Next]_vars => [Kept]_vars
    <2>1. SUFFICES ASSUME TypeOK, UndefNeverUsed, Advance  PROVE Kept
        BY DEF Next, DoCycle
    <2>2. extoMem' = ExecuteOut
        BY <2>1 DEF Advance, Commit
    <2>3. CASE StallDecode
        <3>1. ftoDC.we
            BY <2>3 DEF StallDecode, WaitsForLoad, DecodeOut
        <3> QED
            BY <2>1, <2>3, <3>1 DEF Advance, Commit
    <2>4. CASE ~StallDecode /\ FetchSurvives
        BY <2>1, <2>4 DEF Advance, Commit, FetchOut
    <2>5. CASE ~StallDecode /\ ExecuteOut.isBranch
        <3>1. ExecuteOut.we
            BY <2>5 DEF ExecuteOut
        <3> QED
            BY <2>2, <2>5, <3>1
    <2>6. CASE ~StallDecode /\ ~ExecuteOut.isBranch /\ DecodeOut.isBranch
        <3>1. DecodeOut.we
            BY <2>6 DEF DecodeOut
        <3>2. ForwardedOut \in DCtoEx
            BY <2>1, ForwardedType
        <3>3. ForwardedOut.we
            BY <3>1 DEF ForwardedOut, DecodeOut
        <3>4. dctoEx'.we
            BY <2>1, <2>6, <3>2, <3>3 DEF Advance, Commit, DecodeSurvives, DCtoEx
        <3> QED
            BY <3>4
    <2> QED
        BY <2>3, <2>4, <2>5, <2>6 DEF FetchSurvives
<1> QED
    BY <1>1, TypeCorrect, UndefIsNeverUsed, PTL DEF Spec, NeverDrains

-----------------------------------------------------------------------------
(* The sequential machine: the invariant.                                  *)


IInv ==
    /\ TypeOK
    /\ UndefNeverUsed
    /\ StagesFaithful
    /\ OperandsCurrent
    /\ PathFollowed

-----------------------------------------------------------------------------
(* The retirement of the instruction in the memory stage.                  *)

\* The two machines add words in the same way and write the same registers.
LEMMA SameOperators ==
    /\ \A a, b : ISA!Add(a, b) = Add(a, b)
    /\ \A op : (op \in ISA!Writers) = WritesRd(op)
    /\ \A op, f : ISA!IsMulDiv(op, f) = IsMulDiv(op, f)
BY DEF ISA!Add, Add, ISA!Writers, WritesRd, ISA!IsMulDiv, IsMulDiv

\* The architectural registers are words, write back included.
LEMMA ArchRegsType ==
    ASSUME TypeOK, UndefNeverUsed
    PROVE  ArchRegs \in [Reg -> Word]
BY WritebackType DEF ArchRegs, TypeOK

\* The write the instruction in the memory stage hands to write back is the
\* one the sequential machine does.
LEMMA MemoryRetires ==
    ASSUME IInv
    PROVE  RegsAfterMemory =
              IF MemoryOut.useRd
              THEN [ArchRegs EXCEPT ![MemoryOut.rd] = MemoryOut.result]
              ELSE ArchRegs
<1> DEFINE i == imem[extoMem.pc]
<1>1. MemoryOut.useRd = extoMem.useRd /\ MemoryOut.rd = extoMem.rd
    BY DEF MemoryOut
<1>2. CASE ~extoMem.we
    BY <1>1, <1>2 DEF IInv, StagesFaithful, SquashedWritesNothing, RegsAfterMemory
<1>3. CASE extoMem.we
    <2>1. /\ extoMem.opCode = i.opCode /\ extoMem.funct = i.funct
          /\ extoMem.useRd = (WritesRd(i.opCode) /\ i.rd # 0)
          /\ extoMem.useRd => extoMem.rd = i.rd
          /\ extoMem.useRd /\ i.opCode # "LD" =>
                extoMem.result = ISA!Result(i, extoMem.pc, ArchRegs, dmem, extoMem.result)
          /\ i.opCode \in {"LD", "ST"} => extoMem.result = Add(ArchRegs[i.rs1], i.imm)
        BY <1>3 DEF IInv, StagesFaithful, ExecuteFaithful
    <2>2. extoMem.useRd =>
             MemoryOut.result =
                ISA!Result(i, extoMem.pc, ArchRegs, dmem, extoMem.result)
        <3>1. CASE i.opCode = "LD"
            <4>1. MemoryOut.result = Load(i.funct, dmem, Add(ArchRegs[i.rs1], i.imm))
                BY <1>3, <2>1, <3>1 DEF MemoryOut
            <4>2. ISA!Result(i, extoMem.pc, ArchRegs, dmem, extoMem.result)
                     = Load(i.funct, dmem, Add(ArchRegs[i.rs1], i.imm))
                BY <3>1, SameOperators DEF ISA!Result, IsMulDiv
            <4> QED
                BY <4>1, <4>2
        <3>2. CASE i.opCode # "LD"
            <4>1. MemoryOut.result = extoMem.result
                BY <2>1, <3>2 DEF MemoryOut
            <4> QED
                BY <2>1, <3>2, <4>1
        <3> QED
            BY <3>1, <3>2
    <2>3. RegsAfterMemory =
             IF WritesRd(i.opCode) /\ i.rd # 0
             THEN [ArchRegs EXCEPT ![i.rd] =
                      ISA!Result(i, extoMem.pc, ArchRegs, dmem, extoMem.result)]
             ELSE ArchRegs
        BY <1>3, SameOperators DEF RegsAfterMemory, ISA!NextRegs
    <2> QED
        BY <1>1, <2>1, <2>2, <2>3
<1> QED
    BY <1>2, <1>3

\* The registers the instruction in the memory stage leaves are words.
LEMMA RegsAfterMemoryType ==
    ASSUME IInv
    PROVE  RegsAfterMemory \in [Reg -> Word]
<1>1. ArchRegs \in [Reg -> Word]
    BY ArchRegsType DEF IInv
<1>2. MemoryOut.useRd => MemoryOut.result \in Word
    BY MemoryType DEF IInv
<1> QED
    BY <1>1, <1>2, MemoryRetires

\* A cycle moves the architectural registers past that instruction.
LEMMA ArchRegsStep ==
    ASSUME IInv, Advance
    PROVE  ArchRegs' = RegsAfterMemory
<1>1. regFile' = ArchRegs
    BY DEF Advance, Commit, ArchRegs, WritebackOut
<1>2. memtoWB' = MemoryOut
    BY DEF Advance, Commit
<1>3. MemoryOut.useRd => MemoryOut.we /\ MemoryOut.rd # 0
    BY DEF MemoryOut, IInv, StagesFaithful, SquashedWritesNothing
<1>4. MemoryOut.useRd \in BOOLEAN
    BY MemoryType DEF IInv, MemtoWB
<1>5. /\ WritebackOut'.useRd = MemoryOut.useRd
      /\ WritebackOut'.rd = MemoryOut.rd
      /\ WritebackOut'.value = MemoryOut.result
    BY <1>2, <1>3, <1>4 DEF WritebackOut
<1> QED
    BY <1>1, <1>5, MemoryRetires DEF ArchRegs

\* So does the data memory.
LEMMA MemStep ==
    ASSUME IInv
    PROVE  DmemOut = IF extoMem.we
                     THEN ISA!NextMem(imem[extoMem.pc], ArchRegs, dmem)
                     ELSE dmem
<1> DEFINE i == imem[extoMem.pc]
<1>1. CASE ~extoMem.we
    BY <1>1 DEF DmemOut, MemoryOut
<1>2. CASE extoMem.we
    <2>1. /\ extoMem.opCode = i.opCode /\ extoMem.funct = i.funct
          /\ i.opCode \in {"LD", "ST"} => extoMem.result = Add(ArchRegs[i.rs1], i.imm)
          /\ i.opCode = "ST" => extoMem.datac = ArchRegs[i.rs2]
        BY <1>2 DEF IInv, StagesFaithful, ExecuteFaithful
    <2>2. CASE i.opCode = "ST"
        <3>1. DmemOut = Store(i.funct, dmem, Add(ArchRegs[i.rs1], i.imm), ArchRegs[i.rs2])
            BY <1>2, <2>1, <2>2 DEF DmemOut, MemoryOut
        <3>2. ISA!NextMem(i, ArchRegs, dmem)
                 = Store(i.funct, dmem, Add(ArchRegs[i.rs1], i.imm), ArchRegs[i.rs2])
            BY <2>2, SameOperators DEF ISA!NextMem
        <3> QED
            BY <1>2, <3>1, <3>2
    <2>3. CASE i.opCode # "ST"
        BY <1>2, <2>1, <2>3 DEF DmemOut, MemoryOut, ISA!NextMem
    <2> QED
        BY <2>2, <2>3
<1> QED
    BY <1>1, <1>2

-----------------------------------------------------------------------------
(* The execute stage: right operands give the right result.                *)

\* With current operands, execute computes the result, the address and the
\* store data of the sequential machine.
LEMMA ExecuteResult ==
    ASSUME IInv, dctoEx.we
    PROVE  LET i == imem[dctoEx.pc]
               r == RegsAfterMemory
           IN  /\ ExecuteOut.we /\ ExecuteOut.pc = dctoEx.pc
               /\ ExecuteOut.opCode = i.opCode /\ ExecuteOut.funct = i.funct
               /\ ExecuteOut.useRd = (WritesRd(i.opCode) /\ i.rd # 0)
               /\ ExecuteOut.useRd => ExecuteOut.rd = i.rd
               /\ ExecuteOut.isLongInstruction = (i.opCode = "LD")
               /\ \A m : ExecuteOut.useRd /\ i.opCode # "LD" =>
                     ExecuteOut.result = ISA!Result(i, dctoEx.pc, r, m, ExecuteOut.result)
               /\ i.opCode \in {"LD", "ST"} =>
                     ExecuteOut.result = Add(r[i.rs1], i.imm)
               /\ i.opCode = "ST" => ExecuteOut.datac = r[i.rs2]
<1> DEFINE i == imem[dctoEx.pc]
           r == RegsAfterMemory
<1>1. /\ dctoEx.opCode = i.opCode /\ dctoEx.funct = i.funct
      /\ dctoEx.useRd = (WritesRd(i.opCode) /\ i.rd # 0)
      /\ dctoEx.useRd => dctoEx.rd = i.rd
      /\ i.opCode = "LUI" => dctoEx.lhs = i.imm
      /\ i.opCode = "AUIPC" => dctoEx.lhs = dctoEx.pc
      /\ i.opCode = "JAL" => dctoEx.lhs = Add(dctoEx.pc, InstrSize)
      /\ i.opCode \in {"AUIPC", "JALR", "LD", "ST", "OPI"} => dctoEx.rhs = i.imm
    BY DEF IInv, StagesFaithful, DecodeFaithful
<1>2. /\ UsesRs1(i.opCode) => dctoEx.lhs = r[i.rs1]
      /\ UsesRs2(i.opCode) => dctoEx.rhs = r[i.rs2]
      /\ UsesRs3(i.opCode) => dctoEx.datac = r[i.rs2]
    BY DEF IInv, OperandsCurrent
<1>3. dctoEx.useRd \in BOOLEAN /\ dctoEx.we \in BOOLEAN
    BY DEF IInv, TypeOK, DCtoEx
<1> HIDE DEF i, r
<1>4. /\ ExecuteOut.we /\ ExecuteOut.pc = dctoEx.pc
      /\ ExecuteOut.opCode = i.opCode /\ ExecuteOut.funct = i.funct
      /\ ExecuteOut.useRd = dctoEx.useRd /\ ExecuteOut.rd = dctoEx.rd
      /\ ExecuteOut.isLongInstruction = (i.opCode = "LD")
    BY <1>1, <1>3 DEF ExecuteOut
<1>5. i.opCode \in {"LD", "ST"} => ExecuteOut.result = Add(r[i.rs1], i.imm)
    BY <1>1, <1>2 DEF ExecuteOut, UsesRs1, IsMulDiv
<1>6. i.opCode = "ST" => ExecuteOut.datac = r[i.rs2]
    BY <1>1, <1>2 DEF ExecuteOut, UsesRs3
<1>7. ASSUME NEW m, WritesRd(i.opCode), i.opCode # "LD"
      PROVE  ExecuteOut.result = ISA!Result(i, dctoEx.pc, r, m, ExecuteOut.result)
    <2>1. CASE i.opCode = "LUI"
        BY <1>1, <2>1, SameOperators DEF ExecuteOut, ISA!Result, IsMulDiv
    <2>2. CASE i.opCode = "AUIPC"
        BY <1>1, <2>2, SameOperators DEF ExecuteOut, ISA!Result
    <2>3. CASE i.opCode \in {"JAL", "JALR"}
        BY <1>1, <2>3, SameOperators DEF ExecuteOut, ISA!Result
    <2>4. CASE i.opCode = "OPI"
        BY <1>1, <1>2, <2>4 DEF ExecuteOut, ISA!Result, UsesRs1
    <2>5. CASE i.opCode = "OP"
        <3>1. CASE i.funct \in MulDiv
            BY <1>1, <2>5, <3>1, SameOperators DEF ISA!Result, IsMulDiv
        <3>2. CASE i.funct \notin MulDiv
            <4>1. ExecuteOut.result = Alu(i.funct, r[i.rs1], r[i.rs2])
                BY <1>1, <1>2, <2>5, <3>2 DEF ExecuteOut, UsesRs1, UsesRs2, IsMulDiv
            <4> QED
                BY <2>5, <3>2, <4>1, SameOperators DEF ISA!Result, IsMulDiv
        <3> QED
            BY <3>1, <3>2
    <2> QED
        BY <1>7, <2>1, <2>2, <2>3, <2>4, <2>5 DEF WritesRd
<1> QED
    BY <1>1, <1>4, <1>5, <1>6, <1>7 DEF i, r

\* The branch decision and its target are the architectural ones.
LEMMA ExecuteBranch ==
    ASSUME IInv, dctoEx.we
    PROVE  LET i == imem[dctoEx.pc]
               next == ISA!NextPc(i, dctoEx.pc, RegsAfterMemory)
           IN  IF ExecuteOut.isBranch THEN ExecuteOut.nextPC = next
               ELSE next = IF i.opCode = "JAL" THEN Add(dctoEx.pc, i.imm)
                           ELSE Add(dctoEx.pc, InstrSize)
<1> DEFINE i == imem[dctoEx.pc]
           r == RegsAfterMemory
           next == ISA!NextPc(i, dctoEx.pc, r)
<1>1. /\ dctoEx.opCode = i.opCode /\ dctoEx.funct = i.funct
      /\ i.opCode = "JALR" => dctoEx.rhs = i.imm
      /\ i.opCode = "BR" => dctoEx.datac = i.imm
    BY DEF IInv, StagesFaithful, DecodeFaithful
<1>2. /\ i.opCode \in {"JALR", "BR"} => dctoEx.lhs = r[i.rs1]
      /\ i.opCode = "BR" => dctoEx.rhs = r[i.rs2]
    BY DEF IInv, OperandsCurrent, UsesRs1, UsesRs2
<1>3. dctoEx.pc \in Word /\ i \in Instr
    BY DEF IInv, TypeOK, DCtoEx
<1>4. i.imm \in Word /\ i.rs1 \in Reg /\ r[i.rs1] \in Word
    BY <1>3, RegsAfterMemoryType DEF Instr
<1>5. Add(i.imm, r[i.rs1]) = Add(r[i.rs1], i.imm)
    <2>1. i.imm \in Int /\ r[i.rs1] \in Int
        BY <1>4, WordAssumption DEF Word
    <2> HIDE DEF i, r
    <2>2. i.imm + r[i.rs1] = r[i.rs1] + i.imm
        BY <2>1
    <2> QED
        BY <2>2 DEF Add
<1> HIDE DEF i, r
<1>6. CASE i.opCode = "JALR"
    <2>1. ExecuteOut.isBranch /\ ExecuteOut.nextPC = Add(r[i.rs1], i.imm)
        BY <1>1, <1>2, <1>5, <1>6 DEF ExecuteOut
    <2>2. next = Add(r[i.rs1], i.imm)
        BY <1>6, SameOperators DEF ISA!NextPc
    <2> QED
        BY <2>1, <2>2 DEF i, r
<1>7. CASE i.opCode = "BR"
    <2>1. ExecuteOut.isBranch = Taken(i.funct, r[i.rs1], r[i.rs2])
        <3>1. /\ ExecuteOut.isBranch \in BOOLEAN
              /\ ExecuteOut.isBranch <=> Taken(i.funct, r[i.rs1], r[i.rs2])
            BY <1>1, <1>2, <1>7 DEF ExecuteOut
        <3>2. Taken(i.funct, r[i.rs1], r[i.rs2]) \in BOOLEAN
            <4>1. i.funct \in Functs /\ r[i.rs1] \in Word /\ r[i.rs2] \in Word
                BY <1>3, RegsAfterMemoryType DEF Instr, i, r
            <4> QED
                BY <4>1, DataAssumption
        <3> QED
            BY <3>1, <3>2
    <2>2. ExecuteOut.nextPC = Add(dctoEx.pc, i.imm)
        BY <1>1, <1>7 DEF ExecuteOut
    <2>3. next = IF Taken(i.funct, r[i.rs1], r[i.rs2])
                 THEN Add(dctoEx.pc, i.imm) ELSE Add(dctoEx.pc, InstrSize)
        BY <1>7, SameOperators DEF ISA!NextPc
    <2> QED
        BY <1>7, <2>1, <2>2, <2>3 DEF i, r
<1>8. CASE i.opCode \notin {"JALR", "BR"}
    <2>1. ~ExecuteOut.isBranch
        BY <1>1, <1>8 DEF ExecuteOut
    <2>2. next = IF i.opCode = "JAL" THEN Add(dctoEx.pc, i.imm)
                 ELSE Add(dctoEx.pc, InstrSize)
        BY <1>8, SameOperators DEF ISA!NextPc
    <2> QED
        BY <2>1, <2>2 DEF i, r
<1> QED
    BY <1>6, <1>7, <1>8

\* The instruction execute hands to the memory stage is faithful.
LEMMA ExecuteFaithfulStep ==
    ASSUME IInv, Advance
    PROVE  ExecuteFaithful'
<1> SUFFICES ASSUME extoMem'.we
             PROVE  LET i == imem'[extoMem'.pc] IN
                    /\ extoMem'.opCode = i.opCode /\ extoMem'.funct = i.funct
                    /\ extoMem'.useRd = (WritesRd(i.opCode) /\ i.rd # 0)
                    /\ extoMem'.useRd => extoMem'.rd = i.rd
                    /\ extoMem'.useRd /\ i.opCode # "LD" =>
                          extoMem'.result =
                             ISA!Result(i, extoMem'.pc, ArchRegs', dmem', extoMem'.result)
                    /\ i.opCode \in {"LD", "ST"} =>
                          extoMem'.result = Add(ArchRegs'[i.rs1], i.imm)
                    /\ i.opCode = "ST" => extoMem'.datac = ArchRegs'[i.rs2]
    BY DEF ExecuteFaithful
<1>1. extoMem' = ExecuteOut /\ imem' = imem
    BY DEF Advance, Commit
<1>2. dctoEx.we
    BY <1>1 DEF ExecuteOut
<1>3. ArchRegs' = RegsAfterMemory
    BY ArchRegsStep
<1> QED
    BY <1>1, <1>2, <1>3, ExecuteResult

-----------------------------------------------------------------------------
(* Forwarding: the operands latched are those of the next instruction.     *)

\* RegsAfterMemory at the next cycle, as far as execute can know it.
LEMMA RegsAfterExecute ==
    ASSUME IInv, Advance, NEW rs \in Reg,
           ~(ExecuteOut.useRd /\ rs = ExecuteOut.rd /\ ExecuteOut.isLongInstruction)
    PROVE  RegsAfterMemory'[rs] =
              IF ExecuteOut.useRd /\ rs = ExecuteOut.rd
              THEN ExecuteOut.result
              ELSE RegsAfterMemory[rs]
<1> DEFINE i == imem[dctoEx.pc]
           r == RegsAfterMemory
<1>1. extoMem' = ExecuteOut /\ imem' = imem /\ ArchRegs' = r
    BY ArchRegsStep DEF Advance, Commit
<1>2. r \in [Reg -> Word]
    BY RegsAfterMemoryType
<1>3. RegsAfterMemory' =
         IF ExecuteOut.we
         THEN ISA!NextRegs(imem[ExecuteOut.pc], ExecuteOut.pc, r, dmem', ExecuteOut.result)
         ELSE r
    BY <1>1 DEF RegsAfterMemory
<1>4. CASE ~dctoEx.we
    BY <1>3, <1>4 DEF ExecuteOut
<1>5. CASE dctoEx.we
    <2>1. /\ ExecuteOut.we /\ ExecuteOut.pc = dctoEx.pc
          /\ ExecuteOut.useRd = (WritesRd(i.opCode) /\ i.rd # 0)
          /\ ExecuteOut.useRd => ExecuteOut.rd = i.rd
          /\ ExecuteOut.isLongInstruction = (i.opCode = "LD")
          /\ ExecuteOut.useRd /\ i.opCode # "LD" =>
                ExecuteOut.result = ISA!Result(i, dctoEx.pc, r, dmem', ExecuteOut.result)
        BY <1>5, ExecuteResult
    <2>2. RegsAfterMemory' =
             IF ExecuteOut.useRd
             THEN [r EXCEPT ![i.rd] = ISA!Result(i, dctoEx.pc, r, dmem', ExecuteOut.result)]
             ELSE r
        BY <1>3, <2>1, SameOperators DEF ISA!NextRegs
    <2> HIDE DEF i, r
    <2> QED
        BY <1>2, <2>1, <2>2 DEF r
<1> QED
    BY <1>4, <1>5

\* What the forward unit delivers, unless it asks to wait.
LEMMA ForwardCurrent ==
    ASSUME IInv, Advance, NEW rs \in Reg, ~WaitsForLoad(TRUE, rs)
    PROVE  Forward(TRUE, rs, regFile[rs]) = RegsAfterMemory'[rs]
<1>1. RegsAfterMemory'[rs] = IF ExecuteOut.useRd /\ rs = ExecuteOut.rd
                             THEN ExecuteOut.result ELSE RegsAfterMemory[rs]
    BY RegsAfterExecute DEF WaitsForLoad
<1>2. ArchRegs \in [Reg -> Word]
    BY ArchRegsType DEF IInv
<1>3. RegsAfterMemory[rs] = IF MemoryOut.useRd /\ rs = MemoryOut.rd
                            THEN MemoryOut.result ELSE ArchRegs[rs]
    BY <1>2, MemoryRetires
<1>4. ArchRegs[rs] = IF WritebackOut.useRd /\ rs = WritebackOut.rd
                     THEN WritebackOut.value ELSE regFile[rs]
    BY DEF ArchRegs, IInv, TypeOK
<1>5. ExecuteOut.useRd => ExecuteOut.we
    BY DEF ExecuteOut
<1>6. MemoryOut.useRd => MemoryOut.we
    BY DEF MemoryOut, IInv, StagesFaithful, SquashedWritesNothing
<1> QED
    BY <1>1, <1>3, <1>4, <1>5, <1>6 DEF Forward

\* decode() slices the instruction at its pc.
LEMMA DecodeFields ==
    ASSUME IInv, ftoDC.we
    PROVE  LET i == imem[ftoDC.pc]
               d == DecodeOut
           IN  /\ i \in Instr
               /\ d.we /\ d.pc = ftoDC.pc /\ d.opCode = i.opCode /\ d.funct = i.funct
               /\ d.rs1 = i.rs1 /\ d.rs2 = i.rs2
               /\ d.useRd = (WritesRd(i.opCode) /\ i.rd # 0)
               /\ d.useRd => d.rd = i.rd
               /\ d.useRs1 = UsesRs1(i.opCode)
               /\ d.useRs2 = UsesRs2(i.opCode)
               /\ d.useRs3 = UsesRs3(i.opCode)
               /\ d.isBranch = (i.opCode = "JAL")
               /\ i.opCode = "JAL" => d.nextPCDC = Add(ftoDC.pc, i.imm)
               /\ i.opCode = "LUI" => d.lhs = i.imm
               /\ i.opCode = "AUIPC" => d.lhs = ftoDC.pc
               /\ i.opCode = "JAL" => d.lhs = Add(ftoDC.pc, InstrSize)
               /\ UsesRs1(i.opCode) => d.lhs = regFile[i.rs1]
               /\ i.opCode \in {"AUIPC", "JALR", "LD", "ST", "OPI"} => d.rhs = i.imm
               /\ UsesRs2(i.opCode) => d.rhs = regFile[i.rs2]
               /\ i.opCode = "BR" => d.datac = i.imm
               /\ UsesRs3(i.opCode) => d.datac = regFile[i.rs2]
<1> DEFINE i == imem[ftoDC.pc]
           d == DecodeOut
<1>1. ftoDC.instr = i /\ i \in Instr /\ ftoDC.we = TRUE
    BY DEF IInv, StagesFaithful, FetchFaithful, TypeOK, FtoDC
<1> HIDE DEF i
<1>2. /\ d.we /\ d.pc = ftoDC.pc /\ d.opCode = i.opCode /\ d.funct = i.funct
      /\ d.rs1 = i.rs1 /\ d.rs2 = i.rs2
      /\ d.isBranch = (i.opCode = "JAL")
      /\ i.opCode = "JAL" => d.nextPCDC = Add(ftoDC.pc, i.imm)
    BY <1>1 DEF DecodeOut
<1>3. /\ d.useRd = (WritesRd(i.opCode) /\ i.rd # 0)
      /\ d.useRd => d.rd = i.rd
      /\ d.useRs1 = UsesRs1(i.opCode)
      /\ d.useRs2 = UsesRs2(i.opCode)
      /\ d.useRs3 = UsesRs3(i.opCode)
    <2>1. /\ d.useRd = (ftoDC.we /\ WritesRd(i.opCode) /\ i.rd # 0)
          /\ d.useRs1 = (ftoDC.we /\ UsesRs1(i.opCode))
          /\ d.useRs2 = (ftoDC.we /\ UsesRs2(i.opCode))
          /\ d.useRs3 = (ftoDC.we /\ UsesRs3(i.opCode))
          /\ d.rd = IF i.opCode = "ST" THEN 0 ELSE i.rd
        BY <1>1 DEF DecodeOut
    <2> HIDE DEF d
    <2>2. /\ UsesRs1(i.opCode) \in BOOLEAN /\ UsesRs2(i.opCode) \in BOOLEAN
          /\ UsesRs3(i.opCode) \in BOOLEAN /\ WritesRd(i.opCode) \in BOOLEAN
          /\ WritesRd(i.opCode) => i.opCode # "ST"
        BY DEF UsesRs1, UsesRs2, UsesRs3, WritesRd
    <2> QED
        BY <1>1, <2>1, <2>2
<1>4. /\ i.opCode = "LUI" => d.lhs = i.imm
      /\ i.opCode = "AUIPC" => d.lhs = ftoDC.pc
      /\ i.opCode = "JAL" => d.lhs = Add(ftoDC.pc, InstrSize)
      /\ UsesRs1(i.opCode) => d.lhs = regFile[i.rs1]
    BY <1>1 DEF DecodeOut, UsesRs1
<1>5. /\ i.opCode \in {"AUIPC", "JALR", "LD", "ST", "OPI"} => d.rhs = i.imm
      /\ UsesRs2(i.opCode) => d.rhs = regFile[i.rs2]
    BY <1>1 DEF DecodeOut, UsesRs2
<1>6. /\ i.opCode = "BR" => d.datac = i.imm
      /\ UsesRs3(i.opCode) => d.datac = regFile[i.rs2]
    BY <1>1 DEF DecodeOut, UsesRs3
<1> QED
    BY <1>1, <1>2, <1>3, <1>4, <1>5, <1>6 DEF i

\* Forwarding changes the operands in use, and nothing else.
LEMMA ForwardedFields ==
    ASSUME TypeOK
    PROVE  LET d == DecodeOut
               e == ForwardedOut
           IN  /\ e.we = d.we /\ e.pc = d.pc /\ e.opCode = d.opCode
               /\ e.funct = d.funct /\ e.useRd = d.useRd /\ e.rd = d.rd
               /\ e.lhs = Forward(d.useRs1, d.rs1, d.lhs)
               /\ e.rhs = Forward(d.useRs2, d.rs2, d.rhs)
               /\ e.datac = Forward(d.useRs3, d.rs2, d.datac)
               /\ ~d.useRs1 => e.lhs = d.lhs
               /\ ~d.useRs2 => e.rhs = d.rhs
               /\ ~d.useRs3 => e.datac = d.datac
<1> DEFINE d == DecodeOut
           l == Forward(d.useRs1, d.rs1, d.lhs)
           r == Forward(d.useRs2, d.rs2, d.rhs)
           c == Forward(d.useRs3, d.rs2, d.datac)
<1>1. /\ ~d.useRs1 => l = d.lhs
      /\ ~d.useRs2 => r = d.rhs
      /\ ~d.useRs3 => c = d.datac
    BY DEF Forward
<1>2. ForwardedOut = [d EXCEPT !.lhs = l, !.rhs = r, !.datac = c]
    BY DEF ForwardedOut
<1>3. d \in DCtoEx
    BY DecodeType
<1> HIDE DEF d, l, r, c
<1>4. /\ ForwardedOut.we = d.we /\ ForwardedOut.pc = d.pc
      /\ ForwardedOut.opCode = d.opCode /\ ForwardedOut.funct = d.funct
      /\ ForwardedOut.useRd = d.useRd /\ ForwardedOut.rd = d.rd
      /\ ForwardedOut.lhs = l /\ ForwardedOut.rhs = r /\ ForwardedOut.datac = c
    BY <1>2, <1>3 DEF DCtoEx
<1> QED
    BY <1>1, <1>4 DEF d, l, r, c

\* The instruction decode hands to execute is faithful and its operands are
\* those its predecessors leave.
LEMMA DecodeStep ==
    ASSUME IInv, Advance
    PROVE  DecodeFaithful' /\ OperandsCurrent'
<1> DEFINE i == imem[ftoDC.pc]
           d == DecodeOut
           e == ForwardedOut
           n == dctoEx'
           r == RegsAfterMemory'
<1> SUFFICES ASSUME n.we
             PROVE  /\ n.opCode = imem'[n.pc].opCode /\ n.funct = imem'[n.pc].funct
                    /\ n.useRd = (WritesRd(imem'[n.pc].opCode) /\ imem'[n.pc].rd # 0)
                    /\ n.useRd => n.rd = imem'[n.pc].rd
                    /\ imem'[n.pc].opCode = "LUI" => n.lhs = imem'[n.pc].imm
                    /\ imem'[n.pc].opCode = "AUIPC" => n.lhs = n.pc
                    /\ imem'[n.pc].opCode = "JAL" => n.lhs = Add(n.pc, InstrSize)
                    /\ imem'[n.pc].opCode \in {"AUIPC", "JALR", "LD", "ST", "OPI"} =>
                          n.rhs = imem'[n.pc].imm
                    /\ imem'[n.pc].opCode = "BR" => n.datac = imem'[n.pc].imm
                    /\ UsesRs1(imem'[n.pc].opCode) => n.lhs = r[imem'[n.pc].rs1]
                    /\ UsesRs2(imem'[n.pc].opCode) => n.rhs = r[imem'[n.pc].rs2]
                    /\ UsesRs3(imem'[n.pc].opCode) => n.datac = r[imem'[n.pc].rs2]
    BY DEF DecodeFaithful, OperandsCurrent
<1>1. e \in DCtoEx /\ dctoEx \in DCtoEx
    BY ForwardedType DEF IInv, TypeOK
<1>2. ~StallDecode
    <2>1. Bubble.we = FALSE
        BY <1>1 DEF Bubble, DCtoEx
    <2> QED
        BY <2>1 DEF Advance, Commit
<1>3. n = [e EXCEPT !.we = e.we /\ DecodeSurvives] /\ imem' = imem
    BY <1>2 DEF Advance, Commit
<1>4. /\ e.we /\ n.pc = e.pc /\ n.opCode = e.opCode /\ n.funct = e.funct
      /\ n.useRd = e.useRd /\ n.rd = e.rd
      /\ n.lhs = e.lhs /\ n.rhs = e.rhs /\ n.datac = e.datac
    <2> HIDE DEF e, n
    <2> QED
        BY <1>1, <1>3 DEF DCtoEx
<1>5. /\ e.we = d.we /\ e.pc = d.pc /\ e.opCode = d.opCode
      /\ e.funct = d.funct /\ e.useRd = d.useRd /\ e.rd = d.rd
      /\ e.lhs = Forward(d.useRs1, d.rs1, d.lhs)
      /\ e.rhs = Forward(d.useRs2, d.rs2, d.rhs)
      /\ e.datac = Forward(d.useRs3, d.rs2, d.datac)
      /\ ~d.useRs1 => e.lhs = d.lhs
      /\ ~d.useRs2 => e.rhs = d.rhs
      /\ ~d.useRs3 => e.datac = d.datac
    BY ForwardedFields DEF IInv
<1>6. ftoDC.we
    BY <1>4, <1>5 DEF DecodeOut
<1>7. /\ i \in Instr
      /\ d.pc = ftoDC.pc /\ d.opCode = i.opCode /\ d.funct = i.funct
      /\ d.rs1 = i.rs1 /\ d.rs2 = i.rs2
      /\ d.useRd = (WritesRd(i.opCode) /\ i.rd # 0)
      /\ d.useRd => d.rd = i.rd
      /\ d.useRs1 = UsesRs1(i.opCode)
      /\ d.useRs2 = UsesRs2(i.opCode)
      /\ d.useRs3 = UsesRs3(i.opCode)
      /\ i.opCode = "LUI" => d.lhs = i.imm
      /\ i.opCode = "AUIPC" => d.lhs = ftoDC.pc
      /\ i.opCode = "JAL" => d.lhs = Add(ftoDC.pc, InstrSize)
      /\ UsesRs1(i.opCode) => d.lhs = regFile[i.rs1]
      /\ i.opCode \in {"AUIPC", "JALR", "LD", "ST", "OPI"} => d.rhs = i.imm
      /\ UsesRs2(i.opCode) => d.rhs = regFile[i.rs2]
      /\ i.opCode = "BR" => d.datac = i.imm
      /\ UsesRs3(i.opCode) => d.datac = regFile[i.rs2]
    BY <1>6, DecodeFields
<1>8. i.rs1 \in Reg /\ i.rs2 \in Reg
    BY <1>7 DEF Instr
<1> HIDE DEF i, d, e, n, r
<1>9. UsesRs1(i.opCode) => e.lhs = r[i.rs1]
    <2> SUFFICES ASSUME UsesRs1(i.opCode) PROVE e.lhs = r[i.rs1]
        OBVIOUS
    <2>1. d.useRs1 = TRUE
        BY <1>7 DEF UsesRs1
    <2>2. ~WaitsForLoad(TRUE, i.rs1)
        BY <1>2, <1>7, <2>1 DEF StallDecode, d
    <2>3. Forward(TRUE, i.rs1, regFile[i.rs1]) = r[i.rs1]
        BY <1>8, <2>2, ForwardCurrent DEF r
    <2> QED
        BY <1>5, <1>7, <2>1, <2>3
<1>10. UsesRs2(i.opCode) => e.rhs = r[i.rs2]
    <2> SUFFICES ASSUME UsesRs2(i.opCode) PROVE e.rhs = r[i.rs2]
        OBVIOUS
    <2>1. d.useRs2 = TRUE
        BY <1>7 DEF UsesRs2
    <2>2. ~WaitsForLoad(TRUE, i.rs2)
        BY <1>2, <1>7, <2>1 DEF StallDecode, d
    <2>3. Forward(TRUE, i.rs2, regFile[i.rs2]) = r[i.rs2]
        BY <1>8, <2>2, ForwardCurrent DEF r
    <2> QED
        BY <1>5, <1>7, <2>1, <2>3
<1>11. UsesRs3(i.opCode) => e.datac = r[i.rs2]
    <2> SUFFICES ASSUME UsesRs3(i.opCode) PROVE e.datac = r[i.rs2]
        OBVIOUS
    <2>1. d.useRs3 = TRUE
        BY <1>7 DEF UsesRs3
    <2>2. ~WaitsForLoad(TRUE, i.rs2)
        BY <1>2, <1>7, <2>1 DEF StallDecode, d
    <2>3. Forward(TRUE, i.rs2, regFile[i.rs2]) = r[i.rs2]
        BY <1>8, <2>2, ForwardCurrent DEF r
    <2> QED
        BY <1>5, <1>7, <2>1, <2>3
<1>12. imem'[n.pc] = i
    BY <1>3, <1>4, <1>5, <1>7 DEF i
<1>13. /\ i.opCode \in {"LUI", "AUIPC", "JAL"} => ~UsesRs1(i.opCode)
       /\ i.opCode \in {"AUIPC", "JALR", "LD", "ST", "OPI"} => ~UsesRs2(i.opCode)
       /\ i.opCode = "BR" => ~UsesRs3(i.opCode)
    BY DEF UsesRs1, UsesRs2, UsesRs3
<1>14. /\ i.opCode = "LUI" => n.lhs = i.imm
       /\ i.opCode = "AUIPC" => n.lhs = n.pc
       /\ i.opCode = "JAL" => n.lhs = Add(n.pc, InstrSize)
       /\ i.opCode \in {"AUIPC", "JALR", "LD", "ST", "OPI"} => n.rhs = i.imm
       /\ i.opCode = "BR" => n.datac = i.imm
    BY <1>4, <1>5, <1>7, <1>13
<1> QED
    BY <1>4, <1>5, <1>7, <1>9, <1>10, <1>11, <1>12, <1>14

\* Neither fetch nor the squashed stages break the invariant.
LEMMA FetchStep ==
    ASSUME IInv, Advance
    PROVE  FetchFaithful' /\ SquashedWritesNothing'
<1>1. FetchFaithful'
    <2>1. CASE StallDecode
        BY <2>1 DEF Advance, Commit, FetchFaithful, IInv, StagesFaithful
    <2>2. CASE ~StallDecode
        BY <2>2 DEF Advance, Commit, FetchFaithful, FetchOut
    <2> QED
        BY <2>1, <2>2
<1>2. dctoEx'.useRd => dctoEx'.rd # 0
    <2>1. CASE StallDecode
        BY <2>1 DEF Advance, Commit, Bubble, IInv, TypeOK, DCtoEx
    <2>2. CASE ~StallDecode
        <3>1. DecodeOut.useRd => DecodeOut.rd # 0
            BY DEF DecodeOut, WritesRd
        <3>2. ForwardedOut.useRd => ForwardedOut.rd # 0
            BY <3>1, ForwardedFields DEF IInv
        <3>3. dctoEx' = [ForwardedOut EXCEPT !.we = ForwardedOut.we /\ DecodeSurvives]
            BY <2>2 DEF Advance, Commit
        <3>4. ForwardedOut \in DCtoEx
            BY ForwardedType DEF IInv
        <3> QED
            BY <3>2, <3>3, <3>4 DEF DCtoEx
    <2> QED
        BY <2>1, <2>2
<1>3. extoMem'.useRd => extoMem'.we /\ extoMem'.rd # 0
    BY DEF Advance, Commit, ExecuteOut, IInv, StagesFaithful, SquashedWritesNothing
<1>4. memtoWB'.useRd => memtoWB'.we /\ memtoWB'.rd # 0
    BY DEF Advance, Commit, MemoryOut, IInv, StagesFaithful, SquashedWritesNothing
<1> QED
    BY <1>1, <1>2, <1>3, <1>4 DEF SquashedWritesNothing

-----------------------------------------------------------------------------
(* The path: what is squashed, and where each stage continues.             *)

\* After a cycle that does not redirect from execute, the decode register
\* continues where the fetch register did.
LEMMA DecodedPcStep ==
    ASSUME IInv, Advance, ~ExecuteOut.isBranch
    PROVE  DecodedPc' = FetchedPc
<1>1. CASE StallDecode
    <2>1. /\ dctoEx'.we = FALSE /\ ftoDC' = ftoDC /\ pc' = pc
        BY <1>1 DEF Advance, Commit, Bubble, IInv, TypeOK, DCtoEx
    <2> QED
        BY <2>1 DEF DecodedPc, FetchedPc
<1>2. CASE ~StallDecode
    <2>1. ForwardedOut \in DCtoEx
        BY ForwardedType DEF IInv
    <2>2. dctoEx' = [ForwardedOut EXCEPT !.we = ForwardedOut.we /\ DecodeSurvives]
        BY <1>2 DEF Advance, Commit
    <2>3. dctoEx'.we = ftoDC.we /\ dctoEx'.pc = ftoDC.pc
        <3>1. ForwardedOut.we = ftoDC.we /\ ForwardedOut.pc = ftoDC.pc
            BY ForwardedFields DEF IInv, DecodeOut
        <3>2. ftoDC.we \in BOOLEAN
            BY DEF IInv, TypeOK, FtoDC
        <3> QED
            BY <2>1, <2>2, <3>1, <3>2 DEF DecodeSurvives, DCtoEx
    <2>4. CASE ftoDC.we
        BY <2>3, <2>4 DEF DecodedPc, FetchedPc
    <2>5. CASE ~ftoDC.we
        <3>1. ~DecodeOut.isBranch
            BY <2>5 DEF DecodeOut
        <3>2. ftoDC'.we = TRUE /\ ftoDC'.pc = pc
            BY <1>2, <3>1 DEF Advance, Commit, FetchOut, FetchSurvives
        <3> QED
            BY <2>3, <2>5, <3>2 DEF DecodedPc, FetchedPc
    <2> QED
        BY <2>4, <2>5
<1> QED
    BY <1>1, <1>2

\* A redirection from execute squashes everything younger.
LEMMA RedirectStep ==
    ASSUME IInv, Advance, ExecuteOut.isBranch
    PROVE  DecodedPc' = ExecuteOut.nextPC /\ ~dctoEx'.we /\ ~ftoDC'.we
<1>1. ~StallDecode
    <2>1. ~ExecuteOut.isLongInstruction
        BY DEF ExecuteOut
    <2> QED
        BY <2>1 DEF StallDecode, WaitsForLoad
<1>2. ~dctoEx'.we
    <2>1. ForwardedOut \in DCtoEx
        BY ForwardedType DEF IInv
    <2> QED
        BY <1>1, <2>1 DEF Advance, Commit, DecodeSurvives, DCtoEx
<1>3. ftoDC'.we = FALSE /\ pc' = ExecuteOut.nextPC
    BY <1>1 DEF Advance, Commit, FetchOut, FetchSurvives, NextPcOut
<1> QED
    BY <1>2, <1>3 DEF DecodedPc, FetchedPc

\* Redirections and squashes keep every stage followed by its successor.
LEMMA PathStep ==
    ASSUME IInv, Advance
    PROVE  PathFollowed'
<1>1. imem' = imem /\ extoMem' = ExecuteOut /\ ArchRegs' = RegsAfterMemory
    BY ArchRegsStep DEF Advance, Commit
<1>2. extoMem'.we =>
         DecodedPc' = ISA!NextPc(imem'[extoMem'.pc], extoMem'.pc, ArchRegs')
    <2> SUFFICES ASSUME dctoEx.we
                 PROVE  DecodedPc' = ISA!NextPc(imem[dctoEx.pc], dctoEx.pc, RegsAfterMemory)
        BY <1>1 DEF ExecuteOut
    <2>1. CASE ExecuteOut.isBranch
        BY <2>1, ExecuteBranch, RedirectStep
    <2>2. CASE ~ExecuteOut.isBranch
        <3>1. FetchedPc = ISA!NextPc(imem[dctoEx.pc], dctoEx.pc, RegsAfterMemory)
            BY <2>2, ExecuteBranch DEF IInv, PathFollowed, AssumedPc
        <3> QED
            BY <2>2, <3>1, DecodedPcStep
    <2> QED
        BY <2>1, <2>2
<1>3. dctoEx'.we => FetchedPc' = AssumedPc'
    <2> SUFFICES ASSUME dctoEx'.we PROVE FetchedPc' = AssumedPc'
        OBVIOUS
    <2>1. ~ExecuteOut.isBranch
        BY RedirectStep
    <2>2. ~StallDecode
        BY DEF Advance, Commit, Bubble, IInv, TypeOK, DCtoEx
    <2>3. ForwardedOut \in DCtoEx
        BY ForwardedType DEF IInv
    <2>4. dctoEx' = [ForwardedOut EXCEPT !.we = ForwardedOut.we /\ DecodeSurvives]
        BY <2>2 DEF Advance, Commit
    <2>5. dctoEx'.pc = ftoDC.pc /\ ftoDC.we
        BY <2>3, <2>4, ForwardedFields DEF DCtoEx, IInv, DecodeOut
    <2>6. /\ DecodeOut.isBranch = (imem[ftoDC.pc].opCode = "JAL")
          /\ imem[ftoDC.pc].opCode = "JAL" =>
                DecodeOut.nextPCDC = Add(ftoDC.pc, imem[ftoDC.pc].imm)
        BY <2>5, DecodeFields
    <2>7. AssumedPc' = IF imem[ftoDC.pc].opCode = "JAL"
                       THEN Add(ftoDC.pc, imem[ftoDC.pc].imm)
                       ELSE Add(ftoDC.pc, InstrSize)
        BY <1>1, <2>5 DEF AssumedPc
    <2>8. CASE DecodeOut.isBranch
        <3>1. ftoDC'.we = FALSE /\ pc' = DecodeOut.nextPCDC
            BY <2>1, <2>2, <2>8 DEF Advance, Commit, FetchOut, FetchSurvives, NextPcOut
        <3> QED
            BY <2>6, <2>7, <2>8, <3>1 DEF FetchedPc
    <2>9. CASE ~DecodeOut.isBranch
        <3>1. ftoDC'.we = TRUE /\ ftoDC'.pc = pc
            BY <2>1, <2>2, <2>9 DEF Advance, Commit, FetchOut, FetchSurvives
        <3>2. pc = Add(ftoDC.pc, InstrSize)
            BY <2>5 DEF IInv, PathFollowed
        <3> QED
            BY <2>6, <2>7, <2>9, <3>1, <3>2 DEF FetchedPc
    <2> QED
        BY <2>8, <2>9
<1>4. ftoDC'.we => pc' = Add(ftoDC'.pc, InstrSize)
    <2>1. CASE StallDecode
        BY <2>1 DEF Advance, Commit, IInv, PathFollowed
    <2>2. CASE ~StallDecode
        BY <2>2 DEF Advance, Commit, FetchOut, FetchSurvives, NextPcOut
    <2> QED
        BY <2>1, <2>2
<1> QED
    BY <1>2, <1>3, <1>4 DEF PathFollowed

-----------------------------------------------------------------------------
(* The theorems.                                                           *)

\* The memset of the constructor leaves no instruction in flight.
LEMMA InitInvariant == Init => IInv
<1> SUFFICES ASSUME Init PROVE IInv
    OBVIOUS
<1>1. ~ftoDC.we /\ ~dctoEx.we /\ ~extoMem.we
      /\ ~dctoEx.useRd /\ ~extoMem.useRd /\ ~memtoWB.useRd
    BY DEF Init, ClearedRegisters
<1> QED
    BY <1>1, InitType
    DEF IInv, StagesFaithful, FetchFaithful, DecodeFaithful, ExecuteFaithful,
        SquashedWritesNothing, OperandsCurrent, PathFollowed

\* A cycle, stalled or not, keeps the invariant.
LEMMA NextInvariant == IInv /\ [Next]_vars => IInv'
<1> SUFFICES ASSUME IInv, [Next]_vars PROVE IInv'
    OBVIOUS
<1>1. TypeOK' /\ UndefNeverUsed'
    BY NextType DEF IInv
<1>2. CASE Advance
    BY <1>1, <1>2, ExecuteFaithfulStep, DecodeStep, FetchStep, PathStep
    DEF IInv, StagesFaithful
<1>3. CASE UNCHANGED vars
    <2>1. /\ ArchRegs' = ArchRegs /\ DecodedPc' = DecodedPc
          /\ FetchedPc' = FetchedPc /\ AssumedPc' = AssumedPc
        BY <1>3 DEF vars, ArchRegs, WritebackOut, DecodedPc, FetchedPc, AssumedPc
    <2>2. RegsAfterMemory' = RegsAfterMemory
        BY <1>3, <2>1 DEF vars, RegsAfterMemory
    <2>3. StagesFaithful'
        BY <1>3, <2>1 DEF vars, IInv, StagesFaithful, FetchFaithful, DecodeFaithful,
                         ExecuteFaithful, SquashedWritesNothing
    <2>4. OperandsCurrent' /\ PathFollowed'
        BY <1>3, <2>1, <2>2 DEF vars, IInv, OperandsCurrent, PathFollowed
    <2> QED
        BY <1>1, <2>3, <2>4 DEF IInv
<1> QED
    BY <1>2, <1>3 DEF Next, DoCycle

\* Type correctness, initialised fields, faithful stages, current operands and
\* the path hold together at every cycle of the pipeline.
THEOREM Invariant == Spec => []IInv
BY InitInvariant, NextInvariant, PTL DEF Spec

\* The operands latched by decode are current at every cycle: forwarding
\* from three stages and the load-use wait never deliver a stale register.
THEOREM OperandsAlwaysCurrent == Spec => []OperandsCurrent
<1>1. IInv => OperandsCurrent
    BY DEF IInv
<1> QED
    BY <1>1, Invariant, PTL

\* The instructions in flight are always on the architectural path, and the
\* fetches beyond an unresolved branch on the assumed one.
THEOREM PathAlwaysFollowed == Spec => []PathFollowed
<1>1. IInv => PathFollowed
    BY DEF IInv
<1> QED
    BY <1>1, Invariant, PTL

\* Each pipeline register holds what its stage computes for the instruction
\* at its pc, and no squashed instruction keeps a destination.
THEOREM StagesAlwaysFaithful == Spec => []StagesFaithful
<1>1. IInv => StagesFaithful
    BY DEF IInv
<1> QED
    BY <1>1, Invariant, PTL

\* A cycle that completes a valid instruction is one step of the sequential
\* machine; any other cycle leaves its state alone.
LEMMA StepRefines ==
    ASSUME IInv, Advance
    PROVE  ISA!Step \/ UNCHANGED ISA!vars
<1>1. /\ imem' = imem /\ dmem' = DmemOut /\ extoMem' = ExecuteOut
      /\ ArchRegs' = RegsAfterMemory
    BY ArchRegsStep DEF Advance, Commit
<1>2. ArchPc' = DecodedPc
    <2>1. CASE dctoEx.we
        BY <1>1, <2>1, ExecuteResult DEF ArchPc, DecodedPc
    <2>2. CASE ~dctoEx.we
        <3>1. ~ExecuteOut.isBranch /\ ~ExecuteOut.we
            BY <2>2 DEF ExecuteOut
        <3>2. DecodedPc' = FetchedPc
            BY <3>1, DecodedPcStep
        <3> QED
            BY <1>1, <2>2, <3>1, <3>2 DEF ArchPc, DecodedPc
    <2> QED
        BY <2>1, <2>2
<1>3. CASE extoMem.we
    <2> DEFINE i == imem[extoMem.pc]
    <2>1. ArchPc = extoMem.pc
        BY <1>3 DEF ArchPc
    <2>2. ArchPc' = ISA!NextPc(i, ArchPc, ArchRegs)
        BY <1>2, <1>3, <2>1 DEF IInv, PathFollowed
    <2>3. \E found \in ISA!Word :
             ArchRegs' = ISA!NextRegs(i, ArchPc, ArchRegs, dmem, found)
        <3>1. ArchRegs' = ISA!NextRegs(i, ArchPc, ArchRegs, dmem, extoMem.result)
            BY <1>1, <1>3, <2>1 DEF RegsAfterMemory
        <3>2. CASE extoMem.useRd
            <4>1. extoMem.result \in ISA!Word
                BY <3>2 DEF IInv, UndefNeverUsed, ISA!Word, Word
            <4> QED
                BY <3>1, <4>1
        <3>3. CASE ~extoMem.useRd
            <4>1. ~(WritesRd(i.opCode) /\ i.rd # 0)
                BY <1>3, <3>3 DEF IInv, StagesFaithful, ExecuteFaithful
            <4>2. ArchRegs' = ISA!NextRegs(i, ArchPc, ArchRegs, dmem, 0)
                BY <3>1, <4>1, SameOperators DEF ISA!NextRegs
            <4> QED
                BY <4>2, Zero DEF ISA!Word, Word
        <3> QED
            BY <3>2, <3>3
    <2>4. dmem' = ISA!NextMem(i, ArchRegs, dmem)
        BY <1>1, <1>3, MemStep
    <2> QED
        BY <1>1, <2>1, <2>2, <2>3, <2>4 DEF ISA!Step
<1>4. CASE ~extoMem.we
    <2>1. ArchPc' = ArchPc
        BY <1>2, <1>4 DEF ArchPc
    <2>2. ArchRegs' = ArchRegs
        BY <1>1, <1>4 DEF RegsAfterMemory
    <2>3. dmem' = dmem
        BY <1>1, <1>4, MemStep
    <2> QED
        BY <1>1, <2>1, <2>2, <2>3 DEF ISA!vars
<1> QED
    BY <1>3, <1>4

\* The reset state is the reset state of the sequential machine.
LEMMA InitRefines == Init => ISA!Init
<1> SUFFICES ASSUME Init PROVE ISA!Init
    OBVIOUS
<1>1. ArchPc = pc /\ ArchRegs = regFile
    BY DEF Init, ClearedRegisters, ArchPc, DecodedPc, FetchedPc, ArchRegs, WritebackOut
<1> QED
    BY <1>1 DEF Init, ISA!Init, ISA!Reg, Reg

\* The pipeline implements the sequential machine: every behaviour of
\* doCycle(), however the memories and the caller stall it, is one
\* instruction after the other on the architectural state.
THEOREM Refinement == Spec => ImplementsIsa
<1>1. Init => ISA!Init
    BY InitRefines
<1>2. IInv /\ [Next]_vars => [ISA!Next]_ISA!vars
    <2> SUFFICES ASSUME IInv, [Next]_vars PROVE ISA!Next \/ UNCHANGED ISA!vars
        OBVIOUS
    <2>1. CASE Advance
        BY <2>1, StepRefines DEF ISA!Next
    <2>2. CASE UNCHANGED vars
        BY <2>2 DEF vars, ISA!vars, ArchPc, DecodedPc, FetchedPc, ArchRegs, WritebackOut
    <2> QED
        BY <2>1, <2>2 DEF Next, DoCycle
<1> QED
    BY <1>1, <1>2, Invariant, PTL DEF Spec, ImplementsIsa, ISA!Spec
=============================================================================
