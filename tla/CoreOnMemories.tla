--------------------------- MODULE CoreOnMemories ---------------------------
(***************************************************************************)
(* doCycle() with its two memories inside: each cycle calls process() of   *)
(* core.im, then process() of core.dm, whose operation depends on whether  *)
(* the first one waits; a memory that waits stalls the whole pipeline.     *)
(*                                                                         *)
(* The memories are parameters: process() as a function of the record of   *)
(* the object (see Memories), and the words a reader of it would see.  The *)
(* instruction memory holds words like the other; Decode is what decode()  *)
(* slices out of one.  The two are distinct objects on distinct arrays, as *)
(* in doCore().                                                            *)
(***************************************************************************)
EXTENDS SubWord

CONSTANTS
    RegCount, Alu(_, _, _), Taken(_, _, _), Entry, StackInit, Undef,
    Decode(_),                     \* MemWord -> Instr
    ImProcess(_, _, _, _, _),      \* core.im->process()
    DmProcess(_, _, _, _, _),      \* core.dm->process()
    ImContents(_), DmContents(_),  \* record -> [WordAddr -> MemWord]
    Resets,       \* pairs of memories the BasicSimulator constructor can make
    Leftovers     \* what doCore() can find in its memories and its Core

VARIABLES pc, ftoDC, dctoEx, extoMem, memtoWB, leftover, regFile,
          im, dm     \* *core.im and *core.dm, with the references they are given

pipeline == <<pc, ftoDC, dctoEx, extoMem, memtoWB, leftover, regFile>>
vars == <<pipeline, im, dm>>

\* funct3, 8 for funct7[5] and 16 for funct7[0].
Functs == 0 .. 31
MulDiv == 16 .. 31

\* The switch on extoMem.funct3.
MaskOf(funct) ==
    CASE funct % 8 = 0 -> "BYTE"
      [] funct % 8 = 1 -> "HALF"
      [] funct % 8 = 4 -> "BYTE_U"
      [] funct % 8 = 5 -> "HALF_U"
      [] OTHER -> "WORD"

\* The call for the next instruction.
ImCalled(globalStall) ==
    ImProcess([im EXCEPT !.waitOut = FALSE], pc, "WORD",
              IF globalStall THEN "NONE" ELSE "LOAD", 0)

\* Mutant: the data memory is asked although the instruction is not there.
OpTypeDespiteIm(globalStall) ==
    CASE ~globalStall /\ extoMem.we /\ extoMem.opCode = "LD" -> "LOAD"
      [] ~globalStall /\ extoMem.we /\ extoMem.opCode = "ST" -> "STORE"
      [] OTHER -> "NONE"

\* What the memory stage asks for: nothing while the fetch waits.
OpType(globalStall) ==
    IF globalStall \/ ~extoMem.we \/ ImCalled(globalStall).waitOut THEN "NONE"
    ELSE CASE extoMem.opCode = "LD" -> "LOAD"
           [] extoMem.opCode = "ST" -> "STORE"
           [] OTHER -> "NONE"

\* The call of the memory stage.
DmCalled(globalStall) ==
    DmProcess([dm EXCEPT !.waitOut = FALSE], extoMem.result,
              MaskOf(extoMem.funct), OpType(globalStall), extoMem.datac)

-----------------------------------------------------------------------------
(* The stages are those of Core: they see one word of the instruction      *)
(* memory and, for a load, the answer of the data memory.  (memory() also  *)
(* hands the answer to a store down, which no stage reads.)                *)

Fetched == [a \in MemWord |-> Decode(ImCalled(FALSE).dataOut)]
AnswerOf(funct, m, addr) == m.dataOut
NoStore(funct, m, addr, value) == m

Stages == INSTANCE Core WITH
    WordSize <- FullSize, InstrSize <- 4, ZeroFunct <- 0,
    Memory <- {}, Programs <- {}, Images <- {}, Load <- AnswerOf, Store <- NoStore,
    imem <- Fetched, dmem <- DmCalled(FALSE)

\* doCycle().
DoCycle(globalStall) ==
    /\ im' = ImCalled(globalStall)
    /\ dm' = DmCalled(globalStall)
    /\ IF globalStall \/ im'.waitOut \/ dm'.waitOut
       THEN UNCHANGED pipeline
       ELSE Stages!Commit

-----------------------------------------------------------------------------
(* What the core is promised of its memories, and the abstract pipeline.   *)

WordAddr == 0 .. (FullSize \div 4) - 1

LoadWord(funct, m, addr) == ReadSubWord(MaskOf(funct), m[WordOf(addr)], LowOf(addr))
StoreWord(funct, m, addr, value) ==
    [m EXCEPT ![WordOf(addr)] = WriteSubWord(MaskOf(funct), @, LowOf(addr), value)]

CORE == INSTANCE Core WITH
    WordSize <- FullSize, InstrSize <- 4, ZeroFunct <- 0,
    Memory <- [WordAddr -> MemWord], Load <- LoadWord, Store <- StoreWord,
    Programs <- [MemWord -> Stages!Instr], Images <- [WordAddr -> MemWord],
    imem <- [a \in MemWord |-> Decode(ImContents(im)[WordOf(a)])],
    dmem <- DmContents(dm)

\* The BasicSimulator constructor.
SimulatorInit == (\E r \in Resets : im = r.im /\ dm = r.dm) /\ CORE!Init

\* The FtoDC constructor: 0x13 is ADDI x0, x0, 0, at address 0, not in the
\* program.
Nop == [opCode |-> "OPI", funct |-> 0, rd |-> 0, rs1 |-> 0, rs2 |-> 0, imm |-> 0]

\* doCore() sets the pc; every other register is what the memory held.
DoCoreInit ==
    \E l \in Leftovers :
        /\ im = l.im /\ dm = l.dm
        /\ pc = 0
        /\ ftoDC = [instr |-> Nop, pc |-> 0, we |-> TRUE]
        /\ dctoEx = l.dctoEx
        /\ extoMem = l.extoMem
        /\ memtoWB = l.memtoWB
        /\ regFile = l.regFile
        /\ leftover \in Stages!Found(dctoEx)

Init == SimulatorInit \/ DoCoreInit

\* run() passes 0, doCore() the constant it was given; 1 stops it for ever.
Next == DoCycle(FALSE)

Spec == Init /\ [][Next]_vars /\ WF_vars(Next)

-----------------------------------------------------------------------------
(* Properties.                                                             *)

\* Whatever the registers held at first, the pipeline comes to hold only
\* what its stages compute, with current operands and on the path of the
\* program, and stays so.
Settled == CORE!StagesFaithful /\ CORE!OperandsCurrent /\ CORE!PathFollowed
Settles == <>[]Settled

\* No two memories, however each one waits, hold each other up: cycles that
\* commit, and bring a valid instruction to the memory stage, never end.
KeepsRetiring == []<>(extoMem.we /\ ~im.waitOut /\ ~dm.waitOut)
=============================================================================
