---------------------------- MODULE MCOnMemories ----------------------------
(***************************************************************************)
(* CoreOnMemories with two-valued bytes: sixteen addresses, four words of  *)
(* instructions, four of data.  The memories of a core are two             *)
(* SimpleMemory (the simulator), two IncompleteMemory (doCore()) or two    *)
(* caches (the constructor's other choice, above a level that has LONG).   *)
(***************************************************************************)
EXTENDS CoreOnMemories, Sequences

CONSTANT NextProcess(_, _, _, _, _)

M == INSTANCE Memories
C == INSTANCE CacheMemory WITH Places <- 1, LineWords <- 2, Tags <- 2, AgeSize <- 2

IsIncomplete(m) == "pendingWrite" \in DOMAIN m
IsCache(m) == "slots" \in DOMAIN m

\* process() is virtual: the object decides.
MCProcess(m, addr, mask, opType, dataIn) ==
    CASE IsCache(m) -> C!CacheProcess(m, addr, mask, opType, dataIn)
      [] IsIncomplete(m) -> M!IncompleteProcess(m, addr, mask, opType, dataIn)
      [] OTHER -> M!SimpleProcess(m, addr, mask, opType, dataIn)

MCNextProcess(m, addr, mask, opType, dataIn) ==
    M!SimpleProcess(m, addr, mask, opType, dataIn)

MCContents(m) == IF IsCache(m) THEN C!CacheContents(m) ELSE m.data

MCAlu(f, a, b) == IF f % 16 = 8 THEN (a - b) % FullSize ELSE (a + b) % FullSize
MCTaken(f, a, b) == IF f = 0 THEN a = b ELSE a # b

I(op, f, rd, rs1, rs2, imm) ==
    [opCode |-> op, funct |-> f, rd |-> rd, rs1 |-> rs1, rs2 |-> rs2, imm |-> imm]

\* The instruction each word of the instruction memory stands for.
Repertoire ==
    <<I("OPI", 0, 1, 1, 0, 3), I("ST", 0, 0, 1, 2, 0), I("LD", 2, 2, 1, 0, 0),
      I("BR", 1, 0, 1, 2, 8), I("ST", 1, 0, 2, 1, 5), I("LD", 0, 1, 2, 0, 1),
      I("JAL", 0, 2, 0, 0, 12), I("ST", 2, 0, 1, 1, 9), I("LD", 5, 2, 0, 0, 6),
      I("JALR", 0, 1, 2, 0, 4), I("LUI", 0, 1, 0, 0, 7), I("OP", 8, 2, 2, 1, 0),
      I("SYSTEM", 0, 0, 0, 0, 0), I("LD", 4, 1, 1, 0, 2), I("AUIPC", 0, 2, 0, 0, 4),
      I("ST", 0, 0, 2, 1, 3)>>

MCDecode(word) == Repertoire[word + 1]

Data == [w \in WordAddr |-> (7 * w + 4) % 16]

Simple(data) == [data |-> data, dataOut |-> 0, waitOut |-> FALSE]
Incomplete(data, pending) ==
    [data |-> data, pendingWrite |-> pending, valueLoaded |-> 0, dataOut |-> 0,
     waitOut |-> FALSE]

\* Programs with stores and loads of every size next to one another.
Straight == {[w \in WordAddr |-> (w * k + j) % 16] : k \in {1, 3, 5, 7}, j \in 0 .. 15}
Dense == [WordAddr -> {0, 1, 4, 5}]

MCResets ==
    {[im |-> C!EmptyCache(Simple(code)), dm |-> C!EmptyCache(Simple(Data))] :
        code \in Straight}
    \cup [im : {Simple(code) : code \in Straight \cup Dense}, dm : {Simple(Data)}]

\* A valid store, load and branch of no program, and a dropped one.
LeftInDecode ==
    [pc |-> 9, opCode |-> "BR", funct |-> 0, rd |-> 1, rs1 |-> 2, rs2 |-> 1, lhs |-> 5,
     rhs |-> 5, datac |-> 2, nextPCDC |-> 3, isBranch |-> TRUE, useRs1 |-> TRUE,
     useRs2 |-> TRUE, useRs3 |-> TRUE, useRd |-> TRUE, we |-> TRUE]

LeftInExecute ==
    [pc |-> 6, opCode |-> "ST", funct |-> 0, rd |-> 2, result |-> 13, datac |-> 7,
     nextPC |-> 1, isBranch |-> TRUE, isLongInstruction |-> TRUE, useRd |-> TRUE,
     we |-> TRUE]

LeftInMemory ==
    [result |-> 11, rd |-> 1, useRd |-> TRUE, address |-> 3, valueToWrite |-> 8,
     isLoad |-> TRUE, isStore |-> TRUE, we |-> TRUE]

MCLeftovers ==
    [im : {Incomplete(code, FALSE) : code \in Straight},
     dm : {Incomplete(Data, pending) : pending \in BOOLEAN},
     dctoEx : {LeftInDecode, [LeftInDecode EXCEPT !.opCode = "LD"],
               [LeftInDecode EXCEPT !.we = FALSE]},
     extoMem : {LeftInExecute, [LeftInExecute EXCEPT !.opCode = "LD"],
                [LeftInExecute EXCEPT !.we = FALSE]},
     memtoWB : {LeftInMemory, [LeftInMemory EXCEPT !.rd = 0]},
     regFile : {[r \in 0 .. 2 |-> 14 - r]}]

-----------------------------------------------------------------------------
(* Properties.                                                             *)

\* The first call of a sub-word store that nobody made: the constructor of
\* IncompleteMemory leaves pendingWrite uninitialised.
StalePending ==
    /\ IsIncomplete(dm) /\ dm.pendingWrite
    /\ ~ /\ extoMem.we /\ extoMem.opCode = "ST" /\ MaskOf(extoMem.funct) # "WORD"
         /\ dm.valueLoaded = dm.data[WordOf(extoMem.result)]

\* The memories keep the promise Core is built on, which memory waits first,
\* for how long, and whatever the other one was asked in between: a cycle
\* either has no effect or is the one of a core whose memories answer at once.
StepsAreCore == [][~StalePending => [CORE!Next]_(CORE!vars)]_vars

\* A pendingWrite left to chance spoils one access of the program at most,
\* and the memory itself never leaves one behind.
OneStaleStore ==
    [][/\ StalePending' => StalePending
       /\ OpType(FALSE) # "NONE" => ~StalePending']_vars
=============================================================================
