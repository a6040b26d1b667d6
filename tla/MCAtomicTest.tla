---------------------------- MODULE MCAtomicTest ----------------------------
(***************************************************************************)
(* The tests of one addition, one load and one store, on caches with lines *)
(* of two words above IncompleteMemory; the words nobody initialised hold  *)
(* an instruction without effect.                                          *)
(***************************************************************************)
EXTENDS AtomicTest, Sequences

CONSTANT NextProcess(_, _, _, _, _)

M == INSTANCE Memories
C == INSTANCE CacheMemory WITH Places <- 1, LineWords <- 2, Tags <- 2, AgeSize <- 4

MCNextProcess(m, addr, mask, opType, dataIn) ==
    M!IncompleteProcess(m, addr, mask, opType, dataIn)
MCProcess(c, addr, mask, opType, dataIn) ==
    C!CacheProcess(c, addr, mask, opType, dataIn)
MCContents(c) == C!CacheContents(c)

MCNewCache(data) ==
    C!EmptyCache([data |-> data, pendingWrite |-> FALSE, valueLoaded |-> 0,
                  dataOut |-> 0, waitOut |-> FALSE])
MCArray(c) == c.next.data

MCAlu(f, a, b) == (a + b) % FullSize
MCTaken(f, a, b) == a = b

I(op, f, rd, rs1, rs2, imm) ==
    [opCode |-> op, funct |-> f, rd |-> rd, rs1 |-> rs1, rs2 |-> rs2, imm |-> imm]

Repertoire ==
    <<I("MISC_MEM", 0, 0, 0, 0, 0), I("OPI", 0, 1, 1, 0, 3), I("LD", 2, 2, 1, 0, 1),
      I("ST", 2, 0, 1, 2, 1)>>

MCDecode(word) == IF word < 4 THEN Repertoire[word + 1] ELSE Repertoire[1]

MCTests ==
    [instruction : 1 .. 3, regs : {[r \in 0 .. 2 |-> r + r]}, address : {3},
     value : {6}]
=============================================================================
