------------------------------ MODULE Memories ------------------------------
(***************************************************************************)
(* The two plain memories of memoryInterface.h, for INTERFACE_SIZE 4.  A   *)
(* call of process() is a function of the record of everything it reads or *)
(* writes: the object's fields and the caller's dataOut and waitOut, which *)
(* are references and keep their values when no statement assigns them.    *)
(***************************************************************************)
EXTENDS SubWord

CONSTANT WordAddr    \* indices of the data array

IncompleteMemoryRecord ==
    [data : [WordAddr -> MemWord], pendingWrite : BOOLEAN,
     valueLoaded : MemWord, dataOut : MemWord, waitOut : BOOLEAN]

\* The first call of a sub-word store: read the word it is part of.
BeginSubWordStore(m, addr) ==
    [m EXCEPT !.waitOut = TRUE, !.pendingWrite = TRUE,
              !.valueLoaded = m.data[WordOf(addr)]]

\* A load; there is no case for LONG, which leaves dataOut alone.
IncompleteLoad(m, addr, mask) ==
    [m EXCEPT !.waitOut = FALSE, !.pendingWrite = FALSE,
              !.dataOut = IF mask = "LONG" THEN @
                          ELSE ReadSubWord(mask, m.data[WordOf(addr)], LowOf(addr))]

\* Mutant: the second call merges into what was last read, not the word.
FinishStoreKeepsPending(m, addr, mask, dataIn) ==
    [m EXCEPT !.waitOut = FALSE,
              !.data[WordOf(addr)] =
                  WriteSubWord(mask, m.valueLoaded, LowOf(addr), dataIn)]

\* A word store, or the second call of a sub-word one, which merges into the
\* word the first one read.  LONG stores the initial value of valToStore.
FinishStore(m, addr, mask, dataIn) ==
    [m EXCEPT !.waitOut = FALSE, !.pendingWrite = FALSE,
              !.data[WordOf(addr)] =
                  IF mask = "LONG" THEN 0
                  ELSE WriteSubWord(mask, m.valueLoaded, LowOf(addr), dataIn)]

IncompleteProcess(m, addr, mask, opType, dataIn) ==
    CASE opType = "LOAD" -> IncompleteLoad(m, addr, mask)
      [] opType = "STORE" /\ mask # "WORD" /\ ~m.pendingWrite ->
            BeginSubWordStore(m, addr)
      [] opType = "STORE" /\ (mask = "WORD" \/ m.pendingWrite) ->
            FinishStore(m, addr, mask, dataIn)
      [] OTHER -> m

SimpleMemoryRecord ==
    [data : [WordAddr -> MemWord], dataOut : MemWord, waitOut : BOOLEAN]

\* With INTERFACE_SIZE 4, LONG is one word.
SimpleProcess(m, addr, mask, opType, dataIn) ==
    CASE opType = "LOAD" ->
            [m EXCEPT !.waitOut = FALSE,
                !.dataOut = ReadSubWord(mask, m.data[WordOf(addr)], LowOf(addr))]
      [] opType = "STORE" ->
            [m EXCEPT !.waitOut = FALSE,
                !.data[WordOf(addr)] = WriteSubWord(mask, @, LowOf(addr), dataIn)]
      [] OTHER -> [m EXCEPT !.waitOut = FALSE]
=============================================================================
