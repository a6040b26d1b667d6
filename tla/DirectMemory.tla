---------------------------- MODULE DirectMemory -----------------------------
(***************************************************************************)
(* The memories of vivado/core.h, for INTERFACE_SIZE 4: DirectMemory, with *)
(* an output port in the place of one word, and DirectLoadMemory, which    *)
(* only loads.  The array and the port are arguments of process(); as in   *)
(* Memories they are fields of its record here.  Neither one ever waits.   *)
(***************************************************************************)
EXTENDS SubWord

CONSTANT PortWord    \* 0x40000

\* The LOAD switch of both; the case of LONG is commented out.
DirectLoad(m, addr, mask) ==
    IF mask = "LONG" THEN m
    ELSE [m EXCEPT !.dataOut = ReadSubWord(mask, m.data[WordOf(addr)], LowOf(addr))]

\* Word stores to the port leave the array alone; a narrower store of the same
\* word goes to the array, where no word store can ever reach it.
DirectStore(m, addr, mask, dataIn) ==
    CASE mask = "LONG" -> m
      [] mask = "WORD" /\ WordOf(addr) = PortWord -> [m EXCEPT !.out = dataIn]
      [] OTHER ->
           [m EXCEPT !.data[WordOf(addr)] = WriteSubWord(mask, @, LowOf(addr), dataIn)]

DirectProcess(m, addr, mask, opType, dataIn) ==
    LET answered == [m EXCEPT !.waitOut = FALSE] IN
    CASE opType = "LOAD" -> DirectLoad(answered, addr, mask)
      [] opType = "STORE" -> DirectStore(answered, addr, mask, dataIn)
      [] OTHER -> answered

DirectLoadProcess(m, addr, mask, opType, dataIn) ==
    LET answered == [m EXCEPT !.waitOut = FALSE] IN
    IF opType = "LOAD" THEN DirectLoad(answered, addr, mask) ELSE answered
=============================================================================
