----------------------------- MODULE VivadoCore -----------------------------
(***************************************************************************)
(* The pipeline of vivado/core.cpp.  It is the one of core.cpp, except     *)
(* that the register file exists twice, a RAM with one read port each: the *)
(* first operand is read from regFile, the second one and the data of a    *)
(* store from regFileCopy, and the write back stage writes both.           *)
(***************************************************************************)
EXTENDS Core

VARIABLE regFileCopy

vivadoVars == <<vars, regFileCopy>>

\* The same pipeline with the copy for its only register file.
OnCopy == INSTANCE Core WITH regFile <- regFileCopy

\* decode() and the forwarding: each operand from its own register file.
TwoFilesOut ==
    [ForwardedOut EXCEPT !.rhs = OnCopy!ForwardedOut.rhs,
                         !.datac = OnCopy!ForwardedOut.datac]

\* The constructor sets the stack pointer in regFile only.
VivadoInit == Init /\ regFileCopy = [r \in Reg |-> 0]

\* Mutant: the copy is not written in a cycle in which decode waits.
WriteCopyUnlessStalled ==
    IF WritebackOut.we /\ WritebackOut.useRd /\ ~StallDecode
    THEN [regFileCopy EXCEPT ![WritebackOut.rd] = WritebackOut.value]
    ELSE regFileCopy

\* writeback() writes its value to both files.
WriteCopy ==
    IF WritebackOut.we /\ WritebackOut.useRd
    THEN [regFileCopy EXCEPT ![WritebackOut.rd] = WritebackOut.value]
    ELSE regFileCopy

\* The commits of a cycle nobody stalls: Core's, with the two operands that
\* differ and the second register file.
VivadoCommit ==
    /\ IF StallDecode
       THEN /\ UNCHANGED <<pc, ftoDC>>
            /\ dctoEx' = Bubble
       ELSE /\ pc' = NextPcOut
            /\ ftoDC' = [FetchOut EXCEPT !.we = FetchSurvives]
            /\ dctoEx' = [TwoFilesOut EXCEPT !.we = @ /\ DecodeSurvives]
    /\ extoMem' = ExecuteOut
    /\ memtoWB' = MemoryOut
    /\ leftover' \in Found(dctoEx')
    /\ regFile' = IF WritebackOut.we /\ WritebackOut.useRd
                  THEN [regFile EXCEPT ![WritebackOut.rd] = WritebackOut.value]
                  ELSE regFile
    /\ regFileCopy' = WriteCopy

\* Mutant: the memory is asked in a stalled cycle too.
DmemAskedAnyway(globalStall) == DmemOut

\* What the call of dm.process() leaves: opType is NONE in a stalled cycle.
DmemAsked(globalStall) == IF globalStall THEN dmem ELSE DmemOut

\* One call of doCycle().  The memories never wait, so globalStall is the only
\* stall, but the data memory is called in every cycle.
VivadoCycle(globalStall) ==
    /\ IF globalStall
       THEN UNCHANGED <<pc, ftoDC, dctoEx, extoMem, memtoWB, leftover,
                        regFile, regFileCopy>>
       ELSE VivadoCommit
    /\ dmem' = DmemAsked(globalStall)
    /\ UNCHANGED imem

VivadoNext == \E globalStall \in BOOLEAN : VivadoCycle(globalStall)

VivadoSpec == VivadoInit /\ [][VivadoNext]_vivadoVars
=============================================================================
