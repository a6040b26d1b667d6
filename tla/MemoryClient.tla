---------------------------- MODULE MemoryClient ----------------------------
(***************************************************************************)
(* How doCycle() uses a memory.  Each cycle calls process() once.  An      *)
(* access is repeated, its arguments frozen with the pipeline, until the   *)
(* call clears waitOut; in between the caller's globalStall, or a stalled  *)
(* instruction memory, may turn a call into NONE, as in cycles that have   *)
(* nothing to ask.                                                         *)
(*                                                                         *)
(* The memory is a parameter: its process() as a function of its record,   *)
(* and the words a reader of it would see.                                 *)
(***************************************************************************)
EXTENDS SubWord

CONSTANTS Process(_, _, _, _, _),   \* (record, addr, mask, opType, dataIn)
          Contents(_),              \* record -> [WordAddr -> MemWord]
          Resets,                   \* initial records
          Addr, Requests, NoRequest,
          RequestsOf(_)             \* record -> those the core may make of it

VARIABLES mem,      \* the memory, with the dataOut and waitOut it was given
          req,      \* the access the memory stage is waiting for
          answer    \* the last value loaded

vars == <<mem, req, answer>>

Init == mem \in Resets /\ req = NoRequest /\ answer = 0

\* An instruction that accesses the memory reaches its stage.
Ask(r) ==
    /\ req = NoRequest
    /\ req' = r
    /\ UNCHANGED <<mem, answer>>

\* The reference waitOut is core.stallDm, which doCycle() clears first.
Called(opType) ==
    Process([mem EXCEPT !.waitOut = FALSE], req.addr, req.mask, opType, req.data)

\* The cycle calls for the access; it is over when waitOut comes back false.
Retry ==
    /\ req # NoRequest
    /\ mem' = Called(req.op)
    /\ IF mem'.waitOut
       THEN UNCHANGED <<req, answer>>
       ELSE /\ req' = NoRequest
            /\ answer' = IF req.op = "LOAD" THEN mem'.dataOut ELSE answer

\* The cycle is stalled from outside: the same arguments, with NONE.
Suspended ==
    /\ req # NoRequest
    /\ mem' = Called("NONE")
    /\ UNCHANGED <<req, answer>>

\* No access in the memory stage.
Quiet ==
    /\ req = NoRequest
    /\ mem' = Process([mem EXCEPT !.waitOut = FALSE], 0, "WORD", "NONE", 0)
    /\ UNCHANGED <<req, answer>>

Ready == (\E r \in RequestsOf(mem) : Ask(r)) \/ Retry \/ Quiet

Next == Ready \/ Suspended

\* run() calls doCycle() for ever.
Spec == Init /\ [][Next]_vars /\ WF_vars(Retry)

-----------------------------------------------------------------------------
(* Properties.                                                             *)

\* Every access behaves as on an array of bytes: a load returns the bytes at
\* its address, a store changes those it covers, and nothing else changes
\* them, however many cycles the access takes and however it is suspended.
Abstract == INSTANCE ByteMemory WITH
    bytes <- [a \in Addr |->
                Slice(Contents(mem)[WordOf(a)], ByteSize, ByteWeight(LowOf(a)))],
    Images <- [Addr -> Byte]

ImplementsByteMemory == Abstract!Spec

\* The bytes change in the cycle that answers the access, and in no other: a
\* waiting store is not half done.  (Only a store that a cache has taken may
\* be written by the call with NONE of a suspended cycle.)
EffectWithAnswer ==
    [][mem' # mem /\ Contents(mem') # Contents(mem) /\ Ready =>
          req # NoRequest /\ req' = NoRequest]_vars

\* Every access is answered in the end, unless the caller goes on suspending
\* its cycles from outside for ever.
AccessAnswered == (<>[][Ready]_vars) => (req # NoRequest ~> req = NoRequest)
=============================================================================
