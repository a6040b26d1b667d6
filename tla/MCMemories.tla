----------------------------- MODULE MCMemories -----------------------------
(***************************************************************************)
(* Every memory under MemoryClient, with two-valued bytes.                 *)
(*                                                                         *)
(* IncompleteMemory and SimpleMemory: every mask at every address of a     *)
(* word, and some of the next one.  CacheMemory: two places, lines of two  *)
(* words, two tags, so every way a line can enter, be written and leave;   *)
(* its next level answers at once, or the second call of every access.     *)
(* DirectMemory: the same as the plain ones, but its port word is only     *)
(* written, with word stores; no word store reaches it in the array.       *)
(* DirectLoadMemory, the instruction memory: loads only.                   *)
(***************************************************************************)
EXTENDS CacheClient

M == INSTANCE Memories
D == INSTANCE DirectMemory WITH PortWord <- 1

MCAddr == 0 .. (4 * 8 - 1)

R(op, mask, addr, data) == [op |-> op, mask |-> mask, addr |-> addr, data |-> data]

PlainRequests ==
    [op : {"LOAD"}, mask : Masks \ {"LONG"}, addr : 0 .. 3, data : {0}]
    \cup [op : {"STORE"}, mask : {"BYTE", "HALF", "WORD"}, addr : 0 .. 3, data : {6, 9}]
    \cup {R("LOAD", "HALF", 4, 0), R("STORE", "BYTE", 5, 1)}

\* Lines 0 and 2 share place 0; line 1 has place 1.
CacheRequests ==
    {R("LOAD", "BYTE", 7, 0), R("STORE", "BYTE", 6, 1), R("STORE", "HALF", 20, 1),
     R("STORE", "WORD", 8, 5)}

SlowCacheRequests == {R("LOAD", "WORD", 16, 0), R("STORE", "BYTE", 6, 1)}

DirectRequests ==
    {r \in PlainRequests : WordOf(r.addr) # 1 /\ r.data # 6} \cup {R("STORE", "WORD", 4, 3)}

LoadOnlyRequests == {r \in PlainRequests : r.op = "LOAD"}

MCRequests == DirectRequests \cup PlainRequests \cup CacheRequests \cup SlowCacheRequests

Data == [w \in WordAddr |-> (7 * w + 4) % 16]

Simple == [data |-> Data, dataOut |-> 0, waitOut |-> FALSE]

\* pendingWrite starts cleared; the constructor leaves it to chance.
Incomplete ==
    [data |-> Data, pendingWrite |-> FALSE, valueLoaded |-> 0, dataOut |-> 0,
     waitOut |-> FALSE]

\* Another MemoryInterface: it answers the second call of every access.
Slow == [data |-> Data, dataOut |-> 0, waitOut |-> FALSE, slow |-> TRUE]

Direct == [data |-> Data, out |-> Data[1], dataOut |-> 0, waitOut |-> FALSE]

LoadOnly == [data |-> Data, dataOut |-> 0, waitOut |-> FALSE, loadOnly |-> TRUE]

MCResets == {LoadOnly, Direct, Simple, Incomplete, EmptyCache(Simple), EmptyCache(Slow)}

IsIncomplete(m) == "pendingWrite" \in DOMAIN m
IsSlow(m) == "slow" \in DOMAIN m
IsDirect(m) == "out" \in DOMAIN m
IsLoadOnly(m) == "loadOnly" \in DOMAIN m

MCRequestsOf(m) ==
    CASE IsCache(m) -> IF IsSlow(m.next) THEN SlowCacheRequests ELSE CacheRequests
      [] IsDirect(m) -> DirectRequests
      [] IsLoadOnly(m) -> LoadOnlyRequests
      [] OTHER -> PlainRequests

\* Who reads the port sees the last word stored to it.
MCContents(m) ==
    CASE IsCache(m) -> CacheContents(m)
      [] IsDirect(m) -> [m.data EXCEPT ![1] = m.out]
      [] OTHER -> m.data

MCNextProcess(m, addr, mask, opType, dataIn) ==
    IF IsSlow(m) /\ opType # "NONE" /\ ~m.waitOut
    THEN [m EXCEPT !.waitOut = TRUE]
    ELSE M!SimpleProcess(m, addr, mask, opType, dataIn)

MCProcess(m, addr, mask, opType, dataIn) ==
    CASE IsCache(m) -> CacheProcess(m, addr, mask, opType, dataIn)
      [] IsIncomplete(m) -> M!IncompleteProcess(m, addr, mask, opType, dataIn)
      [] IsDirect(m) -> D!DirectProcess(m, addr, mask, opType, dataIn)
      [] IsLoadOnly(m) -> D!DirectLoadProcess(m, addr, mask, opType, dataIn)
      [] OTHER -> M!SimpleProcess(m, addr, mask, opType, dataIn)

=============================================================================
