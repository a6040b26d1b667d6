---------------------------- MODULE CacheMemory -----------------------------
(***************************************************************************)
(* The four-way write-back cache of cacheMemory.h, for INTERFACE_SIZE 4.   *)
(* As in Memories, a call of process() is a function of the record of the  *)
(* object's fields and of the caller's dataOut and waitOut; the next level *)
(* is a record in it, with a process() of its own as a parameter.          *)
(*                                                                         *)
(* A miss is served by a countdown in cacheState, one word of the line per *)
(* call: MISS .. LAST_STORE writes the victim back, FIRST_LOAD .. 2 reads  *)
(* the new line, 1 commits it.  The access statistics are left out, and    *)
(* LONG accesses of the cache itself, which no caller makes.               *)
(***************************************************************************)
EXTENDS SubWord

CONSTANTS
    Places,        \* SET_SIZE: 64
    LineWords,     \* LINE_SIZE / INTERFACE_SIZE: 4
    Tags,          \* 2^TAG_SIZE
    AgeSize,       \* ages are compared on 16 bits: 2^16
    NextProcess(_, _, _, _, _)    \* nextLevel->process()

Ways == 0 .. 3
LineBytes == 4 * LineWords
WordAddr == 0 .. (Tags * Places * LineWords) - 1

StateMiss == 2 * LineWords + 2
StateLastStore == LineWords + 3
StateFirstLoad == LineWords + 2
StateLastLoad == 2

Place(addr) == (addr \div LineBytes) % Places
Tag(addr) == addr \div (LineBytes * Places)
Offset(addr) == WordOf(addr) % LineWords

Line == [tag : 0 .. Tags - 1, words : [0 .. LineWords - 1 -> MemWord]]
NullLine == [tag |-> 0, words |-> [k \in 0 .. LineWords - 1 |-> 0]]

\* The constructor, above next level n; the fields it does not assign are
\* only read after a miss has assigned them.
EmptyCache(n) ==
    [slots |-> [p \in 0 .. Places - 1 |-> [w \in Ways |->
                  [line |-> NullLine, age |-> 0, valid |-> FALSE, dirty |-> FALSE]]],
     cacheState |-> 0, cycle |-> 0, newVal |-> NullLine, oldVal |-> NullLine,
     isValid |-> FALSE, setMiss |-> 0, wasStore |-> FALSE, setStore |-> 0,
     placeStore |-> 0, valStore |-> NullLine, valDirty |-> FALSE,
     dataOutStore |-> 0, nextLevelAddr |-> 0, nextLevelOpType |-> "NONE",
     nextLevelDataIn |-> 0, next |-> n, dataOut |-> 0, waitOut |-> FALSE]

HitWays(c, addr) ==
    {w \in Ways : /\ c.slots[Place(addr)][w].valid
                  /\ c.slots[Place(addr)][w].line.tag = Tag(addr)}

\* The last way that hits wins.
HitWay(c, addr) == CHOOSE w \in HitWays(c, addr) : \A v \in HitWays(c, addr) : v <= w

\* Mutant: a way as old as the others will do.
OldestNotStrictly(c, p) ==
    CHOOSE w \in Ways : \A v \in Ways : c.slots[p][w].age <= c.slots[p][v].age

\* The way strictly older than the three others, or else the last one.
Oldest(c, p) ==
    LET strictly == {w \in Ways : \A v \in Ways \ {w} :
                        c.slots[p][w].age < c.slots[p][v].age}
    IN  IF strictly = {} THEN 3 ELSE CHOOSE w \in strictly : TRUE

-----------------------------------------------------------------------------
(* The steps of process().                                                 *)

\* Mutant: the commit asks to be called once more.
CommitStillWaits(c) ==
    [c EXCEPT !.slots[c.placeStore][c.setStore] =
                  [line |-> c.valStore, age |-> c.cycle, valid |-> TRUE,
                   dirty |-> c.valDirty],
              !.wasStore = FALSE, !.cacheState = 0, !.waitOut = TRUE]

\* Mutant: the committed line keeps the dirty bit of the one it replaces.
CommitKeepsDirty(c) ==
    [c EXCEPT !.slots[c.placeStore][c.setStore].line = c.valStore,
              !.slots[c.placeStore][c.setStore].age = c.cycle,
              !.slots[c.placeStore][c.setStore].valid = TRUE,
              !.dataOut = c.dataOutStore, !.wasStore = FALSE,
              !.cacheState = 0, !.waitOut = FALSE]

\* The call after a store hit or a refill writes the array, whatever it asks
\* for, and does not call the next level.
Commit(c) ==
    [c EXCEPT !.slots[c.placeStore][c.setStore] =
                  [line |-> c.valStore, age |-> c.cycle, valid |-> TRUE,
                   dirty |-> c.valDirty],
              !.dataOut = c.dataOutStore, !.wasStore = FALSE,
              !.cacheState = 0, !.waitOut = FALSE]

\* Mutant: a store hit writes the array at once.
HitWritesAtOnce(c, addr, mask, opType, dataIn) ==
    LET way == HitWay(c, addr)
        slot == c.slots[Place(addr)][way]
        word == slot.line.words[Offset(addr)]
        line == [slot.line EXCEPT !.words[Offset(addr)] =
                    WriteSubWord(mask, word, LowOf(addr), dataIn)]
    IN  IF opType = "STORE"
        THEN [c EXCEPT !.slots[Place(addr)][way].line = line,
                       !.placeStore = Place(addr), !.setStore = way,
                       !.valStore = line, !.valDirty = TRUE, !.wasStore = TRUE]
        ELSE [c EXCEPT !.dataOut = ReadSubWord(mask, word, LowOf(addr))]

\* An access to a cached line: a store is kept for the commit.
Hit(c, addr, mask, opType, dataIn) ==
    LET way == HitWay(c, addr)
        line == c.slots[Place(addr)][way].line
        word == line.words[Offset(addr)]
    IN  IF opType = "STORE"
        THEN [c EXCEPT !.placeStore = Place(addr), !.setStore = way,
                       !.valStore = [line EXCEPT !.words[Offset(addr)] =
                            WriteSubWord(mask, word, LowOf(addr), dataIn)],
                       !.valDirty = TRUE, !.wasStore = TRUE]
        ELSE [c EXCEPT !.dataOut = ReadSubWord(mask, word, LowOf(addr))]

\* A clean victim skips the states that write it back.
ChooseVictim(c, addr) ==
    LET way == Oldest(c, Place(addr))
        victim == c.slots[Place(addr)][way]
    IN  [c EXCEPT !.newVal = [NullLine EXCEPT !.tag = Tag(addr)],
                  !.setMiss = way, !.oldVal = victim.line,
                  !.isValid = victim.valid,
                  !.cacheState = IF victim.dirty THEN @ ELSE StateLastStore - 1]

\* Mutant: the word is written back into the line that replaces it.
WriteBackToNewLine(c, addr) ==
    LET k == c.cacheState - StateLastStore IN
    [c EXCEPT !.nextLevelAddr = addr - (addr % LineBytes) + 4 * k,
              !.nextLevelDataIn = c.oldVal.words[k],
              !.nextLevelOpType = IF c.isValid THEN "STORE" ELSE "NONE"]

\* Hand one word of the victim to the next level.
WriteBack(c, addr) ==
    LET k == c.cacheState - StateLastStore
        oldAddress == LineBytes * (Places * c.oldVal.tag + Place(addr))
    IN  [c EXCEPT !.nextLevelAddr = oldAddress + 4 * k,
                  !.nextLevelDataIn = c.oldVal.words[k],
                  !.nextLevelOpType = IF c.isValid THEN "STORE" ELSE "NONE"]

\* Take the word the last call loaded, and ask for the one below it.
Refill(c, addr) ==
    LET k == c.cacheState - StateLastLoad
        taken == IF c.cacheState = StateFirstLoad THEN c
                 ELSE [c EXCEPT !.newVal.words[k] = c.next.dataOut]
    IN  IF c.cacheState = StateLastLoad THEN taken
        ELSE [taken EXCEPT
                !.nextLevelAddr = addr - (addr % LineBytes) + 4 * (k - 1),
                !.nextLevelOpType = "LOAD"]

\* The line is there: do the access on it and keep it for the commit.
Fill(c, addr, mask, opType, dataIn) ==
    LET word == c.newVal.words[Offset(addr)]
        stored == IF opType = "STORE"
                  THEN WriteSubWord(mask, word, LowOf(addr), dataIn) ELSE word
        line == [c.newVal EXCEPT !.words[Offset(addr)] = stored]
        value == ReadSubWord(mask, stored, LowOf(addr))
    IN  [c EXCEPT !.newVal = line, !.valStore = line, !.placeStore = Place(addr),
                  !.setStore = c.setMiss, !.valDirty = opType = "STORE",
                  !.nextLevelOpType = "NONE", !.dataOut = value,
                  !.dataOutStore = value]

\* One state of the countdown.
ServeMiss(c, addr, mask, opType, dataIn) ==
    LET chosen == IF c.cacheState = StateMiss THEN ChooseVictim(c, addr) ELSE c
        moved == IF chosen.cacheState >= StateLastStore
                 THEN WriteBack(chosen, addr) ELSE Refill(chosen, addr)
        counted == [moved EXCEPT !.cacheState = @ - 1]
    IN  IF counted.cacheState = 1
        THEN Fill(counted, addr, mask, opType, dataIn) ELSE counted

\* Every call that does not commit ends with a call of the next level, which
\* repeats the last one when nothing new was asked.
CallNextLevel(c) ==
    LET n == NextProcess(c.next, c.nextLevelAddr, "LONG", c.nextLevelOpType,
                         c.nextLevelDataIn)
    IN  [c EXCEPT !.next = n,
                  !.waitOut = n.waitOut \/ c.cacheState # 0 \/ c.wasStore]

CacheProcess(old, addr, mask, opType, dataIn) ==
    LET c == [old EXCEPT !.cycle = (@ + 1) % AgeSize]
    IN  CASE old.next.waitOut -> CallNextLevel(old)
          [] ~old.next.waitOut /\ (c.wasStore \/ c.cacheState = 1) -> Commit(c)
          [] OTHER ->
               CallNextLevel(
                 IF opType = "NONE" THEN c
                 ELSE IF c.cacheState # 0
                 THEN ServeMiss(c, addr, mask, opType, dataIn)
                 ELSE IF HitWays(c, addr) # {}
                 THEN Hit(c, addr, mask, opType, dataIn)
                 ELSE [c EXCEPT !.cacheState = StateMiss])

-----------------------------------------------------------------------------
(* What a reader of the cache sees, and what must hold between the array   *)
(* and the next level.                                                     *)

CacheContents(c) ==
    [a \in WordAddr |->
        IF HitWays(c, 4 * a) # {}
        THEN c.slots[Place(4 * a)][HitWay(c, 4 * a)].line.words[Offset(4 * a)]
        ELSE c.next.data[a]]

\* The next level holds the words of line l of place p.
Below(c, p, l) ==
    \A k \in 0 .. LineWords - 1 :
        c.next.data[LineWords * (Places * l.tag + p) + k] = l.words[k]

\* A line without its dirty bit may be dropped: the next level has it.  So
\* may the victim of a miss, once its write back is over.
LinesBelow(c) ==
    /\ \A p \in 0 .. Places - 1, w \in Ways :
          LET s == c.slots[p][w] IN s.valid /\ ~s.dirty => Below(c, p, s.line)
    /\ c.cacheState = 1 =>
          LET s == c.slots[c.placeStore][c.setStore] IN
          s.valid => Below(c, c.placeStore, s.line)

\* Ways 0 to 2 tie with one another for ever, so they are never chosen.
LastWayOnly(c) ==
    \A p \in 0 .. Places - 1, w \in 0 .. 2 : ~c.slots[p][w].valid
=============================================================================
