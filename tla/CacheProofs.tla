----------------------------- MODULE CacheProofs -----------------------------
(***************************************************************************)
(* Inside the cache, for every geometry, next level and client of          *)
(* MemoryClient.                                                           *)
(*                                                                         *)
(* It is direct-mapped: of the four ways of a place only the last one is   *)
(* ever filled.  The three others tie: their ages stay 0 for ever, as only *)
(* a way that is filled is stamped, and the way to fill must be strictly   *)
(* older than all the others, the last one excepted.  Between two calls    *)
(* the choice is in setMiss and setStore, which is why the invariant       *)
(* follows them.                                                           *)
(*                                                                         *)
(* No line is lost: a line the cache may drop is in the next level, if the *)
(* next level serves the LONG accesses it is asked for (SimpleMemory does; *)
(* IncompleteMemory, the type of the constructor's parameter, does not).   *)
(* A victim is in the array of the cache until the commit, and in the next *)
(* level word by word as the countdown goes: the invariant says how far    *)
(* the write back and the refill are in each of its states, and that the   *)
(* last call is repeated until the next level has answered it.             *)
(***************************************************************************)
EXTENDS CacheClient, MemoryProofs

CONSTANT Levels    \* what may stand below the cache

\* The memory under the client is the cache, above some next level.
OfCache ==
    /\ \A m, addr, mask, op, data :
          Process(m, addr, mask, op, data) = CacheProcess(m, addr, mask, op, data)
    /\ \A m \in Resets : \E n \in Levels : m = EmptyCache(n)
    /\ \A m : RequestsOf(m) \subseteq Requests

\* What the geometry and the requests must be for the places to exist.
Sized ==
    /\ Places \in Nat \ {0} /\ LineWords \in Nat \ {0}
    /\ NoRequest \notin Requests
    /\ \A r \in Requests : r.addr \in Nat

Fields ==
    {"slots", "cacheState", "cycle", "newVal", "oldVal", "isValid", "setMiss",
     "wasStore", "setStore", "placeStore", "valStore", "valDirty", "dataOutStore",
     "nextLevelAddr", "nextLevelOpType", "nextLevelDataIn", "next", "dataOut",
     "waitOut"}

\* Ways 0 to 2 are as the constructor left them.
Tied(c) ==
    /\ DOMAIN c = Fields
    /\ DOMAIN c.slots = 0 .. Places - 1
    /\ \A p \in 0 .. Places - 1 :
          /\ DOMAIN c.slots[p] = Ways
          /\ \A w \in 0 .. 2 : ~c.slots[p][w].valid /\ c.slots[p][w].age = 0

\* And the way being filled, if there is one, is the last one.
LastWayChosen(c) ==
    /\ c.cacheState \in 0 .. StateMiss
    /\ c.cacheState \notin {0, StateMiss} => c.setMiss = 3
    /\ c.cacheState = 1 \/ c.wasStore => c.setStore = 3

CInv(c) == Tied(c) /\ LastWayChosen(c)

-----------------------------------------------------------------------------
(* The places and ways.                                                    *)

\* Every address has a place, and the countdown has its four kinds of states.
LEMMA Geometry ==
    ASSUME Sized
    PROVE  /\ StateMiss \in Int /\ StateMiss > 3
           /\ LineBytes \in Nat \ {0}
           /\ \A addr \in Nat : Place(addr) \in 0 .. Places - 1
<1>1. LineBytes \in Nat \ {0}
    BY DEF Sized, LineBytes
<1>2. ASSUME NEW addr \in Nat PROVE Place(addr) \in 0 .. Places - 1
    <2>1. addr \div LineBytes \in Int
        BY <1>1
    <2> DEFINE q == addr \div LineBytes
    <2> HIDE DEF q
    <2>2. q % Places \in 0 .. Places - 1
        BY <2>1 DEF Sized, q
    <2> QED
        BY <2>2 DEF Place, q
<1> QED
    BY <1>1, <1>2 DEF Sized, StateMiss

\* An access can only hit the last way.
LEMMA HitsLastWay ==
    ASSUME Sized, NEW c, Tied(c), NEW addr \in Nat, HitWays(c, addr) # {}
    PROVE  HitWay(c, addr) = 3
<1>1. Place(addr) \in 0 .. Places - 1
    BY Geometry
<1>2. HitWays(c, addr) \subseteq {3}
    BY <1>1 DEF HitWays, Tied, Ways
<1>3. HitWays(c, addr) = {3}
    BY <1>2
<1> QED
    BY <1>3 DEF HitWay

\* And a miss can only choose it.
LEMMA ChoosesLastWay ==
    ASSUME NEW c, Tied(c), NEW p \in 0 .. Places - 1
    PROVE  Oldest(c, p) = 3
<1> DEFINE strictly == {w \in Ways : \A v \in Ways \ {w} :
                           c.slots[p][w].age < c.slots[p][v].age}
<1>1. ASSUME NEW w \in strictly PROVE w = 3
    <2>1. CASE w \in 0 .. 2
        <3>1. PICK v \in 0 .. 2 : v # w
            BY <2>1
        <3>2. c.slots[p][w].age = 0 /\ c.slots[p][v].age = 0
            BY <2>1, <3>1 DEF Tied
        <3>3. c.slots[p][w].age < c.slots[p][v].age
            BY <3>1 DEF Ways
        <3> QED
            BY <3>2, <3>3
    <2> QED
        BY <2>1 DEF Ways
<1>2. strictly = {} \/ strictly = {3}
    BY <1>1
<1>3. Oldest(c, p) = IF strictly = {} THEN 3 ELSE CHOOSE w \in strictly : TRUE
    BY DEF Oldest
<1> HIDE DEF strictly
<1> QED
    BY <1>2, <1>3

-----------------------------------------------------------------------------
(* The steps of process() preserve CInv.                                   *)

\* The commit fills the last way.
LEMMA CommitKeeps ==
    ASSUME Sized, NEW c, CInv(c), c.cacheState = 1 \/ c.wasStore
    PROVE  CInv(Commit(c))
<1> DEFINE s == [line |-> c.valStore, age |-> c.cycle, valid |-> TRUE, dirty |-> c.valDirty]
           d == [c EXCEPT !.slots[c.placeStore][3] = s, !.dataOut = c.dataOutStore,
                          !.wasStore = FALSE, !.cacheState = 0, !.waitOut = FALSE]
<1>1. Commit(c) = d
    BY DEF Commit, CInv, LastWayChosen
<1> HIDE DEF s
<1>2. /\ DOMAIN d = Fields
      /\ d.slots = [c.slots EXCEPT ![c.placeStore][3] = s]
      /\ d.cacheState = 0 /\ d.wasStore = FALSE
    BY DEF CInv, Tied, Fields
<1> HIDE DEF d
<1>3. Tied(d)
    BY <1>2 DEF CInv, Tied, Ways
<1>4. LastWayChosen(d)
    BY <1>2, Geometry DEF LastWayChosen
<1> QED
    BY <1>1, <1>3, <1>4 DEF CInv

\* A hit fills nothing, and a store hit chooses the last way.
LEMMA HitKeeps ==
    ASSUME Sized, NEW c, CInv(c), NEW addr \in Nat, HitWays(c, addr) # {},
           NEW mask, NEW opType, NEW dataIn
    PROVE  CInv(Hit(c, addr, mask, opType, dataIn))
<1> DEFINE h == Hit(c, addr, mask, opType, dataIn)
<1>1. /\ DOMAIN h = Fields /\ h.slots = c.slots
      /\ h.cacheState = c.cacheState /\ h.setMiss = c.setMiss
      /\ h.setStore = 3 \/ (h.setStore = c.setStore /\ h.wasStore = c.wasStore)
    BY HitsLastWay DEF CInv, Tied, Fields, Hit
<1> HIDE DEF h
<1>2. CInv(h)
    BY <1>1 DEF CInv, Tied, LastWayChosen
<1> QED
    BY <1>2 DEF h

\* A state of the countdown fills nothing, and the first one chooses.
LEMMA ServeMissKeeps ==
    ASSUME Sized, NEW c, CInv(c), NEW addr \in Nat, c.cacheState > 1,
           NEW mask, NEW opType, NEW dataIn
    PROVE  CInv(ServeMiss(c, addr, mask, opType, dataIn))
<1> DEFINE chosen == IF c.cacheState = StateMiss THEN ChooseVictim(c, addr) ELSE c
           moved == IF chosen.cacheState >= StateLastStore
                    THEN WriteBack(chosen, addr) ELSE Refill(chosen, addr)
           counted == [moved EXCEPT !.cacheState = @ - 1]
           served == IF counted.cacheState = 1
                     THEN Fill(counted, addr, mask, opType, dataIn) ELSE counted
<1>1. /\ DOMAIN chosen = Fields /\ chosen.slots = c.slots /\ chosen.setMiss = 3
      /\ chosen.setStore = c.setStore /\ chosen.wasStore = c.wasStore
      /\ chosen.cacheState \in 2 .. StateMiss
    <2>1. CASE c.cacheState = StateMiss
        <3>1. Oldest(c, Place(addr)) = 3
            BY Geometry, ChoosesLastWay DEF CInv
        <3>2. StateLastStore - 1 \in 2 .. StateMiss
            BY DEF Sized, StateLastStore, StateMiss
        <3>3. chosen = ChooseVictim(c, addr)
            BY <2>1
        <3> HIDE DEF chosen
        <3>4. /\ DOMAIN chosen = Fields /\ chosen.slots = c.slots
              /\ chosen.setMiss = Oldest(c, Place(addr))
              /\ chosen.setStore = c.setStore /\ chosen.wasStore = c.wasStore
              /\ chosen.cacheState \in {c.cacheState, StateLastStore - 1}
            BY <3>3 DEF CInv, Tied, Fields, ChooseVictim
        <3>5. StateMiss \in 2 .. StateMiss
            BY Geometry
        <3> QED
            BY <2>1, <3>1, <3>2, <3>4, <3>5
    <2>2. CASE c.cacheState # StateMiss
        <3>1. chosen = c
            BY <2>2
        <3> HIDE DEF chosen
        <3>2. c.setMiss = 3 /\ c.cacheState \in 2 .. StateMiss
            BY <2>2, Geometry DEF CInv, LastWayChosen
        <3> QED
            BY <3>1, <3>2 DEF CInv, Tied
    <2> QED
        BY <2>1, <2>2
<1> HIDE DEF chosen
<1>2. /\ DOMAIN moved = Fields /\ moved.slots = c.slots /\ moved.setMiss = 3
      /\ moved.setStore = c.setStore /\ moved.wasStore = c.wasStore
      /\ moved.cacheState \in 2 .. StateMiss
    <2>1. CASE chosen.cacheState >= StateLastStore
        BY <1>1, <2>1 DEF WriteBack, Fields
    <2>2. CASE ~(chosen.cacheState >= StateLastStore)
        BY <1>1, <2>2 DEF Refill, Fields
    <2> QED
        BY <2>1, <2>2
<1> HIDE DEF moved
<1>3. /\ DOMAIN counted = Fields /\ counted.slots = c.slots /\ counted.setMiss = 3
      /\ counted.setStore = c.setStore /\ counted.wasStore = c.wasStore
      /\ counted.cacheState \in 1 .. StateMiss - 1
    BY <1>2, Geometry DEF Fields
<1> HIDE DEF counted
<1>4. /\ DOMAIN served = Fields /\ served.slots = c.slots /\ served.setMiss = 3
      /\ served.cacheState \in 1 .. StateMiss - 1
      /\ served.wasStore = c.wasStore
      /\ served.cacheState = 1 \/ served.setStore # c.setStore => served.setStore = 3
    BY <1>3 DEF Fill, Fields
<1>5. ServeMiss(c, addr, mask, opType, dataIn) = served
    BY DEF ServeMiss, chosen, moved, counted
<1> HIDE DEF served
<1>6. Tied(served)
    BY <1>4 DEF CInv, Tied
<1>7. LastWayChosen(served)
    <2>1. served.wasStore => served.setStore = 3
        BY <1>4 DEF CInv, LastWayChosen
    <2> QED
        BY <1>4, <2>1, Geometry DEF LastWayChosen
<1> QED
    BY <1>5, <1>6, <1>7 DEF CInv

\* The call of the next level touches no way.
LEMMA CallNextLevelKeeps ==
    ASSUME NEW c, CInv(c)
    PROVE  CInv(CallNextLevel(c))
<1> DEFINE d == CallNextLevel(c)
<1>1. /\ DOMAIN d = Fields /\ d.slots = c.slots /\ d.cacheState = c.cacheState
      /\ d.setMiss = c.setMiss /\ d.setStore = c.setStore /\ d.wasStore = c.wasStore
    BY DEF CInv, Tied, Fields, CallNextLevel
<1> HIDE DEF d
<1>2. CInv(d)
    BY <1>1 DEF CInv, Tied, LastWayChosen
<1> QED
    BY <1>2 DEF d

\* A call of process(), whatever it asks for.
LEMMA ProcessKeeps ==
    ASSUME Sized, NEW old, CInv(old), NEW addr \in Nat,
           NEW mask, NEW opType, NEW dataIn
    PROVE  CInv(CacheProcess(old, addr, mask, opType, dataIn))
<1> DEFINE c == [old EXCEPT !.cycle = (@ + 1) % AgeSize]
           started == [c EXCEPT !.cacheState = StateMiss]
<1>1. /\ DOMAIN c = Fields /\ c.slots = old.slots /\ c.cacheState = old.cacheState
      /\ c.setMiss = old.setMiss /\ c.setStore = old.setStore
      /\ c.wasStore = old.wasStore
    BY DEF CInv, Tied, Fields
<1> HIDE DEF c
<1>2. CInv(c)
    BY <1>1 DEF CInv, Tied, LastWayChosen
<1>3. CASE old.next.waitOut
    BY <1>3, CallNextLevelKeeps DEF CacheProcess
<1>4. CASE ~old.next.waitOut /\ (c.wasStore \/ c.cacheState = 1)
    BY <1>2, <1>4, CommitKeeps DEF CacheProcess, c
<1>5. CASE ~old.next.waitOut /\ ~(c.wasStore \/ c.cacheState = 1)
    <2> DEFINE d == IF opType = "NONE" THEN c
                    ELSE IF c.cacheState # 0
                    THEN ServeMiss(c, addr, mask, opType, dataIn)
                    ELSE IF HitWays(c, addr) # {}
                    THEN Hit(c, addr, mask, opType, dataIn)
                    ELSE started
    <2>1. CacheProcess(old, addr, mask, opType, dataIn) = CallNextLevel(d)
        BY <1>5 DEF CacheProcess, c
    <2>2. CInv(started)
        <3>1. /\ DOMAIN started = Fields /\ started.slots = c.slots
              /\ started.cacheState = StateMiss /\ started.wasStore = c.wasStore
            BY <1>2 DEF CInv, Tied, Fields
        <3> HIDE DEF started
        <3>2. Tied(started)
            BY <1>2, <3>1 DEF CInv, Tied
        <3>3. LastWayChosen(started)
            BY <1>5, <3>1, Geometry DEF LastWayChosen
        <3> QED
            BY <3>2, <3>3 DEF CInv
    <2>3. c.cacheState # 0 => c.cacheState > 1
        BY <1>2, <1>5, Geometry DEF CInv, LastWayChosen
    <2>4. CInv(d)
        BY <1>2, <2>2, <2>3, ServeMissKeeps, HitKeeps
    <2> QED
        BY <2>1, <2>4, CallNextLevelKeeps
<1> QED
    BY <1>3, <1>4, <1>5

-----------------------------------------------------------------------------
(* The cache under its client.                                             *)

MInv == CInv(mem) /\ (req = NoRequest \/ req \in Requests)

\* The constructor leaves every way empty.
LEMMA ResetTied ==
    ASSUME Sized, NEW n
    PROVE  CInv(EmptyCache(n))
<1> DEFINE e == EmptyCache(n)
<1>1. /\ DOMAIN e = Fields
      /\ e.slots = [p \in 0 .. Places - 1 |-> [w \in Ways |->
                      [line |-> NullLine, age |-> 0, valid |-> FALSE, dirty |-> FALSE]]]
      /\ e.cacheState = 0 /\ e.wasStore = FALSE
    BY DEF EmptyCache, Fields
<1> HIDE DEF e
<1>2. Tied(e)
    BY <1>1 DEF Tied, Ways
<1>3. LastWayChosen(e)
    <2>1. e.cacheState = 0 /\ e.wasStore = FALSE
        BY <1>1
    <2> QED
        BY <2>1, Geometry DEF LastWayChosen
<1> QED
    BY <1>2, <1>3 DEF CInv, e

\* Three of the four ways stay empty for ever, however the core and the next
\* level behave.
THEOREM OnlyLastWayEverUsed ==
    ASSUME Sized, OfCache
    PROVE  Spec => []OnlyLastWayUsed
<1>1. Init => MInv
    BY ResetTied DEF Init, MInv, OfCache
<1>2. MInv /\ [Next]_vars => MInv'
    <2> SUFFICES ASSUME MInv, [Next]_vars PROVE MInv'
        OBVIOUS
    <2> DEFINE idle == [mem EXCEPT !.waitOut = FALSE]
    <2>1. CInv(idle)
        <3>1. /\ DOMAIN idle = Fields /\ idle.slots = mem.slots
              /\ idle.cacheState = mem.cacheState /\ idle.setMiss = mem.setMiss
              /\ idle.setStore = mem.setStore /\ idle.wasStore = mem.wasStore
            BY DEF MInv, CInv, Tied, Fields
        <3> HIDE DEF idle
        <3> QED
            BY <3>1 DEF MInv, CInv, Tied, LastWayChosen
    <2> HIDE DEF idle
    <2>2. ASSUME NEW r \in RequestsOf(mem), Ask(r) PROVE MInv'
        BY <2>2 DEF Ask, MInv, OfCache
    <2>3. ASSUME req # NoRequest, NEW op, mem' = Called(op) PROVE CInv(mem')
        <3>1. req.addr \in Nat
            BY <2>3 DEF MInv, Sized
        <3>2. mem' = CacheProcess(idle, req.addr, req.mask, op, req.data)
            BY <2>3 DEF Called, idle, OfCache
        <3> QED
            BY <2>1, <3>1, <3>2, ProcessKeeps
    <2>4. CASE Retry
        <3>1. CInv(mem')
            BY <2>3, <2>4 DEF Retry
        <3> QED
            BY <2>4, <3>1 DEF Retry, MInv
    <2>5. CASE Suspended
        <3>1. CInv(mem')
            BY <2>3, <2>5 DEF Suspended
        <3> QED
            BY <2>5, <3>1 DEF Suspended, MInv
    <2>6. CASE Quiet
        <3>1. mem' = CacheProcess(idle, 0, "WORD", "NONE", 0)
            BY <2>6 DEF Quiet, idle, OfCache
        <3>2. CInv(mem')
            BY <2>1, <3>1, ProcessKeeps
        <3> QED
            BY <2>6, <3>2 DEF Quiet, MInv
    <2>7. CASE UNCHANGED vars
        BY <2>7 DEF vars, MInv
    <2> QED
        BY <2>2, <2>4, <2>5, <2>6, <2>7 DEF Next, Ready
<1>3. MInv => OnlyLastWayUsed
    BY DEF MInv, CInv, Tied, OnlyLastWayUsed, LastWayOnly
<1> QED
    BY <1>1, <1>2, <1>3, PTL DEF Spec

-----------------------------------------------------------------------------
(* What the lines need.                                                    *)

\* What a next level promises: a call waits without effect, or does what was
\* asked.
LevelContract ==
    \A n \in Levels :
        /\ n.data \in [WordAddr -> MemWord]
        /\ \A addr, d :
              LET m == NextProcess(n, addr, "LONG", "NONE", d) IN
              m \in Levels /\ m.data = n.data
        /\ \A i \in WordAddr, d \in MemWord :
              LET m == NextProcess(n, 4 * i, "LONG", "LOAD", d) IN
              /\ m \in Levels /\ m.data = n.data
              /\ ~m.waitOut => m.dataOut = n.data[i]
        /\ \A i \in WordAddr, d \in MemWord :
              LET m == NextProcess(n, 4 * i, "LONG", "STORE", d) IN
              /\ m \in Levels
              /\ m.data = [n.data EXCEPT ![i] = d] \/ (m.waitOut /\ m.data = n.data)

Accesses == {"LOAD", "STORE"}

\* Requests inside the memory.
InRange ==
    /\ Tags \in Nat \ {0}
    /\ \A r \in Requests : /\ r.addr \in 0 .. 4 * Tags * Places * LineWords - 1
                           /\ r.op \in Accesses /\ r.mask \in Masks
                           /\ r.data \in MemWord

Places0 == 0 .. Places - 1
Tags0 == 0 .. Tags - 1
Words0 == 0 .. LineWords - 1

\* Where word k of the line of tag t in place p is.
Index(t, p, k) == LineWords * (Places * t + p) + k

-----------------------------------------------------------------------------
(* Addresses.                                                              *)

\* Two words of two lines, or of two places, are at two addresses.
LEMMA IndexInjective ==
    ASSUME Sized, InRange, NEW t \in Tags0, NEW p \in Places0, NEW k \in Words0
    PROVE  /\ Index(t, p, k) \in WordAddr
           /\ \A t2 \in Tags0, p2 \in Places0, k2 \in Words0 :
                 Index(t, p, k) = Index(t2, p2, k2) => t = t2 /\ p = p2 /\ k = k2
<1>1. Places \in Nat \ {0} /\ LineWords \in Nat \ {0} /\ Tags \in Nat \ {0}
    BY DEF Sized, InRange
<1>2. ASSUME NEW t1 \in Tags0, NEW p1 \in Places0, NEW k1 \in Words0
      PROVE  /\ Index(t1, p1, k1) \div LineWords = p1 + Places * t1
             /\ Index(t1, p1, k1) % LineWords = k1
             /\ (p1 + Places * t1) \div Places = t1
             /\ (p1 + Places * t1) % Places = p1
             /\ Index(t1, p1, k1) = k1 + LineWords * (p1 + Places * t1)
             /\ p1 + Places * t1 \in 0 .. Places * Tags - 1
    <2> DEFINE q == p1 + Places * t1
    <2>1. q \in 0 .. Places * Tags - 1
        BY <1>1, DigitAbove DEF Tags0, Places0
    <2>2. q \div Places = t1 /\ q % Places = p1
        BY <1>1, Peel DEF Tags0, Places0
    <2>3. Index(t1, p1, k1) = k1 + LineWords * q
        BY <1>1 DEF Index, Tags0, Places0, Words0
    <2> HIDE DEF q
    <2>4. q \in Int
        <3>1. Places * Tags \in Int
            BY <1>1
        <3> QED
            BY <2>1, <3>1
    <2>5. (k1 + LineWords * q) \div LineWords = q /\ (k1 + LineWords * q) % LineWords = k1
        BY <1>1, <2>4, Peel DEF Words0
    <2> QED
        BY <2>1, <2>2, <2>3, <2>5 DEF q
<1>3. Index(t, p, k) \in WordAddr
    <2>1. k + LineWords * (p + Places * t) \in 0 .. LineWords * (Places * Tags) - 1
        <3>1. Places * Tags \in Nat
            BY <1>1
        <3>2. p + Places * t \in 0 .. Places * Tags - 1
            BY <1>2
        <3> HIDE DEF Words0
        <3> QED
            BY <1>1, <3>1, <3>2, DigitAbove DEF Words0
    <2>2. LineWords * (Places * Tags) = Tags * Places * LineWords
        BY <1>1
    <2> QED
        BY <1>2, <2>1, <2>2 DEF WordAddr
<1> QED
    BY <1>2, <1>3

\* The first word of the line of an address.
LEMMA AddressOfLine ==
    ASSUME Sized, InRange, NEW addr \in 0 .. 4 * Tags * Places * LineWords - 1,
           NEW k \in Words0
    PROVE  /\ addr \in Nat /\ Place(addr) \in Places0 /\ Tag(addr) \in Tags0
           /\ Offset(addr) \in Words0 /\ LowOf(addr) \in 0 .. 3
           /\ addr - (addr % LineBytes) + 4 * k = 4 * Index(Tag(addr), Place(addr), k)
<1> DEFINE q == addr \div LineBytes
           r == addr % LineBytes
           t == q \div Places
           p == q % Places
<1>1. /\ Places \in Nat \ {0} /\ LineWords \in Nat \ {0} /\ Tags \in Nat \ {0}
      /\ LineBytes \in Nat \ {0}
    BY Geometry DEF Sized, InRange
<1>2. ASSUME NEW n \in Nat \ {0}, NEW x \in Int
      PROVE  x \div n \in Int /\ x % n \in 0 .. n - 1 /\ x = (x % n) + n * (x \div n)
    BY <1>2
<1>3. addr \in Nat
    <2>1. 4 * Tags * Places * LineWords \in Int
        BY <1>1
    <2> QED
        BY <2>1
<1>4. q \in Int /\ r \in 0 .. LineBytes - 1 /\ addr = r + LineBytes * q
    BY <1>1, <1>2, <1>3
<1>5. t \in Int /\ p \in 0 .. Places - 1 /\ q = p + Places * t
    <2> HIDE DEF q
    <2> QED
        BY <1>1, <1>2, <1>4
<1> HIDE DEF q, r, t, p
<1>6. addr = (r + LineBytes * p) + (LineBytes * Places) * t
    <2>1. LineBytes * (p + Places * t) = LineBytes * p + (LineBytes * Places) * t
        BY <1>1, <1>5
    <2> QED
        BY <1>1, <1>4, <1>5, <2>1
<1>7. r + LineBytes * p \in 0 .. LineBytes * Places - 1
    BY <1>1, <1>4, <1>5, DigitAbove
<1>8. LineBytes * Places \in Nat \ {0}
    <2>1. \A x, y \in Nat \ {0} : x * y \in Nat \ {0}
        OBVIOUS
    <2> QED
        BY <1>1, <2>1
<1>9. addr \div (LineBytes * Places) = t
    BY <1>5, <1>6, <1>7, <1>8, Peel
<1>10. Tag(addr) = t /\ Place(addr) = p
    BY <1>9 DEF Tag, Place, q, p
<1>11. t \in Tags0
    <2> DEFINE g == LineBytes * Places
    <2>1. g \in Nat \ {0} /\ addr = (r + LineBytes * p) + g * t
          /\ r + LineBytes * p \in 0 .. g - 1
        BY <1>6, <1>7, <1>8
    <2>2. 4 * Tags * Places * LineWords = g * Tags
        BY <1>1 DEF LineBytes
    <2> HIDE DEF g
    <2>3. ~(t <= -1)
        <3> SUFFICES ASSUME t <= -1 PROVE FALSE
            OBVIOUS
        <3>1. g * t <= g * (-1) /\ g * (-1) = -g
            BY <1>5, <2>1, MulMono
        <3>2. g * t \in Int
            BY <1>5, <2>1
        <3> QED
            BY <1>3, <2>1, <3>1, <3>2
    <2>4. ~(t >= Tags)
        <3> SUFFICES ASSUME t >= Tags PROVE FALSE
            OBVIOUS
        <3>1. g * Tags <= g * t
            BY <1>1, <1>5, <2>1, MulMono
        <3>2. g * t \in Int /\ g * Tags \in Int
            BY <1>1, <1>5, <2>1
        <3> QED
            BY <2>1, <2>2, <3>1, <3>2
    <2> QED
        BY <1>1, <1>5, <2>3, <2>4 DEF Tags0
<1>12. addr - (addr % LineBytes) + 4 * k = 4 * Index(t, p, k)
    <2>1. addr - (addr % LineBytes) = LineBytes * q
        <3>1. LineBytes * q \in Int
            BY <1>1, <1>4
        <3> QED
            BY <1>1, <1>4, <3>1 DEF r
    <2>2. LineBytes * q = 4 * (LineWords * (Places * t + p))
        BY <1>1, <1>5 DEF LineBytes
    <2>3. LineWords * (Places * t + p) \in Int /\ k \in Int
        BY <1>1, <1>5 DEF Words0
    <2> QED
        BY <2>1, <2>2, <2>3 DEF Index
<1>13. Offset(addr) \in Words0 /\ LowOf(addr) \in 0 .. 3
    <2>1. WordOf(addr) \in Int /\ addr % 4 \in 0 .. 3
        BY <1>3 DEF WordOf
    <2> QED
        BY <1>1, <1>2, <2>1 DEF Offset, Words0, LowOf
<1> QED
    BY <1>3, <1>5, <1>10, <1>11, <1>12, <1>13 DEF Places0

-----------------------------------------------------------------------------
(* The invariant.                                                          *)

LineAt(c, p, l, k) == c.next.data[Index(l.tag, p, k)]

\* The slot a miss fills.
Slot(c, p) == c.slots[p][3]

\* What holds whoever is served.
Kept(c) ==
    /\ \A p \in Places0, w \in Ways : c.slots[p][w].line \in Line
    /\ c.newVal \in Line /\ c.oldVal \in Line /\ c.valStore \in Line
    /\ c.next \in Levels /\ c.nextLevelDataIn \in MemWord
    /\ \A p \in Places0 :
          Slot(c, p).valid /\ ~Slot(c, p).dirty => Below(c, p, Slot(c, p).line)
    /\ c.wasStore => c.cacheState = 0 /\ c.valDirty

Still(c) == Kept(c) /\ (c.cacheState \in {0, StateMiss} => c.nextLevelOpType = "NONE")

\* The victim of a miss at address a, and the line that comes instead.
Chosen(c, a) ==
    /\ c.oldVal = Slot(c, Place(a)).line
    /\ c.isValid = Slot(c, Place(a)).valid
    /\ c.newVal.tag = Tag(a)

\* Words above k are written back; word k is asked for, and done if "done".
Writing(c, a, done) ==
    LET k == c.cacheState - StateFirstLoad
        p == Place(a)
    IN  /\ c.nextLevelOpType = IF c.isValid THEN "STORE" ELSE "NONE"
        /\ c.nextLevelAddr = 4 * Index(c.oldVal.tag, p, k)
        /\ c.nextLevelDataIn = c.oldVal.words[k]
        /\ c.isValid => \A j \in Words0 :
              j > k \/ (j = k /\ done) => LineAt(c, p, c.oldVal, j) = c.oldVal.words[j]

\* Words above k are read; word k is asked for, and there if "done".
Reading(c, a, done) ==
    LET k == c.cacheState - StateLastLoad
        p == Place(a)
    IN  /\ c.nextLevelOpType = "LOAD"
        /\ c.nextLevelAddr = 4 * Index(c.newVal.tag, p, k)
        /\ \A j \in Words0 : j > k => c.newVal.words[j] = LineAt(c, p, c.newVal, j)
        /\ done => c.next.dataOut = LineAt(c, p, c.newVal, k)

Filled(c, a) ==
    /\ c.nextLevelOpType = "NONE"
    /\ c.placeStore = Place(a)
    /\ c.valDirty \/ Below(c, Place(a), c.valStore)

\* Where the countdown is.
Served(c, a, done) ==
    /\ c.cacheState \in 1 .. StateMiss - 1 => Chosen(c, a)
    /\ c.cacheState \in StateFirstLoad .. StateMiss - 1 => Writing(c, a, done)
    /\ c.cacheState \in 1 .. StateFirstLoad - 1 /\ c.isValid =>
          Below(c, Place(a), c.oldVal)
    /\ c.cacheState \in StateLastLoad .. StateFirstLoad - 1 => Reading(c, a, done)
    /\ c.cacheState = 1 => Filled(c, a)

LevelAnswered(c) == ~c.next.waitOut

\* Before the call of the next level, after it, and once it has answered.
Asked(c, a) == Served(c, a, FALSE)
InHand(c, a) == Served(c, a, LevelAnswered(c))
Answered(c, a) == Served(c, a, TRUE)

-----------------------------------------------------------------------------
(* The call of the next level.                                             *)

\* A word written back where it belongs leaves the lines below where they are.
LEMMA WriteBackKeeps ==
    ASSUME Sized, InRange, NEW old \in [WordAddr -> MemWord], NEW new,
           NEW l \in Line, NEW p \in Places0, NEW k \in Words0,
           new = [old EXCEPT ![Index(l.tag, p, k)] = l.words[k]]
    PROVE  /\ new[Index(l.tag, p, k)] = l.words[k]
           /\ \A l2 \in Line, p2 \in Places0, j \in Words0 :
                 /\ p2 # p \/ l2 = l
                 /\ old[Index(l2.tag, p2, j)] = l2.words[j]
                 => new[Index(l2.tag, p2, j)] = l2.words[j]
<1>1. Index(l.tag, p, k) \in WordAddr
    BY IndexInjective DEF Line, Tags0
<1>2. new[Index(l.tag, p, k)] = l.words[k]
    BY <1>1
<1>3. ASSUME NEW l2 \in Line, NEW p2 \in Places0, NEW j \in Words0,
             p2 # p \/ l2 = l, old[Index(l2.tag, p2, j)] = l2.words[j]
      PROVE  new[Index(l2.tag, p2, j)] = l2.words[j]
    <2>1. Index(l2.tag, p2, j) \in WordAddr
        BY IndexInjective DEF Line, Tags0
    <2>2. CASE Index(l2.tag, p2, j) = Index(l.tag, p, k)
        <3>1. p2 = p /\ j = k
            BY <2>2, IndexInjective DEF Line, Tags0
        <3> QED
            BY <1>2, <1>3, <2>2, <3>1
    <2>3. CASE Index(l2.tag, p2, j) # Index(l.tag, p, k)
        BY <1>1, <1>3, <2>1, <2>3
    <2> QED
        BY <2>2, <2>3
<1> QED
    BY <1>2, <1>3

\* What a call to store leaves.
LEMMA StoreContract ==
    ASSUME LevelContract, NEW n \in Levels, NEW i \in WordAddr, NEW v \in MemWord, NEW m,
           m = NextProcess(n, 4 * i, "LONG", "STORE", v)
    PROVE  m \in Levels /\ (m.data = [n.data EXCEPT ![i] = v] \/ (m.waitOut /\ m.data = n.data))
BY DEF LevelContract

\* The call that ends most cycles of the cache does its part of the miss.
LEMMA CallKeeps ==
    ASSUME Sized, InRange, LevelContract, NEW c, CInv(c), Still(c),
           NEW a \in 0 .. 4 * Tags * Places * LineWords - 1, Asked(c, a)
    PROVE  LET d == CallNextLevel(c) IN Still(d) /\ InHand(d, a)
<1> DEFINE d == CallNextLevel(c)
           n == c.next
           m == NextProcess(c.next, c.nextLevelAddr, "LONG", c.nextLevelOpType,
                            c.nextLevelDataIn)
           p == Place(a)
<1>1. /\ d.next = m
      /\ d.slots = c.slots /\ d.cacheState = c.cacheState /\ d.newVal = c.newVal
      /\ d.oldVal = c.oldVal /\ d.isValid = c.isValid /\ d.wasStore = c.wasStore
      /\ d.placeStore = c.placeStore /\ d.valStore = c.valStore
      /\ d.valDirty = c.valDirty /\ d.nextLevelAddr = c.nextLevelAddr
      /\ d.nextLevelOpType = c.nextLevelOpType /\ d.nextLevelDataIn = c.nextLevelDataIn
    BY DEF CInv, Tied, Fields, CallNextLevel
<1>2. /\ n \in Levels /\ c.oldVal \in Line /\ c.newVal \in Line
      /\ p \in Places0 /\ c.cacheState \in 0 .. StateMiss
    <2>1. 0 \in Words0
        BY DEF Words0, Sized
    <2>2. p \in Places0
        BY <2>1, AddressOfLine
    <2> QED
        BY <2>2 DEF Still, Kept, CInv, LastWayChosen
<1>3. /\ StateMiss = 2 * LineWords + 2 /\ StateFirstLoad = LineWords + 2
      /\ StateLastLoad = 2 /\ LineWords \in Nat \ {0}
    BY DEF StateMiss, StateFirstLoad, StateLastLoad, Sized
<1> SUFFICES Still(d) /\ InHand(d, a)
    OBVIOUS
<1> HIDE DEF d, n, m, p
\* In every state that does not write a word back, the next level is left
\* as it is.
<1>4. ASSUME m \in Levels, m.data = n.data,
             c.cacheState \in StateFirstLoad .. StateMiss - 1 => ~c.isValid,
             c.cacheState \in StateLastLoad .. StateFirstLoad - 1 /\ ~m.waitOut =>
                m.dataOut = LineAt(c, p, c.newVal, c.cacheState - StateLastLoad)
      PROVE  Still(d) /\ InHand(d, a)
    <2>1. Still(d)
        BY <1>1, <1>4 DEF Still, Kept, Slot, Below, n
    <2>2. c.cacheState \in 1 .. StateMiss - 1 => Chosen(d, a)
        BY <1>1 DEF Served, Asked, Chosen, Slot
    <2>3. c.cacheState \in StateFirstLoad .. StateMiss - 1 =>
            Writing(d, a, LevelAnswered(d))
        BY <1>1, <1>4 DEF Served, Asked, Writing
    <2>4. c.cacheState \in 1 .. StateFirstLoad - 1 /\ c.isValid => Below(d, Place(a), c.oldVal)
        BY <1>1, <1>4 DEF Served, Asked, Below, n
    <2>5. c.cacheState \in StateLastLoad .. StateFirstLoad - 1 =>
            Reading(d, a, LevelAnswered(d))
        BY <1>1, <1>4 DEF Served, Asked, Reading, LineAt, LevelAnswered, n, p
    <2>6. c.cacheState = 1 => Filled(d, a)
        BY <1>1, <1>4 DEF Served, Asked, Filled, Below, n
    <2> QED
        BY <1>1, <2>1, <2>2, <2>3, <2>4, <2>5, <2>6 DEF Served, InHand
<1>5. CASE c.cacheState \in {0, StateMiss}
    <2>1. m \in Levels /\ m.data = n.data
        BY <1>2, <1>5 DEF Still, Kept, LevelContract, m, n
    <2>2. c.cacheState \notin 1 .. StateMiss - 1
        BY <1>3, <1>5
    <2> QED
        BY <1>3, <1>4, <2>1, <2>2
<1>6. CASE c.cacheState = 1
    <2>1. m \in Levels /\ m.data = n.data
        BY <1>2, <1>6 DEF Served, Asked, Filled, LevelContract, m, n
    <2> QED
        BY <1>3, <1>4, <1>6, <2>1
<1>7. CASE c.cacheState \in StateLastLoad .. StateFirstLoad - 1
    <2> DEFINE k == c.cacheState - StateLastLoad
               i == Index(c.newVal.tag, p, k)
    <2>1. k \in Words0
        BY <1>3, <1>7 DEF Words0
    <2>2. i \in WordAddr
        BY <1>2, <2>1, IndexInjective DEF Line, Tags0
    <2>3. /\ c.nextLevelOpType = "LOAD" /\ c.nextLevelAddr = 4 * i
          /\ c.nextLevelDataIn \in MemWord
        BY <1>7 DEF Served, Asked, Reading, p, Still, Kept
    <2> HIDE DEF i
    <2>4. m \in Levels /\ m.data = n.data /\ (~m.waitOut => m.dataOut = n.data[i])
        BY <1>2, <2>2, <2>3 DEF LevelContract, m, n
    <2> QED
        BY <1>3, <1>4, <1>7, <2>4 DEF LineAt, i, n
<1>8. CASE c.cacheState \in StateFirstLoad .. StateMiss - 1 /\ ~c.isValid
    <2>1. m \in Levels /\ m.data = n.data
        BY <1>2, <1>8 DEF Served, Asked, Writing, LevelContract, m, n
    <2>2. c.cacheState \notin StateLastLoad .. StateFirstLoad - 1
        BY <1>3, <1>8
    <2> QED
        BY <1>4, <1>8, <2>1, <2>2
<1>9. CASE c.cacheState \in StateFirstLoad .. StateMiss - 1 /\ c.isValid
    <2> DEFINE k == c.cacheState - StateFirstLoad
               i == Index(c.oldVal.tag, p, k)
    <2>1. k \in Words0
        BY <1>3, <1>9 DEF Words0
    <2>2. i \in WordAddr /\ c.oldVal.words[k] \in MemWord
        BY <1>2, <2>1, IndexInjective DEF Line, Tags0, Words0
    <2>3. /\ c.nextLevelOpType = "STORE" /\ c.nextLevelAddr = 4 * i
          /\ c.nextLevelDataIn = c.oldVal.words[k]
          /\ \A j \in Words0 : j > k => LineAt(c, p, c.oldVal, j) = c.oldVal.words[j]
        BY <1>9 DEF Served, Asked, Writing, p
    <2> HIDE DEF i
    <2>4. /\ m \in Levels
          /\ \/ m.data = [n.data EXCEPT ![i] = c.oldVal.words[k]]
             \/ m.waitOut /\ m.data = n.data
        <3> DEFINE v == c.oldVal.words[k]
        <3>1. m = NextProcess(n, 4 * i, "LONG", "STORE", v)
            BY <2>3 DEF m, n
        <3>2. v \in MemWord
            BY <2>2
        <3> HIDE DEF v
        <3>3. \/ m.data = [n.data EXCEPT ![i] = v]
              \/ m.waitOut /\ m.data = n.data
            BY <1>2, <2>2, <3>1, <3>2, StoreContract
        <3>4. m \in Levels
            BY <1>2, <2>2, <3>1, <3>2, StoreContract
        <3> QED
            BY <3>3, <3>4 DEF v
    <2>5. /\ ~m.waitOut => m.data[i] = c.oldVal.words[k]
          /\ \A l2 \in Line, p2 \in Places0, j \in Words0 :
                /\ p2 # p \/ l2 = c.oldVal
                /\ n.data[Index(l2.tag, p2, j)] = l2.words[j]
                => m.data[Index(l2.tag, p2, j)] = l2.words[j]
        <3>1. CASE m.data = [n.data EXCEPT ![i] = c.oldVal.words[k]]
            <4> HIDE DEF k
            <4> DEFINE o == c.oldVal
                       x == n.data
                       y == m.data
            <4>0. x \in [WordAddr -> MemWord]
                BY <1>2 DEF LevelContract
            <4>1. o \in Line /\ y = [x EXCEPT ![Index(o.tag, p, k)] = o.words[k]]
                BY <1>2, <3>1 DEF i
            <4> HIDE DEF o, x, y
            <4>2. /\ y[Index(o.tag, p, k)] = o.words[k]
                  /\ \A l2 \in Line, p2 \in Places0, j \in Words0 :
                        /\ p2 # p \/ l2 = o
                        /\ x[Index(l2.tag, p2, j)] = l2.words[j]
                        => y[Index(l2.tag, p2, j)] = l2.words[j]
                BY <1>2, <2>1, <4>0, <4>1, WriteBackKeeps
            <4> QED
                BY <4>2 DEF i, o, x, y
        <3>2. CASE m.waitOut /\ m.data = n.data
            BY <3>2
        <3> QED
            BY <2>4, <3>1, <3>2
    <2>6. Chosen(c, a)
        BY <1>3, <1>9 DEF Served, Asked
    <2>7. Still(d)
        <3>1. ASSUME NEW p2 \in Places0, Slot(d, p2).valid, ~Slot(d, p2).dirty
              PROVE  Below(d, p2, Slot(d, p2).line)
            <4>1. Below(c, p2, Slot(c, p2).line)
                BY <1>1, <3>1 DEF Still, Kept, Slot
            <4>2. Slot(c, p2).line \in Line
                BY DEF Still, Kept, Slot, Ways
            <4>3. p2 # p \/ Slot(c, p2).line = c.oldVal
                BY <2>6 DEF Chosen, p
            <4> QED
                BY <1>1, <2>5, <4>1, <4>2, <4>3 DEF Below, Index, Slot, n, Words0
        <3> QED
            BY <1>1, <2>4, <3>1 DEF Still, Kept
    <2>8. Chosen(d, a)
        BY <1>1, <2>6 DEF Chosen, Slot
    <2>9. Writing(d, a, LevelAnswered(d))
        <3>1. ASSUME NEW j \in Words0, j > k \/ (j = k /\ LevelAnswered(d))
              PROVE  LineAt(d, p, d.oldVal, j) = d.oldVal.words[j]
            <4>1. CASE j > k
                BY <1>1, <1>2, <2>3, <2>5, <4>1 DEF LineAt, n
            <4>2. CASE j = k /\ LevelAnswered(d)
                <5>1. m.data[i] = c.oldVal.words[j]
                    BY <1>1, <2>5, <4>2 DEF LevelAnswered
                <5>2. LineAt(d, p, d.oldVal, j) = m.data[i]
                    BY <1>1, <4>2 DEF LineAt, i
                <5> QED
                    BY <1>1, <5>1, <5>2
            <4> QED
                BY <3>1, <4>1, <4>2
        <3> QED
            BY <1>1, <1>9, <2>3, <3>1 DEF Writing, p, i
    <2> QED
        BY <1>1, <1>3, <1>9, <2>7, <2>8, <2>9 DEF Served, InHand
<1> QED
    BY <1>2, <1>3, <1>5, <1>6, <1>7, <1>8, <1>9

-----------------------------------------------------------------------------
(* One state of the countdown.                                             *)

\* A miss whose last call has been answered.
Moving(c, a) ==
    LET k == c.cacheState - StateLastLoad
        p == Place(a)
    IN  /\ Chosen(c, a)
        /\ c.cacheState \in 2 .. StateMiss
        /\ c.isValid => \A j \in Words0 :
              j >= c.cacheState - StateFirstLoad =>
                 LineAt(c, p, c.oldVal, j) = c.oldVal.words[j]
        /\ c.cacheState < StateFirstLoad =>
              /\ \A j \in Words0 : j > k => c.newVal.words[j] = LineAt(c, p, c.newVal, j)
              /\ c.next.dataOut = LineAt(c, p, c.newVal, k)

\* Below, word by word.
LEMMA BelowIsLineAt ==
    ASSUME NEW c, NEW p, NEW l
    PROVE  Below(c, p, l) <=> \A k \in Words0 : LineAt(c, p, l, k) = l.words[k]
BY DEF Below, LineAt, Index, Words0

\* A clean victim is below, a dirty one has all its words to write back.
LEMMA ChooseStarts ==
    ASSUME Sized, InRange, NEW c, CInv(c), Still(c), ~c.wasStore,
           NEW a \in 0 .. 4 * Tags * Places * LineWords - 1, c.cacheState = StateMiss
    PROVE  LET d == ChooseVictim(c, a) IN
           Kept(d) /\ ~d.wasStore /\ Moving(d, a) /\ DOMAIN d = Fields
<1> DEFINE d == ChooseVictim(c, a)
           p == Place(a)
           v == c.slots[p][3]
           b == [NullLine EXCEPT !.tag = Tag(a)]
<1>1. /\ StateMiss = 2 * LineWords + 2 /\ StateFirstLoad = LineWords + 2
      /\ StateLastStore = LineWords + 3 /\ StateLastLoad = 2 /\ LineWords \in Nat \ {0}
    BY DEF StateMiss, StateFirstLoad, StateLastStore, StateLastLoad, Sized
<1>2. p \in Places0 /\ Tag(a) \in Tags0
    <2>1. 0 \in Words0
        BY DEF Words0, Sized
    <2> QED
        BY <2>1, AddressOfLine
<1>3. Oldest(c, p) = 3
    BY <1>2, ChoosesLastWay DEF CInv, Places0
<1>4. /\ DOMAIN d = Fields
      /\ d.slots = c.slots /\ d.next = c.next /\ d.valStore = c.valStore
      /\ d.nextLevelDataIn = c.nextLevelDataIn /\ d.wasStore = c.wasStore
      /\ d.newVal = b /\ d.oldVal = v.line /\ d.isValid = v.valid
      /\ d.cacheState = IF v.dirty THEN c.cacheState ELSE StateLastStore - 1
    BY <1>3 DEF CInv, Tied, Fields, ChooseVictim
<1>5. b \in Line /\ b.tag = Tag(a)
    <2>1. 0 \in MemWord
        BY Sizes DEF MemWord
    <2> QED
        BY <1>2, <2>1 DEF Line, NullLine, Tags0
<1> HIDE DEF d, b
<1>6. Kept(d)
    BY <1>2, <1>4, <1>5 DEF Still, Kept, Slot, Below, Ways
<1>7. Chosen(d, a)
    BY <1>4, <1>5 DEF Chosen, Slot
<1>8. Moving(d, a)
    <2>1. CASE v.dirty
        BY <1>1, <1>4, <1>7, <2>1 DEF Moving, Words0
    <2>2. CASE ~v.dirty
        <3>1. d.cacheState = StateFirstLoad
            BY <1>1, <1>4, <2>2
        <3>2. v.valid => Below(d, p, v.line)
            BY <1>2, <1>4, <2>2 DEF Still, Kept, Slot, Below
        <3>3. d.isValid => \A j \in Words0 : LineAt(d, p, d.oldVal, j) = d.oldVal.words[j]
            BY <1>4, <3>2, BelowIsLineAt
        <3> QED
            BY <1>1, <1>7, <3>1, <3>3 DEF Moving
    <2> QED
        BY <2>1, <2>2
<1> QED
    BY <1>4, <1>6, <1>8 DEF d

\* What one state of the countdown leaves.
Moved(d, a) ==
    /\ Kept(d) /\ ~d.wasStore /\ DOMAIN d = Fields
    /\ d.cacheState \in 2 .. StateMiss - 1 /\ Asked(d, a)

\* A word of the victim is asked to be written.
LEMMA WriteBackMoves ==
    ASSUME Sized, InRange, NEW c, Kept(c), ~c.wasStore, DOMAIN c = Fields,
           NEW a \in 0 .. 4 * Tags * Places * LineWords - 1, Moving(c, a),
           c.cacheState >= StateLastStore
    PROVE  Moved([WriteBack(c, a) EXCEPT !.cacheState = @ - 1], a)
<1> DEFINE e == WriteBack(c, a)
           d == [e EXCEPT !.cacheState = @ - 1]
           p == Place(a)
           k == c.cacheState - StateLastStore
           at == LineBytes * (Places * c.oldVal.tag + p) + 4 * k
<1>1. /\ StateMiss = 2 * LineWords + 2 /\ StateFirstLoad = LineWords + 2
      /\ StateLastStore = LineWords + 3 /\ StateLastLoad = 2 /\ LineWords \in Nat \ {0}
      /\ Places \in Nat \ {0}
    BY DEF StateMiss, StateFirstLoad, StateLastStore, StateLastLoad, Sized
<1>2. p \in Places0
    <2>1. 0 \in Words0
        BY DEF Words0, Sized
    <2> QED
        BY <2>1, AddressOfLine
<1>3. c.cacheState \in StateLastStore .. StateMiss /\ k \in Words0
    BY <1>1 DEF Moving, Words0
<1>4. /\ DOMAIN d = Fields
      /\ d.slots = c.slots /\ d.next = c.next /\ d.valStore = c.valStore
      /\ d.nextLevelDataIn = c.oldVal.words[k] /\ d.wasStore = c.wasStore
      /\ d.newVal = c.newVal /\ d.oldVal = c.oldVal /\ d.isValid = c.isValid
      /\ d.cacheState = c.cacheState - 1
      /\ d.nextLevelAddr = at
      /\ d.nextLevelOpType = IF c.isValid THEN "STORE" ELSE "NONE"
    BY DEF Fields, WriteBack
<1>5. at = 4 * Index(c.oldVal.tag, p, k)
    <2>1. c.oldVal.tag \in Int /\ p \in Int /\ k \in Int
        BY <1>1, <1>2, <1>3 DEF Kept, Line, Places0, Words0
    <2> HIDE DEF p, k
    <2>2. Places * c.oldVal.tag + p \in Int
        BY <1>1, <2>1
    <2> DEFINE x == Places * c.oldVal.tag + p
    <2> HIDE DEF x
    <2>3. LineBytes * x + 4 * k = 4 * (LineWords * x + k)
        BY <1>1, <2>1, <2>2 DEF LineBytes, x
    <2> QED
        BY <2>3 DEF Index, x
<1> HIDE DEF d, e, at, k
<1>6. Kept(d)
    <2>1. c.oldVal.words[k] \in MemWord
        BY <1>3 DEF Kept, Line, Words0
    <2> QED
        BY <1>4, <2>1 DEF Kept, Slot, Below
<1>7. Chosen(d, a)
    BY <1>4 DEF Moving, Chosen, Slot
<1>8. Writing(d, a, FALSE)
    <2>1. d.cacheState - StateFirstLoad = k
        BY <1>1, <1>3, <1>4 DEF k
    <2>2. c.isValid => \A j \in Words0 : j > k =>
            LineAt(d, p, d.oldVal, j) = d.oldVal.words[j]
        <3>1. \A j \in Words0 : j > k => j >= c.cacheState - StateFirstLoad
            BY <1>1, <1>3 DEF k, Words0
        <3> QED
            BY <1>4, <3>1 DEF Moving, LineAt
    <2> QED
        BY <1>4, <1>5, <2>1, <2>2 DEF Writing
<1>9. d.cacheState \in StateFirstLoad .. StateMiss - 1
    BY <1>1, <1>3, <1>4
<1>10. /\ d.cacheState \in 2 .. StateMiss - 1
       /\ ~(d.cacheState \in 1 .. StateFirstLoad - 1)
       /\ ~(d.cacheState \in StateLastLoad .. StateFirstLoad - 1)
       /\ d.cacheState # 1
    BY <1>1, <1>9
<1>11. Asked(d, a)
    BY <1>7, <1>8, <1>10 DEF Served, Asked
<1>12. Moved(d, a)
    BY <1>4, <1>6, <1>10, <1>11 DEF Moved
<1> QED
    BY <1>12 DEF d, e

\* The word the last call loaded, taken into the new line.
Taken(c) == IF c.cacheState = StateFirstLoad THEN c
            ELSE [c EXCEPT !.newVal.words[c.cacheState - StateLastLoad] = c.next.dataOut]

\* The words of the new line that are there once the last one is taken.
LEMMA TakesWord ==
    ASSUME Sized, InRange, LevelContract, NEW c, Kept(c), ~c.wasStore, DOMAIN c = Fields,
           NEW a \in 0 .. 4 * Tags * Places * LineWords - 1, Moving(c, a),
           c.cacheState \in StateLastLoad .. StateFirstLoad
    PROVE  LET t == Taken(c) IN
           /\ DOMAIN t = Fields /\ Kept(t) /\ ~t.wasStore /\ Chosen(t, a)
           /\ t.cacheState = c.cacheState
           /\ t.isValid => Below(t, Place(a), t.oldVal)
           /\ \A j \in Words0 : j >= t.cacheState - StateLastLoad =>
                 t.newVal.words[j] = LineAt(t, Place(a), t.newVal, j)
<1> DEFINE t == Taken(c)
           p == Place(a)
           k == c.cacheState - StateLastLoad
<1>1. /\ StateMiss = 2 * LineWords + 2 /\ StateFirstLoad = LineWords + 2
      /\ StateLastStore = LineWords + 3 /\ StateLastLoad = 2 /\ LineWords \in Nat \ {0}
    BY DEF StateMiss, StateFirstLoad, StateLastStore, StateLastLoad, Sized
<1>2. p \in Places0 /\ Tag(a) \in Tags0
    <2>1. 0 \in Words0
        BY DEF Words0, Sized
    <2> QED
        BY <2>1, AddressOfLine
<1>3. /\ DOMAIN t = Fields
      /\ t.slots = c.slots /\ t.next = c.next /\ t.valStore = c.valStore
      /\ t.nextLevelDataIn = c.nextLevelDataIn /\ t.wasStore = c.wasStore
      /\ t.oldVal = c.oldVal /\ t.isValid = c.isValid
      /\ t.cacheState = c.cacheState
      /\ t.newVal = IF c.cacheState = StateFirstLoad THEN c.newVal
                    ELSE [tag |-> c.newVal.tag,
                          words |-> [c.newVal.words EXCEPT ![k] = c.next.dataOut]]
    <2> DEFINE w == [c.newVal.words EXCEPT ![k] = c.next.dataOut]
    <2>1. c.newVal \in Line
        BY DEF Kept
    <2>2. [c.newVal EXCEPT !.words = w] = [tag |-> c.newVal.tag, words |-> w]
        <3> HIDE DEF w
        <3> QED
            BY <2>1 DEF Line
    <2>3. t = IF c.cacheState = StateFirstLoad THEN c
              ELSE [c EXCEPT !.newVal = [c.newVal EXCEPT !.words = w]]
        BY DEF Taken
    <2> HIDE DEF t, w
    <2>4. t = IF c.cacheState = StateFirstLoad THEN c
              ELSE [c EXCEPT !.newVal = [tag |-> c.newVal.tag, words |-> w]]
        BY <2>2, <2>3
    <2> QED
        BY <2>4 DEF Fields, w
<1> HIDE DEF t
<1>4. /\ t.newVal \in Line /\ t.newVal.tag = Tag(a)
      /\ \A j \in Words0 : j >= k => t.newVal.words[j] = LineAt(t, p, t.newVal, j)
    <2>1. c.newVal \in Line /\ c.newVal.tag = Tag(a)
        BY DEF Kept, Moving, Chosen
    <2>2. CASE c.cacheState = StateFirstLoad
        <3>1. \A j \in Words0 : ~(j >= k)
            BY <1>1, <2>2 DEF Words0
        <3> QED
            BY <1>3, <2>1, <2>2, <3>1
    <2>3. CASE c.cacheState # StateFirstLoad
        <3>1. k \in Words0 /\ c.cacheState < StateFirstLoad
            BY <1>1, <2>3 DEF Words0
        <3> DEFINE x == LineAt(c, p, c.newVal, k)
        <3>2. c.next.dataOut = x
            BY <3>1 DEF Moving
        <3>3. x \in MemWord
            <4>1. Index(c.newVal.tag, p, k) \in WordAddr
                BY <1>2, <2>1, <3>1, IndexInjective
            <4>2. c.next.data \in [WordAddr -> MemWord]
                BY DEF Kept, LevelContract
            <4> HIDE DEF k
            <4> QED
                BY <4>1, <4>2 DEF LineAt
        <3> HIDE DEF k, x
        <3>4. /\ t.newVal.tag = c.newVal.tag
              /\ t.newVal.words = [c.newVal.words EXCEPT ![k] = x]
              /\ t.newVal \in Line
            BY <1>3, <2>1, <2>3, <3>1, <3>2, <3>3 DEF Line, Words0
        <3>5. \A j \in Words0 : j > k => c.newVal.words[j] = LineAt(c, p, c.newVal, j)
            BY <3>1 DEF Moving, k
        <3>6. \A j \in Words0 : LineAt(t, p, t.newVal, j) = LineAt(c, p, c.newVal, j)
            BY <1>3, <3>4 DEF LineAt
        <3>7. ASSUME NEW j \in Words0, j >= k
              PROVE  t.newVal.words[j] = LineAt(t, p, t.newVal, j)
            <4>1. j = k \/ j > k
                BY <3>1, <3>7 DEF Words0
            <4>2. c.newVal.words \in [Words0 -> MemWord]
                BY <2>1 DEF Line, Words0
            <4>3. CASE j = k
                BY <3>1, <3>4, <3>6, <4>2, <4>3 DEF x
            <4>4. CASE j > k
                <5>1. j # k
                    BY <3>1, <4>4 DEF Words0
                <5> QED
                    BY <3>1, <3>4, <3>5, <3>6, <4>2, <4>4, <5>1
            <4> QED
                BY <4>1, <4>3, <4>4
        <3> QED
            BY <2>1, <3>4, <3>7
    <2> QED
        BY <2>2, <2>3
<1>5. Kept(t)
    BY <1>3, <1>4 DEF Kept, Slot, Below
<1>6. Chosen(t, a)
    BY <1>3, <1>4 DEF Moving, Chosen, Slot
<1>7. t.isValid => Below(t, p, t.oldVal)
    <2>1. \A j \in Words0 : j >= c.cacheState - StateFirstLoad
        BY <1>1 DEF Words0
    <2>2. t.isValid => \A j \in Words0 : LineAt(t, p, t.oldVal, j) = t.oldVal.words[j]
        BY <1>3, <2>1 DEF Moving, LineAt
    <2> QED
        BY <2>2, BelowIsLineAt
<1> QED
    BY <1>3, <1>4, <1>5, <1>6, <1>7 DEF t

\* A word is asked for.
LEMMA RefillMoves ==
    ASSUME Sized, InRange, LevelContract, NEW c, Kept(c), ~c.wasStore, DOMAIN c = Fields,
           NEW a \in 0 .. 4 * Tags * Places * LineWords - 1, Moving(c, a),
           c.cacheState \in StateLastLoad + 1 .. StateFirstLoad
    PROVE  Moved([Refill(c, a) EXCEPT !.cacheState = @ - 1], a)
<1> DEFINE p == Place(a)
           k == c.cacheState - StateLastLoad
           t == Taken(c)
           at == a - (a % LineBytes) + 4 * (k - 1)
           e == [t EXCEPT !.nextLevelAddr = at, !.nextLevelOpType = "LOAD"]
           d == [e EXCEPT !.cacheState = @ - 1]
<1>1. /\ StateMiss = 2 * LineWords + 2 /\ StateFirstLoad = LineWords + 2
      /\ StateLastLoad = 2 /\ LineWords \in Nat \ {0}
    BY DEF StateMiss, StateFirstLoad, StateLastLoad, Sized
<1>2. k - 1 \in Words0
    BY <1>1 DEF Words0
<1>3. at = 4 * Index(Tag(a), p, k - 1)
    BY <1>2, AddressOfLine
<1>4. Refill(c, a) = e
    BY <1>1 DEF Refill, Taken
<1>5. /\ DOMAIN t = Fields /\ Kept(t) /\ ~t.wasStore /\ Chosen(t, a)
      /\ t.cacheState = c.cacheState /\ (t.isValid => Below(t, p, t.oldVal))
      /\ \A j \in Words0 : j >= k => t.newVal.words[j] = LineAt(t, p, t.newVal, j)
    BY <1>1, TakesWord
<1> HIDE DEF t
<1>6. /\ DOMAIN d = Fields
      /\ d.slots = t.slots /\ d.next = t.next /\ d.valStore = t.valStore
      /\ d.nextLevelDataIn = t.nextLevelDataIn /\ d.wasStore = t.wasStore
      /\ d.oldVal = t.oldVal /\ d.isValid = t.isValid /\ d.newVal = t.newVal
      /\ d.cacheState = c.cacheState - 1
      /\ d.nextLevelAddr = at /\ d.nextLevelOpType = "LOAD"
    BY <1>5 DEF Fields
<1> HIDE DEF d, e, at
<1>7. Kept(d)
    BY <1>5, <1>6 DEF Kept, Slot, Below
<1>8. Chosen(d, a)
    BY <1>5, <1>6 DEF Chosen, Slot
<1>9. Reading(d, a, FALSE)
    <2>1. d.cacheState - StateLastLoad = k - 1
        BY <1>1, <1>6
    <2>2. \A j \in Words0 : j > k - 1 => d.newVal.words[j] = LineAt(d, p, d.newVal, j)
        <3>1. \A j \in Words0 : j > k - 1 => j >= k
            BY <1>1 DEF Words0
        <3> QED
            BY <1>5, <1>6, <3>1 DEF LineAt
    <2>3. d.newVal.tag = Tag(a)
        BY <1>5, <1>6 DEF Chosen
    <2> HIDE DEF k
    <2> QED
        BY <1>3, <1>6, <2>1, <2>2, <2>3 DEF Reading
<1>10. d.isValid => Below(d, p, d.oldVal)
    BY <1>5, <1>6 DEF Below
<1>11. /\ d.cacheState \in 2 .. StateMiss - 1
       /\ ~(d.cacheState \in StateFirstLoad .. StateMiss - 1)
       /\ d.cacheState # 1
    BY <1>1, <1>6
<1>12. Asked(d, a)
    BY <1>8, <1>9, <1>10, <1>11 DEF Served, Asked, p
<1>13. Moved(d, a)
    BY <1>5, <1>6, <1>7, <1>11, <1>12 DEF Moved
<1> QED
    BY <1>4, <1>13 DEF d

\* Line l with the word of an access replaced.
LEMMA LineWith ==
    ASSUME NEW l \in Line, NEW i \in Words0, NEW x \in MemWord
    PROVE  LET m == [l EXCEPT !.words[i] = x] IN
           m \in Line /\ m.tag = l.tag /\ (x = l.words[i] => m = l)
<1> DEFINE w == [l.words EXCEPT ![i] = x]
<1>1. l.words \in [Words0 -> MemWord]
    BY DEF Line, Words0
<1>2. w \in [Words0 -> MemWord] /\ (x = l.words[i] => w = l.words)
    BY <1>1
<1> HIDE DEF w
<1>3. [l EXCEPT !.words = w] \in Line /\ [l EXCEPT !.words = w].tag = l.tag
      /\ (w = l.words => [l EXCEPT !.words = w] = l)
    BY <1>2 DEF Line, Words0
<1> QED
    BY <1>2, <1>3 DEF w

\* What the last state leaves.
Ended(d, a) == Kept(d) /\ ~d.wasStore /\ d.cacheState = 1 /\ Asked(d, a)

\* The last word is taken, and the access done on the line.
LEMMA FillEnds ==
    ASSUME Sized, InRange, LevelContract, NEW c, Kept(c), ~c.wasStore, DOMAIN c = Fields,
           NEW a \in 0 .. 4 * Tags * Places * LineWords - 1, Moving(c, a),
           c.cacheState = StateLastLoad,
           NEW mask \in Masks, NEW op \in Accesses, NEW v \in MemWord,
           NEW r, r = [Refill(c, a) EXCEPT !.cacheState = @ - 1]
    PROVE  r.cacheState = 1 /\ Ended(Fill(r, a, mask, op, v), a)
<1> DEFINE p == Place(a)
           t == Taken(c)
           e == [t EXCEPT !.cacheState = @ - 1]
           l == t.newVal
           word == l.words[Offset(a)]
           stored == IF op = "STORE" THEN WriteSubWord(mask, word, LowOf(a), v) ELSE word
           line == [l EXCEPT !.words[Offset(a)] = stored]
           d == Fill(e, a, mask, op, v)
<1>1. /\ StateMiss = 2 * LineWords + 2 /\ StateFirstLoad = LineWords + 2
      /\ StateLastLoad = 2 /\ LineWords \in Nat \ {0}
    BY DEF StateMiss, StateFirstLoad, StateLastLoad, Sized
<1>2. p \in Places0 /\ Offset(a) \in Words0 /\ LowOf(a) \in 0 .. 3
    <2>1. 0 \in Words0
        BY DEF Words0, Sized
    <2> QED
        BY <2>1, AddressOfLine
<1>3. Refill(c, a) = t
    BY <1>1 DEF Refill, Taken
<1>4. /\ DOMAIN t = Fields /\ Kept(t) /\ ~t.wasStore /\ Chosen(t, a)
      /\ t.cacheState = 2 /\ (t.isValid => Below(t, p, t.oldVal))
      /\ \A j \in Words0 : t.newVal.words[j] = LineAt(t, p, t.newVal, j)
    <2>1. \A j \in Words0 : j >= c.cacheState - StateLastLoad
        BY <1>1 DEF Words0
    <2>2. c.cacheState \in StateLastLoad .. StateFirstLoad
        BY <1>1
    <2> QED
        BY <1>1, <2>1, <2>2, TakesWord
<1> HIDE DEF t
<1>5. line \in Line /\ line.tag = l.tag /\ (op = "LOAD" => line = l)
    <2>1. l \in Line
        BY <1>4 DEF Kept
    <2>2. word \in MemWord
        BY <1>2, <2>1 DEF Line, Words0
    <2>3. stored \in MemWord /\ (op = "LOAD" => stored = word)
        <3> HIDE DEF word
        <3>1. WriteSubWord(mask, word, LowOf(a), v) \in MemWord
            BY <1>2, <2>2, WriteSubWordBytes
        <3> QED
            BY <2>2, <3>1
    <2> HIDE DEF l, stored
    <2> QED
        BY <1>2, <2>1, <2>3, LineWith DEF l
<1>6. /\ DOMAIN d = Fields
      /\ d.slots = t.slots /\ d.next = t.next /\ d.valStore = line
      /\ d.nextLevelDataIn = t.nextLevelDataIn /\ d.wasStore = t.wasStore
      /\ d.oldVal = t.oldVal /\ d.isValid = t.isValid /\ d.newVal = line
      /\ d.cacheState = 1 /\ d.placeStore = p /\ d.valDirty = (op = "STORE")
      /\ d.nextLevelOpType = "NONE"
    <2>1. /\ DOMAIN e = Fields /\ e.newVal = l /\ e.cacheState = 1
          /\ e.slots = t.slots /\ e.next = t.next
          /\ e.nextLevelDataIn = t.nextLevelDataIn /\ e.wasStore = t.wasStore
          /\ e.oldVal = t.oldVal /\ e.isValid = t.isValid
        BY <1>4 DEF Fields
    <2> HIDE DEF e, l
    <2>2. d = [e EXCEPT !.newVal = line, !.valStore = line, !.placeStore = p,
                        !.setStore = e.setMiss, !.valDirty = op = "STORE",
                        !.nextLevelOpType = "NONE",
                        !.dataOut = ReadSubWord(mask, stored, LowOf(a)),
                        !.dataOutStore = ReadSubWord(mask, stored, LowOf(a))]
        BY <2>1 DEF Fill
    <2> HIDE DEF line, d, stored
    <2> QED
        BY <2>1, <2>2 DEF Fields
<1>13. e.cacheState = 1
    BY <1>4 DEF Fields
<1> HIDE DEF d, e, line
<1>7. Kept(d)
    BY <1>4, <1>5, <1>6 DEF Kept, Slot, Below
<1>8. Chosen(d, a)
    BY <1>4, <1>5, <1>6 DEF Chosen, Slot
<1>9. Filled(d, a)
    <2>1. CASE op = "STORE"
        BY <1>6, <2>1 DEF Filled
    <2>2. CASE op = "LOAD"
        <3>1. d.valStore = t.newVal
            BY <1>5, <1>6, <2>2
        <3>2. \A j \in Words0 : LineAt(d, p, d.valStore, j) = d.valStore.words[j]
            BY <1>4, <1>6, <3>1 DEF LineAt
        <3>3. Below(d, p, d.valStore)
            BY <3>2, BelowIsLineAt
        <3> QED
            BY <1>6, <3>3 DEF Filled
    <2> QED
        BY <2>1, <2>2 DEF Accesses
<1>10. d.isValid => Below(d, p, d.oldVal)
    BY <1>4, <1>6 DEF Below
<1>11. /\ ~(d.cacheState \in StateFirstLoad .. StateMiss - 1)
       /\ ~(d.cacheState \in StateLastLoad .. StateFirstLoad - 1)
    BY <1>1, <1>6
<1>12. Asked(d, a)
    BY <1>8, <1>9, <1>10, <1>11 DEF Served, Asked, p
<1>14. Ended(d, a)
    BY <1>4, <1>6, <1>7, <1>12 DEF Ended
<1>15. r = e
    BY <1>3 DEF e
<1> QED
    BY <1>13, <1>14, <1>15 DEF d

\* After the choice of the victim, the next level's answer says where it is.
LEMMA MissMoves ==
    ASSUME Sized, InRange, NEW c, CInv(c), NEW a \in 0 .. 4 * Tags * Places * LineWords - 1,
           c.cacheState > 1, c.cacheState # StateMiss, Answered(c, a)
    PROVE  Moving(c, a)
<1>1. /\ StateMiss = 2 * LineWords + 2 /\ StateFirstLoad = LineWords + 2
      /\ StateLastLoad = 2 /\ LineWords \in Nat \ {0}
    BY DEF StateMiss, StateFirstLoad, StateLastLoad, Sized
<1>2. c.cacheState \in 2 .. StateMiss - 1
    BY <1>1 DEF CInv, LastWayChosen
<1>3. Chosen(c, a)
    BY <1>2 DEF Served, Answered
<1>4. CASE c.cacheState \in StateFirstLoad .. StateMiss - 1
    <2>1. Writing(c, a, TRUE)
        BY <1>4 DEF Served, Answered
    <2>2. \A j \in Words0 : j >= c.cacheState - StateFirstLoad =>
             j > c.cacheState - StateFirstLoad \/ j = c.cacheState - StateFirstLoad
        BY <1>1, <1>4 DEF Words0
    <2>3. ~(c.cacheState < StateFirstLoad)
        BY <1>1, <1>4
    <2>4. c.cacheState \in 2 .. StateMiss
        BY <1>1, <1>2
    <2> QED
        BY <1>3, <2>1, <2>2, <2>3, <2>4 DEF Moving, Writing
<1>5. CASE c.cacheState \in StateLastLoad .. StateFirstLoad - 1
    <2>1. Reading(c, a, TRUE)
        BY <1>5 DEF Served, Answered
    <2>2. c.cacheState \in 1 .. StateFirstLoad - 1 /\ c.cacheState \in 2 .. StateMiss
        BY <1>1, <1>5
    <2>3. c.isValid => \A j \in Words0 :
             LineAt(c, Place(a), c.oldVal, j) = c.oldVal.words[j]
        BY <2>2, BelowIsLineAt DEF Served, Answered
    <2> QED
        BY <1>3, <2>1, <2>2, <2>3 DEF Moving, Reading
<1> QED
    BY <1>1, <1>2, <1>4, <1>5

\* Any state of the countdown, once the last call has been answered.
LEMMA ServeMissServes ==
    ASSUME Sized, InRange, LevelContract, NEW c, CInv(c), Still(c), ~c.wasStore,
           NEW a \in 0 .. 4 * Tags * Places * LineWords - 1,
           c.cacheState > 1, Answered(c, a),
           NEW mask \in Masks, NEW op \in Accesses, NEW v \in MemWord
    PROVE  LET d == ServeMiss(c, a, mask, op, v) IN
           Still(d) /\ ~d.wasStore /\ Asked(d, a)
<1> DEFINE b == IF c.cacheState = StateMiss THEN ChooseVictim(c, a) ELSE c
           moved == IF b.cacheState >= StateLastStore THEN WriteBack(b, a) ELSE Refill(b, a)
           e == [moved EXCEPT !.cacheState = @ - 1]
           d == IF e.cacheState = 1 THEN Fill(e, a, mask, op, v) ELSE e
<1>1. /\ StateMiss = 2 * LineWords + 2 /\ StateFirstLoad = LineWords + 2
      /\ StateLastStore = LineWords + 3 /\ StateLastLoad = 2 /\ LineWords \in Nat \ {0}
    BY DEF StateMiss, StateFirstLoad, StateLastStore, StateLastLoad, Sized
<1>2. ServeMiss(c, a, mask, op, v) = d
    BY DEF ServeMiss
<1> SUFFICES Still(d) /\ ~d.wasStore /\ Asked(d, a)
    <2> HIDE DEF d
    <2> QED
        BY <1>2
<1>3. Kept(b) /\ ~b.wasStore /\ Moving(b, a) /\ DOMAIN b = Fields
    <2>1. CASE c.cacheState = StateMiss
        BY <2>1, ChooseStarts
    <2>2. CASE c.cacheState # StateMiss
        <3>1. Kept(c) /\ DOMAIN c = Fields /\ Moving(c, a)
            BY <2>2, MissMoves DEF Still, CInv, Tied
        <3> QED
            BY <2>2, <3>1
    <2> QED
        BY <2>1, <2>2
<1> HIDE DEF b
<1>4. ASSUME Kept(d), ~d.wasStore, d.cacheState \in 1 .. StateMiss - 1, Asked(d, a)
      PROVE  Still(d) /\ ~d.wasStore /\ Asked(d, a)
    <2>1. d.cacheState \notin {0, StateMiss}
        BY <1>1, <1>4
    <2> QED
        BY <1>4, <2>1 DEF Still
<1>5. b.cacheState \in 2 .. StateMiss
    BY <1>3 DEF Moving
<1>6. CASE b.cacheState >= StateLastStore
    <2>1. e = [WriteBack(b, a) EXCEPT !.cacheState = @ - 1]
        BY <1>6
    <2> HIDE DEF e
    <2>2. Moved(e, a)
        BY <1>3, <1>6, <2>1, WriteBackMoves
    <2>3. d = e /\ e.cacheState \in 1 .. StateMiss - 1
        BY <1>1, <2>2 DEF Moved
    <2> QED
        BY <1>2, <1>4, <2>2, <2>3 DEF Moved
<1>7. CASE b.cacheState \in StateLastLoad + 1 .. StateFirstLoad
    <2>1. e = [Refill(b, a) EXCEPT !.cacheState = @ - 1]
        BY <1>1, <1>7
    <2> HIDE DEF e
    <2>2. Moved(e, a)
        BY <1>3, <1>7, <2>1, RefillMoves
    <2>3. d = e /\ e.cacheState \in 1 .. StateMiss - 1
        BY <1>1, <2>2 DEF Moved
    <2> QED
        BY <1>2, <1>4, <2>2, <2>3 DEF Moved
<1>8. CASE b.cacheState = StateLastLoad
    <2>1. e = [Refill(b, a) EXCEPT !.cacheState = @ - 1]
        BY <1>1, <1>8
    <2> HIDE DEF e
    <2> DEFINE f == Fill(e, a, mask, op, v)
    <2>2. e.cacheState = 1 /\ Ended(f, a)
        BY <1>3, <1>8, <2>1, FillEnds
    <2>3. d = f
        BY <2>2
    <2> HIDE DEF d, f
    <2>4. d.cacheState \in 1 .. StateMiss - 1
        BY <1>1, <2>2, <2>3 DEF Ended
    <2> QED
        BY <1>2, <1>4, <2>2, <2>3, <2>4 DEF Ended
<1>9. \/ b.cacheState >= StateLastStore
      \/ b.cacheState \in StateLastLoad + 1 .. StateFirstLoad
      \/ b.cacheState = StateLastLoad
    BY <1>1, <1>5
<1> HIDE DEF d
<1> QED
    BY <1>6, <1>7, <1>8, <1>9

-----------------------------------------------------------------------------
(* The other calls.                                                        *)

\* The commit puts a dirty line in the array, or one that is below.
LEMMA CommitServes ==
    ASSUME Sized, InRange, NEW c, CInv(c), Still(c), NEW a,
           c.wasStore \/ (c.cacheState = 1 /\ Answered(c, a))
    PROVE  LET d == Commit(c) IN Still(d) /\ d.cacheState = 0 /\ ~d.wasStore
<1> DEFINE s == [line |-> c.valStore, age |-> c.cycle, valid |-> TRUE, dirty |-> c.valDirty]
           d == [c EXCEPT !.slots[c.placeStore][3] = s, !.dataOut = c.dataOutStore,
                          !.wasStore = FALSE, !.cacheState = 0, !.waitOut = FALSE]
<1>1. Commit(c) = d
    BY DEF Commit, CInv, LastWayChosen
<1>2. s.line = c.valStore /\ s.dirty = c.valDirty
    OBVIOUS
<1> HIDE DEF s
<1>3. /\ d.slots = [c.slots EXCEPT ![c.placeStore][3] = s]
      /\ d.cacheState = 0 /\ d.wasStore = FALSE /\ d.newVal = c.newVal
      /\ d.oldVal = c.oldVal /\ d.valStore = c.valStore /\ d.next = c.next
      /\ d.nextLevelDataIn = c.nextLevelDataIn /\ d.nextLevelOpType = c.nextLevelOpType
    BY DEF CInv, Tied, Fields
<1> HIDE DEF d
<1>4. c.nextLevelOpType = "NONE"
    BY DEF Still, Kept, Served, Answered, Filled
<1>5. \A p \in Places0, w \in Ways : d.slots[p][w].line \in Line
    BY <1>2, <1>3 DEF Still, Kept, CInv, Tied, Places0
<1>6. ASSUME NEW p \in Places0, Slot(d, p).valid, ~Slot(d, p).dirty
      PROVE  Below(d, p, Slot(d, p).line)
    <2>1. CASE p = c.placeStore
        <3>1. Slot(d, p) = s
            <4>1. p \in DOMAIN c.slots /\ 3 \in DOMAIN c.slots[p]
                BY DEF CInv, Tied, Places0, Ways
            <4> QED
                BY <1>3, <2>1, <4>1 DEF Slot
        <3>2. Below(c, p, c.valStore)
            BY <1>2, <1>6, <2>1, <3>1 DEF Still, Kept, Served, Answered, Filled
        <3> QED
            BY <1>2, <1>3, <3>1, <3>2 DEF Below
    <2>2. CASE p # c.placeStore
        <3>1. Slot(d, p) = Slot(c, p)
            BY <1>3, <2>2 DEF Slot, CInv, Tied, Places0
        <3> QED
            BY <1>3, <1>6, <3>1 DEF Still, Kept, Below
    <2> QED
        BY <2>1, <2>2
<1>7. Still(d)
    BY <1>3, <1>4, <1>5, <1>6 DEF Still, Kept
<1> QED
    BY <1>1, <1>3, <1>7

\* A hit leaves the array alone, and a store hit a dirty line to commit.
LEMMA HitServes ==
    ASSUME Sized, InRange, NEW c, CInv(c), Still(c), ~c.wasStore, c.cacheState = 0,
           NEW a \in 0 .. 4 * Tags * Places * LineWords - 1, HitWays(c, a) # {},
           NEW mask \in Masks, NEW op \in Accesses, NEW v \in MemWord
    PROVE  LET d == Hit(c, a, mask, op, v) IN Still(d) /\ d.cacheState = 0
<1> DEFINE d == Hit(c, a, mask, op, v)
           l == c.slots[Place(a)][3].line
           word == l.words[Offset(a)]
           x == WriteSubWord(mask, word, LowOf(a), v)
           line == [l EXCEPT !.words[Offset(a)] = x]
<1>1. a \in Nat /\ Place(a) \in Places0 /\ Offset(a) \in Words0 /\ LowOf(a) \in 0 .. 3
    <2>1. 0 \in Words0
        BY DEF Words0, Sized
    <2> QED
        BY <2>1, AddressOfLine
<1>2. HitWay(c, a) = 3
    BY <1>1, HitsLastWay DEF CInv
<1>3. line \in Line
    <2>1. l \in Line
        BY <1>1 DEF Still, Kept, Ways
    <2>2. word \in MemWord
        BY <1>1, <2>1 DEF Line, Words0
    <2>3. x \in MemWord
        <3> HIDE DEF word
        <3> QED
            BY <1>1, <2>2, WriteSubWordBytes
    <2> HIDE DEF l, x
    <2> QED
        BY <1>1, <2>1, <2>3, LineWith
<1>4. d = IF op = "STORE"
          THEN [c EXCEPT !.placeStore = Place(a), !.setStore = 3, !.valStore = line,
                         !.valDirty = TRUE, !.wasStore = TRUE]
          ELSE [c EXCEPT !.dataOut = ReadSubWord(mask, word, LowOf(a))]
    BY <1>2 DEF Hit
<1> HIDE DEF d, line, word
<1>5. /\ d.slots = c.slots /\ d.cacheState = 0 /\ d.newVal = c.newVal
      /\ d.oldVal = c.oldVal /\ d.next = c.next
      /\ d.nextLevelDataIn = c.nextLevelDataIn /\ d.nextLevelOpType = c.nextLevelOpType
      /\ \/ d.valStore = line /\ d.valDirty = TRUE
         \/ d.valStore = c.valStore /\ d.wasStore = c.wasStore
    BY <1>4 DEF CInv, Tied, Fields
<1>6. Kept(d)
    <2>1. d.valStore \in Line
        BY <1>3, <1>5 DEF Still, Kept
    <2>2. d.wasStore => d.valDirty
        BY <1>5
    <2> QED
        BY <1>5, <2>1, <2>2 DEF Still, Kept, Slot, Below
<1> QED
    BY <1>5, <1>6 DEF Still, d

\* The fields that none of this is about.
LEMMA OtherFields ==
    ASSUME NEW c, DOMAIN c = Fields, NEW x, NEW a, NEW f,
           f = [c EXCEPT !.cycle = x] \/ f = [c EXCEPT !.waitOut = x]
    PROVE  /\ f.next = c.next /\ f.cacheState = c.cacheState /\ f.wasStore = c.wasStore
           /\ CInv(c) => CInv(f)
           /\ Still(c) => Still(f)
           /\ Answered(c, a) => Answered(f, a)
           /\ InHand(c, a) => InHand(f, a)
<1>1. /\ DOMAIN f = Fields /\ f.slots = c.slots /\ f.cacheState = c.cacheState
      /\ f.newVal = c.newVal /\ f.oldVal = c.oldVal /\ f.isValid = c.isValid
      /\ f.setMiss = c.setMiss /\ f.wasStore = c.wasStore
      /\ f.setStore = c.setStore /\ f.placeStore = c.placeStore
      /\ f.valStore = c.valStore /\ f.valDirty = c.valDirty
      /\ f.nextLevelAddr = c.nextLevelAddr /\ f.next = c.next
      /\ f.nextLevelOpType = c.nextLevelOpType
      /\ f.nextLevelDataIn = c.nextLevelDataIn
    BY DEF Fields
<1>2. CInv(c) => CInv(f)
    BY <1>1 DEF CInv, Tied, LastWayChosen
<1>3. Still(c) => Still(f)
    BY <1>1 DEF Still, Kept, Slot, Below
<1>4. (Answered(c, a) => Answered(f, a)) /\ (InHand(c, a) => InHand(f, a))
    <2>1. Chosen(c, a) => Chosen(f, a)
        BY <1>1 DEF Chosen, Slot
    <2>2. /\ Writing(c, a, TRUE) => Writing(f, a, TRUE)
          /\ Writing(c, a, LevelAnswered(c)) => Writing(f, a, LevelAnswered(f))
        BY <1>1 DEF Writing, LineAt, LevelAnswered
    <2>3. /\ Reading(c, a, TRUE) => Reading(f, a, TRUE)
          /\ Reading(c, a, LevelAnswered(c)) => Reading(f, a, LevelAnswered(f))
        BY <1>1 DEF Reading, LineAt, LevelAnswered
    <2>4. Filled(c, a) => Filled(f, a)
        BY <1>1 DEF Filled, Below
    <2>5. Below(c, Place(a), c.oldVal) => Below(f, Place(a), f.oldVal)
        BY <1>1 DEF Below
    <2> QED
        BY <1>1, <2>1, <2>2, <2>3, <2>4, <2>5 DEF Served, InHand, Answered
<1> QED
    BY <1>1, <1>2, <1>3, <1>4

\* With no miss, every address is served.
LEMMA NothingToServe ==
    ASSUME Sized, NEW c, c.cacheState \in {0, StateMiss}, NEW a
    PROVE  Asked(c, a) /\ InHand(c, a)
<1>1. /\ StateMiss = 2 * LineWords + 2 /\ StateFirstLoad = LineWords + 2
      /\ StateLastLoad = 2 /\ LineWords \in Nat \ {0}
    BY DEF StateMiss, StateFirstLoad, StateLastLoad, Sized
<1>2. /\ c.cacheState \notin 1 .. StateMiss - 1
      /\ c.cacheState \notin StateFirstLoad .. StateMiss - 1
      /\ c.cacheState \notin 1 .. StateFirstLoad - 1
      /\ c.cacheState \notin StateLastLoad .. StateFirstLoad - 1
      /\ c.cacheState # 1
    BY <1>1
<1> QED
    BY <1>2 DEF Served, Asked, InHand

-----------------------------------------------------------------------------
(* A call of process(), and the cache under its client.                    *)

Resting(c) == c.cacheState = 0 /\ ~c.wasStore

\* A call that answers leaves the cache at rest; one with NONE, as it was if
\* it was at rest.
LEMMA ProcessServes ==
    ASSUME Sized, InRange, LevelContract, NEW old, CInv(old), Still(old),
           NEW a \in 0 .. 4 * Tags * Places * LineWords - 1,
           InHand(old, a),
           NEW mask \in Masks, NEW op, op = "NONE" \/ op \in Accesses, NEW v \in MemWord
    PROVE  LET d == CacheProcess(old, a, mask, op, v) IN
           /\ Still(d) /\ InHand(d, a)
           /\ (~d.waitOut \/ (op = "NONE" /\ Resting(old))) => Resting(d)
<1> DEFINE c == [old EXCEPT !.cycle = (@ + 1) % AgeSize]
           started == [c EXCEPT !.cacheState = StateMiss]
           d == CacheProcess(old, a, mask, op, v)
<1>1. /\ StateMiss \in Int /\ StateMiss > 3
    BY Geometry
<1>2. /\ CInv(c) /\ Still(c) /\ c.next = old.next
      /\ c.cacheState = old.cacheState /\ c.wasStore = old.wasStore
      /\ Answered(old, a) => Answered(c, a)
    <2> DEFINE x == (old.cycle + 1) % AgeSize
    <2>1. c = [old EXCEPT !.cycle = x]
        OBVIOUS
    <2> HIDE DEF c, d, x
    <2>2. DOMAIN old = Fields
        BY DEF CInv, Tied
    <2>3. /\ c.next = old.next /\ c.cacheState = old.cacheState /\ c.wasStore = old.wasStore
          /\ (CInv(old) => CInv(c)) /\ (Still(old) => Still(c))
          /\ (Answered(old, a) => Answered(c, a))
        BY <2>1, <2>2, OtherFields
    <2> QED
        BY <2>3
<1> HIDE DEF c
\* A call of the next level, with what was left to do before it.
<1>3. ASSUME NEW b, CInv(b), Still(b), Asked(b, a), d = CallNextLevel(b),
             op = "NONE" /\ Resting(old) => Resting(b)
      PROVE  /\ Still(d) /\ InHand(d, a)
             /\ (~d.waitOut \/ (op = "NONE" /\ Resting(old))) => Resting(d)
    <2>1. Still(d) /\ InHand(d, a)
        <3> HIDE DEF d
        <3> QED
            BY <1>3, CallKeeps
    <2>2. /\ d.cacheState = b.cacheState /\ d.wasStore = b.wasStore
          /\ ~d.waitOut => b.cacheState = 0 /\ ~b.wasStore
        <3> HIDE DEF d
        <3> QED
            BY <1>3 DEF CInv, Tied, Fields, CallNextLevel
    <2> HIDE DEF d
    <2> QED
        BY <1>3, <2>1, <2>2 DEF Resting
<1>4. CASE old.next.waitOut
    <2>1. d = CallNextLevel(old)
        BY <1>4 DEF CacheProcess
    <2>2. Asked(old, a)
        BY <1>4 DEF Served, Asked, InHand, Writing, Reading, LevelAnswered
    <2> HIDE DEF d
    <2> QED
        BY <1>3, <2>1, <2>2 DEF d
<1>5. CASE ~old.next.waitOut
    <2>1. Answered(c, a)
        <3>1. Answered(old, a)
            BY <1>5 DEF Served, InHand, Answered, Writing, Reading, LevelAnswered
        <3> QED
            BY <1>2, <3>1
    <2>2. CASE c.wasStore \/ c.cacheState = 1
        <3>1. d = Commit(c)
            BY <1>5, <2>2 DEF CacheProcess, c
        <3>2. Still(d) /\ d.cacheState = 0 /\ ~d.wasStore
            <4> HIDE DEF d
            <4> QED
                BY <1>2, <2>1, <2>2, <3>1, CommitServes
        <3>3. InHand(d, a)
            <4> HIDE DEF d
            <4> QED
                BY <3>2, NothingToServe
        <3> HIDE DEF d
        <3> QED
            BY <3>2, <3>3 DEF Resting, d
    <2>3. CASE ~(c.wasStore \/ c.cacheState = 1)
        <3> DEFINE b == IF op = "NONE" THEN c
                        ELSE IF c.cacheState # 0 THEN ServeMiss(c, a, mask, op, v)
                        ELSE IF HitWays(c, a) # {} THEN Hit(c, a, mask, op, v)
                        ELSE started
        <3>1. d = CallNextLevel(b)
            BY <1>5, <2>3 DEF CacheProcess, c
        <3>2. c.cacheState # 0 => c.cacheState > 1
            BY <1>1, <1>2, <2>3 DEF CInv, LastWayChosen
        <3>3. a \in Nat
            <4>1. 0 \in Words0
                BY DEF Words0, Sized
            <4> QED
                BY <4>1, AddressOfLine
        <3>4. CInv(b) /\ Still(b) /\ Asked(b, a)
            <4>1. CASE op = "NONE"
                <5>1. Asked(c, a)
                    BY <2>1 DEF Served, Asked, Answered, Writing, Reading
                <5> QED
                    BY <1>2, <4>1, <5>1
            <4>2. CASE op \in Accesses /\ c.cacheState # 0
                <5>1. b = ServeMiss(c, a, mask, op, v)
                    BY <4>2 DEF Accesses
                <5> HIDE DEF b
                <5>2. CInv(b)
                    BY <1>2, <3>2, <3>3, <4>2, <5>1, ServeMissKeeps
                <5>3. Still(b) /\ Asked(b, a)
                    BY <1>2, <2>1, <2>3, <3>2, <4>2, <5>1, ServeMissServes
                <5> QED
                    BY <5>2, <5>3
            <4>3. CASE op \in Accesses /\ c.cacheState = 0 /\ HitWays(c, a) # {}
                <5>1. b = Hit(c, a, mask, op, v)
                    BY <4>3 DEF Accesses
                <5> HIDE DEF b
                <5>2. CInv(b)
                    BY <1>2, <3>3, <4>3, <5>1, HitKeeps
                <5>3. Still(b) /\ b.cacheState = 0
                    BY <1>2, <2>3, <4>3, <5>1, HitServes
                <5>4. Asked(b, a)
                    BY <5>3, NothingToServe
                <5> QED
                    BY <5>2, <5>3, <5>4
            <4>4. CASE op \in Accesses /\ c.cacheState = 0 /\ HitWays(c, a) = {}
                <5>1. b = started
                    BY <4>4 DEF Accesses
                <5>2. /\ DOMAIN b = Fields /\ b.cacheState = StateMiss
                      /\ b.slots = c.slots /\ b.newVal = c.newVal /\ b.oldVal = c.oldVal
                      /\ b.valStore = c.valStore /\ b.next = c.next
                      /\ b.nextLevelDataIn = c.nextLevelDataIn
                      /\ b.nextLevelOpType = c.nextLevelOpType
                      /\ b.wasStore = c.wasStore
                    <6> HIDE DEF b
                    <6> QED
                        BY <1>2, <5>1 DEF CInv, Tied, Fields
                <5> HIDE DEF b
                <5>3. CInv(b)
                    BY <1>1, <1>2, <2>3, <5>2 DEF CInv, Tied, LastWayChosen
                <5>4. Still(b)
                    BY <1>2, <2>3, <4>4, <5>2 DEF Still, Kept, Slot, Below
                <5>5. Asked(b, a)
                    BY <5>2, NothingToServe
                <5> QED
                    BY <5>3, <5>4, <5>5
            <4> QED
                BY <4>1, <4>2, <4>3, <4>4
        <3>5. op = "NONE" /\ Resting(old) => Resting(b)
            BY <1>2 DEF Resting
        <3> HIDE DEF b, d
        <3> QED
            BY <1>3, <3>1, <3>4, <3>5 DEF d
    <2> QED
        BY <2>2, <2>3
<1> QED
    BY <1>4, <1>5

\* What holds between two cycles.
MDInv ==
    /\ CInv(mem) /\ Still(mem)
    /\ \/ req = NoRequest /\ Resting(mem)
       \/ req \in Requests /\ InHand(mem, req.addr)

\* The constructor: nothing is there to lose.
LEMMA ResetStill ==
    ASSUME Sized, InRange, NEW n \in Levels
    PROVE  Still(EmptyCache(n)) /\ Resting(EmptyCache(n))
<1> DEFINE e == EmptyCache(n)
<1>1. NullLine \in Line /\ 0 \in MemWord
    <2>1. 0 \in MemWord
        BY Sizes DEF MemWord
    <2> QED
        BY <2>1 DEF NullLine, Line, InRange
<1>2. /\ e.slots = [p \in 0 .. Places - 1 |-> [w \in Ways |->
                      [line |-> NullLine, age |-> 0, valid |-> FALSE, dirty |-> FALSE]]]
      /\ e.cacheState = 0 /\ e.wasStore = FALSE /\ e.next = n
      /\ e.newVal = NullLine /\ e.oldVal = NullLine /\ e.valStore = NullLine
      /\ e.nextLevelDataIn = 0 /\ e.nextLevelOpType = "NONE"
    BY DEF EmptyCache
<1> HIDE DEF e
<1>3. \A p \in Places0, w \in Ways : e.slots[p][w].line = NullLine /\ e.slots[p][w].valid = FALSE
    BY <1>2 DEF Places0
<1>4. \A p \in Places0 : ~Slot(e, p).valid
    BY <1>3 DEF Slot, Ways
<1>5. \A p \in Places0, w \in Ways : e.slots[p][w].line \in Line
    BY <1>1, <1>3
<1>6. Kept(e)
    BY <1>1, <1>2, <1>4, <1>5 DEF Kept
<1> QED
    BY <1>2, <1>6 DEF Still, Resting, e

\* The cache and its client keep to it.
LEMMA MDInvKept ==
    ASSUME Sized, OfCache, InRange, LevelContract
    PROVE  (Init => MDInv) /\ (MDInv /\ [Next]_vars => MDInv')
<1>1. Init => MDInv
    BY ResetTied, ResetStill DEF Init, MDInv, OfCache
<1>2. MDInv /\ [Next]_vars => MDInv'
    <2> SUFFICES ASSUME MDInv, [Next]_vars PROVE MDInv'
        OBVIOUS
    <2> DEFINE idle == [mem EXCEPT !.waitOut = FALSE]
               Room == 0 .. 4 * Tags * Places * LineWords - 1
    <2>1. /\ CInv(idle) /\ Still(idle) /\ (Resting(mem) => Resting(idle))
          /\ \A a : InHand(mem, a) => InHand(idle, a)
        <3>1. CInv(mem) /\ Still(mem) /\ DOMAIN mem = Fields
            BY DEF MDInv, CInv, Tied
        <3>2. /\ CInv(idle) /\ Still(idle) /\ idle.next = mem.next
              /\ idle.cacheState = mem.cacheState /\ idle.wasStore = mem.wasStore
              /\ \A a : InHand(mem, a) => InHand(idle, a)
            BY <3>1, OtherFields
        <3> HIDE DEF idle
        <3> QED
            BY <3>2 DEF Resting
    <2> HIDE DEF idle
    <2>2. ASSUME NEW r \in RequestsOf(mem), Ask(r) PROVE MDInv'
        <3>1. r \in Requests /\ Resting(mem)
            BY <2>2 DEF Ask, MDInv, OfCache, Sized
        <3>2. InHand(mem, r.addr)
            BY <3>1, NothingToServe DEF Resting
        <3> QED
            BY <2>2, <3>1, <3>2 DEF Ask, MDInv
    <2>3. ASSUME req # NoRequest, NEW op, op = "NONE" \/ op = req.op, mem' = Called(op)
          PROVE  /\ CInv(mem') /\ Still(mem') /\ InHand(mem', req.addr)
                 /\ ~mem'.waitOut => Resting(mem')
                 /\ req \in Requests
        <3>1. req \in Requests /\ InHand(idle, req.addr)
            BY <2>1, <2>3 DEF MDInv
        <3>2. mem' = CacheProcess(idle, req.addr, req.mask, op, req.data)
            BY <2>3 DEF Called, idle, OfCache
        <3>3. /\ req.addr \in Room /\ req.mask \in Masks /\ req.data \in MemWord
              /\ op = "NONE" \/ op \in Accesses
            BY <2>3, <3>1 DEF InRange
        <3>4. req.addr \in Nat
            BY <3>1 DEF Sized
        <3>5. CInv(mem')
            BY <2>1, <3>2, <3>4, ProcessKeeps
        <3>6. /\ Still(mem') /\ InHand(mem', req.addr)
              /\ ~mem'.waitOut => Resting(mem')
            BY <2>1, <3>1, <3>2, <3>3, ProcessServes
        <3> QED
            BY <3>1, <3>5, <3>6
    <2>4. CASE Retry
        BY <2>3, <2>4 DEF Retry, MDInv
    <2>5. CASE Suspended
        BY <2>3, <2>5 DEF Suspended, MDInv
    <2>6. CASE Quiet
        <3>1. mem' = CacheProcess(idle, 0, "WORD", "NONE", 0)
            BY <2>6 DEF Quiet, idle, OfCache
        <3>2. Resting(idle)
            BY <2>1, <2>6 DEF Quiet, MDInv, Sized
        <3>3. InHand(idle, 0)
            BY <3>2, NothingToServe DEF Resting
        <3>4. 0 \in Room /\ "WORD" \in Masks /\ 0 \in MemWord
            <4>1. \A x, y \in Nat \ {0} : x * y \in Nat \ {0}
                OBVIOUS
            <4>2. 4 * Tags * Places * LineWords \in Nat \ {0}
                BY <4>1 DEF Sized, InRange
            <4> QED
                BY <4>2, Sizes DEF Masks, MemWord
        <3>5. CInv(mem')
            BY <2>1, <3>1, ProcessKeeps
        <3>6. Still(mem') /\ Resting(mem')
            BY <2>1, <3>1, <3>2, <3>3, <3>4, ProcessServes
        <3> QED
            BY <2>6, <3>5, <3>6 DEF Quiet, MDInv
    <2>7. CASE UNCHANGED vars
        BY <2>7 DEF vars, MDInv
    <2> QED
        BY <2>2, <2>4, <2>5, <2>6, <2>7 DEF Next, Ready
<1> QED
    BY <1>1, <1>2

\* Between any two cycles the next level has every line process() may drop,
\* whatever was asked, suspended or made to wait before.
THEOREM LinesNeverLost ==
    ASSUME Sized, OfCache, InRange, LevelContract
    PROVE  Spec => []DroppableLinesBelow
<1>1. MDInv => DroppableLinesBelow
    <2> SUFFICES ASSUME MDInv PROVE LinesBelow(mem)
        BY DEF DroppableLinesBelow
    <2>1. ASSUME NEW p \in 0 .. Places - 1, NEW w \in Ways,
                 mem.slots[p][w].valid, ~mem.slots[p][w].dirty
          PROVE  Below(mem, p, mem.slots[p][w].line)
        <3>1. w = 3
            BY <2>1 DEF MDInv, CInv, Tied, Ways
        <3> QED
            BY <2>1, <3>1 DEF MDInv, Still, Kept, Slot, Places0
    <2>2. ASSUME mem.cacheState = 1, mem.slots[mem.placeStore][mem.setStore].valid
          PROVE  Below(mem, mem.placeStore, mem.slots[mem.placeStore][mem.setStore].line)
        <3>1. InHand(mem, req.addr)
            BY <2>2 DEF MDInv, Resting
        <3>2. mem.setStore = 3
            BY <2>2 DEF MDInv, CInv, LastWayChosen
        <3>3. mem.cacheState \in 1 .. StateMiss - 1 /\ mem.cacheState \in 1 .. StateFirstLoad - 1
            BY <2>2 DEF Sized, StateMiss, StateFirstLoad
        <3>4. mem.placeStore = Place(req.addr)
            BY <2>2, <3>1 DEF Served, InHand, Filled
        <3>5. Chosen(mem, req.addr)
            BY <3>1, <3>3 DEF Served, InHand
        <3>6. mem.isValid => Below(mem, Place(req.addr), mem.oldVal)
            BY <3>1, <3>3 DEF Served, InHand
        <3> QED
            BY <2>2, <3>2, <3>4, <3>5, <3>6 DEF Chosen, Slot
    <2> QED
        BY <2>1, <2>2 DEF LinesBelow
<1> QED
    BY <1>1, MDInvKept, PTL DEF Spec

-----------------------------------------------------------------------------
(* SimpleMemory keeps the promise.                                         *)

\* The words of the level below are those of the cache.
Level == INSTANCE Memories

\* A LONG access of SimpleMemory reads or writes one whole word at once, so
\* LevelContract asks nothing this code cannot give.
THEOREM SimpleMemoryKeepsContract ==
    ASSUME Sized, InRange, Levels = Level!SimpleMemoryRecord,
           \A m, addr, mask, op, d : NextProcess(m, addr, mask, op, d)
                                     = Level!SimpleProcess(m, addr, mask, op, d)
    PROVE  LevelContract
<1> SUFFICES ASSUME NEW n \in Levels
             PROVE  /\ n.data \in [WordAddr -> MemWord]
                    /\ \A addr, d :
                          LET m == NextProcess(n, addr, "LONG", "NONE", d) IN
                          m \in Levels /\ m.data = n.data
                    /\ \A i \in WordAddr, d \in MemWord :
                          LET m == NextProcess(n, 4 * i, "LONG", "LOAD", d) IN
                          /\ m \in Levels /\ m.data = n.data
                          /\ ~m.waitOut => m.dataOut = n.data[i]
                    /\ \A i \in WordAddr, d \in MemWord :
                          LET m == NextProcess(n, 4 * i, "LONG", "STORE", d) IN
                          /\ m \in Levels
                          /\ \/ m.data = [n.data EXCEPT ![i] = d]
                             \/ m.waitOut /\ m.data = n.data
    BY DEF LevelContract
<1>1. Level!MemWord = MemWord
    BY DEF Level!MemWord, Level!FullSize, Level!HalfSize, MemWord, FullSize, HalfSize
<1>2. n \in [data : [WordAddr -> MemWord], dataOut : MemWord, waitOut : BOOLEAN]
    BY <1>1 DEF Level!SimpleMemoryRecord
<1>3. ASSUME NEW m, m \in [data : [WordAddr -> MemWord], dataOut : MemWord, waitOut : BOOLEAN]
      PROVE  m \in Levels
    BY <1>1, <1>3 DEF Level!SimpleMemoryRecord
<1>4. ASSUME NEW addr, NEW d
      PROVE  LET m == NextProcess(n, addr, "LONG", "NONE", d) IN
             m \in Levels /\ m.data = n.data
    <2>1. NextProcess(n, addr, "LONG", "NONE", d) = [n EXCEPT !.waitOut = FALSE]
        BY DEF Level!SimpleProcess
    <2> QED
        BY <1>2, <1>3, <2>1
\* A LONG access is one of the whole word.
<1>5. ASSUME NEW i \in WordAddr
      PROVE  /\ Level!WordOf(4 * i) = i
             /\ \A low : \A w, v \in MemWord :
                   /\ Level!ReadSubWord("LONG", w, low) = w
                   /\ Level!WriteSubWord("LONG", w, low, v) = v
    <2>1. i \in Int
        <3>1. Tags * Places * LineWords \in Int
            BY DEF Sized, InRange
        <3> QED
            BY <3>1 DEF WordAddr
    <2>2. (4 * i) \div 4 = i
        BY <2>1
    <2>3. ASSUME NEW low, NEW w \in MemWord, NEW v \in MemWord
          PROVE  /\ Level!ReadSubWord("LONG", w, low) = ReadSubWord("LONG", w, low)
                 /\ Level!WriteSubWord("LONG", w, low, v) = WriteSubWord("LONG", w, low, v)
        BY DEF Level!ReadSubWord, Level!WriteSubWord, Level!Width, Level!Weight,
               Level!Slice, Level!FullSize, Level!HalfSize, ReadSubWord, WriteSubWord,
               Width, Weight, Slice, FullSize, HalfSize
    <2> QED
        BY <2>2, <2>3, WholeWord DEF Level!WordOf
<1>6. ASSUME NEW i \in WordAddr, NEW d \in MemWord
      PROVE  LET m == NextProcess(n, 4 * i, "LONG", "LOAD", d) IN
             /\ m \in Levels /\ m.data = n.data
             /\ ~m.waitOut => m.dataOut = n.data[i]
    <2> DEFINE x == Level!ReadSubWord("LONG", n.data[i], Level!LowOf(4 * i))
    <2>1. NextProcess(n, 4 * i, "LONG", "LOAD", d)
            = [n EXCEPT !.waitOut = FALSE, !.dataOut = x]
        BY <1>5 DEF Level!SimpleProcess
    <2>2. x = n.data[i] /\ x \in MemWord
        <3>1. n.data[i] \in MemWord
            BY <1>2
        <3> QED
            BY <1>5, <3>1
    <2> HIDE DEF x
    <2> QED
        BY <1>2, <1>3, <1>5, <2>1, <2>2
<1>7. ASSUME NEW i \in WordAddr, NEW d \in MemWord
      PROVE  LET m == NextProcess(n, 4 * i, "LONG", "STORE", d) IN
             /\ m \in Levels
             /\ \/ m.data = [n.data EXCEPT ![i] = d]
                \/ m.waitOut /\ m.data = n.data
    <2> DEFINE w == Level!WriteSubWord("LONG", n.data[i], Level!LowOf(4 * i), d)
    <2>1. NextProcess(n, 4 * i, "LONG", "STORE", d)
            = [n EXCEPT !.waitOut = FALSE, !.data = [n.data EXCEPT ![i] = w]]
        BY <1>5 DEF Level!SimpleProcess
    <2>2. w = d
        <3>1. n.data[i] \in MemWord
            BY <1>2
        <3> QED
            BY <1>5, <3>1
    <2> HIDE DEF w
    <2> QED
        BY <1>2, <1>3, <2>1, <2>2
<1> QED
    BY <1>2, <1>4, <1>6, <1>7
=============================================================================
