--------------------------- MODULE CacheRefinement ---------------------------
(***************************************************************************)
(* The cache is an array of bytes, for every geometry and above every next *)
(* level that keeps LevelContract: under MemoryClient it implements        *)
(* ByteMemory.                                                             *)
(*                                                                         *)
(* What a reader sees at an address is the word of the line that hits      *)
(* there, or else the next level's.  Write backs and refills move words    *)
(* between the two without a reader seeing them: a word is written back    *)
(* under the line that hides it, and a victim is replaced once it is       *)
(* below.  Only the commit is seen, and all it does is the access the      *)
(* memory stage still waits for; the invariant says that the line kept for *)
(* it differs from what a reader sees by that access alone.                *)
(***************************************************************************)
EXTENDS CacheProofs

\* The next level never makes a call with NONE wait: a cache above one that
\* did would answer a hit late, with the dataOut of another call.
NoneAnswers ==
    \A n \in Levels : \A addr, d : ~NextProcess(n, addr, "LONG", "NONE", d).waitOut

\* The words of the client's memory are those a reader of the cache sees.
CacheOnly ==
    /\ \A m : Contents(m) = CacheContents(m)
    /\ Cells = WordAddr
    /\ \A m \in Resets : ~m.next.waitOut

Room == 0 .. 4 * Tags * Places * LineWords - 1

\* The word a reader sees at word k of the line of tag t in place p.
At(c, t, p, k) ==
    IF Slot(c, p).valid /\ Slot(c, p).line.tag = t
    THEN Slot(c, p).line.words[k]
    ELSE c.next.data[Index(t, p, k)]

\* The line of address a is in the array.
Present(c, a) == Slot(c, Place(a)).valid /\ Slot(c, Place(a)).line.tag = Tag(a)

\* Word k of the line of request r, before and after it.
AtLine(c, r, k) == At(c, Tag(r.addr), Place(r.addr), k)

AtAfter(c, r, k) ==
    IF r.op = "STORE" /\ k = Offset(r.addr)
    THEN WriteSubWord(r.mask, AtLine(c, r, k), LowOf(r.addr), r.data)
    ELSE AtLine(c, r, k)

\* What a load returns.
ValueOf(c, r) == ReadSubWord(r.mask, AtLine(c, r, Offset(r.addr)), LowOf(r.addr))

\* A call of the next level that asked for nothing is over.
Settled(c) == c.nextLevelOpType = "NONE" => ~c.next.waitOut

\* The line kept for the commit is that of request r, with r done on it.
Prepared(c, r) ==
    /\ c.placeStore = Place(r.addr) /\ c.valStore.tag = Tag(r.addr)
    /\ \A k \in Words0 : c.valStore.words[k] = AtAfter(c, r, k)
    /\ r.op = "LOAD" => c.dataOutStore = ValueOf(c, r)

\* What the cache owes request r.
Due(c, r) ==
    /\ c.cacheState # 0 => ~Present(c, r.addr)
    /\ c.wasStore => Present(c, r.addr) /\ r.op = "STORE"
    /\ c.wasStore \/ c.cacheState = 1 => Prepared(c, r)

\* A reader sees the same, or the same but for request r.
SameView(c, d) ==
    \A t \in Tags0, p \in Places0, k \in Words0 : At(d, t, p, k) = At(c, t, p, k)

Effected(c, d, r) ==
    \A t \in Tags0, p \in Places0, k \in Words0 :
        At(d, t, p, k) = IF t = Tag(r.addr) /\ p = Place(r.addr)
                         THEN AtAfter(c, r, k) ELSE At(c, t, p, k)

-----------------------------------------------------------------------------
(* Addresses.                                                              *)

\* An address is a word of a line.
LEMMA CutAddress ==
    ASSUME Sized, InRange, NEW a \in Room
    PROVE  WordOf(a) = Index(Tag(a), Place(a), Offset(a))
<1> DEFINE q == Places * Tag(a) + Place(a)
           r == a % LineBytes
           s == r \div 4
<1>1. /\ Places \in Nat \ {0} /\ LineWords \in Nat \ {0}
      /\ LineBytes \in Nat \ {0} /\ LineBytes = 4 * LineWords
    BY Geometry DEF Sized, LineBytes
<1>2. /\ a \in Nat /\ Tag(a) \in Int /\ Place(a) \in Int
      /\ a - r + 4 * 0 = 4 * Index(Tag(a), Place(a), 0)
    <2>1. 0 \in Words0
        BY <1>1 DEF Words0
    <2> QED
        BY <2>1, AddressOfLine DEF Room, Tags0, Places0
<1>3. q \in Int
    BY <1>1, <1>2
<1>4. r \in 0 .. 4 * LineWords - 1
    BY <1>1, <1>2
<1>5. Index(Tag(a), Place(a), 0) = LineWords * q
    BY <1>1, <1>3 DEF Index
<1> HIDE DEF q, r
<1>6. s \in 0 .. LineWords - 1 /\ r = 4 * s + (r % 4) /\ r % 4 \in 0 .. 3
    BY <1>1, <1>4
<1>7. a = 4 * (s + LineWords * q) + (r % 4)
    <2>1. LineWords * q \in Int
        BY <1>1, <1>3
    <2> QED
        BY <1>2, <1>4, <1>5, <1>6, <2>1
<1> HIDE DEF s
<1>8. WordOf(a) = s + LineWords * q
    <2> DEFINE w == s + LineWords * q
    <2>1. w \in Int
        BY <1>1, <1>3, <1>6
    <2> HIDE DEF w
    <2>2. (4 * w + (r % 4)) \div 4 = w
        BY <1>6, <2>1
    <2> QED
        BY <1>7, <2>2 DEF WordOf, w
<1>9. Offset(a) = s
    <2>1. (s + LineWords * q) % LineWords = s
        BY <1>1, <1>3, <1>6, Peel
    <2> QED
        BY <1>8, <2>1 DEF Offset
<1> QED
    BY <1>1, <1>3, <1>6, <1>8, <1>9 DEF Index, q

\* The address of a word.
LEMMA WordInRoom ==
    ASSUME Sized, InRange, NEW i \in WordAddr
    PROVE  4 * i \in Room /\ WordOf(4 * i) = i
<1> DEFINE n == Tags * Places * LineWords
<1>1. n \in Int /\ 4 * Tags * Places * LineWords = 4 * n /\ i \in 0 .. n - 1
    BY DEF Sized, InRange, WordAddr
<1> HIDE DEF n
<1>2. 4 * i \in 0 .. 4 * n - 1 /\ (4 * i) \div 4 = i
    BY <1>1
<1> QED
    BY <1>1, <1>2 DEF Room, WordOf

\* And a word of a line is at an address of that line.
LEMMA CellOf ==
    ASSUME Sized, InRange, NEW t \in Tags0, NEW p \in Places0, NEW k \in Words0
    PROVE  LET i == Index(t, p, k) IN
           /\ 4 * i \in Room /\ i \in WordAddr /\ WordOf(4 * i) = i
           /\ Tag(4 * i) = t /\ Place(4 * i) = p /\ Offset(4 * i) = k
<1> DEFINE i == Index(t, p, k)
<1>1. i \in WordAddr
    BY IndexInjective
<1> HIDE DEF i
<1>2. 4 * i \in Room /\ WordOf(4 * i) = i
    BY <1>1, WordInRoom
<1>3. i = Index(Tag(4 * i), Place(4 * i), Offset(4 * i))
    BY <1>2, CutAddress
<1>4. Tag(4 * i) \in Tags0 /\ Place(4 * i) \in Places0 /\ Offset(4 * i) \in Words0
    <2>1. 0 \in Words0
        BY DEF Words0, Sized
    <2> QED
        BY <1>2, <2>1, AddressOfLine DEF Room
<1> QED
    BY <1>1, <1>2, <1>3, <1>4, IndexInjective DEF i

\* Every word is one of a line.
LEMMA EveryCell ==
    ASSUME Sized, InRange, NEW i \in WordAddr
    PROVE  \E t \in Tags0, p \in Places0, k \in Words0 : i = Index(t, p, k)
<1>1. 4 * i \in Room /\ WordOf(4 * i) = i
    BY WordInRoom
<1>2. Tag(4 * i) \in Tags0 /\ Place(4 * i) \in Places0 /\ Offset(4 * i) \in Words0
    <2>1. 0 \in Words0
        BY DEF Words0, Sized
    <2> QED
        BY <1>1, <2>1, AddressOfLine DEF Room
<1> QED
    BY <1>1, <1>2, CutAddress

-----------------------------------------------------------------------------
(* What a reader sees.                                                     *)

\* The line that hits, or the next level.
LEMMA ViewAt ==
    ASSUME Sized, InRange, NEW c, Tied(c),
           NEW t \in Tags0, NEW p \in Places0, NEW k \in Words0
    PROVE  CacheContents(c)[Index(t, p, k)] = At(c, t, p, k)
<1> DEFINE i == Index(t, p, k)
<1>1. /\ i \in WordAddr /\ 4 * i \in Room
      /\ Tag(4 * i) = t /\ Place(4 * i) = p /\ Offset(4 * i) = k
    BY CellOf
<1>2. 4 * i \in Nat
    <2>1. 0 \in Words0
        BY DEF Words0, Sized
    <2> QED
        BY <1>1, <2>1, AddressOfLine DEF Room
<1> HIDE DEF i
<1>3. HitWays(c, 4 * i) = IF Slot(c, p).valid /\ Slot(c, p).line.tag = t THEN {3} ELSE {}
    BY <1>1 DEF HitWays, Tied, Ways, Slot, Places0
<1>4. HitWays(c, 4 * i) # {} => HitWay(c, 4 * i) = 3
    BY <1>2, HitsLastWay
<1>5. CacheContents(c)[i] =
        IF HitWays(c, 4 * i) # {}
        THEN c.slots[Place(4 * i)][HitWay(c, 4 * i)].line.words[Offset(4 * i)]
        ELSE c.next.data[i]
    BY <1>1 DEF CacheContents
<1> QED
    BY <1>1, <1>3, <1>4, <1>5 DEF At, Slot, i

\* Two caches that look the same at every word of every line are the same to
\* a reader.
LEMMA SameSeen ==
    ASSUME Sized, InRange, NEW c, Tied(c), NEW d, Tied(d), SameView(c, d)
    PROVE  CacheContents(d) = CacheContents(c)
<1>1. ASSUME NEW i \in WordAddr PROVE CacheContents(d)[i] = CacheContents(c)[i]
    <2>1. PICK t \in Tags0, p \in Places0, k \in Words0 : i = Index(t, p, k)
        BY EveryCell
    <2> QED
        BY <2>1, ViewAt DEF SameView
<1>2. /\ CacheContents(c) = [i \in WordAddr |-> CacheContents(c)[i]]
      /\ CacheContents(d) = [i \in WordAddr |-> CacheContents(d)[i]]
    BY DEF CacheContents
<1> QED
    BY <1>1, <1>2

\* A request is inside the memory.
LEMMA RequestInRoom ==
    ASSUME Sized, InRange, NEW r \in Requests
    PROVE  /\ r.addr \in Room /\ r.addr \in Nat
           /\ Tag(r.addr) \in Tags0 /\ Place(r.addr) \in Places0
           /\ Offset(r.addr) \in Words0 /\ LowOf(r.addr) \in 0 .. 3
           /\ WordOf(r.addr) = Index(Tag(r.addr), Place(r.addr), Offset(r.addr))
           /\ r.op \in Accesses /\ r.mask \in Masks /\ r.data \in MemWord
<1>1. r.addr \in Room /\ r.op \in Accesses /\ r.mask \in Masks /\ r.data \in MemWord
    BY DEF InRange, Room
<1>2. 0 \in Words0
    BY DEF Words0, Sized
<1> QED
    BY <1>1, <1>2, AddressOfLine, CutAddress DEF Room

\* A reader sees words, and a load returns those it sees.
LEMMA ViewTyped ==
    ASSUME Sized, InRange, LevelContract, NEW c, Tied(c), Kept(c)
    PROVE  /\ CacheContents(c) \in [WordAddr -> MemWord]
           /\ \A t \in Tags0, p \in Places0, k \in Words0 : At(c, t, p, k) \in MemWord
           /\ \A r \in Requests : Loaded(CacheContents(c), r) = ValueOf(c, r)
<1>1. ASSUME NEW t \in Tags0, NEW p \in Places0, NEW k \in Words0
      PROVE  At(c, t, p, k) \in MemWord
    <2>1. Index(t, p, k) \in WordAddr
        BY IndexInjective
    <2>2. c.next.data \in [WordAddr -> MemWord]
        BY DEF Kept, LevelContract
    <2>3. Slot(c, p).line.words[k] \in MemWord
        <3>1. Slot(c, p).line \in Line
            BY DEF Kept, Slot, Ways
        <3> QED
            BY <3>1 DEF Line, Words0
    <2> QED
        BY <2>1, <2>2, <2>3 DEF At
<1>2. ASSUME NEW i \in WordAddr PROVE CacheContents(c)[i] \in MemWord
    <2>1. PICK t \in Tags0, p \in Places0, k \in Words0 : i = Index(t, p, k)
        BY EveryCell
    <2> QED
        BY <1>1, <2>1, ViewAt
<1>3. CacheContents(c) = [i \in WordAddr |-> CacheContents(c)[i]]
    BY DEF CacheContents
<1>4. CacheContents(c) \in [WordAddr -> MemWord]
    <2> DEFINE v == CacheContents(c)
    <2> HIDE DEF v
    <2>1. v = [i \in WordAddr |-> v[i]] /\ \A i \in WordAddr : v[i] \in MemWord
        BY <1>2, <1>3 DEF v
    <2>2. v \in [WordAddr -> MemWord]
        BY <2>1
    <2> QED
        BY <2>2 DEF v
<1>5. ASSUME NEW r \in Requests PROVE Loaded(CacheContents(c), r) = ValueOf(c, r)
    BY RequestInRoom, ViewAt DEF Loaded, ValueOf, AtLine
<1> QED
    BY <1>1, <1>4, <1>5

\* What a request changes for a reader.
LEMMA EffectSeen ==
    ASSUME Sized, InRange, NEW c, Tied(c), NEW d, Tied(d),
           NEW r \in Requests, Effected(c, d, r)
    PROVE  CacheContents(d) = IF r.op = "STORE" THEN Stored(CacheContents(c), r)
                              ELSE CacheContents(c)
<1> DEFINE t0 == Tag(r.addr)
           p0 == Place(r.addr)
           k0 == Offset(r.addr)
<1>1. /\ t0 \in Tags0 /\ p0 \in Places0 /\ k0 \in Words0
      /\ WordOf(r.addr) = Index(t0, p0, k0)
    BY RequestInRoom
<1>2. CASE r.op # "STORE"
    <2>1. SameView(c, d)
        BY <1>2 DEF Effected, SameView, AtAfter, AtLine
    <2> QED
        BY <1>2, <2>1, SameSeen
<1>3. CASE r.op = "STORE"
    <2> DEFINE v == CacheContents(c)
               x == WriteSubWord(r.mask, AtLine(c, r, k0), LowOf(r.addr), r.data)
    <2>1. Stored(v, r) = [v EXCEPT ![Index(t0, p0, k0)] = x]
        <3>1. v[Index(t0, p0, k0)] = AtLine(c, r, k0)
            BY <1>1, ViewAt DEF AtLine
        <3> QED
            BY <1>1, <3>1 DEF Stored
    <2>2. v = [i \in WordAddr |-> v[i]] /\ CacheContents(d) = [i \in WordAddr |-> CacheContents(d)[i]]
        BY DEF CacheContents
    <2>3. ASSUME NEW i \in WordAddr
          PROVE  CacheContents(d)[i] = IF i = Index(t0, p0, k0) THEN x ELSE v[i]
        <3>1. PICK t \in Tags0, p \in Places0, k \in Words0 : i = Index(t, p, k)
            BY EveryCell
        <3>2. CacheContents(d)[i] = At(d, t, p, k) /\ v[i] = At(c, t, p, k)
            BY <3>1, ViewAt
        <3>3. i = Index(t0, p0, k0) <=> t = t0 /\ p = p0 /\ k = k0
            BY <1>1, <3>1, IndexInjective
        <3>4. At(d, t, p, k) = IF t = t0 /\ p = p0 THEN AtAfter(c, r, k) ELSE At(c, t, p, k)
            BY DEF Effected
        <3>5. AtAfter(c, r, k) = IF k = k0 THEN x ELSE AtLine(c, r, k)
            BY <1>3 DEF AtAfter
        <3> HIDE DEF x, v
        <3> QED
            BY <3>2, <3>3, <3>4, <3>5 DEF AtLine
    <2> HIDE DEF v, x
    <2>4. [v EXCEPT ![Index(t0, p0, k0)] = x]
            = [i \in WordAddr |-> IF i = Index(t0, p0, k0) THEN x ELSE v[i]]
        BY <2>2
    <2> QED
        BY <1>3, <2>1, <2>2, <2>3, <2>4 DEF v
<1> QED
    BY <1>2, <1>3

-----------------------------------------------------------------------------
(* The call of the next level.                                             *)

\* A cache with the same line kept for the commit, that looks the same, owes
\* the same.
LEMMA DueKept ==
    ASSUME Sized, InRange, NEW r \in Requests, NEW c, NEW d, SameView(c, d), Due(c, r),
           d.slots = c.slots, d.cacheState = c.cacheState, d.wasStore = c.wasStore,
           d.placeStore = c.placeStore, d.valStore = c.valStore,
           d.dataOutStore = c.dataOutStore
    PROVE  Due(d, r)
<1>1. Tag(r.addr) \in Tags0 /\ Place(r.addr) \in Places0 /\ Offset(r.addr) \in Words0
    BY RequestInRoom
<1>2. \A k \in Words0 : AtLine(d, r, k) = AtLine(c, r, k)
    BY <1>1 DEF SameView, AtLine
<1>3. Prepared(c, r) => Prepared(d, r)
    BY <1>1, <1>2 DEF Prepared, AtAfter, ValueOf
<1>4. Present(d, r.addr) <=> Present(c, r.addr)
    BY DEF Present, Slot
<1> QED
    BY <1>3, <1>4 DEF Due

\* A word the call of the next level changes is hidden by the line it comes
\* from.
LEMMA CallHidden ==
    ASSUME Sized, InRange, LevelContract, NEW c, CInv(c), Still(c),
           NEW a \in Room, Asked(c, a),
           NEW m, m = NextProcess(c.next, c.nextLevelAddr, "LONG", c.nextLevelOpType,
                                  c.nextLevelDataIn)
    PROVE  \A t \in Tags0, p \in Places0, k \in Words0 :
              \/ m.data[Index(t, p, k)] = c.next.data[Index(t, p, k)]
              \/ Slot(c, p).valid /\ Slot(c, p).line.tag = t
<1> DEFINE n == c.next
           q == Place(a)
<1>1. /\ n \in Levels /\ c.oldVal \in Line /\ c.newVal \in Line
      /\ q \in Places0 /\ c.cacheState \in 0 .. StateMiss
      /\ c.nextLevelDataIn \in MemWord
    <2>1. 0 \in Words0
        BY DEF Words0, Sized
    <2>2. q \in Places0
        BY <2>1, AddressOfLine DEF Room
    <2> QED
        BY <2>2 DEF Still, Kept, CInv, LastWayChosen
<1>2. /\ StateMiss = 2 * LineWords + 2 /\ StateFirstLoad = LineWords + 2
      /\ StateLastLoad = 2 /\ LineWords \in Nat \ {0}
    BY DEF StateMiss, StateFirstLoad, StateLastLoad, Sized
<1> HIDE DEF n, q
<1>3. CASE c.nextLevelOpType = "NONE"
    <2>1. m.data = n.data
        BY <1>1, <1>3 DEF LevelContract, n
    <2> QED
        BY <2>1 DEF n
<1>4. CASE c.cacheState \in {0, StateMiss} \/ c.cacheState = 1
    <2>1. c.nextLevelOpType = "NONE"
        BY <1>4 DEF Still, Served, Asked, Filled
    <2> QED
        BY <1>3, <2>1
<1>5. CASE c.cacheState \in StateLastLoad .. StateFirstLoad - 1
    <2> DEFINE k0 == c.cacheState - StateLastLoad
               i == Index(c.newVal.tag, q, k0)
    <2>1. k0 \in Words0
        BY <1>2, <1>5 DEF Words0
    <2>2. i \in WordAddr
        BY <1>1, <2>1, IndexInjective DEF Line, Tags0
    <2>3. c.nextLevelOpType = "LOAD" /\ c.nextLevelAddr = 4 * i
        BY <1>5 DEF Served, Asked, Reading, q
    <2> HIDE DEF i
    <2>4. m.data = n.data
        BY <1>1, <2>2, <2>3 DEF LevelContract, n
    <2> QED
        BY <2>4 DEF n
<1>6. CASE c.cacheState \in StateFirstLoad .. StateMiss - 1
    <2> DEFINE k0 == c.cacheState - StateFirstLoad
               i == Index(c.oldVal.tag, q, k0)
               v == c.oldVal.words[k0]
    <2>1. k0 \in Words0
        BY <1>2, <1>6 DEF Words0
    <2>2. i \in WordAddr /\ v \in MemWord /\ c.oldVal.tag \in Tags0
        BY <1>1, <2>1, IndexInjective DEF Line, Tags0, Words0
    <2>3. /\ c.nextLevelOpType = IF c.isValid THEN "STORE" ELSE "NONE"
          /\ c.nextLevelAddr = 4 * i /\ c.nextLevelDataIn = v
        BY <1>6 DEF Served, Asked, Writing, q
    <2>4. Chosen(c, a)
        BY <1>2, <1>6 DEF Served, Asked
    <2> HIDE DEF k0, v
    <2>5. CASE ~c.isValid
        BY <1>3, <2>3, <2>5
    <2>6. CASE c.isValid
        <3> HIDE DEF i
        <3>1. m = NextProcess(n, 4 * i, "LONG", "STORE", v)
            BY <2>3, <2>6 DEF n
        <3>2. m.data = [n.data EXCEPT ![i] = v] \/ m.data = n.data
            BY <1>1, <2>2, <3>1, StoreContract
        <3>3. n.data \in [WordAddr -> MemWord]
            BY <1>1 DEF LevelContract
        <3>4. ASSUME NEW t \in Tags0, NEW p \in Places0, NEW k \in Words0,
                     Index(t, p, k) = i
              PROVE  Slot(c, p).valid /\ Slot(c, p).line.tag = t
            <4>1. t = c.oldVal.tag /\ p = q
                BY <1>1, <2>1, <2>2, <3>4, IndexInjective DEF i
            <4> QED
                BY <2>4, <2>6, <4>1 DEF Chosen, q
        <3>5. ASSUME NEW t \in Tags0, NEW p \in Places0, NEW k \in Words0,
                     Index(t, p, k) # i
              PROVE  m.data[Index(t, p, k)] = n.data[Index(t, p, k)]
            <4>1. Index(t, p, k) \in WordAddr
                BY IndexInjective
            <4> QED
                BY <3>2, <3>3, <3>5, <4>1
        <3> QED
            BY <3>4, <3>5 DEF n
    <2> QED
        BY <2>5, <2>6
<1> QED
    BY <1>1, <1>2, <1>4, <1>5, <1>6

\* So a reader sees no call of the next level.
LEMMA CallDue ==
    ASSUME Sized, InRange, LevelContract, NoneAnswers, NEW c, CInv(c), Still(c),
           NEW r \in Requests, Asked(c, r.addr), Due(c, r)
    PROVE  LET d == CallNextLevel(c) IN
           /\ SameView(c, d) /\ Settled(d) /\ Due(d, r) /\ d.dataOut = c.dataOut
           /\ c.cacheState # 0 \/ c.wasStore => d.waitOut
           /\ c.cacheState = 0 /\ ~c.wasStore => ~d.waitOut
<1> DEFINE d == CallNextLevel(c)
           m == NextProcess(c.next, c.nextLevelAddr, "LONG", c.nextLevelOpType,
                            c.nextLevelDataIn)
<1>1. /\ d.next = m /\ d.slots = c.slots /\ d.cacheState = c.cacheState
      /\ d.wasStore = c.wasStore /\ d.placeStore = c.placeStore
      /\ d.valStore = c.valStore /\ d.dataOutStore = c.dataOutStore
      /\ d.nextLevelOpType = c.nextLevelOpType /\ d.dataOut = c.dataOut
      /\ d.waitOut = (m.waitOut \/ c.cacheState # 0 \/ c.wasStore)
    BY DEF CInv, Tied, Fields, CallNextLevel
<1> SUFFICES /\ SameView(c, d) /\ Settled(d) /\ Due(d, r) /\ d.dataOut = c.dataOut
             /\ c.cacheState # 0 \/ c.wasStore => d.waitOut
             /\ c.cacheState = 0 /\ ~c.wasStore => ~d.waitOut
    OBVIOUS
<1>2. r.addr \in Room /\ c.next \in Levels
    BY RequestInRoom DEF Still, Kept
<1>3. c.nextLevelOpType = "NONE" => ~m.waitOut
    BY <1>2 DEF NoneAnswers
<1>4. \A t \in Tags0, p \in Places0, k \in Words0 :
         \/ m.data[Index(t, p, k)] = c.next.data[Index(t, p, k)]
         \/ Slot(c, p).valid /\ Slot(c, p).line.tag = t
    BY <1>2, CallHidden
<1> HIDE DEF d, m
<1>5. SameView(c, d)
    BY <1>1, <1>4 DEF SameView, At, Slot
<1>6. Due(d, r)
    BY <1>1, <1>5, DueKept
<1>7. c.cacheState = 0 => c.nextLevelOpType = "NONE"
    BY DEF Still
<1> QED
    BY <1>1, <1>3, <1>5, <1>6, <1>7 DEF Settled

-----------------------------------------------------------------------------
(* The steps of process().                                                 *)

\* No state of the countdown touches the array or the next level.
LEMMA ServeFrame ==
    ASSUME NEW c, DOMAIN c = Fields, NEW a, NEW mask, NEW op, NEW v
    PROVE  LET d == ServeMiss(c, a, mask, op, v) IN
           d.slots = c.slots /\ d.next = c.next /\ d.wasStore = c.wasStore
<1> DEFINE b == IF c.cacheState = StateMiss THEN ChooseVictim(c, a) ELSE c
           moved == IF b.cacheState >= StateLastStore THEN WriteBack(b, a) ELSE Refill(b, a)
           e == [moved EXCEPT !.cacheState = @ - 1]
           d == IF e.cacheState = 1 THEN Fill(e, a, mask, op, v) ELSE e
<1>1. DOMAIN b = Fields /\ b.slots = c.slots /\ b.next = c.next /\ b.wasStore = c.wasStore
    BY DEF ChooseVictim, Fields
<1> HIDE DEF b
<1>2. /\ DOMAIN moved = Fields /\ moved.slots = c.slots /\ moved.next = c.next
      /\ moved.wasStore = c.wasStore
    BY <1>1 DEF WriteBack, Refill, Fields
<1> HIDE DEF moved
<1>3. /\ DOMAIN e = Fields /\ e.slots = c.slots /\ e.next = c.next
      /\ e.wasStore = c.wasStore
    BY <1>2 DEF Fields
<1> HIDE DEF e
<1>4. d.slots = c.slots /\ d.next = c.next /\ d.wasStore = c.wasStore
    BY <1>3 DEF Fill, Fields
<1>5. ServeMiss(c, a, mask, op, v) = d
    BY DEF ServeMiss, b, moved, e
<1> QED
    BY <1>4, <1>5

\* And none of them is the last.
LEMMA ServeStays ==
    ASSUME Sized, NEW c, CInv(c), NEW a \in Nat, c.cacheState > 1,
           NEW mask, NEW op, NEW v
    PROVE  ServeMiss(c, a, mask, op, v).cacheState # 0
<1> DEFINE b == IF c.cacheState = StateMiss THEN ChooseVictim(c, a) ELSE c
           moved == IF b.cacheState >= StateLastStore THEN WriteBack(b, a) ELSE Refill(b, a)
           e == [moved EXCEPT !.cacheState = @ - 1]
           d == IF e.cacheState = 1 THEN Fill(e, a, mask, op, v) ELSE e
<1>1. DOMAIN b = Fields /\ b.cacheState \in {c.cacheState, StateLastStore - 1}
    BY DEF ChooseVictim, Fields, CInv, Tied
<1>2. c.cacheState \in Int /\ c.cacheState > 1 /\ StateLastStore - 1 \in Int /\ StateLastStore - 1 > 1
    BY DEF CInv, LastWayChosen, StateLastStore, StateMiss, Sized
<1> HIDE DEF b
<1>3. DOMAIN moved = Fields /\ moved.cacheState = b.cacheState
    BY <1>1 DEF WriteBack, Refill, Fields
<1> HIDE DEF moved
<1>4. DOMAIN e = Fields /\ e.cacheState = b.cacheState - 1
    BY <1>3 DEF Fields
<1> HIDE DEF e
<1>5. d.cacheState = e.cacheState
    BY <1>4 DEF Fill, Fields
<1>6. e.cacheState # 0
    BY <1>1, <1>2, <1>4
<1>7. ServeMiss(c, a, mask, op, v) = d
    BY DEF ServeMiss, b, moved, e
<1> QED
    BY <1>5, <1>6, <1>7

\* The words of a line with one of them replaced.
LEMMA WordsWith ==
    ASSUME NEW l \in Line, NEW i \in Words0, NEW x, NEW k \in Words0
    PROVE  [l EXCEPT !.words[i] = x].words[k] = IF k = i THEN x ELSE l.words[k]
<1> DEFINE w == [l.words EXCEPT ![i] = x]
<1>1. l.words \in [Words0 -> MemWord]
    BY DEF Line, Words0
<1>2. w[k] = IF k = i THEN x ELSE l.words[k]
    BY <1>1
<1> HIDE DEF w
<1>3. [l EXCEPT !.words = w].words = w
    BY DEF Line
<1> QED
    BY <1>2, <1>3 DEF w

\* The last state keeps the line of the request for the commit, with the
\* request done on it.
LEMMA FillPrepares ==
    ASSUME Sized, InRange, LevelContract, NEW c, Kept(c), ~c.wasStore, DOMAIN c = Fields,
           NEW r \in Requests, Moving(c, r.addr), ~Present(c, r.addr),
           c.cacheState = StateLastLoad,
           NEW e, e = [Refill(c, r.addr) EXCEPT !.cacheState = @ - 1]
    PROVE  Prepared(Fill(e, r.addr, r.mask, r.op, r.data), r)
<1> DEFINE a == r.addr
           p == Place(a)
           i == Offset(a)
           t == Taken(c)
           l == t.newVal
           word == l.words[i]
           stored == IF r.op = "STORE" THEN WriteSubWord(r.mask, word, LowOf(a), r.data)
                     ELSE word
           line == [l EXCEPT !.words[i] = stored]
           value == ReadSubWord(r.mask, stored, LowOf(a))
           d == Fill(e, a, r.mask, r.op, r.data)
<1>1. /\ StateMiss = 2 * LineWords + 2 /\ StateFirstLoad = LineWords + 2
      /\ StateLastLoad = 2 /\ LineWords \in Nat \ {0}
    BY DEF StateMiss, StateFirstLoad, StateLastLoad, Sized
<1>2. /\ a \in Room /\ p \in Places0 /\ i \in Words0 /\ Tag(a) \in Tags0
    BY RequestInRoom
<1>3. Refill(c, a) = t
    BY <1>1 DEF Refill, Taken
<1>4. /\ DOMAIN t = Fields /\ Kept(t) /\ Chosen(t, a) /\ t.cacheState = 2
      /\ \A j \in Words0 : t.newVal.words[j] = LineAt(t, p, t.newVal, j)
    <2>1. \A j \in Words0 : j >= c.cacheState - StateLastLoad
        BY <1>1 DEF Words0
    <2>2. c.cacheState \in StateLastLoad .. StateFirstLoad
        BY <1>1
    <2> QED
        BY <1>1, <1>2, <2>1, <2>2, TakesWord DEF Room
<1>5. t.slots = c.slots /\ t.next = c.next
    BY DEF Taken, Fields
<1> HIDE DEF t
<1>6. l \in Line /\ l.tag = Tag(a)
    BY <1>4 DEF Kept, Chosen
<1>7. \A j \in Words0 : l.words[j] = AtLine(c, r, j)
    BY <1>2, <1>4, <1>5, <1>6 DEF AtLine, At, Present, LineAt
<1>8. \A k \in Words0 : line.words[k] = AtAfter(c, r, k)
    <2>1. ASSUME NEW k \in Words0 PROVE line.words[k] = IF k = i THEN stored ELSE l.words[k]
        <3> HIDE DEF l, stored, i
        <3> QED
            BY <1>2, <1>6, WordsWith
    <2> HIDE DEF line, l
    <2> QED
        BY <1>2, <1>7, <2>1 DEF AtAfter
<1>9. line.tag = Tag(a)
    <2> DEFINE w == [l.words EXCEPT ![i] = stored]
    <2> HIDE DEF w, l
    <2>1. [l EXCEPT !.words = w].tag = l.tag
        BY <1>6 DEF Line
    <2> QED
        BY <1>6, <2>1 DEF w
<1>10. r.op = "LOAD" => value = ValueOf(c, r)
    BY <1>2, <1>7 DEF ValueOf
<1>11. e.newVal = l /\ DOMAIN e = Fields /\ e.slots = t.slots /\ e.next = t.next
    BY <1>3, <1>4 DEF Fields
<1> HIDE DEF l
<1>12. /\ d.valStore = line /\ d.placeStore = p /\ d.dataOutStore = value
       /\ d.slots = c.slots /\ d.next = c.next
    <2> DEFINE word0 == e.newVal.words[i]
               stored0 == IF r.op = "STORE"
                          THEN WriteSubWord(r.mask, word0, LowOf(a), r.data) ELSE word0
               line0 == [e.newVal EXCEPT !.words[i] = stored0]
               value0 == ReadSubWord(r.mask, stored0, LowOf(a))
    <2>1. d = [e EXCEPT !.newVal = line0, !.valStore = line0, !.placeStore = p,
                        !.setStore = e.setMiss, !.valDirty = r.op = "STORE",
                        !.nextLevelOpType = "NONE", !.dataOut = value0,
                        !.dataOutStore = value0]
        BY DEF Fill
    <2>2. line0 = line /\ value0 = value
        BY <1>11
    <2> HIDE DEF line0, value0, line, value, d
    <2> QED
        BY <1>5, <1>11, <2>1, <2>2 DEF Fields
<1> HIDE DEF d, line, value
<1>13. \A k : AtLine(d, r, k) = AtLine(c, r, k)
    BY <1>12 DEF AtLine, At, Slot
<1>14. Prepared(d, r)
    BY <1>8, <1>9, <1>10, <1>12, <1>13 DEF Prepared, AtAfter, ValueOf
<1> QED
    BY <1>14 DEF d

\* One state of the countdown brings the request nearer to its commit.
LEMMA ServeDue ==
    ASSUME Sized, InRange, LevelContract, NEW c, CInv(c), Still(c), ~c.wasStore,
           NEW r \in Requests, c.cacheState > 1, Answered(c, r.addr), Due(c, r)
    PROVE  LET d == ServeMiss(c, r.addr, r.mask, r.op, r.data) IN
           SameView(c, d) /\ Due(d, r)
<1> DEFINE a == r.addr
           b == IF c.cacheState = StateMiss THEN ChooseVictim(c, a) ELSE c
           moved == IF b.cacheState >= StateLastStore THEN WriteBack(b, a) ELSE Refill(b, a)
           e == [moved EXCEPT !.cacheState = @ - 1]
           d == IF e.cacheState = 1 THEN Fill(e, a, r.mask, r.op, r.data) ELSE e
<1>1. /\ StateMiss = 2 * LineWords + 2 /\ StateFirstLoad = LineWords + 2
      /\ StateLastStore = LineWords + 3 /\ StateLastLoad = 2 /\ LineWords \in Nat \ {0}
    BY DEF StateMiss, StateFirstLoad, StateLastStore, StateLastLoad, Sized
<1>2. ServeMiss(c, a, r.mask, r.op, r.data) = d
    BY DEF ServeMiss
<1> SUFFICES SameView(c, d) /\ Due(d, r)
    <2> HIDE DEF d
    <2> QED
        BY <1>2
<1>3. a \in Room /\ DOMAIN c = Fields
    BY RequestInRoom DEF CInv, Tied
<1>4. d.slots = c.slots /\ d.next = c.next /\ d.wasStore = c.wasStore
    <2> HIDE DEF d
    <2> QED
        BY <1>2, <1>3, ServeFrame
<1>5. ~Present(c, a)
    BY DEF Due
<1>6. Kept(b) /\ ~b.wasStore /\ Moving(b, a) /\ DOMAIN b = Fields
    <2>1. CASE c.cacheState = StateMiss
        BY <1>3, <2>1, ChooseStarts DEF Room
    <2>2. CASE c.cacheState # StateMiss
        <3>1. Kept(c) /\ DOMAIN c = Fields /\ Moving(c, a)
            BY <1>3, <2>2, MissMoves DEF Still, CInv, Tied, Room
        <3> QED
            BY <2>2, <3>1
    <2> QED
        BY <2>1, <2>2
<1>7. b.slots = c.slots
    BY <1>3 DEF ChooseVictim, Fields
<1>8. b.cacheState \in 2 .. StateMiss
    BY <1>6 DEF Moving
<1> HIDE DEF b
<1>9. d.cacheState = 1 => Prepared(d, r)
    <2>1. CASE b.cacheState = StateLastLoad
        <3>1. e = [Refill(b, a) EXCEPT !.cacheState = @ - 1]
            BY <1>1, <2>1
        <3> HIDE DEF e
        <3>2. r.mask \in Masks /\ r.op \in Accesses /\ r.data \in MemWord
            BY RequestInRoom
        <3>3. e.cacheState = 1
            BY <1>3, <1>6, <2>1, <3>1, <3>2, FillEnds DEF Room
        <3>4. ~Present(b, a)
            BY <1>5, <1>7 DEF Present, Slot
        <3>5. Prepared(Fill(e, a, r.mask, r.op, r.data), r)
            BY <1>6, <2>1, <3>1, <3>4, FillPrepares
        <3> QED
            BY <3>3, <3>5
    <2>2. CASE b.cacheState # StateLastLoad
        <3>1. moved.cacheState = b.cacheState /\ DOMAIN moved = Fields
            BY <1>6 DEF WriteBack, Refill, Fields
        <3> HIDE DEF moved
        <3>2. e.cacheState = b.cacheState - 1
            BY <3>1 DEF Fields
        <3> HIDE DEF e
        <3>3. e.cacheState # 1
            BY <1>1, <1>8, <2>2, <3>2
        <3> QED
            BY <3>3
    <2> QED
        BY <2>1, <2>2
<1> HIDE DEF d
<1>10. SameView(c, d)
    BY <1>4 DEF SameView, At, Slot
<1>11. ~Present(d, a)
    BY <1>4, <1>5 DEF Present, Slot
<1> QED
    BY <1>4, <1>9, <1>10, <1>11 DEF Due

\* A hit answers a load, or prepares the line of a store.
LEMMA HitDue ==
    ASSUME Sized, InRange, NEW c, CInv(c), Still(c), ~c.wasStore, c.cacheState = 0,
           NEW r \in Requests, HitWays(c, r.addr) # {}
    PROVE  LET d == Hit(c, r.addr, r.mask, r.op, r.data) IN
           /\ SameView(c, d) /\ Due(d, r)
           /\ r.op = "STORE" => d.wasStore
           /\ r.op = "LOAD" => ~d.wasStore /\ d.dataOut = ValueOf(c, r)
<1> DEFINE a == r.addr
           i == Offset(a)
           l == c.slots[Place(a)][3].line
           word == l.words[i]
           x == WriteSubWord(r.mask, word, LowOf(a), r.data)
           line == [l EXCEPT !.words[i] = x]
           d == Hit(c, a, r.mask, r.op, r.data)
<1>1. /\ a \in Nat /\ Place(a) \in Places0 /\ i \in Words0 /\ Tag(a) \in Tags0
      /\ r.op \in Accesses
    BY RequestInRoom
<1>2. HitWay(c, a) = 3
    BY <1>1, HitsLastWay DEF CInv
<1>3. Present(c, a)
    <2>1. PICK w \in Ways : c.slots[Place(a)][w].valid /\ c.slots[Place(a)][w].line.tag = Tag(a)
        BY DEF HitWays
    <2>2. w = 3
        BY <1>1, <2>1 DEF CInv, Tied, Ways, Places0
    <2> QED
        BY <2>1, <2>2 DEF Present, Slot
<1>4. l \in Line /\ l.tag = Tag(a)
    BY <1>1, <1>3 DEF Still, Kept, Ways, Present, Slot
<1>5. \A k \in Words0 : l.words[k] = AtLine(c, r, k)
    BY <1>3 DEF AtLine, At, Present, Slot
<1>6. \A k \in Words0 : line.words[k] = IF k = i THEN x ELSE l.words[k]
    <2> HIDE DEF l, x, i
    <2> QED
        BY <1>1, <1>4, WordsWith
<1>7. line.tag = Tag(a)
    <2> DEFINE w == [l.words EXCEPT ![i] = x]
    <2> HIDE DEF w, l
    <2>1. [l EXCEPT !.words = w].tag = l.tag
        BY <1>4 DEF Line
    <2> QED
        BY <1>4, <2>1 DEF w
<1>8. d = IF r.op = "STORE"
          THEN [c EXCEPT !.placeStore = Place(a), !.setStore = 3, !.valStore = line,
                         !.valDirty = TRUE, !.wasStore = TRUE]
          ELSE [c EXCEPT !.dataOut = ReadSubWord(r.mask, word, LowOf(a))]
    BY <1>2 DEF Hit
<1> SUFFICES /\ SameView(c, d) /\ Due(d, r)
             /\ r.op = "STORE" => d.wasStore
             /\ r.op = "LOAD" => ~d.wasStore /\ d.dataOut = ValueOf(c, r)
    OBVIOUS
<1>9. r.op = "STORE" => \A k \in Words0 : line.words[k] = AtAfter(c, r, k)
    <2> HIDE DEF line, l
    <2> QED
        BY <1>1, <1>5, <1>6 DEF AtAfter
<1>10. ReadSubWord(r.mask, word, LowOf(a)) = ValueOf(c, r)
    <2> HIDE DEF l
    <2> QED
        BY <1>1, <1>5 DEF ValueOf
<1> HIDE DEF d, line, word
<1>11. d.slots = c.slots /\ d.next = c.next /\ d.cacheState = 0
    BY <1>8 DEF CInv, Tied, Fields
<1>12. SameView(c, d)
    BY <1>11 DEF SameView, At, Slot
<1>13. \A k : AtLine(d, r, k) = AtLine(c, r, k)
    BY <1>11 DEF AtLine, At, Slot
<1>14. CASE r.op = "STORE"
    <2>1. d.placeStore = Place(a) /\ d.valStore = line /\ d.wasStore = TRUE
        BY <1>8, <1>14 DEF CInv, Tied, Fields
    <2>2. Prepared(d, r)
        BY <1>7, <1>9, <1>13, <1>14, <2>1 DEF Prepared, AtAfter
    <2>3. Present(d, a)
        BY <1>3, <1>11 DEF Present, Slot
    <2> QED
        BY <1>11, <1>12, <1>14, <2>1, <2>2, <2>3 DEF Due
<1>15. CASE r.op = "LOAD"
    <2>1. ~d.wasStore /\ d.dataOut = ReadSubWord(r.mask, word, LowOf(a))
        BY <1>8, <1>15 DEF CInv, Tied, Fields
    <2> QED
        BY <1>10, <1>11, <1>12, <1>15, <2>1 DEF Due
<1> QED
    BY <1>1, <1>14, <1>15 DEF Accesses

\* The commit does the request, and nothing else.
LEMMA CommitDue ==
    ASSUME Sized, InRange, NEW c, CInv(c), Still(c), Settled(c),
           NEW r \in Requests, Due(c, r), c.wasStore \/ c.cacheState = 1,
           Answered(c, r.addr)
    PROVE  LET d == Commit(c) IN
           /\ Effected(c, d, r) /\ Due(d, r) /\ Settled(d) /\ ~d.waitOut
           /\ r.op = "LOAD" => d.dataOut = ValueOf(c, r)
<1> DEFINE a == r.addr
           q == Place(a)
           s == [line |-> c.valStore, age |-> c.cycle, valid |-> TRUE, dirty |-> c.valDirty]
           d == [c EXCEPT !.slots[c.placeStore][3] = s, !.dataOut = c.dataOutStore,
                          !.wasStore = FALSE, !.cacheState = 0, !.waitOut = FALSE]
<1>1. Commit(c) = d
    BY DEF Commit, CInv, LastWayChosen
<1>2. s.line = c.valStore /\ s.valid
    OBVIOUS
<1> HIDE DEF s
<1>3. /\ d.slots = [c.slots EXCEPT ![c.placeStore][3] = s]
      /\ d.cacheState = 0 /\ d.wasStore = FALSE /\ d.next = c.next
      /\ d.waitOut = FALSE /\ d.dataOut = c.dataOutStore
      /\ d.nextLevelOpType = c.nextLevelOpType
    BY DEF CInv, Tied, Fields
<1>4. /\ q \in Places0 /\ Tag(a) \in Tags0 /\ Offset(a) \in Words0
      /\ r.op \in Accesses
    BY RequestInRoom
<1>5. Prepared(c, r)
    BY DEF Due
<1> SUFFICES /\ Effected(c, d, r) /\ Due(d, r) /\ Settled(d) /\ ~d.waitOut
             /\ r.op = "LOAD" => d.dataOut = ValueOf(c, r)
    <2> HIDE DEF d
    <2> QED
        BY <1>1
<1> HIDE DEF d, q
<1>6. Due(d, r) /\ Settled(d) /\ ~d.waitOut
    BY <1>3 DEF Due, Settled
<1>7. r.op = "LOAD" => d.dataOut = ValueOf(c, r)
    BY <1>3, <1>5 DEF Prepared
<1>8. /\ Slot(d, q) = s
      /\ \A p \in Places0 : p # q => Slot(d, p) = Slot(c, p)
    <2>1. DOMAIN c.slots = Places0 /\ DOMAIN c.slots[q] = Ways
        BY <1>4 DEF CInv, Tied, Places0
    <2>2. c.placeStore = q
        BY <1>5 DEF Prepared, q
    <2> QED
        BY <1>3, <1>4, <2>1, <2>2 DEF Slot, Ways
<1>9. ASSUME NEW t \in Tags0, NEW p \in Places0, NEW k \in Words0
      PROVE  At(d, t, p, k) = IF t = Tag(a) /\ p = q THEN AtAfter(c, r, k)
                              ELSE At(c, t, p, k)
    <2>1. CASE p # q
        BY <1>3, <1>8, <2>1 DEF At
    <2>2. CASE p = q /\ t = Tag(a)
        BY <1>2, <1>5, <1>8, <2>2 DEF At, Prepared
    <2>3. CASE p = q /\ t # Tag(a)
        <3>1. At(d, t, p, k) = c.next.data[Index(t, p, k)]
            BY <1>2, <1>3, <1>5, <1>8, <2>3 DEF At, Prepared
        \* What the line replaced hid is below.
        <3>2. ASSUME Slot(c, q).valid, Slot(c, q).line.tag = t
              PROVE  Slot(c, q).line.words[k] = c.next.data[Index(t, p, k)]
            <4>1. c.cacheState = 1
                BY <2>3, <3>2 DEF Due, Present, q
            <4>2. c.cacheState \in 1 .. StateMiss - 1 /\ c.cacheState \in 1 .. StateFirstLoad - 1
                BY <4>1 DEF Sized, StateMiss, StateFirstLoad
            <4>3. Chosen(c, a) /\ (c.isValid => Below(c, q, c.oldVal))
                BY <4>2 DEF Served, Answered, q
            <4>4. Below(c, q, Slot(c, q).line)
                BY <3>2, <4>3 DEF Chosen, q
            <4>5. LineAt(c, q, Slot(c, q).line, k) = Slot(c, q).line.words[k]
                BY <4>4, BelowIsLineAt
            <4> QED
                BY <2>3, <3>2, <4>5 DEF LineAt
        <3> QED
            BY <2>3, <3>1, <3>2 DEF At
    <2> QED
        BY <2>1, <2>2, <2>3
<1>10. Effected(c, d, r)
    BY <1>9 DEF Effected, q
<1> QED
    BY <1>6, <1>7, <1>10

-----------------------------------------------------------------------------
(* A call of process(), and the cache under its client.                    *)

\* The fields a reader and a request do not see.
LEMMA OtherDue ==
    ASSUME Sized, InRange, NEW c, DOMAIN c = Fields, NEW x, NEW d,
           d = [c EXCEPT !.cycle = x] \/ d = [c EXCEPT !.waitOut = x]
    PROVE  /\ SameView(c, d) /\ (Settled(c) => Settled(d))
           /\ \A r \in Requests : /\ Due(c, r) => Due(d, r)
                                  /\ ValueOf(d, r) = ValueOf(c, r)
<1>1. /\ d.slots = c.slots /\ d.next = c.next /\ d.cacheState = c.cacheState
      /\ d.wasStore = c.wasStore /\ d.placeStore = c.placeStore
      /\ d.valStore = c.valStore /\ d.dataOutStore = c.dataOutStore
      /\ d.nextLevelOpType = c.nextLevelOpType
    BY DEF Fields
<1>2. SameView(c, d)
    BY <1>1 DEF SameView, At, Slot
<1>3. Settled(c) => Settled(d)
    BY <1>1 DEF Settled
<1>4. ASSUME NEW r \in Requests, Due(c, r) PROVE Due(d, r)
    BY <1>1, <1>2, <1>4, DueKept
<1>5. \A r \in Requests : ValueOf(d, r) = ValueOf(c, r)
    BY <1>1 DEF ValueOf, AtLine, At, Slot
<1> QED
    BY <1>2, <1>3, <1>4, <1>5

\* What a call with opType op leaves for a reader who waits for request r.
Outcome(c, d, r, op) ==
    \/ SameView(c, d) /\ (d.waitOut \/ op = "NONE")
    \/ /\ SameView(c, d) \/ Effected(c, d, r)
       /\ r.op = "LOAD" /\ ~d.waitOut /\ d.dataOut = ValueOf(c, r)
    \/ Effected(c, d, r) /\ r.op = "STORE" /\ ~d.waitOut

\* A call waits unseen, or answers the request and has done it by then.
LEMMA ProcessDue ==
    ASSUME Sized, InRange, LevelContract, NoneAnswers,
           NEW old, CInv(old), Still(old), Settled(old),
           NEW r \in Requests, InHand(old, r.addr), Due(old, r),
           NEW op \in {"NONE", r.op}
    PROVE  LET d == CacheProcess(old, r.addr, r.mask, op, r.data) IN
           Settled(d) /\ Due(d, r) /\ Outcome(old, d, r, op)
<1> DEFINE a == r.addr
           x == (old.cycle + 1) % AgeSize
           c == [old EXCEPT !.cycle = x]
           started == [c EXCEPT !.cacheState = StateMiss]
           d == CacheProcess(old, a, r.mask, op, r.data)
<1>1. /\ StateMiss \in Int /\ StateMiss > 3
    BY Geometry
<1>2. a \in Room /\ a \in Nat /\ r.op \in Accesses
    BY RequestInRoom
<1>3. /\ CInv(c) /\ Still(c) /\ c.next = old.next /\ Settled(c) /\ Due(c, r)
      /\ SameView(old, c) /\ ValueOf(c, r) = ValueOf(old, r)
      /\ c.cacheState = old.cacheState /\ c.wasStore = old.wasStore
      /\ Answered(old, a) => Answered(c, a)
    <2>1. DOMAIN old = Fields
        BY DEF CInv, Tied
    <2> HIDE DEF x
    <2>2. c = [old EXCEPT !.cycle = x]
        OBVIOUS
    <2> HIDE DEF c
    <2>3. /\ c.next = old.next /\ c.cacheState = old.cacheState /\ c.wasStore = old.wasStore
          /\ (CInv(old) => CInv(c)) /\ (Still(old) => Still(c))
          /\ (Answered(old, a) => Answered(c, a))
        BY <2>1, <2>2, OtherFields
    <2>4. /\ SameView(old, c) /\ Settled(c) /\ Due(c, r)
          /\ ValueOf(c, r) = ValueOf(old, r)
        BY <2>1, <2>2, OtherDue
    <2> QED
        BY <2>3, <2>4
<1>4. d = CASE old.next.waitOut -> CallNextLevel(old)
            [] ~old.next.waitOut /\ (c.wasStore \/ c.cacheState = 1) -> Commit(c)
            [] OTHER -> CallNextLevel(
                          IF op = "NONE" THEN c
                          ELSE IF c.cacheState # 0 THEN ServeMiss(c, a, r.mask, op, r.data)
                          ELSE IF HitWays(c, a) # {} THEN Hit(c, a, r.mask, op, r.data)
                          ELSE started)
    BY DEF CacheProcess
<1> SUFFICES Settled(d) /\ Due(d, r) /\ Outcome(old, d, r, op)
    OBVIOUS
<1> HIDE DEF c, d
\* A call of the next level that is not the answer.
<1>5. ASSUME NEW b, CInv(b), Still(b), Asked(b, a), Due(b, r), SameView(old, b),
             d = CallNextLevel(b),
             b.cacheState # 0 \/ b.wasStore \/ op = "NONE"
      PROVE  Settled(d) /\ Due(d, r) /\ Outcome(old, d, r, op)
    <2>1. /\ SameView(b, d) /\ Settled(d) /\ Due(d, r)
          /\ b.cacheState # 0 \/ b.wasStore => d.waitOut
        BY <1>5, CallDue
    <2>2. SameView(old, d)
        BY <1>5, <2>1 DEF SameView
    <2> QED
        BY <1>5, <2>1, <2>2 DEF Outcome
<1>6. CASE old.next.waitOut
    <2>1. d = CallNextLevel(old)
        BY <1>4, <1>6
    <2>2. Asked(old, a)
        BY <1>6 DEF Served, Asked, InHand, Writing, Reading, LevelAnswered
    <2>3. old.cacheState # 0
        BY <1>6 DEF Settled, Still
    <2>4. SameView(old, old)
        BY DEF SameView
    <2> QED
        BY <1>5, <2>1, <2>2, <2>3, <2>4
<1>7. CASE ~old.next.waitOut
    <2>1. Answered(c, a)
        <3>1. Answered(old, a)
            BY <1>7 DEF Served, InHand, Answered, Writing, Reading, LevelAnswered
        <3> QED
            BY <1>3, <3>1
    <2>2. CASE c.wasStore \/ c.cacheState = 1
        <3>1. d = Commit(c)
            BY <1>4, <1>7, <2>2
        <3>2. /\ Effected(c, d, r) /\ Due(d, r) /\ Settled(d) /\ ~d.waitOut
              /\ r.op = "LOAD" => d.dataOut = ValueOf(c, r)
            BY <1>3, <2>1, <2>2, <3>1, CommitDue
        <3>3. Effected(old, d, r)
            <4>1. /\ Tag(a) \in Tags0 /\ Place(a) \in Places0
                BY RequestInRoom
            <4>2. \A k \in Words0 : AtLine(c, r, k) = AtLine(old, r, k)
                BY <1>3, <4>1 DEF SameView, AtLine
            <4>3. \A k \in Words0 : AtAfter(c, r, k) = AtAfter(old, r, k)
                BY <4>2 DEF AtAfter
            <4> QED
                BY <1>3, <3>2, <4>3 DEF Effected, SameView
        <3> QED
            BY <1>2, <1>3, <3>2, <3>3 DEF Outcome, Accesses
    <2>3. CASE ~(c.wasStore \/ c.cacheState = 1)
        <3> DEFINE b == IF op = "NONE" THEN c
                        ELSE IF c.cacheState # 0 THEN ServeMiss(c, a, r.mask, op, r.data)
                        ELSE IF HitWays(c, a) # {} THEN Hit(c, a, r.mask, op, r.data)
                        ELSE started
        <3>1. d = CallNextLevel(b)
            BY <1>4, <1>7, <2>3
        <3>2. c.cacheState # 0 => c.cacheState > 1
            BY <1>1, <1>3, <2>3 DEF CInv, LastWayChosen
        <3>3. r.mask \in Masks /\ r.data \in MemWord
            BY RequestInRoom
        <3>4. CASE op = "NONE"
            <4>1. Asked(c, a)
                BY <2>1 DEF Served, Asked, Answered, Writing, Reading
            <4>2. d = CallNextLevel(c)
                BY <3>1, <3>4
            <4> QED
                BY <1>3, <1>5, <3>4, <4>1, <4>2
        <3>5. CASE op = r.op /\ c.cacheState # 0
            <4>1. b = ServeMiss(c, a, r.mask, r.op, r.data)
                BY <1>2, <3>5 DEF Accesses
            <4> HIDE DEF b
            <4>2. CInv(b)
                BY <1>2, <1>3, <3>2, <3>5, <4>1, ServeMissKeeps
            <4>3. Still(b) /\ Asked(b, a)
                BY <1>2, <1>3, <2>1, <2>3, <3>2, <3>3, <3>5, <4>1, ServeMissServes DEF Room
            <4>4. SameView(c, b) /\ Due(b, r)
                BY <1>3, <2>1, <2>3, <3>2, <3>5, <4>1, ServeDue
            <4>5. SameView(old, b)
                BY <1>3, <4>4 DEF SameView
            <4>6. b.cacheState # 0
                BY <1>2, <1>3, <3>2, <3>5, <4>1, ServeStays
            <4> QED
                BY <1>5, <3>1, <4>2, <4>3, <4>4, <4>5, <4>6
        <3>6. CASE op = r.op /\ c.cacheState = 0 /\ HitWays(c, a) # {}
            <4>1. b = Hit(c, a, r.mask, r.op, r.data)
                BY <1>2, <3>6 DEF Accesses
            <4> HIDE DEF b
            <4>2. CInv(b)
                BY <1>2, <1>3, <3>6, <4>1, HitKeeps
            <4>3. Still(b) /\ b.cacheState = 0
                BY <1>2, <1>3, <2>3, <3>3, <3>6, <4>1, HitServes DEF Room
            <4>4. Asked(b, a)
                BY <4>3, NothingToServe
            <4>5. /\ SameView(c, b) /\ Due(b, r)
                  /\ r.op = "STORE" => b.wasStore
                  /\ r.op = "LOAD" => ~b.wasStore /\ b.dataOut = ValueOf(c, r)
                BY <1>3, <2>3, <3>6, <4>1, HitDue
            <4>6. SameView(old, b)
                BY <1>3, <4>5 DEF SameView
            <4>7. CASE r.op = "STORE"
                BY <1>5, <3>1, <4>2, <4>3, <4>4, <4>5, <4>6, <4>7
            <4>8. CASE r.op = "LOAD"
                <5>1. /\ SameView(b, d) /\ Settled(d) /\ Due(d, r)
                      /\ d.dataOut = b.dataOut /\ ~d.waitOut
                    BY <3>1, <4>2, <4>3, <4>4, <4>5, <4>8, CallDue
                <5>2. SameView(old, d)
                    BY <4>6, <5>1 DEF SameView
                <5> QED
                    BY <1>3, <4>5, <4>8, <5>1, <5>2 DEF Outcome
            <4> QED
                BY <1>2, <4>7, <4>8 DEF Accesses
        <3>7. CASE op = r.op /\ c.cacheState = 0 /\ HitWays(c, a) = {}
            <4>1. b = started
                BY <1>2, <3>7 DEF Accesses
            <4>2. /\ DOMAIN b = Fields /\ b.cacheState = StateMiss
                  /\ b.slots = c.slots /\ b.newVal = c.newVal /\ b.oldVal = c.oldVal
                  /\ b.valStore = c.valStore /\ b.next = c.next
                  /\ b.nextLevelDataIn = c.nextLevelDataIn
                  /\ b.nextLevelOpType = c.nextLevelOpType
                  /\ b.wasStore = c.wasStore
                <5> HIDE DEF b
                <5> QED
                    BY <1>3, <4>1 DEF CInv, Tied, Fields
            <4> HIDE DEF b
            <4>3. CInv(b)
                BY <1>1, <1>3, <2>3, <4>2 DEF CInv, Tied, LastWayChosen
            <4>4. Still(b)
                BY <1>3, <2>3, <3>7, <4>2 DEF Still, Kept, Slot, Below
            <4>5. Asked(b, a)
                BY <4>2, NothingToServe
            <4>6. ~Present(b, a)
                <5>1. 3 \notin HitWays(c, a)
                    BY <3>7
                <5> QED
                    BY <4>2, <5>1 DEF HitWays, Present, Slot, Ways
            <4>7. Due(b, r)
                BY <1>1, <2>3, <4>2, <4>6 DEF Due
            <4>8. SameView(old, b)
                BY <1>3, <4>2 DEF SameView, At, Slot
            <4>9. b.cacheState # 0
                BY <1>1, <4>2
            <4> QED
                BY <1>5, <3>1, <4>3, <4>4, <4>5, <4>7, <4>8, <4>9
        <3> QED
            BY <3>4, <3>5, <3>6, <3>7
    <2> QED
        BY <2>2, <2>3
<1> QED
    BY <1>6, <1>7

\* Between two cycles.
RInv == MDInv /\ Settled(mem) /\ (req \in Requests => Due(mem, req))

\* A call with nothing to ask changes nothing for a reader.
LEMMA QuietUnseen ==
    ASSUME Sized, InRange, LevelContract, NoneAnswers,
           NEW old, CInv(old), Still(old), Settled(old), Resting(old), NEW a, NEW mask, NEW v
    PROVE  LET d == CacheProcess(old, a, mask, "NONE", v) IN
           SameView(old, d) /\ Settled(d)
<1> DEFINE x == (old.cycle + 1) % AgeSize
           c == [old EXCEPT !.cycle = x]
           m == NextProcess(c.next, c.nextLevelAddr, "LONG", c.nextLevelOpType,
                            c.nextLevelDataIn)
           d == CacheProcess(old, a, mask, "NONE", v)
<1>1. old.nextLevelOpType = "NONE" /\ ~old.next.waitOut /\ old.next \in Levels
    BY DEF Still, Kept, Settled, Resting
<1>2. /\ DOMAIN c = Fields /\ c.slots = old.slots /\ c.next = old.next
      /\ c.nextLevelOpType = old.nextLevelOpType
      /\ c.cacheState = 0 /\ ~c.wasStore
    BY DEF CInv, Tied, Fields, Resting
<1>3. d = CallNextLevel(c)
    BY <1>1, <1>2 DEF CacheProcess
<1> HIDE DEF c, d
<1>4. d.next = m /\ d.slots = c.slots /\ d.nextLevelOpType = c.nextLevelOpType
    BY <1>2, <1>3 DEF CallNextLevel, Fields
<1>5. m.data = c.next.data /\ ~m.waitOut
    BY <1>1, <1>2 DEF LevelContract, NoneAnswers
<1> HIDE DEF m
<1> QED
    BY <1>2, <1>4, <1>5 DEF SameView, At, Slot, Settled, d

\* A cycle of the client is a step of the array of bytes or changes nothing,
\* and the bytes change in a cycle that answers.
LEMMA StepSeen ==
    ASSUME WellFormed, Sized, OfCache, InRange, LevelContract, NoneAnswers, CacheOnly,
           RInv, [Next]_vars
    PROVE  /\ RInv' /\ [Abstract!Next]_Abstract!vars
           /\ Ready /\ Contents(mem') # Contents(mem) => req # NoRequest /\ req' = NoRequest
<1> DEFINE idle == [mem EXCEPT !.waitOut = FALSE]
<1>1. MDInv'
    BY MDInvKept DEF RInv
<1>2. /\ CInv(mem) /\ Still(mem) /\ DOMAIN mem = Fields /\ Tied(mem) /\ Kept(mem)
      /\ CInv(mem') /\ Still(mem') /\ Tied(mem')
    BY <1>1 DEF RInv, MDInv, CInv, Tied, Still
<1>3. Contents(mem) = CacheContents(mem) /\ Contents(mem') = CacheContents(mem')
    BY DEF CacheOnly
<1>4. Contents(mem) \in Words
    BY <1>2, <1>3, ViewTyped DEF Words, CacheOnly
<1>5. /\ CInv(idle) /\ Still(idle) /\ Settled(idle) /\ idle.next = mem.next
      /\ idle.cacheState = mem.cacheState /\ idle.wasStore = mem.wasStore
      /\ \A a : InHand(mem, a) => InHand(idle, a)
      /\ SameView(mem, idle)
      /\ \A r \in Requests : (Due(mem, r) => Due(idle, r)) /\ ValueOf(idle, r) = ValueOf(mem, r)
    BY <1>2, OtherFields, OtherDue DEF RInv
<1>6. NoRequest \notin Requests /\ (req \in Requests \/ req = NoRequest)
    BY DEF WellFormed, RInv, MDInv
<1> HIDE DEF idle
<1>7. ASSUME NEW r \in RequestsOf(mem), Ask(r)
      PROVE  /\ RInv' /\ Abstract!Next /\ Contents(mem') = Contents(mem)
    <2>1. Abstract!Next
        BY <1>7, AskSeen
    <2>2. mem' = mem /\ req' = r /\ req = NoRequest /\ r \in Requests
        BY <1>7 DEF Ask, WellFormed
    <2>3. Resting(mem)
        BY <1>6, <2>2 DEF RInv, MDInv
    <2>4. Due(mem, r)
        BY <2>3 DEF Resting, Due
    <2> QED
        BY <1>1, <2>1, <2>2, <2>4 DEF RInv
\* A call for the request.
<1>8. ASSUME req # NoRequest, NEW op \in {"NONE", req.op}, mem' = Called(op)
      PROVE  /\ req \in Requests /\ Settled(mem') /\ Due(mem', req)
             /\ \/ Contents(mem') = Contents(mem) /\ (mem'.waitOut \/ op = "NONE")
                \/ /\ Contents(mem') = Contents(mem) /\ req.op = "LOAD" /\ ~mem'.waitOut
                   /\ mem'.dataOut = Loaded(Contents(mem), req)
                \/ /\ Contents(mem') = Stored(Contents(mem), req) /\ req.op = "STORE"
                   /\ ~mem'.waitOut
    <2>1. req \in Requests /\ InHand(idle, req.addr) /\ Due(idle, req)
        BY <1>5, <1>6, <1>8 DEF RInv, MDInv
    <2>2. mem' = CacheProcess(idle, req.addr, req.mask, op, req.data)
        BY <1>8 DEF Called, OfCache, idle
    <2>3. Settled(mem') /\ Due(mem', req) /\ Outcome(idle, mem', req, op)
        BY <1>5, <1>8, <2>1, <2>2, ProcessDue
    <2>4. Tied(idle) /\ CacheContents(idle) = CacheContents(mem)
        <3>1. Tied(idle)
            BY <1>5 DEF CInv
        <3> QED
            BY <1>2, <1>5, <3>1, SameSeen
    <2>5. SameView(idle, mem') => Contents(mem') = Contents(mem)
        BY <1>2, <1>3, <2>4, SameSeen
    <2>6. Effected(idle, mem', req) =>
            Contents(mem') = IF req.op = "STORE" THEN Stored(Contents(mem), req)
                             ELSE Contents(mem)
        BY <1>2, <1>3, <2>1, <2>4, EffectSeen
    <2>7. ValueOf(idle, req) = Loaded(Contents(mem), req)
        BY <1>2, <1>3, <1>5, <2>1, ViewTyped
    <2>8. "LOAD" # "STORE"
        OBVIOUS
    <2> QED
        BY <2>1, <2>3, <2>5, <2>6, <2>7, <2>8 DEF Outcome
<1>9. ASSUME Retry PROVE RInv' /\ [Abstract!Next]_Abstract!vars
    <2>1. req # NoRequest /\ mem' = Called(req.op)
        BY <1>9 DEF Retry
    <2>2. req.op # "NONE"
        BY <1>6, <2>1 DEF WellFormed
    <2>3. /\ req \in Requests /\ Settled(mem') /\ Due(mem', req)
          /\ \/ Contents(mem') = Contents(mem) /\ mem'.waitOut
             \/ /\ Contents(mem') = Contents(mem) /\ req.op = "LOAD" /\ ~mem'.waitOut
                /\ mem'.dataOut = Loaded(Contents(mem), req)
             \/ /\ Contents(mem') = Stored(Contents(mem), req) /\ req.op = "STORE"
                /\ ~mem'.waitOut
        BY <1>8, <2>1, <2>2
    <2>4. CASE mem'.waitOut
        <3>1. UNCHANGED <<req, answer>> /\ Contents(mem') = Contents(mem)
            BY <1>9, <2>3, <2>4 DEF Retry
        <3>2. UNCHANGED Abstract!vars
            BY <3>1, CallUnseen
        <3> QED
            BY <1>1, <2>3, <3>1, <3>2 DEF RInv
    <2>5. CASE ~mem'.waitOut
        <3>1. /\ req' = NoRequest
              /\ answer' = IF req.op = "LOAD" THEN mem'.dataOut ELSE answer
            BY <1>9, <2>5 DEF Retry
        <3>2. Abstract!Next
            BY <1>4, <2>3, <2>5, <3>1, AnswerSeen
        <3> QED
            BY <1>1, <1>6, <2>1, <2>3, <3>1, <3>2 DEF RInv
    <2> QED
        BY <2>4, <2>5
<1>10. ASSUME Suspended PROVE RInv' /\ [Abstract!Next]_Abstract!vars
    <2>1. req # NoRequest /\ mem' = Called("NONE") /\ UNCHANGED <<req, answer>>
        BY <1>10 DEF Suspended
    <2>2. /\ req \in Requests /\ Settled(mem') /\ Due(mem', req)
          /\ \/ Contents(mem') = Contents(mem)
             \/ Contents(mem') = Stored(Contents(mem), req) /\ req.op = "STORE"
        BY <1>8, <2>1
    <2>3. [Abstract!Next]_Abstract!vars
        BY <1>4, <2>1, <2>2, CallUnseen, PerformSeen
    <2>4. RInv'
        BY <1>1, <2>1, <2>2 DEF RInv
    <2> QED
        BY <2>3, <2>4
<1>11. ASSUME Quiet
       PROVE  /\ RInv' /\ [Abstract!Next]_Abstract!vars
              /\ Contents(mem') = Contents(mem)
    <2>1. req = NoRequest /\ mem' = CacheProcess(idle, 0, "WORD", "NONE", 0)
        BY <1>11 DEF Quiet, OfCache, idle
    <2>2. Resting(idle)
        BY <1>5, <1>6, <2>1 DEF RInv, MDInv, Resting
    <2>3. SameView(idle, mem') /\ Settled(mem')
        BY <1>5, <2>1, <2>2, QuietUnseen
    <2>4. SameView(mem, mem')
        BY <1>5, <2>3 DEF SameView
    <2>5. Contents(mem') = Contents(mem)
        BY <1>2, <1>3, <2>4, SameSeen
    <2>6. UNCHANGED <<req, answer>>
        BY <1>11 DEF Quiet
    <2>7. UNCHANGED Abstract!vars
        BY <2>5, <2>6, CallUnseen
    <2>8. RInv'
        BY <1>1, <1>6, <2>1, <2>3, <2>6 DEF RInv
    <2> QED
        BY <2>5, <2>7, <2>8
<1>12. ASSUME UNCHANGED vars PROVE RInv' /\ [Abstract!Next]_Abstract!vars
    <2>1. Contents(mem') = Contents(mem) /\ UNCHANGED <<req, answer>>
        BY <1>12 DEF vars
    <2>2. UNCHANGED Abstract!vars
        BY <2>1, CallUnseen
    <2> QED
        BY <1>12, <2>1, <2>2 DEF vars, RInv, MDInv
<1>13. /\ RInv' /\ [Abstract!Next]_Abstract!vars
    BY <1>7, <1>9, <1>10, <1>11, <1>12 DEF Next, Ready
<1>14. ASSUME Ready, Contents(mem') # Contents(mem)
       PROVE  req # NoRequest /\ req' = NoRequest
    <2>1. Retry
        BY <1>7, <1>11, <1>14 DEF Ready
    <2>2. req # NoRequest /\ mem' = Called(req.op) /\ req.op # "NONE"
        BY <1>6, <2>1 DEF Retry, WellFormed
    <2>3. ~mem'.waitOut
        BY <1>8, <1>14, <2>2
    <2> QED
        BY <2>1, <2>2, <2>3 DEF Retry
<1> QED
    BY <1>13, <1>14

\* The cache, four ways, write backs and countdown included, is an array of
\* bytes: above a next level that does what it answers, whatever the core
\* asks for and however its cycles are suspended, a load returns the bytes at
\* its address and a store replaces those it covers.
THEOREM CacheIsBytes ==
    ASSUME WellFormed, Sized, OfCache, InRange, LevelContract, NoneAnswers, CacheOnly
    PROVE  Spec => ImplementsByteMemory
<1>1. Init => RInv /\ Abstract!Init
    <2> SUFFICES ASSUME Init PROVE RInv /\ Abstract!Init
        OBVIOUS
    <2>1. MDInv
        BY MDInvKept
    <2>2. req = NoRequest /\ req \notin Requests
        BY DEF Init, WellFormed
    <2>3. ~mem.next.waitOut
        BY DEF Init, CacheOnly
    <2>4. RInv
        BY <2>1, <2>2, <2>3 DEF RInv, Settled
    <2>5. Contents(mem) \in Words
        <3>1. Tied(mem) /\ Kept(mem)
            BY <2>1 DEF MDInv, CInv, Still
        <3> QED
            BY <3>1, ViewTyped DEF CacheOnly, Words
    <2> QED
        BY <2>4, <2>5, ResetSeen
<1>2. RInv /\ [Next]_vars => RInv' /\ [Abstract!Next]_Abstract!vars
    BY StepSeen
<1> QED
    BY <1>1, <1>2, PTL DEF Spec, ImplementsByteMemory, Abstract!Spec

\* The bytes of the cache change in the cycle that answers the access, or in
\* one suspended from outside, and in no other: no cycle leaves a store half
\* done, and no refill or write back shows.
THEOREM CacheEffectWithAnswer ==
    ASSUME WellFormed, Sized, OfCache, InRange, LevelContract, NoneAnswers, CacheOnly
    PROVE  Spec => EffectWithAnswer
<1>1. Init => RInv
    <2> SUFFICES ASSUME Init PROVE RInv
        OBVIOUS
    <2>1. MDInv
        BY MDInvKept
    <2>2. req = NoRequest /\ req \notin Requests /\ ~mem.next.waitOut
        BY DEF Init, WellFormed, CacheOnly
    <2> QED
        BY <2>1, <2>2 DEF RInv, Settled
<1>2. RInv /\ [Next]_vars =>
        /\ RInv'
        /\ [mem' # mem /\ Contents(mem') # Contents(mem) /\ Ready =>
               req # NoRequest /\ req' = NoRequest]_vars
    BY StepSeen
<1> QED
    BY <1>1, <1>2, PTL DEF Spec, EffectWithAnswer

\* Above SimpleMemory, the plain memory that has the LONG accesses a cache
\* asks for, nothing is left to assume but the geometry and the requests.
THEOREM CacheOnSimpleMemory ==
    ASSUME WellFormed, Sized, OfCache, InRange, CacheOnly,
           Levels = Level!SimpleMemoryRecord,
           \A m, addr, mask, op, d : NextProcess(m, addr, mask, op, d)
                                     = Level!SimpleProcess(m, addr, mask, op, d)
    PROVE  Spec => ImplementsByteMemory
<1>1. LevelContract
    BY SimpleMemoryKeepsContract
<1>2. ASSUME NEW n \in Levels, NEW addr, NEW d
      PROVE  ~NextProcess(n, addr, "LONG", "NONE", d).waitOut
    <2>1. NextProcess(n, addr, "LONG", "NONE", d) = [n EXCEPT !.waitOut = FALSE]
        BY DEF Level!SimpleProcess
    <2>2. DOMAIN n = {"data", "dataOut", "waitOut"}
        BY DEF Level!SimpleMemoryRecord
    <2> QED
        BY <2>1, <2>2
<1>3. NoneAnswers
    BY <1>2 DEF NoneAnswers
<1> QED
    BY <1>1, <1>3, CacheIsBytes
=============================================================================
