---------------------------- MODULE MemoryProofs ----------------------------
(***************************************************************************)
(* What the proofs about every memory under MemoryClient share, and those  *)
(* about the two plain ones.                                               *)
(*                                                                         *)
(* The slices of SubWord are the bytes of a word: a word is the number its *)
(* four bytes spell, and what a sub-word store leaves is a word again,     *)
(* with the bytes it covers replaced and the others kept.  From that, an   *)
(* access of one word of an array is the access of ByteMemory to the bytes *)
(* of the array, for every size of a byte and of the array.                *)
(*                                                                         *)
(* SimpleMemory and IncompleteMemory are such arrays, whatever the         *)
(* sequence of requests: under MemoryClient each one implements ByteMemory *)
(* and changes the bytes in the cycle that answers.                        *)
(***************************************************************************)
EXTENDS MemoryClient, TLAPS

CONSTANT Cells    \* the indices of the array


-----------------------------------------------------------------------------
(* Quotients and remainders.                                               *)

\* A product grows with its factor.
LEMMA MulMono ==
    ASSUME NEW k \in Nat, NEW a \in Int, NEW b \in Int, a <= b
    PROVE  k * a <= k * b
<1>1. k * (b - a) >= 0
  <2>1. b - a \in Nat
    OBVIOUS
  <2> QED
    BY <2>1
<1> QED
  BY <1>1

\* A quotient and a remainder are the only ones.
LEMMA Peel ==
    ASSUME NEW n \in Nat \ {0}, NEW q \in Int, NEW r \in 0 .. n - 1
    PROVE  /\ (r + n * q) \div n = q
           /\ (r + n * q) % n = r
<1> DEFINE x == r + n * q
           d == x \div n
           m == x % n
<1>0. x \in Int /\ n * q \in Int
  OBVIOUS
<1>1. d \in Int /\ m \in 0 .. n - 1 /\ x = n * d + m
  <2> HIDE DEF x
  <2> QED
    BY <1>0
<1> HIDE DEF d, m
<1>2. n * d + m = n * q + r
  BY <1>1
<1>3. ~ (d >= q + 1)
  <2> SUFFICES ASSUME d >= q + 1 PROVE FALSE
    OBVIOUS
  <2>1. n * (q + 1) <= n * d
    BY <1>1, MulMono
  <2>2. n * (q + 1) = n * q + n
    OBVIOUS
  <2> QED
    BY <2>1, <2>2, <1>1, <1>2
<1>4. ~ (q >= d + 1)
  <2> SUFFICES ASSUME q >= d + 1 PROVE FALSE
    OBVIOUS
  <2>1. n * (d + 1) <= n * q
    BY <1>1, MulMono
  <2>2. n * (d + 1) = n * d + n
    BY <1>1
  <2> QED
    BY <2>1, <2>2, <1>1, <1>2
<1>5. d = q
  BY <1>1, <1>3, <1>4
<1> QED
  BY <1>2, <1>5, <1>1 DEF d, m

\* The number four bytes spell, lowest first.
Digits(b0, b1, b2, b3) == b0 + ByteSize * (b1 + ByteSize * (b2 + ByteSize * b3))

\* The weights are positive.
LEMMA Sizes ==
    /\ ByteSize \in Nat \ {0} /\ HalfSize \in Nat \ {0} /\ FullSize \in Nat \ {0}
    /\ ByteSize * HalfSize \in Nat \ {0}
<1>1. ByteSize \in Nat \ {0}
  BY ByteAssumption
<1>2. ASSUME NEW a \in Nat \ {0}, NEW b \in Nat \ {0} PROVE a * b \in Nat \ {0}
  OBVIOUS
<1>3. HalfSize \in Nat \ {0}
  BY <1>1, <1>2 DEF HalfSize
<1> QED
  BY <1>1, <1>2, <1>3 DEF FullSize

\* A digit above a number below a power.
LEMMA DigitAbove ==
    ASSUME NEW n \in Nat, NEW m \in Nat, NEW r \in 0 .. n - 1, NEW q \in 0 .. m - 1
    PROVE  r + n * q \in 0 .. n * m - 1
<1>1. n * q <= n * (m - 1)
  BY MulMono
<1>2. n * (m - 1) = n * m - n
  OBVIOUS
<1>3. n * q \in Nat /\ n * m \in Nat
  OBVIOUS
<1> QED
  BY <1>1, <1>2, <1>3

\* The slices of a word are the numbers its digits spell.
LEMMA SlicesOf ==
    ASSUME NEW b0 \in Byte, NEW b1 \in Byte, NEW b2 \in Byte, NEW b3 \in Byte
    PROVE  LET w == Digits(b0, b1, b2, b3) IN
           /\ w \in MemWord
           /\ Slice(w, ByteSize, 1) = b0
           /\ Slice(w, ByteSize, ByteSize) = b1
           /\ Slice(w, ByteSize, HalfSize) = b2
           /\ Slice(w, ByteSize, ByteSize * HalfSize) = b3
           /\ Slice(w, HalfSize, 1) = b0 + ByteSize * b1
           /\ Slice(w, HalfSize, HalfSize) = b2 + ByteSize * b3
           /\ Slice(w, FullSize, 1) = w
<1> DEFINE w == Digits(b0, b1, b2, b3)
           low == b0 + ByteSize * b1
           high == b2 + ByteSize * b3
           q == b1 + ByteSize * high
           three == low + HalfSize * b2
<1>1. low \in 0 .. HalfSize - 1 /\ high \in 0 .. HalfSize - 1
  BY DigitAbove, Sizes DEF Byte, HalfSize
<1>2. w = low + HalfSize * high /\ w = b0 + ByteSize * q
  BY Sizes DEF Digits, HalfSize, Byte
<1>3. w = three + (ByteSize * HalfSize) * b3
  BY Sizes DEF Digits, HalfSize, Byte
<1>4. three \in 0 .. HalfSize * ByteSize - 1
  BY <1>1, DigitAbove, Sizes DEF Byte
<1>5. three \in 0 .. ByteSize * HalfSize - 1
  BY <1>4, Sizes
<1>6. w \in 0 .. FullSize - 1
  <2> HIDE DEF low, high, w
  <2> QED
    BY <1>1, <1>2, DigitAbove, Sizes DEF FullSize
<1>7. q \in Int
  BY <1>1, Sizes DEF Byte
<1> HIDE DEF w, q, low, high, three
<1>8. w \div ByteSize = q /\ w % ByteSize = b0
  BY <1>2, <1>7, Peel, Sizes DEF Byte
<1>9. q % ByteSize = b1
  BY <1>1, Peel, Sizes DEF Byte, q
<1>10. w \div HalfSize = high /\ w % HalfSize = low
  <2>1. high \in Int /\ low \in 0 .. HalfSize - 1 /\ HalfSize \in Nat \ {0}
    BY <1>1, Sizes
  <2>2. /\ (low + HalfSize * high) \div HalfSize = high
        /\ (low + HalfSize * high) % HalfSize = low
    BY <2>1, Peel
  <2> QED
    BY <1>2, <2>2
<1>11. high % ByteSize = b2
  BY Peel, Sizes DEF high, Byte
<1>12. w \div (ByteSize * HalfSize) = b3
  BY <1>3, <1>5, Peel, Sizes DEF Byte
<1>13. w \div 1 = w
  BY <1>6, Sizes
<1>14. b3 % ByteSize = b3 /\ high % HalfSize = high /\ w % FullSize = w
  <2>1. ASSUME NEW n \in Nat \ {0}, NEW r \in 0 .. n - 1 PROVE r % n = r
    BY <2>1
  <2> QED
    BY <2>1, <1>1, <1>6, Sizes DEF Byte
<1> QED
  BY <1>6, <1>8, <1>9, <1>10, <1>11, <1>12, <1>13, <1>14
  DEF Slice, MemWord, w, low, high

\* And every word is the number four bytes spell.
LEMMA DigitsOf ==
    ASSUME NEW w \in MemWord
    PROVE  \E b0, b1, b2, b3 \in Byte : w = Digits(b0, b1, b2, b3)
<1> DEFINE low == w % HalfSize
           high == w \div HalfSize
<1>1. ASSUME NEW n \in Nat \ {0}, NEW x \in 0 .. n * n - 1
      PROVE  x \div n \in 0 .. n - 1 /\ x % n \in 0 .. n - 1 /\ x = (x % n) + n * (x \div n)
  <2> DEFINE d == x \div n
  <2>1. d \in Int /\ x % n \in 0 .. n - 1 /\ x = (x % n) + n * d
    BY <1>1
  <2> HIDE DEF d
  <2>2. ~ (d >= n)
    <3> SUFFICES ASSUME d >= n PROVE FALSE
      OBVIOUS
    <3>1. n * n <= n * d
      BY <2>1, MulMono
    <3> QED
      BY <2>1, <3>1
  <2>3. ~ (d <= -1)
    <3> SUFFICES ASSUME d <= -1 PROVE FALSE
      OBVIOUS
    <3>1. n * d <= n * (-1)
      BY <2>1, MulMono
    <3>2. n * (-1) = -n
      OBVIOUS
    <3> QED
      BY <2>1, <3>1, <3>2
  <2> QED
    BY <2>1, <2>2, <2>3 DEF d
<1>2. low \in 0 .. HalfSize - 1 /\ high \in 0 .. HalfSize - 1 /\ w = low + HalfSize * high
  BY <1>1, Sizes DEF MemWord, FullSize
<1> HIDE DEF low, high
<1>3. ASSUME NEW x \in 0 .. HalfSize - 1
      PROVE  \E b0, b1 \in Byte : x = b0 + ByteSize * b1
  <2>1. /\ x \div ByteSize \in Byte /\ x % ByteSize \in Byte
        /\ x = (x % ByteSize) + ByteSize * (x \div ByteSize)
    BY <1>1, Sizes DEF Byte, HalfSize
  <2> QED
    BY <2>1
<1>4. PICK b0 \in Byte, b1 \in Byte : low = b0 + ByteSize * b1
  BY <1>2, <1>3
<1>5. PICK b2 \in Byte, b3 \in Byte : high = b2 + ByteSize * b3
  BY <1>2, <1>3
<1>6. low + HalfSize * high = Digits(b0, b1, b2, b3)
  BY <1>4, <1>5, Sizes DEF Digits, HalfSize, Byte
<1> QED
  BY <1>2, <1>6

\* Byte i of word w.
ByteOf(w, i) == Slice(w, ByteSize, ByteWeight(i))

\* The bytes of a word an access touches.
Touched(mask, low) ==
    CASE mask \in {"BYTE", "BYTE_U"} -> low .. low
      [] mask \in {"HALF", "HALF_U"} -> IF low >= 2 THEN 2 .. 3 ELSE 0 .. 1
      [] OTHER -> 0 .. 3

\* The lowest of them.
First(mask, low) ==
    CASE mask \in {"BYTE", "BYTE_U"} -> low
      [] mask \in {"HALF", "HALF_U"} -> IF low >= 2 THEN 2 ELSE 0
      [] OTHER -> 0

\* Byte i of word w once v is stored.
StoredByte(mask, w, low, v, i) ==
    IF i \in Touched(mask, low) THEN ByteOf(v, i - First(mask, low)) ELSE ByteOf(w, i)

\* The bytes of a word are its digits.
LEMMA BytesOf ==
    ASSUME NEW b0 \in Byte, NEW b1 \in Byte, NEW b2 \in Byte, NEW b3 \in Byte
    PROVE  LET w == Digits(b0, b1, b2, b3) IN
           /\ w \in MemWord
           /\ ByteOf(w, 0) = b0 /\ ByteOf(w, 1) = b1
           /\ ByteOf(w, 2) = b2 /\ ByteOf(w, 3) = b3
BY SlicesOf DEF ByteOf, ByteWeight

\* The STORE switch leaves a word, with the bytes it touches replaced and the
\* others kept.
LEMMA WriteSubWordBytes ==
    ASSUME NEW w \in MemWord, NEW v \in MemWord, NEW mask \in Masks,
           NEW low \in 0 .. 3, NEW i \in 0 .. 3
    PROVE  /\ WriteSubWord(mask, w, low, v) \in MemWord
           /\ ByteOf(WriteSubWord(mask, w, low, v), i) = StoredByte(mask, w, low, v, i)
<1> DEFINE n == WriteSubWord(mask, w, low, v)
<1>1. PICK b0 \in Byte, b1 \in Byte, b2 \in Byte, b3 \in Byte : w = Digits(b0, b1, b2, b3)
  BY DigitsOf
<1>2. PICK v0 \in Byte, v1 \in Byte, v2 \in Byte, v3 \in Byte : v = Digits(v0, v1, v2, v3)
  BY DigitsOf
<1>3. /\ v % ByteSize = v0 /\ v % HalfSize = v0 + ByteSize * v1 /\ v % FullSize = v
  <2>1. v \div 1 = v
    BY Sizes DEF MemWord
  <2> QED
    BY <1>2, <2>1, SlicesOf DEF Slice
<1>4. CASE mask \in {"BYTE", "BYTE_U"}
  <2>1. n = w + (v0 - ByteOf(w, low)) * ByteWeight(low)
    BY <1>3, <1>4 DEF WriteSubWord, Width, Weight, ByteOf
  <2>2. /\ ByteOf(w, 0) = b0 /\ ByteOf(w, 1) = b1
        /\ ByteOf(w, 2) = b2 /\ ByteOf(w, 3) = b3
    BY <1>1, BytesOf
  <2> HIDE DEF n
  <2>3. CASE low = 0
    <3>1. n = w + (v0 - b0) * 1
      BY <2>1, <2>2, <2>3 DEF ByteWeight
    <3>2. n = Digits(v0, b1, b2, b3)
      BY <1>1, <3>1, Sizes DEF Digits, Byte, HalfSize
    <3> QED
      BY <1>1, <1>2, <1>4, <2>3, <3>2, BytesOf DEF StoredByte, Touched, First, n
  <2>4. CASE low = 1
    <3>1. n = w + (v0 - b1) * ByteSize
      BY <2>1, <2>2, <2>4 DEF ByteWeight
    <3>2. n = Digits(b0, v0, b2, b3)
      BY <1>1, <3>1, Sizes DEF Digits, Byte, HalfSize
    <3> QED
      BY <1>1, <1>2, <1>4, <2>4, <3>2, BytesOf DEF StoredByte, Touched, First, n
  <2>5. CASE low = 2
    <3>1. n = w + (v0 - b2) * HalfSize
      BY <2>1, <2>2, <2>5 DEF ByteWeight
    <3>2. n = Digits(b0, b1, v0, b3)
      BY <1>1, <3>1, Sizes DEF Digits, Byte, HalfSize
    <3> QED
      BY <1>1, <1>2, <1>4, <2>5, <3>2, BytesOf DEF StoredByte, Touched, First, n
  <2>6. CASE low = 3
    <3>1. n = w + (v0 - b3) * (ByteSize * HalfSize)
      BY <2>1, <2>2, <2>6 DEF ByteWeight
    <3>2. n = Digits(b0, b1, b2, v0)
      BY <1>1, <3>1, Sizes DEF Digits, Byte, HalfSize
    <3> QED
      BY <1>1, <1>2, <1>4, <2>6, <3>2, BytesOf DEF StoredByte, Touched, First, n
  <2> QED
    BY <2>3, <2>4, <2>5, <2>6
<1>5. CASE mask \in {"HALF", "HALF_U"}
  <2> HIDE DEF n
  <2>1. CASE low >= 2
    <3>1. n = w + ((v0 + ByteSize * v1) - (b2 + ByteSize * b3)) * HalfSize
      BY <1>1, <1>3, <1>5, <2>1, SlicesOf DEF n, WriteSubWord, Width, Weight
    <3>2. n = Digits(b0, b1, v0, v1)
      BY <1>1, <3>1, Sizes DEF Digits, Byte, HalfSize
    <3> QED
      BY <1>1, <1>2, <1>5, <2>1, <3>2, BytesOf DEF StoredByte, Touched, First, n
  <2>2. CASE low < 2
    <3>1. n = w + ((v0 + ByteSize * v1) - (b0 + ByteSize * b1)) * 1
      BY <1>1, <1>3, <1>5, <2>2, SlicesOf DEF n, WriteSubWord, Width, Weight
    <3>2. n = Digits(v0, v1, b2, b3)
      BY <1>1, <3>1, Sizes DEF Digits, Byte, HalfSize
    <3> QED
      BY <1>1, <1>2, <1>5, <2>2, <3>2, BytesOf DEF StoredByte, Touched, First, n
  <2> QED
    BY <2>1, <2>2
<1>6. CASE mask \in {"WORD", "LONG"}
  <2>1. n = w + (v - Slice(w, FullSize, 1)) * 1
    BY <1>3, <1>6 DEF WriteSubWord, Width, Weight
  <2>2. n = v
    BY <1>1, <2>1, SlicesOf, Sizes DEF MemWord
  <2> QED
    BY <1>6, <2>2 DEF StoredByte, Touched, First
<1> QED
  BY <1>4, <1>5, <1>6 DEF Masks

\* WORD and LONG accesses take the whole word.
LEMMA WholeWord ==
    ASSUME NEW w \in MemWord, NEW v \in MemWord, NEW low
    PROVE  /\ WriteSubWord("WORD", w, low, v) = v /\ WriteSubWord("LONG", w, low, v) = v
           /\ ReadSubWord("WORD", w, low) = w /\ ReadSubWord("LONG", w, low) = w
<1>1. ASSUME NEW x \in MemWord PROVE Slice(x, FullSize, 1) = x /\ x % FullSize = x
    <2>1. x \div 1 = x /\ x % FullSize = x
        <3>1. ASSUME NEW n \in Nat \ {0}, NEW y \in 0 .. n - 1 PROVE y % n = y
            BY <3>1
        <3> QED
            BY <3>1, Sizes DEF MemWord
    <2> QED
        BY <2>1 DEF Slice
<1>2. ASSUME NEW mask \in {"WORD", "LONG"}
      PROVE  WriteSubWord(mask, w, low, v) = v /\ ReadSubWord(mask, w, low) = w
    <2>1. Width(mask) = FullSize /\ Weight(mask, low) = 1
        BY <1>2 DEF Width, Weight
    <2>2. WriteSubWord(mask, w, low, v) = w + (v - w) * 1
        BY <1>1, <2>1 DEF WriteSubWord
    <2> QED
        BY <1>1, <1>2, <2>1, <2>2, Sizes DEF ReadSubWord, MemWord
<1> QED
    BY <1>2

-----------------------------------------------------------------------------
(* Well-formed clients.                                                    *)

\* Whole words, and requests inside them.
WellFormed ==
    /\ Cells \subseteq Nat
    /\ \A a \in Addr : a \in Nat /\ WordOf(a) \in Cells
    /\ \A w \in Cells, i \in 0 .. 3 : 4 * w + i \in Addr
    /\ NoRequest \notin Requests
    /\ \A m : RequestsOf(m) \subseteq Requests
    /\ \A r \in Requests : /\ r.op \in {"LOAD", "STORE"} /\ r.mask \in Masks
                           /\ r.addr \in Addr /\ r.data \in MemWord

Words == [Cells -> MemWord]

-----------------------------------------------------------------------------
(* Addresses.                                                              *)

\* A byte address is a word and a byte of it.
LEMMA Halves ==
    ASSUME NEW a \in Nat, NEW i \in 0 .. 3
    PROVE  /\ a = 4 * WordOf(a) + LowOf(a) /\ LowOf(a) \in 0 .. 3 /\ WordOf(a) \in Nat
           /\ WordOf(4 * WordOf(a) + i) = WordOf(a) /\ LowOf(4 * WordOf(a) + i) = i
BY DEF WordOf, LowOf

\* The bytes ByteMemory says an access covers are those the switches touch.
LEMMA BaseOf ==
    ASSUME NEW r, r.addr \in Nat, r.mask \in Masks
    PROVE  /\ Abstract!Base(r) = 4 * WordOf(r.addr) + First(r.mask, LowOf(r.addr))
           /\ First(r.mask, LowOf(r.addr)) \in 0 .. 3
           /\ First(r.mask, LowOf(r.addr)) + Abstract!Size(r.mask) \in 1 .. 4
           /\ Touched(r.mask, LowOf(r.addr)) =
                First(r.mask, LowOf(r.addr)) ..
                    First(r.mask, LowOf(r.addr)) + Abstract!Size(r.mask) - 1
<1> DEFINE a == r.addr
           low == LowOf(a)
           word == WordOf(a)
<1>1. /\ a % 1 = 0 /\ a = 4 * word + low /\ low \in 0 .. 3
      /\ a % 2 = IF low \in {1, 3} THEN 1 ELSE 0
      /\ a % 4 = low
    BY DEF WordOf, LowOf
<1> HIDE DEF a, low, word
<1>2. CASE r.mask \in {"BYTE", "BYTE_U"}
    <2>1. /\ Abstract!Size(r.mask) = 1 /\ First(r.mask, low) = low
          /\ Touched(r.mask, low) = low .. low
        BY <1>2 DEF Abstract!Size, First, Touched
    <2>2. Abstract!Base(r) = 4 * word + low
        BY <1>1, <2>1 DEF Abstract!Base, a
    <2> QED
        BY <1>1, <2>1, <2>2 DEF a, low, word
<1>3. CASE r.mask \in {"HALF", "HALF_U"}
    <2> DEFINE f == IF low >= 2 THEN 2 ELSE 0
    <2>1. /\ Abstract!Size(r.mask) = 2 /\ First(r.mask, low) = f
          /\ Touched(r.mask, low) = IF low >= 2 THEN 2 .. 3 ELSE 0 .. 1
        BY <1>3 DEF Abstract!Size, First, Touched
    <2>3. /\ f \in 0 .. 3 /\ f + 2 \in 1 .. 4
          /\ f .. f + 2 - 1 = IF low >= 2 THEN 2 .. 3 ELSE 0 .. 1
        <3>1. CASE low >= 2
            BY <3>1
        <3>2. CASE ~(low >= 2)
            BY <3>2
        <3> QED
            BY <3>1, <3>2
    <2>2. Abstract!Base(r) = 4 * word + f
        <3>1. word \in Int
            BY DEF word, WordOf, a
        <3> QED
            BY <1>1, <2>1, <3>1 DEF Abstract!Base, a
    <2> HIDE DEF f
    <2> QED
        BY <2>1, <2>2, <2>3 DEF a, low, word
<1>4. CASE r.mask \in {"WORD", "LONG"}
    <2>1. /\ Abstract!Size(r.mask) = 4 /\ First(r.mask, low) = 0
          /\ Touched(r.mask, low) = 0 .. 3
        BY <1>4 DEF Abstract!Size, First, Touched
    <2>2. Abstract!Base(r) = 4 * word
        <3>1. word \in Int
            BY DEF word, WordOf, a
        <3> QED
            BY <1>1, <2>1, <3>1 DEF Abstract!Base, a
    <2>3. 0 \in 0 .. 3 /\ 0 + 4 \in 1 .. 4 /\ 0 .. 0 + 4 - 1 = 0 .. 3 /\ 4 * word + 0 = 4 * word
        BY <1>1 DEF word, WordOf, a
    <2> QED
        BY <2>1, <2>2, <2>3 DEF a, low, word
<1> QED
    BY <1>2, <1>3, <1>4 DEF Masks

\* A range of bytes inside one word.
LEMMA InsideWord ==
    ASSUME NEW v \in Nat, NEW w \in Nat, NEW i \in 0 .. 3, NEW f \in 0 .. 3,
           NEW s \in Int, f + s \in 1 .. 4
    PROVE  4 * v + i \in 4 * w + f .. 4 * w + f + s - 1 <=> v = w /\ i \in f .. f + s - 1
OBVIOUS

-----------------------------------------------------------------------------
(* One access.                                                             *)

\* A load returns the number the bytes at its address spell.
LEMMA LoadSpells ==
    ASSUME WellFormed, Contents(mem) \in Words, NEW r \in Requests
    PROVE  Abstract!Loaded(r) =
             ReadSubWord(r.mask, Contents(mem)[WordOf(r.addr)], LowOf(r.addr))
<1> DEFINE w == Contents(mem)[WordOf(r.addr)]
           b(a) == Slice(Contents(mem)[WordOf(a)], ByteSize, ByteWeight(LowOf(a)))
           f == First(r.mask, LowOf(r.addr))
           base == 4 * WordOf(r.addr)
<1>1. r.addr \in Addr /\ r.addr \in Nat /\ r.mask \in Masks /\ w \in MemWord
    BY DEF WellFormed, Words
<1>2. PICK b0 \in Byte, b1 \in Byte, b2 \in Byte, b3 \in Byte : w = Digits(b0, b1, b2, b3)
    BY <1>1, DigitsOf
<1>3. \A i \in 0 .. 3 : base + i \in Addr /\ b(base + i) = ByteOf(w, i)
    BY <1>1, Halves DEF WellFormed, ByteOf
<1>4. /\ b(base) = b0 /\ b(base + 1) = b1 /\ b(base + 2) = b2 /\ b(base + 3) = b3
      /\ base \in Addr /\ base + 1 \in Addr /\ base + 2 \in Addr /\ base + 3 \in Addr
    BY <1>2, <1>3, <1>1, Halves, BytesOf
<1>5. Abstract!Base(r) = base + f /\ f \in 0 .. 3
    BY <1>1, BaseOf
<1> DEFINE value == Slice(w, Width(r.mask), Weight(r.mask, LowOf(r.addr)))
<1> HIDE DEF b, base
<1>6. Abstract!Spelled(Abstract!Base(r), Abstract!Size(r.mask)) = value
    <2>1. /\ Slice(w, ByteSize, 1) = b0 /\ Slice(w, ByteSize, ByteSize) = b1
          /\ Slice(w, ByteSize, HalfSize) = b2
          /\ Slice(w, ByteSize, ByteSize * HalfSize) = b3
          /\ Slice(w, HalfSize, 1) = b0 + ByteSize * b1
          /\ Slice(w, HalfSize, HalfSize) = b2 + ByteSize * b3
          /\ Slice(w, FullSize, 1) = w
        BY <1>2, SlicesOf
    <2> DEFINE low == LowOf(r.addr)
    <2>2. low \in 0 .. 3
        BY <1>1, Halves
    <2> HIDE DEF w, low, f
    <2>3. CASE r.mask \in {"BYTE", "BYTE_U"}
        <3>1. Abstract!Size(r.mask) = 1 /\ f = low
            BY <2>3 DEF Abstract!Size, f, First, low
        <3>2. Abstract!Spelled(base + f, 1) = b(base + f)
            BY <1>3, <2>2, <3>1 DEF Abstract!Spelled, b, Slice, ByteWeight, Abstract!Slice
        <3>3. b(base + f) = Slice(w, ByteSize, ByteWeight(low))
            BY <1>3, <2>2, <3>1 DEF ByteOf
        <3>4. value = Slice(w, ByteSize, ByteWeight(low))
            BY <2>3 DEF Width, Weight, low
        <3> QED
            BY <1>5, <3>1, <3>2, <3>3, <3>4
    <2>4. CASE r.mask \in {"HALF", "HALF_U"}
        <3>1. Abstract!Size(r.mask) = 2 /\ f = IF low >= 2 THEN 2 ELSE 0
            BY <2>4 DEF Abstract!Size, f, First, low
        <3>2. ASSUME NEW x, x \in Addr, x + 1 \in Addr
              PROVE  Abstract!Spelled(x, 2) = b(x) + ByteSize * b(x + 1)
            BY <3>2 DEF Abstract!Spelled, b
        <3>3. value = Slice(w, HalfSize, IF low >= 2 THEN HalfSize ELSE 1)
            BY <2>4 DEF Width, Weight, low
        <3>4. base \in Nat
            BY <1>1, Halves DEF base
        <3>5. CASE low >= 2
            <4>1. base + f = base + 2 /\ base + f + 1 = base + 3
                BY <3>1, <3>4, <3>5
            <4> QED
                BY <1>4, <1>5, <2>1, <3>1, <3>2, <3>3, <3>5, <4>1
        <3>6. CASE ~(low >= 2)
            <4>1. base + f = base /\ base + f + 1 = base + 1
                BY <3>1, <3>4, <3>6
            <4> QED
                BY <1>4, <1>5, <2>1, <3>1, <3>2, <3>3, <3>6, <4>1
        <3> QED
            BY <3>5, <3>6
    <2>5. CASE r.mask \in {"WORD", "LONG"}
        <3>1. Abstract!Size(r.mask) = 4 /\ f = 0
            BY <2>5 DEF Abstract!Size, f, First
        <3>2. Abstract!Spelled(base, 4) =
                b(base) + ByteSize * b(base + 1)
                  + HalfSize * (b(base + 2) + ByteSize * b(base + 3))
            BY <1>4 DEF Abstract!Spelled, b, Abstract!HalfSize, HalfSize
        <3>3. value = w
            BY <2>1, <2>5 DEF Width, Weight
        <3>4. base + f = base
            BY <1>1, <3>1, Halves DEF base
        <3>5. w = b0 + ByteSize * b1 + HalfSize * (b2 + ByteSize * b3)
            BY <1>2, Sizes DEF Digits, HalfSize, Byte
        <3> QED
            BY <1>4, <1>5, <3>1, <3>2, <3>3, <3>4, <3>5
    <2> QED
        BY <1>1, <2>3, <2>4, <2>5 DEF Masks
<1>7. /\ Abstract!Width(r.mask) = Width(r.mask) /\ Abstract!FullSize = FullSize
    BY DEF Abstract!Width, Width, Abstract!FullSize, FullSize, Abstract!HalfSize, HalfSize
<1>8. value \in Int /\ Width(r.mask) \in Int /\ FullSize \in Int
    <2>1. Width(r.mask) \in {ByteSize, HalfSize, FullSize}
        BY DEF Width
    <2>2. Weight(r.mask, LowOf(r.addr)) \in {1, ByteSize, HalfSize, ByteSize * HalfSize}
        BY DEF Weight, ByteWeight
    <2>3. ASSUME NEW n \in Nat \ {0}, NEW g \in Nat \ {0}, NEW x \in Int
          PROVE  (x \div g) % n \in Int
        <3>1. x \div g \in Int
            BY <2>3
        <3> QED
            BY <3>1
    <2> QED
        BY <1>1, <2>1, <2>2, <2>3, Sizes DEF Slice, MemWord
<1> HIDE DEF value
<1> QED
    BY <1>6, <1>7, <1>8 DEF Abstract!Loaded, ReadSubWord, SignExtend, value

\* A store replaces the bytes it covers, and no other.
LEMMA StoreReplaces ==
    ASSUME WellFormed, Contents(mem) \in Words, NEW r \in Requests, NEW c,
           c = [Contents(mem) EXCEPT ![WordOf(r.addr)] =
                   WriteSubWord(r.mask, @, LowOf(r.addr), r.data)]
    PROVE  /\ c \in Words
           /\ [a \in Addr |-> Slice(c[WordOf(a)], ByteSize, ByteWeight(LowOf(a)))]
                = Abstract!Stored(r)
<1> DEFINE word == WordOf(r.addr)
           low == LowOf(r.addr)
           f == First(r.mask, low)
           old == Contents(mem)[word]
           new == WriteSubWord(r.mask, old, low, r.data)
           b(a) == Slice(Contents(mem)[WordOf(a)], ByteSize, ByteWeight(LowOf(a)))
<1>1. /\ r.addr \in Addr /\ r.addr \in Nat /\ r.mask \in Masks /\ r.data \in MemWord
      /\ word \in Cells /\ word \in Nat /\ low \in 0 .. 3 /\ old \in MemWord
    BY Halves DEF WellFormed, Words
<1> HIDE DEF old, word, low
<1>2. /\ new \in MemWord
      /\ \A i \in 0 .. 3 : ByteOf(new, i) =
            IF i \in Touched(r.mask, low) THEN ByteOf(r.data, i - f) ELSE ByteOf(old, i)
    <2> HIDE DEF f, new
    <2>1. new \in MemWord
        BY <1>1, WriteSubWordBytes DEF new
    <2>2. ASSUME NEW i \in 0 .. 3
          PROVE  ByteOf(new, i) =
                   IF i \in Touched(r.mask, low) THEN ByteOf(r.data, i - f) ELSE ByteOf(old, i)
        <3>1. ByteOf(new, i) = StoredByte(r.mask, old, low, r.data, i)
            BY <1>1, WriteSubWordBytes DEF new
        <3> QED
            BY <3>1 DEF StoredByte, f
    <2> QED
        BY <2>1, <2>2
<1>3. c = [Contents(mem) EXCEPT ![word] = new]
    BY DEF old, word, low
<1> DEFINE s == Abstract!Size(r.mask)
<1>4. /\ Abstract!Base(r) = 4 * word + f /\ f \in 0 .. 3
      /\ Abstract!Size(r.mask) \in Int
      /\ Touched(r.mask, low) = f .. f + Abstract!Size(r.mask) - 1
      /\ f + Abstract!Size(r.mask) \in 1 .. 4
    BY <1>1, BaseOf DEF Abstract!Size, word, low
<1> HIDE DEF new, f, s
<1>8. Abstract!Covered(r) = 4 * word + f .. 4 * word + f + s - 1
    BY <1>1, <1>4 DEF Abstract!Covered, s
<1>5. c \in Words
    BY <1>1, <1>2, <1>3 DEF Words
<1>6. ASSUME NEW a \in Addr
      PROVE  Slice(c[WordOf(a)], ByteSize, ByteWeight(LowOf(a))) =
               IF a \in Abstract!Covered(r)
               THEN Slice(r.data, ByteSize, ByteWeight(a - Abstract!Base(r)))
               ELSE b(a)
    <2> DEFINE i == LowOf(a)
               v == WordOf(a)
    <2>1. a = 4 * v + i /\ a \in Nat /\ i \in 0 .. 3 /\ v \in Cells /\ v \in Nat
        BY Halves DEF WellFormed
    <2> HIDE DEF i, v
    <2>2. CASE v = word
        <3>1. c[v] = new
            BY <1>1, <1>3, <2>2 DEF Words
        <3>2. a \in Abstract!Covered(r) <=> i \in Touched(r.mask, low)
            <4>1. 4 * v + i \in 4 * word + f .. 4 * word + f + s - 1 <=> i \in f .. f + s - 1
                <5>1. s \in Int /\ f + s \in 1 .. 4
                    BY <1>4 DEF s
                <5> QED
                    BY <1>1, <1>4, <2>1, <2>2, <5>1, InsideWord
            <4> QED
                BY <1>4, <1>8, <2>1, <4>1 DEF s
        <3>3. a - Abstract!Base(r) = i - f
            BY <1>1, <1>4, <2>1, <2>2
        <3>4. ByteOf(old, i) = b(a)
            BY <2>2 DEF ByteOf, old, i, v
        <3>5. ByteOf(new, i) = Slice(c[WordOf(a)], ByteSize, ByteWeight(LowOf(a)))
            BY <3>1 DEF ByteOf, i, v
        <3> QED
            BY <1>2, <2>1, <3>2, <3>3, <3>4, <3>5 DEF ByteOf
    <2>3. CASE v # word
        <3>1. c[v] = Contents(mem)[v]
            BY <1>1, <1>3, <2>1, <2>3 DEF Words
        <3>2. a \notin Abstract!Covered(r)
            <4>1. 4 * v + i \notin 4 * word + f .. 4 * word + f + s - 1
                <5>1. s \in Int /\ f + s \in 1 .. 4
                    BY <1>4 DEF s
                <5> QED
                    BY <1>1, <1>4, <2>1, <2>3, <5>1, InsideWord
            <4> QED
                BY <1>8, <2>1, <4>1
        <3> QED
            BY <3>1, <3>2 DEF v
    <2> QED
        BY <2>2, <2>3
<1>7. Abstract!Stored(r) =
        [a \in Addr |-> IF a \in Abstract!Covered(r)
                        THEN Slice(r.data, ByteSize, ByteWeight(a - Abstract!Base(r)))
                        ELSE b(a)]
    BY DEF Abstract!Stored, Abstract!Slice, Abstract!ByteWeight, Abstract!HalfSize, Slice, ByteWeight, HalfSize
<1> QED
    BY <1>5, <1>6, <1>7

-----------------------------------------------------------------------------
(* Steps of the client, whatever the memory.                               *)

Bytes(c) == [a \in Addr |-> Slice(c[WordOf(a)], ByteSize, ByteWeight(LowOf(a)))]

Stored(c, r) ==
    [c EXCEPT ![WordOf(r.addr)] = WriteSubWord(r.mask, @, LowOf(r.addr), r.data)]

Loaded(c, r) == ReadSubWord(r.mask, c[WordOf(r.addr)], LowOf(r.addr))

\* The bytes at reset.
LEMMA ResetSeen ==
    ASSUME WellFormed, Init, Contents(mem) \in Words
    PROVE  Abstract!Init
<1>1. ASSUME NEW x \in MemWord, NEW i \in 0 .. 3
      PROVE  Slice(x, ByteSize, ByteWeight(i)) \in Byte
    <2>1. ByteWeight(i) \in Nat \ {0}
        BY Sizes DEF ByteWeight
    <2>2. ASSUME NEW g \in Nat \ {0} PROVE (x \div g) % ByteSize \in Byte
        <3>1. x \div g \in Int
            BY DEF MemWord
        <3> QED
            BY <3>1, Sizes DEF Byte
    <2> QED
        BY <2>1, <2>2 DEF Slice
<1>2. \A a \in Addr : Contents(mem)[WordOf(a)] \in MemWord /\ LowOf(a) \in 0 .. 3
    BY Halves DEF WellFormed, Words
<1>3. Bytes(Contents(mem)) \in [Addr -> Byte]
    BY <1>1, <1>2 DEF Bytes
<1> QED
    BY <1>3 DEF Init, Abstract!Init, Bytes

\* A new request changes no byte.
LEMMA AskSeen ==
    ASSUME WellFormed, NEW r \in RequestsOf(mem), Ask(r)
    PROVE  Abstract!Next
<1>1. r \in Requests
    BY DEF WellFormed
<1> QED
    BY <1>1 DEF Ask, Abstract!Next, Abstract!Ask

\* Neither does a call that leaves the array and does not answer.
LEMMA CallUnseen ==
    ASSUME Contents(mem') = Contents(mem), UNCHANGED <<req, answer>>
    PROVE  UNCHANGED Abstract!vars
BY DEF Abstract!vars

\* A call that answers has done the access.
LEMMA AnswerSeen ==
    ASSUME WellFormed, Contents(mem) \in Words, req \in Requests, req' = NoRequest,
           \/ /\ req.op = "LOAD" /\ Contents(mem') = Contents(mem)
              /\ answer' = Loaded(Contents(mem), req)
           \/ /\ req.op = "STORE" /\ Contents(mem') = Stored(Contents(mem), req)
              /\ answer' = answer
    PROVE  Abstract!Next /\ Contents(mem') \in Words
<1>1. req # NoRequest
    BY DEF WellFormed
<1>2. CASE req.op = "LOAD"
    <2>1. Abstract!Loaded(req) = Loaded(Contents(mem), req)
        BY LoadSpells DEF Loaded
    <2> QED
        BY <1>1, <1>2, <2>1 DEF Abstract!Next, Abstract!Answer
<1>3. CASE req.op = "STORE"
    <2>1. /\ Contents(mem') \in Words
          /\ Bytes(Contents(mem')) = Abstract!Stored(req)
        BY <1>3, StoreReplaces DEF Stored, Bytes
    <2> QED
        BY <1>1, <1>3, <2>1 DEF Abstract!Next, Abstract!Answer, Bytes
<1> QED
    BY <1>2, <1>3

\* A store may be done by a call that does not answer.
LEMMA PerformSeen ==
    ASSUME WellFormed, Contents(mem) \in Words, req \in Requests, req.op = "STORE",
           Contents(mem') = Stored(Contents(mem), req), UNCHANGED <<req, answer>>
    PROVE  Abstract!Next /\ Contents(mem') \in Words
<1>1. req # NoRequest
    BY DEF WellFormed
<1>2. /\ Contents(mem') \in Words
      /\ Bytes(Contents(mem')) = Abstract!Stored(req)
    BY StoreReplaces DEF Stored, Bytes
<1> QED
    BY <1>1, <1>2 DEF Abstract!Next, Abstract!Perform, Bytes

-----------------------------------------------------------------------------
(* The plain memories, with the words of the client's array.               *)

Plain == INSTANCE Memories WITH WordAddr <- Cells

\* They cut words as their client does.
LEMMA SameCuts ==
    /\ Plain!MemWord = MemWord
    /\ \A a : Plain!WordOf(a) = WordOf(a) /\ Plain!LowOf(a) = LowOf(a)
    /\ \A mask, w, low : Plain!ReadSubWord(mask, w, low) = ReadSubWord(mask, w, low)
    /\ \A mask, w, low, v :
          Plain!WriteSubWord(mask, w, low, v) = WriteSubWord(mask, w, low, v)
BY DEF Plain!MemWord, Plain!WordOf, Plain!LowOf, Plain!ReadSubWord, Plain!WriteSubWord,
       Plain!SignExtend, Plain!Width, Plain!Weight, Plain!ByteWeight, Plain!Slice,
       Plain!FullSize, Plain!HalfSize, MemWord, WordOf, LowOf, ReadSubWord,
       WriteSubWord, SignExtend, Width, Weight, ByteWeight, Slice, FullSize, HalfSize


-----------------------------------------------------------------------------
(* SimpleMemory.                                                           *)

OfSimple ==
    /\ \A m, addr, mask, op, data :
          Process(m, addr, mask, op, data) = Plain!SimpleProcess(m, addr, mask, op, data)
    /\ \A m : Contents(m) = m.data
    /\ Resets \subseteq Plain!SimpleMemoryRecord

SimpleInv ==
    /\ DOMAIN mem = {"data", "dataOut", "waitOut"}
    /\ mem.data \in Words
    /\ req \in Requests \cup {NoRequest}

\* What a call leaves of the record.
SimpleMoves(m, n, addr, mask, op, data) ==
    /\ DOMAIN n = {"data", "dataOut", "waitOut"}
    /\ ~n.waitOut
    /\ op = "LOAD" => n.dataOut = ReadSubWord(mask, m.data[WordOf(addr)], LowOf(addr))
    /\ op = "STORE" =>
         n.data = [m.data EXCEPT ![WordOf(addr)] =
                      WriteSubWord(mask, @, LowOf(addr), data)]
    /\ op # "STORE" => n.data = m.data

\* Every call of SimpleMemory::process() does.
LEMMA SimpleCall ==
    ASSUME NEW m, DOMAIN m = {"data", "dataOut", "waitOut"}, m.data \in Words,
           NEW addr, NEW mask, NEW op, NEW data
    PROVE  SimpleMoves(m, Plain!SimpleProcess([m EXCEPT !.waitOut = FALSE], addr, mask, op, data),
                       addr, mask, op, data)
<1> DEFINE i == [m EXCEPT !.waitOut = FALSE]
<1>1. DOMAIN i = {"data", "dataOut", "waitOut"} /\ i.data = m.data /\ i.waitOut = FALSE
    OBVIOUS
<1> HIDE DEF i
<1> DEFINE n == Plain!SimpleProcess(i, addr, mask, op, data)
<1>2. n = Plain!SimpleProcess(i, addr, mask, op, data)
    OBVIOUS
<1> SUFFICES SimpleMoves(m, n, addr, mask, op, data)
    BY DEF i
<1> HIDE DEF n
<1>3. CASE op = "LOAD"
    <2>1. n = [i EXCEPT !.waitOut = FALSE,
                !.dataOut = ReadSubWord(mask, i.data[WordOf(addr)], LowOf(addr))]
        BY <1>2, <1>3, SameCuts DEF Plain!SimpleProcess
    <2> QED
        BY <1>1, <1>3, <2>1 DEF SimpleMoves
<1>4. CASE op = "STORE"
    <2>1. n = [i EXCEPT !.waitOut = FALSE,
                !.data[WordOf(addr)] = WriteSubWord(mask, @, LowOf(addr), data)]
        BY <1>2, <1>4, SameCuts DEF Plain!SimpleProcess
    <2> QED
        BY <1>1, <1>4, <2>1 DEF SimpleMoves
<1>5. CASE op \notin {"LOAD", "STORE"}
    <2>1. n = [i EXCEPT !.waitOut = FALSE]
        BY <1>2, <1>5, SameCuts DEF Plain!SimpleProcess
    <2> QED
        BY <1>1, <1>5, <2>1 DEF SimpleMoves
<1> QED
    BY <1>3, <1>4, <1>5

\* Every step keeps the record and is a step of the array of bytes.
LEMMA SimpleSteps ==
    ASSUME WellFormed, OfSimple, SimpleInv, [Next]_vars
    PROVE  SimpleInv' /\ [Abstract!Next]_Abstract!vars
<1>1. Contents(mem) = mem.data /\ Contents(mem') = mem'.data /\ Contents(mem) \in Words
    BY DEF OfSimple, SimpleInv
<1>2. ASSUME NEW r \in RequestsOf(mem), Ask(r)
      PROVE  SimpleInv' /\ [Abstract!Next]_Abstract!vars
    <2>1. SimpleInv'
        BY <1>2 DEF Ask, SimpleInv, WellFormed
    <2> QED
        BY <1>2, <2>1, AskSeen
<1>3. CASE Retry
    <2>1. req \in Requests /\ req.op \in {"LOAD", "STORE"}
        BY <1>3 DEF Retry, SimpleInv, WellFormed
    <2>2. mem' = Plain!SimpleProcess([mem EXCEPT !.waitOut = FALSE], req.addr, req.mask,
                               req.op, req.data)
        BY <1>3 DEF Retry, Called, OfSimple
    <2>3. /\ DOMAIN mem' = {"data", "dataOut", "waitOut"}
          /\ ~mem'.waitOut
          /\ req.op = "LOAD" => mem'.dataOut = Loaded(mem.data, req)
          /\ req.op = "STORE" => mem'.data = Stored(mem.data, req)
          /\ req.op # "STORE" => mem'.data = mem.data
        <3>1. SimpleMoves(mem, mem', req.addr, req.mask, req.op, req.data)
            BY <2>2, SimpleCall DEF SimpleInv
        <3> QED
            BY <3>1 DEF SimpleMoves, Loaded, Stored
    <2>4. /\ req' = NoRequest
          /\ answer' = IF req.op = "LOAD" THEN mem'.dataOut ELSE answer
        BY <1>3, <2>3 DEF Retry
    <2>5. Abstract!Next /\ Contents(mem') \in Words
        BY <1>1, <2>1, <2>3, <2>4, AnswerSeen
    <2> QED
        BY <1>1, <2>3, <2>4, <2>5 DEF SimpleInv
<1>4. CASE Suspended \/ Quiet
    <2>1. /\ UNCHANGED <<req, answer>>
          /\ \E addr, mask, data :
                mem' = Plain!SimpleProcess([mem EXCEPT !.waitOut = FALSE], addr, mask,
                                     "NONE", data)
        BY <1>4 DEF Suspended, Quiet, Called, OfSimple
    <2>2. DOMAIN mem' = {"data", "dataOut", "waitOut"} /\ mem'.data = mem.data
        <3>1. PICK addr, mask, data :
                mem' = Plain!SimpleProcess([mem EXCEPT !.waitOut = FALSE], addr, mask,
                                     "NONE", data)
            BY <2>1
        <3>2. SimpleMoves(mem, mem', addr, mask, "NONE", data)
            BY <3>1, SimpleCall DEF SimpleInv
        <3> QED
            BY <3>2 DEF SimpleMoves
    <2> QED
        BY <1>1, <2>1, <2>2, CallUnseen DEF SimpleInv
<1>5. CASE UNCHANGED vars
    BY <1>5, <1>1, CallUnseen DEF vars, SimpleInv
<1> QED
    BY <1>2, <1>3, <1>4, <1>5 DEF Next, Ready

\* SimpleMemory, the memory of the simulator, is an array of bytes: whatever
\* the core asks for, in whatever order and however it is suspended, a load
\* returns the bytes at its address and a store replaces those it covers.
THEOREM SimpleMemoryIsBytes ==
    ASSUME WellFormed, OfSimple
    PROVE  Spec => ImplementsByteMemory
<1>1. Init => SimpleInv /\ Abstract!Init
    <2> SUFFICES ASSUME Init PROVE SimpleInv /\ Abstract!Init
        OBVIOUS
    <2>1. mem \in Plain!SimpleMemoryRecord /\ req = NoRequest
        BY DEF Init, OfSimple
    <2>2. SimpleInv /\ Contents(mem) \in Words
        BY <2>1, SameCuts DEF SimpleInv, Plain!SimpleMemoryRecord, Words, OfSimple
    <2> QED
        BY <2>2, ResetSeen
<1>2. SimpleInv /\ [Next]_vars => SimpleInv' /\ [Abstract!Next]_Abstract!vars
    BY SimpleSteps
<1> QED
    BY <1>1, <1>2, PTL DEF Spec, ImplementsByteMemory, Abstract!Spec

-----------------------------------------------------------------------------
(* IncompleteMemory.  A store of less than a word takes two calls: between *)
(* them pendingWrite is set and valueLoaded is the word to merge into.     *)

IncompleteFields == {"data", "pendingWrite", "valueLoaded", "dataOut", "waitOut"}

\* The constructor leaves pendingWrite unassigned; it is assumed clear.  No
\* core asks for LONG.
OfIncomplete ==
    /\ \A m, addr, mask, op, data :
          Process(m, addr, mask, op, data) = Plain!IncompleteProcess(m, addr, mask, op, data)
    /\ \A m : Contents(m) = m.data
    /\ Resets \subseteq {m \in Plain!IncompleteMemoryRecord : ~m.pendingWrite}
    /\ \A r \in Requests : r.mask # "LONG"

IncompleteInv ==
    /\ DOMAIN mem = IncompleteFields
    /\ mem.data \in Words
    /\ mem.pendingWrite \in BOOLEAN
    /\ mem.valueLoaded \in MemWord
    /\ req \in Requests \cup {NoRequest}
    /\ mem.pendingWrite =>
         /\ req \in Requests /\ req.op = "STORE" /\ req.mask # "WORD"
         /\ mem.valueLoaded = mem.data[WordOf(req.addr)]

\* What a call leaves of the record.
IncompleteMoves(m, n, addr, mask, op, data) ==
    /\ DOMAIN n = IncompleteFields
    /\ op = "LOAD" =>
         /\ ~n.waitOut /\ n.pendingWrite = FALSE /\ n.valueLoaded = m.valueLoaded
         /\ n.data = m.data
         /\ n.dataOut = ReadSubWord(mask, m.data[WordOf(addr)], LowOf(addr))
    /\ op = "STORE" /\ mask # "WORD" /\ ~m.pendingWrite =>
         /\ n.waitOut /\ n.pendingWrite = TRUE /\ n.data = m.data
         /\ n.valueLoaded = m.data[WordOf(addr)]
    /\ op = "STORE" /\ (mask = "WORD" \/ m.pendingWrite) =>
         /\ ~n.waitOut /\ n.pendingWrite = FALSE /\ n.valueLoaded = m.valueLoaded
         /\ n.data = [m.data EXCEPT ![WordOf(addr)] =
                         WriteSubWord(mask, m.valueLoaded, LowOf(addr), data)]
    /\ op = "NONE" =>
         /\ n.data = m.data /\ n.pendingWrite = m.pendingWrite
         /\ n.valueLoaded = m.valueLoaded

\* Every call of IncompleteMemory::process() does.
LEMMA IncompleteCall ==
    ASSUME NEW m, DOMAIN m = IncompleteFields, m.pendingWrite \in BOOLEAN,
           NEW addr, NEW mask, mask # "LONG", NEW op \in OpTypes, NEW data
    PROVE  IncompleteMoves(m, Plain!IncompleteProcess([m EXCEPT !.waitOut = FALSE],
                                                addr, mask, op, data),
                           addr, mask, op, data)
<1> DEFINE i == [m EXCEPT !.waitOut = FALSE]
<1>1. /\ DOMAIN i = IncompleteFields /\ i.data = m.data /\ i.waitOut = FALSE
      /\ i.pendingWrite = m.pendingWrite /\ i.valueLoaded = m.valueLoaded
    BY DEF IncompleteFields
<1> HIDE DEF i
<1> DEFINE n == Plain!IncompleteProcess(i, addr, mask, op, data)
<1>2. n = Plain!IncompleteProcess(i, addr, mask, op, data)
    OBVIOUS
<1> SUFFICES IncompleteMoves(m, n, addr, mask, op, data)
    BY DEF i
<1> HIDE DEF n
<1>3. CASE op = "LOAD"
    <2>1. n = Plain!IncompleteLoad(i, addr, mask)
        BY <1>2, <1>3 DEF Plain!IncompleteProcess
    <2>2. n = [i EXCEPT !.waitOut = FALSE, !.pendingWrite = FALSE,
                 !.dataOut = ReadSubWord(mask, i.data[WordOf(addr)], LowOf(addr))]
        BY <2>1, SameCuts DEF Plain!IncompleteLoad
    <2> QED
        BY <1>1, <1>3, <2>2 DEF IncompleteMoves, IncompleteFields
<1>4. CASE op = "STORE" /\ mask # "WORD" /\ ~m.pendingWrite
    <2>1. n = Plain!BeginSubWordStore(i, addr)
        BY <1>1, <1>2, <1>4 DEF Plain!IncompleteProcess
    <2> QED
        BY <1>1, <1>4, <2>1, SameCuts DEF IncompleteMoves, IncompleteFields, Plain!BeginSubWordStore
<1>5. CASE op = "STORE" /\ (mask = "WORD" \/ m.pendingWrite)
    <2>1. n = Plain!FinishStore(i, addr, mask, data)
        BY <1>1, <1>2, <1>5 DEF Plain!IncompleteProcess
    <2>2. n = [i EXCEPT !.waitOut = FALSE, !.pendingWrite = FALSE,
                 !.data[WordOf(addr)] = WriteSubWord(mask, i.valueLoaded, LowOf(addr), data)]
        BY <2>1, SameCuts DEF Plain!FinishStore
    <2> QED
        BY <1>1, <1>5, <2>2 DEF IncompleteMoves, IncompleteFields
<1>6. CASE op = "NONE"
    <2>1. n = i
        BY <1>2, <1>6 DEF Plain!IncompleteProcess
    <2> QED
        BY <1>1, <1>6, <2>1 DEF IncompleteMoves
<1> QED
    BY <1>3, <1>4, <1>5, <1>6 DEF OpTypes

\* Every step keeps the record and is a step of the array of bytes.
LEMMA IncompleteSteps ==
    ASSUME WellFormed, OfIncomplete, IncompleteInv, [Next]_vars
    PROVE  IncompleteInv' /\ [Abstract!Next]_Abstract!vars
<1>1. Contents(mem) = mem.data /\ Contents(mem') = mem'.data /\ Contents(mem) \in Words
    BY DEF OfIncomplete, IncompleteInv
<1>2. ASSUME NEW r \in RequestsOf(mem), Ask(r)
      PROVE  IncompleteInv' /\ [Abstract!Next]_Abstract!vars
    <2>1. ~mem.pendingWrite
        BY <1>2 DEF Ask, IncompleteInv, WellFormed
    <2>2. IncompleteInv'
        BY <1>2, <2>1 DEF Ask, IncompleteInv, WellFormed
    <2> QED
        BY <1>2, <2>2, AskSeen
<1>3. CASE Retry
    <2>1. /\ req \in Requests /\ req.op \in {"LOAD", "STORE"} /\ req.mask # "LONG"
          /\ WordOf(req.addr) \in Cells /\ req.data \in MemWord
          /\ mem.data[WordOf(req.addr)] \in MemWord
        BY <1>3 DEF Retry, IncompleteInv, WellFormed, OfIncomplete, Words
    <2>2. mem' = Plain!IncompleteProcess([mem EXCEPT !.waitOut = FALSE], req.addr, req.mask,
                                   req.op, req.data)
        BY <1>3 DEF Retry, Called, OfIncomplete
    <2>3. IncompleteMoves(mem, mem', req.addr, req.mask, req.op, req.data)
        BY <2>1, <2>2, IncompleteCall DEF IncompleteInv, OpTypes
    <2>4. CASE req.op = "LOAD"
        <3>1. /\ DOMAIN mem' = IncompleteFields /\ mem'.data = mem.data
              /\ ~mem'.waitOut /\ mem'.pendingWrite = FALSE
              /\ mem'.valueLoaded = mem.valueLoaded
              /\ mem'.dataOut = Loaded(mem.data, req)
            BY <2>3, <2>4 DEF IncompleteMoves, Loaded
        <3>2. req' = NoRequest /\ answer' = mem'.dataOut
            BY <1>3, <2>4, <3>1 DEF Retry
        <3>3. Abstract!Next
            BY <1>1, <2>1, <2>4, <3>1, <3>2, AnswerSeen
        <3> QED
            BY <3>1, <3>2, <3>3 DEF IncompleteInv
    <2>5. CASE req.op = "STORE" /\ req.mask # "WORD" /\ ~mem.pendingWrite
        <3>1. /\ DOMAIN mem' = IncompleteFields /\ mem'.data = mem.data
              /\ mem'.waitOut /\ mem'.pendingWrite = TRUE
              /\ mem'.valueLoaded = mem.data[WordOf(req.addr)]
            BY <2>3, <2>5 DEF IncompleteMoves
        <3>2. UNCHANGED <<req, answer>>
            BY <1>3, <3>1 DEF Retry
        <3>3. IncompleteInv'
            BY <2>1, <2>5, <3>1, <3>2 DEF IncompleteInv
        <3> QED
            BY <1>1, <3>1, <3>2, <3>3, CallUnseen
    <2>6. CASE req.op = "STORE" /\ (req.mask = "WORD" \/ mem.pendingWrite)
        <3>1. /\ DOMAIN mem' = IncompleteFields
              /\ ~mem'.waitOut /\ mem'.pendingWrite = FALSE
              /\ mem'.valueLoaded = mem.valueLoaded
              /\ mem'.data = [mem.data EXCEPT ![WordOf(req.addr)] =
                    WriteSubWord(req.mask, mem.valueLoaded, LowOf(req.addr), req.data)]
            BY <2>3, <2>6 DEF IncompleteMoves
        <3>2. req' = NoRequest /\ answer' = answer
            BY <1>3, <2>6, <3>1 DEF Retry
        <3>3. WriteSubWord(req.mask, mem.valueLoaded, LowOf(req.addr), req.data)
                = WriteSubWord(req.mask, mem.data[WordOf(req.addr)], LowOf(req.addr), req.data)
            <4>1. CASE req.mask = "WORD"
                BY <2>1, <4>1, WholeWord DEF IncompleteInv
            <4>2. CASE mem.pendingWrite
                BY <4>2 DEF IncompleteInv
            <4> QED
                BY <2>6, <4>1, <4>2
        <3>4. mem'.data = Stored(mem.data, req)
            BY <3>1, <3>3 DEF Stored
        <3>5. Abstract!Next /\ Contents(mem') \in Words
            BY <1>1, <2>1, <2>6, <3>2, <3>4, AnswerSeen
        <3> QED
            BY <1>1, <3>1, <3>2, <3>5 DEF IncompleteInv
    <2> QED
        BY <2>1, <2>4, <2>5, <2>6
<1>4. CASE Suspended \/ Quiet
    <2>1. /\ UNCHANGED <<req, answer>>
          /\ \E addr, mask, data :
                /\ mask # "LONG"
                /\ mem' = Plain!IncompleteProcess([mem EXCEPT !.waitOut = FALSE], addr, mask,
                                            "NONE", data)
        <3>1. CASE Suspended
            <4>1. req.mask # "LONG"
                BY <3>1 DEF Suspended, IncompleteInv, OfIncomplete
            <4> QED
                BY <3>1, <4>1 DEF Suspended, Called, OfIncomplete
        <3>2. CASE Quiet
            BY <3>2 DEF Quiet, OfIncomplete
        <3> QED
            BY <1>4, <3>1, <3>2
    <2>2. PICK addr, mask, data :
            /\ mask # "LONG"
            /\ mem' = Plain!IncompleteProcess([mem EXCEPT !.waitOut = FALSE], addr, mask,
                                        "NONE", data)
        BY <2>1
    <2>3. IncompleteMoves(mem, mem', addr, mask, "NONE", data)
        BY <2>2, IncompleteCall DEF IncompleteInv, OpTypes
    <2>4. /\ DOMAIN mem' = IncompleteFields /\ mem'.data = mem.data
          /\ mem'.pendingWrite = mem.pendingWrite /\ mem'.valueLoaded = mem.valueLoaded
        BY <2>3 DEF IncompleteMoves
    <2>5. IncompleteInv'
        BY <2>1, <2>4 DEF IncompleteInv
    <2> QED
        BY <1>1, <2>1, <2>4, <2>5, CallUnseen
<1>5. CASE UNCHANGED vars
    BY <1>5, <1>1, CallUnseen DEF vars, IncompleteInv
<1> QED
    BY <1>2, <1>3, <1>4, <1>5 DEF Next, Ready

\* IncompleteMemory is an array of bytes although a store may take two
\* cycles, with any number of suspended ones between them.
THEOREM IncompleteMemoryIsBytes ==
    ASSUME WellFormed, OfIncomplete
    PROVE  Spec => ImplementsByteMemory
<1>1. Init => IncompleteInv /\ Abstract!Init
    <2> SUFFICES ASSUME Init PROVE IncompleteInv /\ Abstract!Init
        OBVIOUS
    <2>1. mem \in Plain!IncompleteMemoryRecord /\ ~mem.pendingWrite /\ req = NoRequest
        BY DEF Init, OfIncomplete
    <2>2. IncompleteInv /\ Contents(mem) \in Words
        BY <2>1, SameCuts DEF IncompleteInv, Plain!IncompleteMemoryRecord, IncompleteFields, Words,
                    OfIncomplete
    <2> QED
        BY <2>2, ResetSeen
<1>2. IncompleteInv /\ [Next]_vars => IncompleteInv' /\ [Abstract!Next]_Abstract!vars
    BY IncompleteSteps
<1> QED
    BY <1>1, <1>2, PTL DEF Spec, ImplementsByteMemory, Abstract!Spec

-----------------------------------------------------------------------------
(* Nothing half done.                                                      *)

\* The bytes of SimpleMemory change in the cycle that answers a store, and in
\* no other.
THEOREM SimpleEffectWithAnswer ==
    ASSUME WellFormed, OfSimple
    PROVE  Spec => EffectWithAnswer
<1>1. Init => SimpleInv
    BY SameCuts DEF Init, OfSimple, SimpleInv, Plain!SimpleMemoryRecord, Words
<1>2. SimpleInv /\ [Next]_vars =>
        /\ SimpleInv'
        /\ [mem' # mem /\ Contents(mem') # Contents(mem) /\ Ready =>
               req # NoRequest /\ req' = NoRequest]_vars
    <2> SUFFICES ASSUME SimpleInv, [Next]_vars
                 PROVE  /\ SimpleInv'
                        /\ Contents(mem') # Contents(mem) =>
                             req # NoRequest /\ req' = NoRequest
        OBVIOUS
    <2>1. SimpleInv'
        BY SimpleSteps
    <2>2. ASSUME NEW addr, NEW mask, NEW op, NEW data,
                 mem' = Plain!SimpleProcess([mem EXCEPT !.waitOut = FALSE], addr, mask, op, data)
          PROVE  ~mem'.waitOut /\ (op # "STORE" => mem'.data = mem.data)
        <3>1. SimpleMoves(mem, mem', addr, mask, op, data)
            BY <2>2, SimpleCall DEF SimpleInv
        <3> QED
            BY <3>1 DEF SimpleMoves
    <2>3. CASE UNCHANGED mem
        BY <2>1, <2>3
    <2>4. CASE Retry
        <3>1. ~mem'.waitOut
            BY <2>2, <2>4 DEF Retry, Called, OfSimple
        <3> QED
            BY <2>1, <2>4, <3>1 DEF Retry
    <2>5. CASE Suspended \/ Quiet
        <3>1. mem'.data = mem.data
            BY <2>2, <2>5 DEF Suspended, Quiet, Called, OfSimple
        <3> QED
            BY <2>1, <3>1 DEF OfSimple
    <2> QED
        BY <2>3, <2>4, <2>5 DEF Next, Ready, Ask, vars
<1> QED
    BY <1>1, <1>2, PTL DEF Spec, EffectWithAnswer

\* A store IncompleteMemory takes two cycles for changes no byte in the first
\* one.
THEOREM IncompleteEffectWithAnswer ==
    ASSUME WellFormed, OfIncomplete
    PROVE  Spec => EffectWithAnswer
<1>1. Init => IncompleteInv
    BY SameCuts DEF Init, OfIncomplete, IncompleteInv, Plain!IncompleteMemoryRecord,
                    IncompleteFields, Words
<1>2. IncompleteInv /\ [Next]_vars =>
        /\ IncompleteInv'
        /\ [mem' # mem /\ Contents(mem') # Contents(mem) /\ Ready =>
               req # NoRequest /\ req' = NoRequest]_vars
    <2> SUFFICES ASSUME IncompleteInv, [Next]_vars
                 PROVE  /\ IncompleteInv'
                        /\ Contents(mem') # Contents(mem) /\ Ready =>
                             req # NoRequest /\ req' = NoRequest
        OBVIOUS
    <2>1. IncompleteInv'
        BY IncompleteSteps
    <2>2. ASSUME NEW addr, NEW mask, mask # "LONG", NEW op \in OpTypes, NEW data,
                 mem' = Plain!IncompleteProcess([mem EXCEPT !.waitOut = FALSE],
                                                addr, mask, op, data),
                 mem'.waitOut \/ op = "NONE"
          PROVE  mem'.data = mem.data
        <3>1. IncompleteMoves(mem, mem', addr, mask, op, data)
            BY <2>2, IncompleteCall DEF IncompleteInv
        <3> QED
            BY <2>2, <3>1 DEF IncompleteMoves, OpTypes
    <2>3. CASE UNCHANGED mem
        BY <2>1, <2>3
    <2>4. CASE Retry
        <3>1. req \in Requests /\ req.op \in OpTypes /\ req.mask # "LONG"
            BY <2>4 DEF Retry, IncompleteInv, WellFormed, OfIncomplete, OpTypes
        <3>2. CASE mem'.waitOut
            BY <2>1, <2>2, <2>4, <3>1, <3>2 DEF Retry, Called, OfIncomplete
        <3>3. CASE ~mem'.waitOut
            BY <2>1, <2>4, <3>3 DEF Retry
        <3> QED
            BY <3>2, <3>3
    <2>5. CASE Quiet
        <3>1. mem' = Plain!IncompleteProcess([mem EXCEPT !.waitOut = FALSE], 0, "WORD",
                                             "NONE", 0)
            BY <2>5 DEF Quiet, OfIncomplete
        <3>2. mem'.data = mem.data
            BY <2>2, <3>1 DEF OpTypes
        <3> QED
            BY <2>1, <3>2 DEF OfIncomplete
    <2>6. CASE Suspended /\ ~Retry /\ ~Quiet
        <3>1. req \in Requests /\ req.mask # "LONG"
            BY <2>6 DEF Suspended, IncompleteInv, OfIncomplete
        <3>2. mem' = Plain!IncompleteProcess([mem EXCEPT !.waitOut = FALSE], req.addr,
                                             req.mask, "NONE", req.data)
            BY <2>6 DEF Suspended, Called, OfIncomplete
        <3>3. mem'.data = mem.data
            BY <2>2, <3>1, <3>2 DEF OpTypes
        <3> QED
            BY <2>1, <3>3 DEF OfIncomplete
    <2> QED
        BY <2>3, <2>4, <2>5, <2>6 DEF Next, Ready, Ask, vars
<1> QED
    BY <1>1, <1>2, PTL DEF Spec, EffectWithAnswer
=============================================================================
