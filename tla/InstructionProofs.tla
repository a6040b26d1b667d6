-------------------------- MODULE InstructionProofs --------------------------
(***************************************************************************)
(* For every instruction word, every width of a register and every pair of *)
(* operands: the immediates decode() puts together slice by slice are      *)
(* those of the formats, compared bit by bit; what execute() computes is   *)
(* what the mnemonic says of the bits of the operands, and the branches    *)
(* are taken when they should; an unrecognised word has no effect.         *)
(***************************************************************************)
EXTENDS InstructionSet, NumberLemmas

\* imm12_I_signed.
LEMMA ImmediateI ==
    ASSUME NEW w \in InstrWord
    PROVE  Imm12I(w) = Picked(w, ISource)
BY DEF Imm12I, Extended, Slc, Picked, ISource, Absent, InstrWord, Bit

\* imm12_S_signed, built from two slices.
LEMMA ImmediateS ==
    ASSUME NEW w \in InstrWord
    PROVE  Imm12S(w) = Picked(w, SSource)
BY DEF Imm12S, Extended, Slc, SetSlc, Zeros, Picked, SSource, Absent, InstrWord, Bit

\* imm13_signed, built from two slices and two single bits.
LEMMA ImmediateB ==
    ASSUME NEW w \in InstrWord
    PROVE  Imm13(w) = Picked(w, BSource)
<1> DEFINE middle == SetSlc([Zeros(13) EXCEPT ![12] = w[31]], 5, 6, Slc(w, 6, 25))
           low == [SetSlc(middle, 1, 4, Slc(w, 4, 8)) EXCEPT ![11] = w[7]]
<1>1. \A b \in 0 .. 12 :
        middle[b] = IF b \in 5 .. 10 THEN w[b + 20] ELSE IF b = 12 THEN w[31] ELSE 0
    BY DEF SetSlc, Zeros, Slc
<1>2. DOMAIN middle = 0 .. 12
    BY DEF SetSlc, Zeros
<1> HIDE DEF middle
<1>3. \A b \in 0 .. 12 :
        low[b] = IF b = 11 THEN w[7]
                 ELSE IF b \in 1 .. 4 THEN w[b + 7] ELSE middle[b]
    BY <1>2 DEF SetSlc, Slc
<1> HIDE DEF low
<1>4. Imm13(w) = Extended(low, 13)
    BY DEF Imm13, low, middle
<1>5. ASSUME NEW b \in 0 .. 31
      PROVE  Extended(low, 13)[b] =
                IF BSource(b) = Absent THEN 0 ELSE w[BSource(b)]
    BY <1>1, <1>3, <1>5 DEF Extended, BSource, Absent
<1> QED
    BY <1>4, <1>5 DEF Extended, Picked

\* imm31_12.
LEMMA ImmediateU ==
    ASSUME NEW w \in InstrWord
    PROVE  Imm3112(w) = Picked(w, USource)
BY DEF Imm3112, Slc, SetSlc, Zeros, Picked, USource, Absent, InstrWord, Bit

\* imm21_1_signed, built from two slices and two single bits.
LEMMA ImmediateJ ==
    ASSUME NEW w \in InstrWord
    PROVE  Imm21(w) = Picked(w, JSource)
<1> DEFINE high == [SetSlc(Zeros(21), 12, 8, Slc(w, 8, 12)) EXCEPT ![11] = w[20]]
           low == [SetSlc(high, 1, 10, Slc(w, 10, 21)) EXCEPT ![20] = w[31]]
<1>1. \A b \in 0 .. 20 :
        high[b] = IF b \in 12 .. 19 THEN w[b] ELSE IF b = 11 THEN w[20] ELSE 0
    BY DEF SetSlc, Zeros, Slc
<1>2. DOMAIN high = 0 .. 20
    BY DEF SetSlc, Zeros
<1> HIDE DEF high
<1>3. \A b \in 0 .. 20 :
        low[b] = IF b = 20 THEN w[31]
                 ELSE IF b \in 1 .. 10 THEN w[b + 20] ELSE high[b]
    BY <1>2 DEF SetSlc, Slc
<1> HIDE DEF low
<1>4. Imm21(w) = Extended(low, 21)
    BY DEF Imm21, low, high
<1>5. ASSUME NEW b \in 0 .. 31
      PROVE  Extended(low, 21)[b] =
                IF JSource(b) = Absent THEN 0 ELSE w[JSource(b)]
    BY <1>1, <1>3, <1>5 DEF Extended, JSource, Absent
<1> QED
    BY <1>4, <1>5 DEF Extended, Picked

\* Each arm of decode()'s switch takes the immediate of its format.
LEMMA ImmediateOfFormat ==
    ASSUME NEW w \in InstrWord
    PROVE  Immediate(w) = FormatImmediate(w)
BY ImmediateI, ImmediateS, ImmediateB, ImmediateU, ImmediateJ
   DEF Immediate, FormatImmediate

-----------------------------------------------------------------------------
(* Powers of two.                                                          *)

\* Pow2 is what its definition says.
LEMMA PowerSteps ==
    Pow2[0] = 1 /\ \A n \in 1 .. Xlen : Pow2[n] = 2 * Pow2[n - 1]
<1> DEFINE step == [n \in 1 .. Xlen |-> [x \in Nat |-> 2 * x]]
           Is(f) == f = [n \in 0 .. Xlen |-> IF n = 0 THEN 1 ELSE 2 * f[n - 1]]
<1>1. Xlen \in Nat /\ step \in [1 .. Xlen -> [Nat -> Nat]]
    BY XlenAssumption
<1>2. PICK f : Recursive(f, Xlen, Nat, 1, step)
    <2> HIDE DEF step
    <2> QED
        BY <1>1, Recursion
<1>3. ASSUME NEW n \in 0 .. Xlen, n # 0 PROVE f[n] = 2 * f[n - 1]
    <2>1. n \in 1 .. Xlen /\ f[n - 1] \in Nat
        BY <1>1, <1>2, <1>3 DEF Recursive
    <2> QED
        BY <1>2, <2>1 DEF Recursive
<1>4. Is(f)
    BY <1>2, <1>3 DEF Recursive
<1>5. Pow2 = CHOOSE g : Is(g)
    BY DEF Pow2
<1>6. Is(Pow2)
    <2> HIDE DEF Is
    <2> QED
        BY <1>4, <1>5
<1>7. ASSUME NEW n \in 1 .. Xlen PROVE Pow2[n] = 2 * Pow2[n - 1]
    <2>1. n \in 0 .. Xlen /\ n # 0
        BY <1>1
    <2> QED
        BY <1>6, <2>1, Zenon
<1>8. Pow2[0] = 1
    BY <1>1, <1>6
<1> QED
    BY <1>7, <1>8

\* They are positive.
LEMMA PowerPositive ==
    \A n \in 0 .. Xlen : Pow2[n] \in Nat \ {0}
<1> DEFINE S == {n \in Nat : n <= Xlen => Pow2[n] \in Nat \ {0}}
<1>1. 0 \in S
    BY PowerSteps
<1>2. ASSUME NEW n \in Nat, n \in S PROVE n + 1 \in S
    <2> SUFFICES ASSUME n + 1 <= Xlen PROVE Pow2[n + 1] \in Nat \ {0}
        OBVIOUS
    <2>1. n + 1 \in 1 .. Xlen /\ (n + 1) - 1 = n /\ Pow2[n] \in Nat \ {0}
        BY <1>2, XlenAssumption
    <2>2. Pow2[n + 1] = 2 * Pow2[n]
        BY <2>1, PowerSteps
    <2> QED
        BY <2>1, <2>2
<1> HIDE DEF S
<1>3. Nat \subseteq S
    BY <1>1, <1>2, SetInduction
<1> QED
    BY <1>3, XlenAssumption DEF S

\* A power of a sum is a product.
LEMMA PowerOfSum ==
    ASSUME NEW a \in Nat, NEW b \in Nat, a + b <= Xlen
    PROVE  Pow2[a + b] = Pow2[a] * Pow2[b]
<1> DEFINE S == {n \in Nat : a + n <= Xlen => Pow2[a + n] = Pow2[a] * Pow2[n]}
<1>1. 0 \in S
    <2> SUFFICES ASSUME a + 0 <= Xlen PROVE Pow2[a + 0] = Pow2[a] * Pow2[0]
        OBVIOUS
    <2>1. a + 0 = a /\ Pow2[0] = 1 /\ Pow2[a] \in Nat
        BY PowerSteps, PowerPositive, XlenAssumption
    <2> QED
        BY <2>1
<1>2. ASSUME NEW n \in Nat, n \in S PROVE n + 1 \in S
    <2> SUFFICES ASSUME a + (n + 1) <= Xlen PROVE Pow2[a + (n + 1)] = Pow2[a] * Pow2[n + 1]
        OBVIOUS
    <2> DEFINE p == Pow2[a]
               q == Pow2[n]
    <2>1. Pow2[a + n] = p * q
        BY <1>2, XlenAssumption
    <2>2. p \in Nat /\ q \in Nat
        BY PowerPositive, XlenAssumption
    <2>3. Pow2[n + 1] = 2 * q /\ Pow2[a + (n + 1)] = 2 * Pow2[a + n]
        <3>1. /\ n + 1 \in 1 .. Xlen /\ (n + 1) - 1 = n
              /\ a + (n + 1) \in 1 .. Xlen /\ (a + (n + 1)) - 1 = a + n
            BY XlenAssumption
        <3> QED
            BY <3>1, PowerSteps
    <2> HIDE DEF p, q
    <2>4. 2 * (p * q) = p * (2 * q)
        BY <2>2
    <2>5. Pow2[a + (n + 1)] = p * Pow2[n + 1]
        BY <2>1, <2>3, <2>4
    <2> QED
        BY <2>5 DEF p
<1> HIDE DEF S
<1>3. Nat \subseteq S
    BY <1>1, <1>2, SetInduction
<1> QED
    BY <1>3 DEF S

-----------------------------------------------------------------------------
(* The bits of a number.                                                   *)

LEMMA BitsAreBits ==
    ASSUME NEW n \in Int, NEW b \in 0 .. Xlen
    PROVE  BitOf(n, b) \in Bit
<1>1. Pow2[b] \in Nat \ {0}
    BY PowerPositive
<1>2. n \div Pow2[b] \in Int
    BY <1>1, Quotient
<1> QED
    BY <1>2 DEF BitOf, Bit

\* A multiple of a power of two leaves the bits below it alone.
LEMMA BitsBelow ==
    ASSUME NEW x \in Int, NEW y \in Int, NEW k \in 0 .. Xlen, NEW b \in 0 .. k - 1
    PROVE  BitOf(x + Pow2[k] * y, b) = BitOf(x, b)
<1> DEFINE p == Pow2[b]
           h == Pow2[k - b - 1]
<1>1. p \in Nat \ {0} /\ h \in Nat \ {0}
    BY PowerPositive, XlenAssumption
<1>2. Pow2[k] = p * (2 * h)
    <2>1. /\ k - b \in 1 .. Xlen /\ (k - b) - 1 = k - b - 1
          /\ b \in Nat /\ k - b \in Nat /\ b + (k - b) = k /\ b + (k - b) <= Xlen
        BY XlenAssumption
    <2>2. Pow2[k - b] = 2 * h
        BY <2>1, PowerSteps
    <2>3. Pow2[b + (k - b)] = p * Pow2[k - b]
        BY <2>1, PowerOfSum
    <2> QED
        BY <2>1, <2>2, <2>3
<1> HIDE DEF p, h
<1>3. Pow2[k] * y = p * (2 * (h * y)) /\ h * y \in Int
    BY <1>1, <1>2
<1>4. (x + p * (2 * (h * y))) \div p = (x \div p) + 2 * (h * y)
    BY <1>1, <1>3, DivideShifted
<1>5. x \div p \in Int
    BY <1>1, Quotient
<1>6. ((x \div p) + 2 * (h * y)) % 2 = (x \div p) % 2
    BY <1>3, <1>5, DivideShifted
<1> QED
    BY <1>3, <1>4, <1>6 DEF BitOf, p

\* What stands above a power of two gives the bits from it on.
LEMMA BitsAbove ==
    ASSUME NEW k \in 0 .. Xlen, NEW x \in 0 .. Pow2[k] - 1, NEW y \in Int,
           NEW b \in 0 .. Xlen, k + b <= Xlen
    PROVE  BitOf(x + Pow2[k] * y, k + b) = BitOf(y, b)
<1> DEFINE p == Pow2[k]
           q == Pow2[b]
<1>1. p \in Nat \ {0} /\ q \in Nat \ {0} /\ Pow2[k + b] = p * q
    BY PowerPositive, PowerOfSum, XlenAssumption
<1>2. x + p * y = p * y + x /\ x + p * y \in Int
    <2> HIDE DEF p
    <2> QED
        BY <1>1
<1>3. (x + p * y) \div p = y
    <2> HIDE DEF p
    <2>1. x \in 0 .. p - 1
        BY DEF p
    <2> QED
        BY <1>1, <1>2, <2>1, DivideUnique
<1> HIDE DEF p, q
<1>4. (x + p * y) \div (p * q) = y \div q
    <2> DEFINE z == x + p * y
    <2>1. z \in Int /\ z \div p = y
        BY <1>2, <1>3
    <2> HIDE DEF z
    <2>2. (z \div p) \div q = z \div (p * q)
        BY <1>1, <2>1, DivideTwice
    <2>3. z \div (p * q) = y \div q
        BY <2>1, <2>2
    <2> QED
        BY <2>3 DEF z
<1> QED
    BY <1>1, <1>4 DEF BitOf, p, q

\* Every pattern of bits is that of a number.
LEMMA PatternsAreNumbers ==
    ASSUME NEW bits \in [0 .. Xlen - 1 -> Bit]
    PROVE  /\ FromBits(bits) \in Values
           /\ \A b \in 0 .. Xlen - 1 : BitOf(FromBits(bits), b) = bits[b]
<1> DEFINE Has(n, k) == \A b \in 0 .. k - 1 : BitOf(n, b) = bits[b]
           S == {k \in Nat : k <= Xlen => \E n \in 0 .. Pow2[k] - 1 : Has(n, k)}
<1>1. 0 \in S
    <2>1. 0 \in 0 .. Pow2[0] - 1
        BY PowerSteps
    <2> QED
        BY <2>1
<1>2. ASSUME NEW k \in Nat, k \in S PROVE k + 1 \in S
    <2> SUFFICES ASSUME k + 1 <= Xlen
                 PROVE  \E n \in 0 .. Pow2[k + 1] - 1 : Has(n, k + 1)
        OBVIOUS
    <2>1. /\ k \in 0 .. Xlen - 1 /\ k \in 0 .. Xlen /\ k + 1 \in 1 .. Xlen /\ (k + 1) - 1 = k
          /\ 0 \in 0 .. Xlen /\ k + 0 = k /\ k + 0 <= Xlen
        BY XlenAssumption
    <2>2. PICK n \in 0 .. Pow2[k] - 1 : Has(n, k)
        BY <1>2, <2>1
    <2>3. /\ Pow2[k] \in Nat \ {0} /\ Pow2[k + 1] = 2 * Pow2[k]
        BY <2>1, PowerSteps, PowerPositive
    <2>4. bits[k] \in {0, 1}
        BY <2>1 DEF Bit
    <2> DEFINE m == n + Pow2[k] * bits[k]
    <2>5. m \in 0 .. Pow2[k + 1] - 1
        <3>1. CASE bits[k] = 0
            <4>1. m = n
                BY <2>2, <2>3, <3>1
            <4> QED
                BY <2>2, <2>3, <4>1
        <3>2. CASE bits[k] = 1
            <4>1. m = n + Pow2[k]
                BY <2>2, <2>3, <3>2
            <4> QED
                BY <2>2, <2>3, <4>1
        <3> QED
            BY <2>4, <3>1, <3>2
    <2>6. ASSUME NEW b \in 0 .. (k + 1) - 1 PROVE BitOf(m, b) = bits[b]
        <3>1. CASE b < k
            <4>1. b \in 0 .. k - 1
                BY <3>1
            <4>2. BitOf(m, b) = BitOf(n, b)
                BY <2>1, <2>4, <4>1, BitsBelow
            <4> QED
                BY <2>2, <4>1, <4>2
        <3>2. CASE b = k
            <4>1. BitOf(m, k + 0) = BitOf(bits[k], 0)
                BY <2>1, <2>2, <2>4, BitsAbove
            <4>2. BitOf(bits[k], 0) = bits[k]
                BY <2>4, PowerSteps DEF BitOf
            <4> QED
                BY <2>1, <3>2, <4>1, <4>2
        <3> QED
            BY <3>1, <3>2
    <2> HIDE DEF m
    <2> QED
        BY <2>5, <2>6
<1> HIDE DEF S, Has
<1>3. Xlen \in S
    BY <1>1, <1>2, SetInduction, XlenAssumption
<1>4. \E n \in Values : Has(n, Xlen)
    BY <1>3, XlenAssumption DEF S, Values
<1> QED
    BY <1>4 DEF FromBits, Has

-----------------------------------------------------------------------------
(* The instructions, one by one.                                           *)

\* Values and the numbers next to them.
LEMMA ValueFacts ==
    /\ Pow2[Xlen] \in Nat \ {0} /\ Pow2[Xlen - 1] \in Nat \ {0}
    /\ Pow2[Xlen] = 2 * Pow2[Xlen - 1]
    /\ \A n \in Values : n \in Nat /\ n < Pow2[Xlen]
<1>1. Xlen \in 1 .. Xlen /\ Xlen \in 0 .. Xlen /\ Xlen - 1 \in 0 .. Xlen
    BY XlenAssumption
<1> QED
    BY <1>1, PowerSteps, PowerPositive DEF Values

\* Wrapping loses a multiple of the number of values.
LEMMA Wrapped ==
    ASSUME NEW n \in Int
    PROVE  /\ Wrap(n) \in Values
           /\ n \in Values => Wrap(n) = n
           /\ n - Pow2[Xlen] \in Values => Wrap(n) = n - Pow2[Xlen]
           /\ n + Pow2[Xlen] \in Values => Wrap(n) = n + Pow2[Xlen]
<1> DEFINE p == Pow2[Xlen]
<1>1. p \in Nat \ {0}
    BY ValueFacts
<1> HIDE DEF p
<1>2. n % p \in 0 .. p - 1
    BY <1>1, Quotient
<1>3. ASSUME NEW c \in Int, NEW r \in 0 .. p - 1, n = p * c + r PROVE n % p = r
    BY <1>1, <1>3, DivideUnique
<1>4. ASSUME n \in 0 .. p - 1 PROVE n % p = n
    <2>1. n = p * 0 + n
        BY <1>1
    <2> QED
        BY <1>3, <1>4, <2>1
<1>5. ASSUME n - p \in 0 .. p - 1 PROVE n % p = n - p
    <2>1. n = p * 1 + (n - p)
        BY <1>1
    <2> QED
        BY <1>3, <1>5, <2>1
<1>6. ASSUME n + p \in 0 .. p - 1 PROVE n % p = n + p
    <2>1. n = p * (-1) + (n + p)
        BY <1>1
    <2> QED
        BY <1>3, <1>6, <2>1
<1> QED
    BY <1>2, <1>4, <1>5, <1>6 DEF Wrap, Values, p

\* ADD and SUB.
LEMMA SumsMean ==
    ASSUME NEW l \in Values, NEW r \in Values
    PROVE  /\ Wrap(l + r) \in Values /\ Means("ADD", l, r, Wrap(l + r))
           /\ Wrap(l - r) \in Values /\ Means("SUB", l, r, Wrap(l - r))
<1> DEFINE p == Pow2[Xlen]
<1>1. p \in Nat \ {0} /\ l \in 0 .. p - 1 /\ r \in 0 .. p - 1 /\ Values = 0 .. p - 1
    BY ValueFacts DEF Values
<1> DEFINE x == l + r
           y == l - r
<1>2. x \in Int /\ y \in Int /\ x = l + r /\ y = l - r
    BY <1>1
<1> HIDE DEF x, y
<1>3. /\ Wrap(x) \in Values /\ Wrap(y) \in Values
      /\ x \in Values => Wrap(x) = x
      /\ y \in Values => Wrap(y) = y
      /\ x - p \in Values => Wrap(x) = x - p
      /\ y + p \in Values => Wrap(y) = y + p
    BY <1>2, Wrapped
<1> HIDE DEF p
<1>4. \E c \in Bit : Wrap(x) + c * p = l + r
    <2>1. Wrap(x) + 0 * p = l + r \/ Wrap(x) + 1 * p = l + r
        BY <1>1, <1>2, <1>3
    <2> QED
        BY <2>1 DEF Bit
<1>5. \E c \in Bit : Wrap(y) + r = l + c * p
    <2>1. Wrap(y) + r = l + 0 * p \/ Wrap(y) + r = l + 1 * p
        BY <1>1, <1>2, <1>3
    <2> QED
        BY <2>1 DEF Bit
<1> QED
    BY <1>3, <1>4, <1>5 DEF Means, p, x, y

\* The top bit of a value tells a negative number.
LEMMA TopBit ==
    ASSUME NEW n \in Values
    PROVE  BitOf(n, Xlen - 1) = IF n < Pow2[Xlen - 1] THEN 0 ELSE 1
<1> DEFINE h == Pow2[Xlen - 1]
<1>1. h \in Nat \ {0} /\ n \in 0 .. 2 * h - 1
    BY ValueFacts
<1> HIDE DEF h
<1>2. CASE n < h
    <2>1. n = h * 0 + n /\ n \in 0 .. h - 1
        BY <1>1, <1>2
    <2>2. n \div h = 0
        BY <1>1, <2>1, DivideUnique
    <2> QED
        BY <1>2, <2>2 DEF BitOf, h
<1>3. CASE n >= h
    <2>1. n = h * 1 + (n - h) /\ n - h \in 0 .. h - 1
        BY <1>1, <1>3
    <2>2. (h * 1 + (n - h)) \div h = 1
        BY <1>1, <2>1, DivideUnique
    <2>3. n \div h = 1
        BY <2>1, <2>2
    <2> QED
        BY <1>1, <1>3, <2>3 DEF BitOf, h
<1> QED
    BY <1>1, <1>2, <1>3

\* The signed order, as the subtraction of two's complement sees it.
LEMMA SignedOrder ==
    ASSUME NEW l \in Values, NEW r \in Values
    PROVE  Signed(l) < Signed(r) <=> Below(l, r)
<1>1. /\ BitOf(l, Xlen - 1) = IF l < Pow2[Xlen - 1] THEN 0 ELSE 1
      /\ BitOf(r, Xlen - 1) = IF r < Pow2[Xlen - 1] THEN 0 ELSE 1
    BY TopBit
<1> QED
    BY <1>1, ValueFacts DEF Signed, Below

\* SLT and SLTU.
LEMMA ComparisonsMean ==
    ASSUME NEW l \in Values, NEW r \in Values
    PROVE  /\ Flag(Signed(l) < Signed(r)) \in Values
           /\ Means("SLT", l, r, Flag(Signed(l) < Signed(r)))
           /\ Flag(l < r) \in Values /\ Means("SLTU", l, r, Flag(l < r))
<1>1. 0 \in Values /\ 1 \in Values
    BY ValueFacts DEF Values
<1> QED
    BY <1>1, SignedOrder DEF Flag, Means, Bit

\* XOR, OR and AND.
LEMMA BitwiseMeans ==
    ASSUME NEW l \in Values, NEW r \in Values
    PROVE  /\ Xor(l, r) \in Values /\ Means("XOR", l, r, Xor(l, r))
           /\ Or(l, r) \in Values /\ Means("OR", l, r, Or(l, r))
           /\ And(l, r) \in Values /\ Means("AND", l, r, And(l, r))
<1>1. l \in Int /\ r \in Int
    BY ValueFacts
<1>2. \A b \in 0 .. Xlen - 1 : BitOf(l, b) \in {0, 1} /\ BitOf(r, b) \in {0, 1}
    BY <1>1, BitsAreBits, XlenAssumption DEF Bit
<1>3. Xor(l, r) \in Values /\ Means("XOR", l, r, Xor(l, r))
    <2> DEFINE bits == [b \in 0 .. Xlen - 1 |-> (BitOf(l, b) + BitOf(r, b)) % 2]
    <2>1. bits \in [0 .. Xlen - 1 -> Bit]
        BY <1>2 DEF Bit
    <2>2. Xor(l, r) = FromBits(bits)
        BY DEF Xor
    <2>3. \A b \in 0 .. Xlen - 1 : bits[b] = (BitOf(l, b) + BitOf(r, b)) % 2
        OBVIOUS
    <2> HIDE DEF bits
    <2>4. /\ Xor(l, r) \in Values
          /\ \A b \in 0 .. Xlen - 1 : BitOf(Xor(l, r), b) = (BitOf(l, b) + BitOf(r, b)) % 2
        BY <2>1, <2>2, <2>3, PatternsAreNumbers
    <2>5. \A b \in 0 .. Xlen - 1 : BitOf(Xor(l, r), b) = 1 <=> BitOf(l, b) # BitOf(r, b)
        BY <1>2, <2>4
    <2> QED
        BY <2>4, <2>5 DEF Means
<1>4. Or(l, r) \in Values /\ Means("OR", l, r, Or(l, r))
    <2> DEFINE bits == [b \in 0 .. Xlen - 1 |-> BitOf(l, b) + BitOf(r, b) - BitOf(l, b) * BitOf(r, b)]
    <2>1. bits \in [0 .. Xlen - 1 -> Bit]
        BY <1>2 DEF Bit
    <2>2. Or(l, r) = FromBits(bits)
        BY DEF Or
    <2>3. \A b \in 0 .. Xlen - 1 : bits[b] = BitOf(l, b) + BitOf(r, b) - BitOf(l, b) * BitOf(r, b)
        OBVIOUS
    <2> HIDE DEF bits
    <2>4. /\ Or(l, r) \in Values
          /\ \A b \in 0 .. Xlen - 1 : BitOf(Or(l, r), b) = BitOf(l, b) + BitOf(r, b) - BitOf(l, b) * BitOf(r, b)
        BY <2>1, <2>2, <2>3, PatternsAreNumbers
    <2>5. \A b \in 0 .. Xlen - 1 : 
             BitOf(Or(l, r), b) = 0 <=> BitOf(l, b) = 0 /\ BitOf(r, b) = 0
        BY <1>2, <2>4
    <2> QED
        BY <2>4, <2>5 DEF Means
<1>5. And(l, r) \in Values /\ Means("AND", l, r, And(l, r))
    <2> DEFINE bits == [b \in 0 .. Xlen - 1 |-> BitOf(l, b) * BitOf(r, b)]
    <2>1. bits \in [0 .. Xlen - 1 -> Bit]
        BY <1>2 DEF Bit
    <2>2. And(l, r) = FromBits(bits)
        BY DEF And
    <2>3. \A b \in 0 .. Xlen - 1 : bits[b] = BitOf(l, b) * BitOf(r, b)
        OBVIOUS
    <2> HIDE DEF bits
    <2>4. /\ And(l, r) \in Values
          /\ \A b \in 0 .. Xlen - 1 : BitOf(And(l, r), b) = BitOf(l, b) * BitOf(r, b)
        BY <2>1, <2>2, <2>3, PatternsAreNumbers
    <2>5. \A b \in 0 .. Xlen - 1 : 
             BitOf(And(l, r), b) = 1 <=> BitOf(l, b) = 1 /\ BitOf(r, b) = 1
        BY <1>2, <2>4
    <2> QED
        BY <2>4, <2>5 DEF Means
<1> QED
    BY <1>3, <1>4, <1>5

\* Zero has no bit set, and a power of two less one has all below it.
LEMMA ZeroAndOnes ==
    /\ \A b \in 0 .. Xlen : BitOf(0, b) = 0
    /\ \A k \in 0 .. Xlen : \A b \in 0 .. k - 1 : BitOf(Pow2[k] - 1, b) = 1
<1>1. ASSUME NEW b \in 0 .. Xlen PROVE BitOf(0, b) = 0
    <2> DEFINE p == Pow2[b]
    <2>1. p \in Nat \ {0}
        BY PowerPositive
    <2> HIDE DEF p
    <2>2. 0 = p * 0 + 0 /\ 0 \in 0 .. p - 1
        BY <2>1
    <2>3. (p * 0 + 0) \div p = 0
        BY <2>1, <2>2, DivideUnique
    <2>4. 0 \div p = 0
        BY <2>2, <2>3
    <2> QED
        BY <2>4 DEF BitOf, p
<1>2. ASSUME NEW k \in 0 .. Xlen, NEW b \in 0 .. k - 1
      PROVE  BitOf(Pow2[k] - 1, b) = 1
    <2> DEFINE p == Pow2[b]
               g == Pow2[k - b - 1]
    <2>1. p \in Nat \ {0} /\ g \in Nat \ {0}
        BY PowerPositive, XlenAssumption
    <2>2. Pow2[k] = p * (2 * g)
        <3>1. /\ k - b \in 1 .. Xlen /\ (k - b) - 1 = k - b - 1
              /\ b \in Nat /\ k - b \in Nat /\ b + (k - b) = k /\ b + (k - b) <= Xlen
            BY XlenAssumption
        <3>2. Pow2[k - b] = 2 * g
            BY <3>1, PowerSteps
        <3>3. Pow2[b + (k - b)] = p * Pow2[k - b]
            BY <3>1, PowerOfSum
        <3> QED
            BY <3>1, <3>2, <3>3
    <2> HIDE DEF p, g
    <2>3. Pow2[k] - 1 = p * (2 * g - 1) + (p - 1)
        <3>1. p * (2 * g - 1) = p * (2 * g) - p
            BY <2>1
        <3>2. p * (2 * g) \in Int
            BY <2>1
        <3> QED
            BY <2>1, <2>2, <3>1, <3>2
    <2>4. (p * (2 * g - 1) + (p - 1)) \div p = 2 * g - 1
        BY <2>1, DivideUnique
    <2>5. (2 * g - 1) % 2 = 1
        BY <2>1
    <2> QED
        BY <2>3, <2>4, <2>5 DEF BitOf, p
<1> QED
    BY <1>1, <1>2

\* Dividing by a power of two moves the bits down.
LEMMA QuotientBits ==
    ASSUME NEW l \in Values, NEW s \in 0 .. Xlen - 1
    PROVE  /\ l \div Pow2[s] \in Values /\ l \div Pow2[s] \in 0 .. Pow2[Xlen - s] - 1
           /\ \A b \in 0 .. Xlen - 1 : BitOf(l \div Pow2[s], b) = ShiftedBit(l, b, s, 0)
<1> DEFINE p == Pow2[s]
           h == Pow2[Xlen - s]
           q == l \div p
           r == l % p
<1>1. /\ s \in 0 .. Xlen /\ Xlen - s \in 0 .. Xlen
      /\ p \in Nat \ {0} /\ h \in Nat \ {0} /\ Pow2[Xlen] = p * h
    <2>1. /\ s \in 0 .. Xlen /\ Xlen - s \in 0 .. Xlen /\ s \in Nat /\ Xlen - s \in Nat
          /\ s + (Xlen - s) = Xlen /\ s + (Xlen - s) <= Xlen
        BY XlenAssumption
    <2>2. Pow2[s + (Xlen - s)] = p * h
        BY <2>1, PowerOfSum
    <2> QED
        BY <2>1, <2>2, PowerPositive
<1> HIDE DEF p, h
<1>2. q \in 0 .. h - 1 /\ r \in 0 .. p - 1 /\ l = r + p * q
    <2>1. l \in 0 .. p * h - 1
        BY <1>1 DEF Values
    <2> QED
        BY <1>1, <2>1, Divide
<1> HIDE DEF q, r
<1>3. ASSUME NEW b \in 0 .. Xlen - 1 PROVE BitOf(q, b) = ShiftedBit(l, b, s, 0)
    <2>1. CASE b + s <= Xlen - 1
        <3>1. b \in 0 .. Xlen /\ s + b <= Xlen /\ s + b = b + s /\ b + s \in 0 .. Xlen - 1
            BY <2>1, XlenAssumption
        <3>2. q \in Int /\ r \in 0 .. Pow2[s] - 1
            BY <1>1, <1>2 DEF p
        <3>3. BitOf(r + Pow2[s] * q, s + b) = BitOf(q, b)
            BY <1>1, <3>1, <3>2, BitsAbove
        <3> QED
            BY <1>2, <3>1, <3>3 DEF ShiftedBit, p
    <2>2. CASE b + s > Xlen - 1
        <3> DEFINE k == Xlen - s
                   c == b - k
        <3>1. k \in 0 .. Xlen /\ c \in 0 .. Xlen /\ k + c <= Xlen /\ k + c = b
            BY <2>2, XlenAssumption
        <3>2. q \in 0 .. Pow2[k] - 1
            BY <1>2 DEF h
        <3> HIDE DEF k, c
        <3>3. BitOf(q + Pow2[k] * 0, k + c) = BitOf(0, c)
            BY <3>1, <3>2, BitsAbove
        <3>4. q + Pow2[k] * 0 = q
            BY <3>1, <3>2, PowerPositive
        <3>5. BitOf(q, b) = 0
            BY <3>1, <3>3, <3>4, ZeroAndOnes
        <3>6. b + s \notin 0 .. Xlen - 1
            BY <2>2, XlenAssumption
        <3> QED
            BY <3>5, <3>6 DEF ShiftedBit
    <2> QED
        BY <2>1, <2>2, XlenAssumption
<1>4. q \in Values
    <2>1. (p - 1) * q >= 0 /\ (p - 1) * q = p * q - q
        BY <1>1, <1>2
    <2>2. p * q \in Int
        BY <1>1, <1>2
    <2>3. q <= l /\ l < Pow2[Xlen] /\ Pow2[Xlen] \in Nat
        BY <1>2, <2>1, <2>2, ValueFacts
    <2> QED
        BY <1>2, <2>3, ValueFacts DEF Values
<1> QED
    BY <1>2, <1>3, <1>4 DEF q, p, h

\* SLL.
LEMMA ShiftLeftMeans ==
    ASSUME NEW l \in Values, NEW r \in Values
    PROVE  LET result == Wrap(l * Pow2[ShiftAmount(r)]) IN
           result \in Values /\ Means("SLL", l, r, result)
<1> DEFINE s == ShiftAmount(r)
           p == Pow2[s]
           x == l * p
           result == Wrap(x)
<1>1. /\ s \in 0 .. Xlen - 1 /\ s \in 0 .. Xlen /\ s = r % Xlen
      /\ l \in Int /\ p \in Nat \ {0} /\ x \in Int /\ x = 0 + p * l
    <2>1. r \in Int /\ l \in Int
        BY ValueFacts
    <2>2. s \in 0 .. Xlen - 1 /\ s \in 0 .. Xlen
        BY <2>1, Quotient, XlenAssumption DEF ShiftAmount
    <2>3. p \in Nat \ {0}
        BY <2>2, PowerPositive
    <2> HIDE DEF p
    <2>4. x \in Int /\ x = 0 + p * l
        BY <2>1, <2>3
    <2> QED
        BY <2>1, <2>2, <2>3, <2>4 DEF ShiftAmount
<1> HIDE DEF s, x
<1>2. result \in Values
    BY <1>1, Wrapped
<1>3. ASSUME NEW b \in 0 .. Xlen - 1 PROVE BitOf(result, b) = BitOf(x, b)
    <2> DEFINE y == x \div Pow2[Xlen]
    <2>1. y \in Int /\ x = Pow2[Xlen] * y + result /\ result \in Int
        <3> DEFINE n == Pow2[Xlen]
        <3>1. n \in Nat \ {0}
            BY ValueFacts
        <3>2. y = x \div n /\ result = x % n
            BY DEF Wrap
        <3> HIDE DEF n, y, result
        <3>3. x \in Int
            BY <1>1
        <3>4. x \div n \in Int /\ x % n \in 0 .. n - 1 /\ x = n * (x \div n) + (x % n)
            BY <3>1, <3>3, Quotient
        <3> QED
            BY <3>1, <3>2, <3>4 DEF n
    <2> HIDE DEF y, result
    <2>2. Xlen \in 0 .. Xlen
        BY XlenAssumption
    <2>3. x = result + Pow2[Xlen] * y
        <3>1. Pow2[Xlen] * y \in Int
            BY <2>1, ValueFacts
        <3> QED
            BY <2>1, <3>1
    <2> QED
        BY <2>1, <2>2, <2>3, BitsBelow
<1> HIDE DEF result
<1>4. ASSUME NEW b \in 0 .. Xlen - 1 PROVE BitOf(x, b) = ShiftedBit(l, b, -s, 0)
    <2>1. CASE b < s
        <3>1. b \in 0 .. s - 1 /\ b \in 0 .. Xlen /\ b + (-s) \notin 0 .. Xlen - 1
            BY <1>1, <2>1, XlenAssumption
        <3>2. BitOf(0 + Pow2[s] * l, b) = BitOf(0, b)
            BY <1>1, <3>1, BitsBelow
        <3> QED
            BY <1>1, <3>1, <3>2, ZeroAndOnes DEF ShiftedBit
    <2>2. CASE b >= s
        <3> DEFINE c == b - s
        <3>1. /\ c \in 0 .. Xlen /\ s + c = b /\ s + c <= Xlen
              /\ b + (-s) = c /\ c \in 0 .. Xlen - 1
            BY <1>1, <2>2, XlenAssumption
        <3> HIDE DEF c
        <3>2. 0 \in 0 .. Pow2[s] - 1
            BY <1>1
        <3>3. BitOf(0 + Pow2[s] * l, s + c) = BitOf(l, c)
            BY <1>1, <3>1, <3>2, BitsAbove
        <3> QED
            BY <1>1, <3>1, <3>3 DEF ShiftedBit
    <2> QED
        BY <1>1, <2>1, <2>2
<1>5. Means("SLL", l, r, result)
    BY <1>1, <1>3, <1>4 DEF Means
<1> QED
    BY <1>2, <1>5 DEF result, x, s

\* SRL.
LEMMA ShiftRightMeans ==
    ASSUME NEW l \in Values, NEW r \in Values
    PROVE  LET result == Wrap(l \div Pow2[ShiftAmount(r)]) IN
           result \in Values /\ Means("SRL", l, r, result)
<1> DEFINE s == ShiftAmount(r)
           q == l \div Pow2[s]
<1>1. s \in 0 .. Xlen - 1 /\ s = r % Xlen
    <2>1. r \in Int
        BY ValueFacts
    <2> QED
        BY <2>1, Quotient, XlenAssumption DEF ShiftAmount
<1> HIDE DEF s
<1>2. /\ q \in Values
      /\ \A b \in 0 .. Xlen - 1 : BitOf(q, b) = ShiftedBit(l, b, s, 0)
    BY <1>1, QuotientBits
<1> HIDE DEF q
<1>3. Wrap(q) = q
    BY <1>2, Wrapped, ValueFacts
<1>4. Means("SRL", l, r, q)
    BY <1>1, <1>2 DEF Means
<1> QED
    BY <1>2, <1>3, <1>4 DEF q, s

\* SRA: the top bit of a negative number comes in from above.
LEMMA ShiftArithmeticMeans ==
    ASSUME NEW l \in Values, NEW r \in Values
    PROVE  LET result == Wrap(Signed(l) \div Pow2[ShiftAmount(r)]) IN
           result \in Values /\ Means("SRA", l, r, result)
<1> DEFINE s == ShiftAmount(r)
           p == Pow2[s]
           h == Pow2[Xlen - s]
           q == l \div p
<1>1. s \in 0 .. Xlen - 1 /\ s = r % Xlen /\ l \in Int
    <2>1. r \in Int /\ l \in Int
        BY ValueFacts
    <2> QED
        BY <2>1, Quotient, XlenAssumption DEF ShiftAmount
<1> HIDE DEF s
<1>2. /\ q \in Values /\ q \in 0 .. h - 1
      /\ \A b \in 0 .. Xlen - 1 : BitOf(q, b) = ShiftedBit(l, b, s, 0)
    BY <1>1, QuotientBits
<1>3. p \in Nat \ {0} /\ h \in Nat \ {0} /\ Pow2[Xlen] = p * h
    <2>1. /\ s \in 0 .. Xlen /\ Xlen - s \in 0 .. Xlen /\ s \in Nat /\ Xlen - s \in Nat
          /\ s + (Xlen - s) = Xlen /\ s + (Xlen - s) <= Xlen
        BY <1>1, XlenAssumption
    <2>2. Pow2[s + (Xlen - s)] = p * h
        BY <2>1, PowerOfSum
    <2> QED
        BY <2>1, <2>2, PowerPositive
<1>4. /\ BitOf(l, Xlen - 1) = IF l < Pow2[Xlen - 1] THEN 0 ELSE 1
      /\ Signed(l) = IF l < Pow2[Xlen - 1] THEN l ELSE l - Pow2[Xlen]
    BY TopBit DEF Signed
<1>5. CASE l < Pow2[Xlen - 1]
    <2>1. Signed(l) \div p = q /\ BitOf(l, Xlen - 1) = 0
        BY <1>4, <1>5
    <2> HIDE DEF q
    <2>2. Wrap(q) = q
        BY <1>2, Wrapped, ValueFacts
    <2>3. Means("SRA", l, r, q)
        BY <1>1, <1>2, <2>1 DEF Means
    <2> QED
        BY <1>2, <2>1, <2>2, <2>3 DEF s, p
<1>6. CASE ~ l < Pow2[Xlen - 1]
    <2> DEFINE result == q + h * (p - 1)
    <2>1. Signed(l) = l + p * (- h) /\ BitOf(l, Xlen - 1) = 1
        <3> HIDE DEF p, h
        <3>1. p * (- h) = - (p * h) /\ p * h \in Int
            BY <1>3
        <3> QED
            BY <1>1, <1>3, <1>4, <1>6, <3>1
    <2>2. Signed(l) \div p = q - h
        <3> HIDE DEF p, h
        <3>1. (l + p * (- h)) \div p = (l \div p) + (- h)
            BY <1>1, <1>3, DivideShifted
        <3>2. q \in Int
            BY <1>2
        <3> QED
            BY <1>3, <2>1, <3>1, <3>2
    <2> HIDE DEF q
    <2>3. result = (q - h) + Pow2[Xlen] /\ q - h \in Int
        <3> HIDE DEF p, h
        <3>1. h * (p - 1) = p * h - h /\ p * h \in Int
            BY <1>3
        <3> QED
            BY <1>2, <1>3, <3>1
    <2>4. result \in Values
        <3> HIDE DEF p, h
        <3>1. h * (p - 1) >= 0 /\ h * (p - 1) \in Int
            BY <1>3
        <3>2. result \in Nat /\ result < Pow2[Xlen] /\ Pow2[Xlen] \in Nat
            BY <1>2, <1>3, <2>3, <3>1, ValueFacts
        <3> QED
            BY <3>2 DEF Values
    <2>5. Wrap(q - h) = result
        <3> HIDE DEF result, h
        <3> QED
            BY <2>3, <2>4, Wrapped
    <2>6. ASSUME NEW b \in 0 .. Xlen - 1
          PROVE  BitOf(result, b) = ShiftedBit(l, b, s, 1)
        <3> DEFINE k == Xlen - s
        <3>1. k \in 0 .. Xlen /\ k \in Nat /\ p - 1 \in Int /\ q \in 0 .. Pow2[k] - 1 /\ q \in Int
            BY <1>1, <1>2, <1>3, XlenAssumption
        <3>2. CASE b < k
            <4>1. b \in 0 .. k - 1 /\ b + s \in 0 .. Xlen - 1
                BY <1>1, <3>2, XlenAssumption
            <4> HIDE DEF p
            <4>2. BitOf(q + Pow2[k] * (p - 1), b) = BitOf(q, b)
                BY <3>1, <4>1, BitsBelow
            <4> QED
                BY <1>2, <4>1, <4>2 DEF ShiftedBit
        <3>3. CASE b >= k
            <4> DEFINE c == b - k
            <4>1. /\ c \in 0 .. Xlen /\ k + c = b /\ k + c <= Xlen /\ c \in 0 .. s - 1
                  /\ s \in 0 .. Xlen /\ b + s \notin 0 .. Xlen - 1
                BY <1>1, <3>3, XlenAssumption
            <4> HIDE DEF c, k
            <4>2. BitOf(q + Pow2[k] * (p - 1), k + c) = BitOf(p - 1, c)
                <5> HIDE DEF p
                <5> QED
                    BY <3>1, <4>1, BitsAbove
            <4>3. BitOf(p - 1, c) = 1
                BY <4>1, ZeroAndOnes
            <4> QED
                BY <4>1, <4>2, <4>3 DEF ShiftedBit, k
        <3> QED
            BY <1>1, <3>1, <3>2, <3>3
    <2> HIDE DEF result
    <2>7. Means("SRA", l, r, result)
        BY <1>1, <2>1, <2>6 DEF Means
    <2> QED
        BY <2>2, <2>4, <2>5, <2>7 DEF s, p
<1> QED
    BY <1>5, <1>6

-----------------------------------------------------------------------------
(* The encodings.                                                          *)

\* The value of n bits.
LEMMA Fields ==
    ASSUME NEW w \in InstrWord
    PROVE  /\ Funct3(w) \in 0 .. 7
           /\ Num(w, 25, 7) = 0 => w[25] = 0 /\ w[30] = 0
           /\ Num(w, 25, 7) = 32 => w[25] = 0 /\ w[30] = 1
<1>1. \A b \in 0 .. 31 : w[b] \in {0, 1}
    BY DEF InstrWord, Bit
<1>2. Funct3(w) \in 0 .. 7
    BY <1>1 DEF Funct3, Num
<1>3. Num(w, 25, 7) = w[25] + 2 * w[26] + 4 * w[27] + 8 * w[28]
                        + 16 * w[29] + 32 * w[30] + 64 * w[31]
    BY <1>1 DEF Num
<1>4. /\ w[25] \in {0, 1} /\ w[26] \in {0, 1} /\ w[27] \in {0, 1} /\ w[28] \in {0, 1}
      /\ w[29] \in {0, 1} /\ w[30] \in {0, 1} /\ w[31] \in {0, 1}
    BY <1>1
<1> QED
    BY <1>2, <1>3, <1>4

\* The mnemonics, as execute() tells them: funct3, and bit 30 where the arm
\* looks at it.
LEMMA MnemonicOf ==
    ASSUME NEW w \in InstrWord, Mnemonic(w) # "none"
    PROVE  /\ \A pc, l, r : Result(w, pc, l, r) = Compute(Funct3(w), Alternate(w), l, r)
           /\ Funct3(w) \in 0 .. 7
           /\ Funct3(w) = 0 /\ Alternate(w) => Mnemonic(w) = "SUB"
           /\ Funct3(w) = 5 /\ Alternate(w) => Mnemonic(w) = "SRA"
           /\ Funct3(w) \notin {0, 5} \/ ~Alternate(w) =>
                 Mnemonic(w) = Arithmetic[Funct3(w) + 1]
<1>1. /\ Funct3(w) \in 0 .. 7
      /\ Num(w, 25, 7) = 0 => w[25] = 0 /\ w[30] = 0
      /\ Num(w, 25, 7) = 32 => w[25] = 0 /\ w[30] = 1
    BY Fields
<1> DEFINE plain == Arithmetic[Funct3(w) + 1]
           opcode == OpCode(w)
           funct3 == Funct3(w)
           funct7 == Num(w, 25, 7)
<1>2. Mnemonic(w) = CASE opcode = "OPI" /\ funct3 \notin {1, 5} -> plain
          [] opcode \in {"OP", "OPI"} /\ funct7 = 0 -> plain
          [] opcode = "OP" /\ funct7 = 32 /\ funct3 = 0 -> "SUB"
          [] opcode \in {"OP", "OPI"} /\ funct7 = 32 /\ funct3 = 5 -> "SRA"
          [] OTHER -> "none"
    BY DEF Mnemonic
<1>3. Alternate(w) <=> w[30] = 1 /\ (opcode = "OP" \/ funct3 = 5)
    BY DEF Alternate
<1>4. ASSUME opcode = "OPI" \/ (opcode = "OP" /\ w[25] = 0)
      PROVE  \A pc, l, r : Result(w, pc, l, r) = Compute(Funct3(w), Alternate(w), l, r)
    BY <1>4 DEF Result, MExtension, IsCsr
<1> HIDE DEF plain, opcode, funct3, funct7
<1>5. CASE opcode = "OPI" /\ funct3 \notin {1, 5}
    <2>1. Mnemonic(w) = plain /\ ~Alternate(w)
        BY <1>2, <1>3, <1>5
    <2> QED
        BY <1>1, <1>4, <1>5, <2>1 DEF plain
<1>6. CASE opcode \in {"OP", "OPI"} /\ funct7 = 0
    <2>1. ~Alternate(w) /\ w[25] = 0
        BY <1>1, <1>3, <1>6 DEF funct7
    <2>2. Mnemonic(w) = plain
        BY <1>2, <1>6
    <2> QED
        BY <1>1, <1>4, <1>6, <2>1, <2>2 DEF plain
<1>7. CASE opcode = "OP" /\ funct7 = 32 /\ funct3 = 0
    <2>1. Alternate(w) /\ w[25] = 0
        BY <1>1, <1>3, <1>7 DEF funct7
    <2>2. Mnemonic(w) = "SUB"
        BY <1>2, <1>7
    <2>3. \A pc, l, r : Result(w, pc, l, r) = Compute(Funct3(w), Alternate(w), l, r)
        BY <1>4, <1>7, <2>1
    <2>4. Funct3(w) = 0
        BY <1>7 DEF funct3
    <2>5. Funct3(w) \in 0 .. 7
        BY <2>4
    <2>6. Funct3(w) = 0 /\ Alternate(w) => Mnemonic(w) = "SUB"
        BY <2>2, <2>4
    <2>7. Funct3(w) = 5 /\ Alternate(w) => Mnemonic(w) = "SRA"
        BY <2>2, <2>4
    <2>8. ~(Funct3(w) \notin {0, 5} \/ ~Alternate(w))
        BY <2>1, <2>4
    <2> QED
        BY <2>3, <2>5, <2>6, <2>7, <2>8, Zenon
<1>8. CASE opcode \in {"OP", "OPI"} /\ funct7 = 32 /\ funct3 = 5
    <2>1. Alternate(w) /\ w[25] = 0
        BY <1>1, <1>3, <1>8 DEF funct7
    <2>2. Mnemonic(w) = "SRA"
        BY <1>2, <1>8
    <2>3. \A pc, l, r : Result(w, pc, l, r) = Compute(Funct3(w), Alternate(w), l, r)
        BY <1>4, <1>8, <2>1
    <2>4. Funct3(w) = 5
        BY <1>8 DEF funct3
    <2>5. Funct3(w) \in 0 .. 7
        BY <2>4
    <2>6. Funct3(w) = 0 /\ Alternate(w) => Mnemonic(w) = "SUB"
        BY <2>2, <2>4
    <2>7. Funct3(w) = 5 /\ Alternate(w) => Mnemonic(w) = "SRA"
        BY <2>2, <2>4
    <2>8. ~(Funct3(w) \notin {0, 5} \/ ~Alternate(w))
        BY <2>1, <2>4
    <2> QED
        BY <2>3, <2>5, <2>6, <2>7, <2>8, Zenon
<1> QED
    BY <1>2, <1>5, <1>6, <1>7, <1>8

\* What an encoding of OP and OPI names, and what its arm computes.
LEMMA ComputeMeans ==
    ASSUME NEW f \in 0 .. 7, NEW a \in BOOLEAN, NEW l \in Values, NEW r \in Values,
           NEW name, f = 0 /\ a => name = "SUB", f = 5 /\ a => name = "SRA",
           f \notin {0, 5} \/ ~a => name = Arithmetic[f + 1]
    PROVE  /\ Compute(f, a, l, r) \in Values
           /\ Means(name, l, r, Compute(f, a, l, r))
<1> DEFINE c == Compute(f, a, l, r)
<1>1. /\ f \in 0 .. 7
      /\ f = 0 /\ a => name = "SUB"
      /\ f = 5 /\ a => name = "SRA"
      /\ f \notin {0, 5} \/ ~a => name = Arithmetic[f + 1]
    OBVIOUS
<1>2. CASE f = 0
    <2>1. CASE a
        BY <1>1, <1>2, <2>1, SumsMean DEF Compute
    <2>2. CASE ~a
        <3>1. name = "ADD" /\ c = Wrap(l + r)
            BY <1>1, <1>2, <2>2 DEF Compute, Arithmetic
        <3> QED
            BY <1>1, <3>1, SumsMean
    <2> QED
        BY <2>1, <2>2
<1>3. CASE f = 1
    <2>1. name = "SLL" /\ c = Wrap(l * Pow2[ShiftAmount(r)])
        BY <1>1, <1>3 DEF Compute, Arithmetic
    <2> QED
        BY <1>1, <2>1, ShiftLeftMeans
<1>4. CASE f = 2
    <2>1. name = "SLT" /\ c = Flag(Signed(l) < Signed(r))
        BY <1>1, <1>4 DEF Compute, Arithmetic
    <2> QED
        BY <1>1, <2>1, ComparisonsMean
<1>5. CASE f = 3
    <2>1. name = "SLTU" /\ c = Flag(l < r)
        BY <1>1, <1>5 DEF Compute, Arithmetic
    <2> QED
        BY <1>1, <2>1, ComparisonsMean
<1>6. CASE f = 4
    <2>1. name = "XOR" /\ c = Xor(l, r)
        BY <1>1, <1>6 DEF Compute, Arithmetic
    <2> QED
        BY <1>1, <2>1, BitwiseMeans
<1>7. CASE f = 5
    <2>1. CASE a
        <3>1. name = "SRA" /\ c = Wrap(Signed(l) \div Pow2[ShiftAmount(r)])
            BY <1>1, <1>7, <2>1 DEF Compute
        <3> QED
            BY <1>1, <3>1, ShiftArithmeticMeans
    <2>2. CASE ~a
        <3>1. name = "SRL" /\ c = Wrap(l \div Pow2[ShiftAmount(r)])
            BY <1>1, <1>7, <2>2 DEF Compute, Arithmetic
        <3> QED
            BY <1>1, <3>1, ShiftRightMeans
    <2> QED
        BY <2>1, <2>2
<1>8. CASE f = 6
    <2>1. name = "OR" /\ c = Or(l, r)
        BY <1>1, <1>8 DEF Compute, Arithmetic
    <2> QED
        BY <1>1, <2>1, BitwiseMeans
<1>9. CASE f = 7
    <2>1. name = "AND" /\ c = And(l, r)
        BY <1>1, <1>9 DEF Compute, Arithmetic
    <2> QED
        BY <1>1, <2>1, BitwiseMeans
<1> QED
    BY <1>1, <1>2, <1>3, <1>4, <1>5, <1>6, <1>7, <1>8, <1>9

\* What execute() computes is what the mnemonic means.
LEMMA ResultMeans ==
    ASSUME NEW w \in InstrWord, Mnemonic(w) # "none", NEW pc,
           NEW l \in Values, NEW r \in Values
    PROVE  Means(Mnemonic(w), l, r, Result(w, pc, l, r))
<1>1. Alternate(w) \in BOOLEAN
    BY DEF Alternate
<1> QED
    BY <1>1, MnemonicOf, ComputeMeans

\* The link of JALR.
LEMMA LinkMeans ==
    ASSUME NEW w \in InstrWord, OpCode(w) = "JALR", NEW pc \in Values, NEW l, NEW r
    PROVE  ((pc + 4) - Result(w, pc, l, r)) % Pow2[Xlen] = 0
<1> DEFINE p == Pow2[Xlen]
           n == pc + 4
           q == n \div p
           d == n - (n % p)
<1>1. p \in Nat \ {0} /\ n \in Int
    BY ValueFacts
<1>2. Result(w, pc, l, r) = n % p
    BY DEF Result, Wrap, MExtension, IsCsr
<1> HIDE DEF p, n
<1>3. q \in Int /\ n % p \in 0 .. p - 1 /\ n = p * q + (n % p)
    BY <1>1, Quotient
<1>4. d = p * q + 0 /\ 0 \in 0 .. p - 1
    BY <1>1, <1>3
<1> HIDE DEF q, d
<1>5. d % p = 0
    BY <1>1, <1>3, <1>4, DivideUnique
<1>6. (n - Result(w, pc, l, r)) % p = 0
    BY <1>2, <1>5, Zenon DEF d
<1> QED
    BY <1>6, Zenon DEF n, p

\* A result announced for a register is a value.
LEMMA ResultIsValue ==
    ASSUME NEW w \in InstrWord, UseRd(w), ~MExtension(w),
           NEW pc \in Values, NEW l \in Values, NEW r \in Values
    PROVE  Result(w, pc, l, r) \in Values
<1>1. CASE OpCode(w) \in {"OP", "OPI"}
    <2> DEFINE f == Funct3(w)
               a == Alternate(w)
    <2>1. f \in 0 .. 7 /\ a \in BOOLEAN
        BY Fields DEF Alternate
    <2>2. Result(w, pc, l, r) = Compute(f, a, l, r)
        BY <1>1 DEF Result, MExtension, IsCsr
    <2> HIDE DEF f, a
    <2> DEFINE name == IF f = 0 /\ a THEN "SUB" ELSE IF f = 5 /\ a THEN "SRA"
                       ELSE Arithmetic[f + 1]
    <2>3. /\ f = 0 /\ a => name = "SUB"
          /\ f = 5 /\ a => name = "SRA"
          /\ f \notin {0, 5} \/ ~a => name = Arithmetic[f + 1]
        BY <2>1
    <2> HIDE DEF name
    <2> QED
        BY <2>1, <2>2, <2>3, ComputeMeans
<1>2. CASE OpCode(w) \in {"AUIPC", "LD", "JALR"}
    <2>1. l + r \in Int /\ pc + 4 \in Int
        BY ValueFacts
    <2>2. Wrap(l + r) \in Values /\ Wrap(pc + 4) \in Values
        BY <2>1, Wrapped
    <2> QED
        BY <1>2, <2>2 DEF Result, MExtension, IsCsr
<1>3. CASE OpCode(w) \in {"LUI", "JAL"}
    BY <1>3 DEF Result, MExtension, IsCsr
<1> QED
    BY <1>1, <1>2, <1>3 DEF UseRd

\* Of the branches that differ in funct3[0] exactly one is taken.
LEMMA BranchMeans ==
    ASSUME NEW w \in InstrWord, OpCode(w) = "BR", Recognized(w),
           NEW l \in Values, NEW r \in Values
    PROVE  Redirects(w, l, r) = (Condition(w, l, r) # (Funct3(w) % 2 = 1))
<1>1. Funct3(w) \in {0, 1, 4, 5, 6, 7}
    BY Fields DEF Recognized
<1>2. /\ l \in Int /\ r \in Int /\ Signed(l) \in Int /\ Signed(r) \in Int
      /\ Signed(l) < Signed(r) <=> Below(l, r)
    <2>1. l \in Int /\ r \in Int
        BY ValueFacts
    <2>2. Signed(l) \in Int /\ Signed(r) \in Int
        BY <2>1, ValueFacts DEF Signed
    <2> QED
        BY <2>1, <2>2, SignedOrder
<1>3. Redirects(w, l, r) <=> Taken(w, l, r)
    BY DEF Redirects
<1>4. Redirects(w, l, r) \in BOOLEAN
    BY DEF Redirects
<1>5. CASE Funct3(w) \in {0, 1}
    BY <1>2, <1>3, <1>4, <1>5 DEF Taken, Condition
<1>6. CASE Funct3(w) \in {4, 5}
    <2>1. Condition(w, l, r) = Below(l, r)
        BY <1>6 DEF Condition
    <2>2. Taken(w, l, r) <=> IF Funct3(w) = 4 THEN Below(l, r) ELSE ~Below(l, r)
        <3>1. Taken(w, l, r) <=> IF Funct3(w) = 4 THEN Signed(l) < Signed(r)
                                 ELSE Signed(l) >= Signed(r)
            BY <1>6 DEF Taken
        <3>2. Signed(l) >= Signed(r) <=> ~ Signed(l) < Signed(r)
            BY <1>2
        <3> QED
            BY <1>2, <1>6, <3>1, <3>2
    <2>3. Funct3(w) % 2 = 1 <=> Funct3(w) = 5
        BY <1>6
    <2>4. Below(l, r) \in BOOLEAN
        BY DEF Below
    <2> QED
        BY <1>3, <1>4, <1>6, <2>1, <2>2, <2>3, <2>4
<1>7. CASE Funct3(w) \in {6, 7}
    BY <1>2, <1>3, <1>4, <1>7 DEF Taken, Condition
<1> QED
    BY <1>1, <1>5, <1>6, <1>7

-----------------------------------------------------------------------------
(* Of the specification: what the two registers hold is what the functions *)
(* compute for the input.                                                  *)

stages == <<input, dctoEx, extoMem>>

\* The strengthening: the registers are functions of the input.
FromInput ==
    /\ input \in Inputs
    /\ dctoEx.we => /\ dctoEx.imm = Immediate(input.word)
                    /\ dctoEx.useRd = UseRd(input.word)
    /\ extoMem.we => /\ extoMem.useRd = UseRd(input.word)
                     /\ extoMem.result = Result(input.word, input.pc, input.lhs,
                                                input.rhs)
                     /\ extoMem.isBranch =
                           Redirects(input.word, input.lhs, input.rhs)
    /\ dctoEx # None => dctoEx.we

\* The two pipeline registers hold what decode() and execute() make of the input.
THEOREM RegistersFromInput == Spec => []FromInput
<1>1. Init => FromInput
    BY DEF Init, FromInput, None
<1>2. FromInput /\ [Next]_stages => FromInput'
    <2> SUFFICES ASSUME FromInput, [Next]_stages PROVE FromInput'
        OBVIOUS
    <2>1. CASE Decode
        BY <2>1 DEF Decode, FromInput, None
    <2>2. CASE Execute
        BY <2>2 DEF Execute, FromInput, None
    <2>3. CASE UNCHANGED stages
        BY <2>3 DEF stages, FromInput
    <2> QED
        BY <2>1, <2>2, <2>3 DEF Next
<1> QED
    BY <1>1, <1>2, PTL DEF Spec, stages

\* decode()'s immediates are those of the formats for all 2^32 words, where
\* TLC looks at single bits.
THEOREM ImmediatesAlwaysFollowFormats == Spec => []ImmediatesFollowFormats
<1>1. FromInput => ImmediatesFollowFormats
    BY ImmediateOfFormat, InputAssumption DEF FromInput, ImmediatesFollowFormats
<1> QED
    BY <1>1, RegistersFromInput, PTL

\* No word the monitor does not know writes a register, redirects the fetch
\* or accesses the memory.
THEOREM UnrecognizedNeverHasEffect == Spec => []UnrecognizedHasNoEffect
<1>1. ASSUME NEW w, ~Recognized(w)
      PROVE  /\ ~UseRd(w)
             /\ OpCode(w) \notin {"LD", "ST"}
             /\ \A l, r : ~Redirects(w, l, r)
    <2>1. OpCode(w) \in {"UNKNOWN", "BR", "SYSTEM"}
          /\ (OpCode(w) = "BR" => Funct3(w) \in {2, 3})
        BY <1>1 DEF Recognized
    <2>2. \A l, r : ~Taken(w, l, r)
        BY <2>1 DEF Taken
    <2> QED
        BY <2>1, <2>2 DEF UseRd, Redirects
<1>2. FromInput => UnrecognizedHasNoEffect
    BY <1>1 DEF FromInput, UnrecognizedHasNoEffect
<1> QED
    BY <1>2, RegistersFromInput, PTL

\* What execute() computes for an arithmetic instruction is what its mnemonic
\* says of the bits of the operands, for every width and every operand; the
\* link is the next address modulo the width; what reaches a register was
\* assigned, but for the M extension.
THEOREM ResultsAlwaysFollowMeaning == Spec => []ResultsFollowMeaning
<1>1. FromInput => ResultsFollowMeaning
    <2> SUFFICES ASSUME FromInput, extoMem.we PROVE ResultsFollowMeaning
        BY DEF ResultsFollowMeaning
    <2> DEFINE w == input.word
               result == Result(w, input.pc, input.lhs, input.rhs)
    <2>1. /\ w \in InstrWord
          /\ input.pc \in Values /\ input.lhs \in Values /\ input.rhs \in Values
          /\ extoMem.result = result /\ extoMem.useRd = UseRd(w)
        BY InputAssumption DEF FromInput
    <2>2. Mnemonic(w) # "none" => Means(Mnemonic(w), input.lhs, input.rhs, result)
        BY <2>1, ResultMeans
    <2>3. OpCode(w) = "JALR" => ((input.pc + 4) - result) % Pow2[Xlen] = 0
        BY <2>1, LinkMeans
    <2>4. UseRd(w) /\ ~MExtension(w) => result \in Values
        BY <2>1, ResultIsValue
    <2> HIDE DEF result, w
    <2>5. /\ Mnemonic(w) # "none" => Means(Mnemonic(w), input.lhs, input.rhs, extoMem.result)
          /\ OpCode(w) = "JALR" => ((input.pc + 4) - extoMem.result) % Pow2[Xlen] = 0
          /\ extoMem.useRd /\ ~MExtension(w) => extoMem.result \in Values
        BY <2>1, <2>2, <2>3, <2>4
    <2> QED
        BY <2>5 DEF ResultsFollowMeaning, w
<1> QED
    BY <1>1, RegistersFromInput, PTL

\* A branch redirects the fetch when its condition holds, its opposite when not.
THEOREM BranchesAlwaysFollowMeaning == Spec => []BranchesFollowMeaning
<1>1. FromInput => BranchesFollowMeaning
    BY BranchMeans, InputAssumption DEF FromInput, BranchesFollowMeaning
<1> QED
    BY <1>1, RegistersFromInput, PTL
=============================================================================
