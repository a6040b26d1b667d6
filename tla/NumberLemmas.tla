---------------------------- MODULE NumberLemmas ----------------------------
(***************************************************************************)
(* Natural numbers: induction and recursion, from the least-number         *)
(* principle that the well-foundedness of < gives; quotients and           *)
(* remainders by a number that is not known, which the provers do not      *)
(* calculate with.                                                         *)
(***************************************************************************)
EXTENDS Integers, TLAPS, WellFoundedInduction

\* A nonempty set of natural numbers has a least one.
LEMMA Least ==
    ASSUME NEW S, S \subseteq Nat, S # {}
    PROVE  \E n \in S : \A m \in S : n <= m
<1> DEFINE R == OpToRel(<, Nat)
<1>1. \A m, n \in Nat : m < n => <<m, n>> \in R
    BY DEF OpToRel
<1>2. IsWellFoundedOn(R, Nat)
    BY NatLessThanWellFounded, Zenon
<1> HIDE DEF R
<1>3. PICK n \in S : \A m \in S : <<m, n>> \notin R
    BY <1>2, WFMin, Zenon
<1>4. \A m \in S : ~ m < n
    BY <1>1, <1>3
<1>5. n \in Nat /\ \A m \in S : m \in Nat
    OBVIOUS
<1> QED
    BY <1>4, <1>5

\* A set with 0 that is closed under successors has every natural number.
LEMMA SetInduction ==
    ASSUME NEW S, 0 \in S, \A n \in Nat : n \in S => n + 1 \in S
    PROVE  Nat \subseteq S
<1> SUFFICES ASSUME Nat \ S # {} PROVE FALSE
    OBVIOUS
<1>1. PICK n \in Nat \ S : \A m \in Nat \ S : n <= m
    BY Least
<1>2. n - 1 \in Nat /\ n = (n - 1) + 1 /\ n - 1 \in S
    BY <1>1
<1> QED
    BY <1>1, <1>2

\* f gives each value of V, up to the one at k, from the one before.
Recursive(f, k, V, base, step) ==
    /\ f \in [0 .. k -> V] /\ f[0] = base
    /\ \A n \in 1 .. k : f[n] = step[n][f[n - 1]]

\* There is such a function, whatever the steps.
LEMMA Recursion ==
    ASSUME NEW k \in Nat, NEW V, NEW base \in V, NEW step \in [1 .. k -> [V -> V]]
    PROVE  \E f : Recursive(f, k, V, base, step)
<1> DEFINE Upto(f, m) == Recursive(f, m, V, base, step)
           S == {m \in Nat : m <= k => \E f : Upto(f, m)}
<1> USE DEF Recursive
<1>1. 0 \in S
    <2>1. Upto([n \in 0 .. 0 |-> base], 0)
        OBVIOUS
    <2> QED
        BY <2>1
<1>2. ASSUME NEW m \in Nat, m \in S PROVE m + 1 \in S
    <2> SUFFICES ASSUME m + 1 <= k PROVE \E f : Upto(f, m + 1)
        OBVIOUS
    <2>1. PICK f : Upto(f, m)
        BY <1>2
    <2> DEFINE g == [n \in 0 .. m + 1 |-> IF n <= m THEN f[n] ELSE step[m + 1][f[m]]]
    <2>2. step[m + 1] \in [V -> V] /\ f[m] \in V
        BY <2>1
    <2>3. g \in [0 .. m + 1 -> V]
        BY <2>1, <2>2
    <2>4. g[0] = base
        BY <2>1
    <2>5. ASSUME NEW n \in 1 .. m + 1 PROVE g[n] = step[n][g[n - 1]]
        <3>1. CASE n <= m
            <4>1. n \in 1 .. m /\ g[n] = f[n] /\ g[n - 1] = f[n - 1]
                BY <3>1
            <4> QED
                BY <2>1, <4>1
        <3>2. CASE n = m + 1
            BY <3>2
        <3> QED
            BY <3>1, <3>2
    <2> HIDE DEF g
    <2> QED
        BY <2>3, <2>4, <2>5
<1> HIDE DEF S
<1>3. k \in S
    BY <1>1, <1>2, SetInduction
<1>4. \E f : Upto(f, k)
    BY <1>3 DEF S
<1> QED
    BY <1>4

-----------------------------------------------------------------------------
(* Quotients.                                                              *)

\* A number over a base.
LEMMA Divide ==
    ASSUME NEW n \in Nat \ {0}, NEW m \in Nat, NEW x \in 0 .. n * m - 1
    PROVE  /\ x \div n \in 0 .. m - 1 /\ x % n \in 0 .. n - 1
           /\ x = (x % n) + n * (x \div n)
<1>1. x \div n \in Int /\ x % n \in 0 .. n - 1 /\ x = n * (x \div n) + (x % n)
    OBVIOUS
<1>2. ASSUME NEW d \in Int, n * d <= x PROVE d <= m - 1
    <2>1. n * (m - d) > 0
        <3>1. n * (m - d) = n * m - n * d
            OBVIOUS
        <3> QED
            BY <1>2, <3>1
    <2> QED
        BY <2>1
<1>3. ASSUME NEW d \in Int, n * d > - n PROVE d >= 0
    <2>1. n * (d + 1) > 0
        <3>1. n * (d + 1) = n * d + n
            OBVIOUS
        <3> QED
            BY <1>3, <3>1
    <2> QED
        BY <2>1
<1>4. n * (x \div n) \in Int
    BY <1>1
<1> DEFINE d == x \div n
<1> HIDE DEF d
<1>5. d \in Int /\ n * d <= x /\ n * d > - n
    BY <1>1, <1>4 DEF d
<1>6. d \in 0 .. m - 1
    BY <1>2, <1>3, <1>5
<1> QED
    BY <1>1, <1>6 DEF d

\* There is one quotient and one remainder.
LEMMA DivideUnique ==
    ASSUME NEW n \in Nat \ {0}, NEW q \in Int, NEW r \in 0 .. n - 1
    PROVE  (n * q + r) \div n = q /\ (n * q + r) % n = r
<1> DEFINE x == n * q + r
           d == x \div n
           e == x % n
<1>1. x \in Int
    OBVIOUS
<1>2. d \in Int /\ e \in 0 .. n - 1 /\ x = n * d + e
    <2> HIDE DEF x
    <2> QED
        BY <1>1
<1> HIDE DEF d, e
<1>3. n * (d - q) = r - e /\ n * (q - d) = e - r
    <2>1. n * (d - q) = n * d - n * q /\ n * (q - d) = n * q - n * d
        BY <1>2
    <2> QED
        BY <1>2, <2>1
<1>4. ASSUME NEW z \in Int, z >= 1 PROVE n * z >= n
    <2>1. n * z = n * (z - 1) + n /\ n * (z - 1) >= 0
        BY <1>4
    <2> QED
        BY <2>1
<1>5. d = q
    <2>1. ~ d - q >= 1
        BY <1>2, <1>3, <1>4
    <2>2. ~ q - d >= 1
        BY <1>2, <1>3, <1>4
    <2> QED
        BY <1>2, <2>1, <2>2
<1>6. e = r
    BY <1>2, <1>5
<1> QED
    BY <1>5, <1>6 DEF d, e

\* Quotient and remainder of every integer.
LEMMA Quotient ==
    ASSUME NEW n \in Nat \ {0}, NEW x \in Int
    PROVE  x \div n \in Int /\ x % n \in 0 .. n - 1 /\ x = n * (x \div n) + (x % n)
OBVIOUS

\* Dividing twice.
LEMMA DivideTwice ==
    ASSUME NEW a \in Nat \ {0}, NEW b \in Nat \ {0}, NEW x \in Int
    PROVE  (x \div a) \div b = x \div (a * b)
<1> DEFINE q == x \div a
           r == x % a
           p == q \div b
           s == q % b
<1>1. q \in Int /\ r \in 0 .. a - 1 /\ x = a * q + r
    BY Quotient
<1> HIDE DEF q, r
<1>2. p \in Int /\ s \in 0 .. b - 1 /\ q = b * p + s
    BY <1>1, Quotient
<1> HIDE DEF p, s
<1>3. x = (a * b) * p + (a * s + r)
    <2>1. a * (b * p + s) = (a * b) * p + a * s
        BY <1>2
    <2> QED
        BY <1>1, <1>2, <2>1
<1>4. a * s + r \in 0 .. a * b - 1 /\ a * b \in Nat \ {0}
    <2>1. a * s >= 0 /\ a * s \in Int /\ a * b \in Int /\ a * b > 0
        BY <1>2
    <2>2. a * (b - 1 - s) >= 0
        BY <1>2
    <2>3. a * (b - 1 - s) = a * b - a - a * s
        BY <1>2
    <2> QED
        BY <1>1, <2>1, <2>2, <2>3
<1>5. x \div (a * b) = p
    BY <1>2, <1>3, <1>4, DivideUnique
<1> QED
    BY <1>5 DEF p, q

\* A multiple more adds to the quotient.
LEMMA DivideShifted ==
    ASSUME NEW n \in Nat \ {0}, NEW x \in Int, NEW y \in Int
    PROVE  (x + n * y) \div n = (x \div n) + y /\ (x + n * y) % n = x % n
<1> DEFINE q == x \div n
           r == x % n
<1>1. q \in Int /\ r \in 0 .. n - 1 /\ x = n * q + r
    BY Quotient
<1> HIDE DEF q, r
<1>2. x + n * y = n * (q + y) + r /\ q + y \in Int
    <2>1. n * (q + y) = n * q + n * y
        BY <1>1
    <2>2. n * q \in Int /\ n * y \in Int
        BY <1>1
    <2> QED
        BY <1>1, <2>1, <2>2
<1>3. (n * (q + y) + r) \div n = q + y /\ (n * (q + y) + r) % n = r
    BY <1>1, <1>2, DivideUnique
<1> QED
    BY <1>2, <1>3 DEF q, r
=============================================================================
