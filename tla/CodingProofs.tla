---------------------------- MODULE CodingProofs ----------------------------
(***************************************************************************)
(* What coding.h writes, it reads back: for every width of bytes, integers *)
(* and varints, whatever follows in the buffer.                            *)
(***************************************************************************)
EXTENDS Coding, SequenceTheorems, WellFoundedInduction, TLAPS

-----------------------------------------------------------------------------
(* Induction and recursion *)

\* A set of natural numbers that is not empty has a least element.
LEMMA LeastExists ==
    ASSUME NEW S, S \subseteq Nat, S # {}
    PROVE  \E x \in S : \A y \in S : x <= y
<1> DEFINE R == OpToRel(<, Nat)
<1>1. IsWellFoundedOn(R, Nat)
  BY NatLessThanWellFounded
<1>2. PICK x \in S : \A y \in S : ~(<<y, x>> \in R)
  <2> HIDE DEF R
  <2> QED BY <1>1, WFMin
<1>3. \A y \in S : ~(y < x)
  BY <1>2 DEF OpToRel
<1> QED BY <1>3

LEMMA LeastIs ==
    ASSUME NEW S, S \subseteq Nat, S # {}
    PROVE  Min(S) \in S /\ \A y \in S : Min(S) <= y
BY LeastExists DEF Min

\* Induction, with the property as a set.
LEMMA InductionOnNat ==
    ASSUME NEW S, 0 \in S, \A n \in Nat : n \in S => n + 1 \in S
    PROVE  Nat \subseteq S
<1> DEFINE M == Nat \ S
<1>1. ASSUME M # {} PROVE FALSE
  <2>1. PICK m \in M : \A y \in M : m <= y
    <3>1. M \subseteq Nat
      OBVIOUS
    <3> HIDE DEF M
    <3> QED BY <1>1, <3>1, LeastExists
  <2>2. m \in Nat /\ m # 0 /\ m \notin S
    BY <2>1
  <2>3. m - 1 \in Nat /\ m - 1 \notin M
    BY <2>1, <2>2
  <2>4. (m - 1) + 1 \in S
    BY <2>3
  <2> QED BY <2>2, <2>4
<1> QED BY <1>1

(***************************************************************************)
(* Recursion: a step function and a value to begin with determine a        *)
(* function. Upto(n) are its beginnings, as far as n.                      *)
(***************************************************************************)
Upto(S, base, F, n) ==
    {f \in [0 .. n -> S] : f[0] = base /\ \A i \in 0 .. n - 1 : f[i + 1] = F[i][f[i]]}

LEMMA UptoExists ==
    ASSUME NEW S, NEW base \in S, NEW F \in [Nat -> [S -> S]]
    PROVE  \A n \in Nat : Upto(S, base, F, n) # {}
<1> DEFINE T == {n \in Nat : Upto(S, base, F, n) # {}}
<1>1. 0 \in T
  <2> DEFINE f == [i \in 0 .. 0 |-> base]
  <2>1. f \in Upto(S, base, F, 0)
    BY DEF Upto
  <2> QED BY <2>1
<1>2. ASSUME NEW n \in Nat, n \in T PROVE n + 1 \in T
  <2>1. PICK f : f \in Upto(S, base, F, n)
    BY <1>2
  <2>2. f \in [0 .. n -> S] /\ f[0] = base /\ \A i \in 0 .. n - 1 : f[i + 1] = F[i][f[i]]
    BY <2>1 DEF Upto
  <2> DEFINE g == [i \in 0 .. n + 1 |-> IF i <= n THEN f[i] ELSE F[n][f[n]]]
  <2>3. f[n] \in S /\ F[n][f[n]] \in S
    BY <2>2
  <2>4. g \in [0 .. n + 1 -> S] /\ g[0] = base
    BY <2>2, <2>3
  <2>5. ASSUME NEW i \in 0 .. n PROVE g[i + 1] = F[i][g[i]]
    <3>1. CASE i < n
      BY <2>2, <3>1
    <3>2. CASE i = n
      BY <2>2, <3>2
    <3> QED BY <3>1, <3>2
  <2>6. g \in Upto(S, base, F, n + 1)
    <3>1. (n + 1) - 1 = n
      OBVIOUS
    <3> HIDE DEF g
    <3> QED BY <2>4, <2>5, <3>1 DEF Upto
  <2> QED BY <2>6
<1> HIDE DEF T
<1>3. Nat \subseteq T
  BY <1>1, <1>2, InductionOnNat
<1> QED BY <1>3 DEF T

LEMMA UptoAgree ==
    ASSUME NEW S, NEW base \in S, NEW F \in [Nat -> [S -> S]], NEW m \in Nat, NEW n \in Nat,
           NEW f \in Upto(S, base, F, m), NEW g \in Upto(S, base, F, n)
    PROVE  \A i \in Nat : i <= m /\ i <= n => f[i] = g[i]
<1> DEFINE T == {i \in Nat : i <= m /\ i <= n => f[i] = g[i]}
<1>1. 0 \in T
  BY DEF Upto
<1>2. ASSUME NEW i \in Nat, i \in T PROVE i + 1 \in T
  <2>1. i + 1 <= m => i \in 0 .. m - 1 /\ f[i + 1] = F[i][f[i]]
    BY DEF Upto
  <2>2. i + 1 <= n => i \in 0 .. n - 1 /\ g[i + 1] = F[i][g[i]]
    BY DEF Upto
  <2> QED BY <1>2, <2>1, <2>2
<1> HIDE DEF T
<1>3. Nat \subseteq T
  BY <1>1, <1>2, InductionOnNat
<1> QED BY <1>3 DEF T

Solves(f, S, base, F) ==
    f \in [Nat -> S] /\ f[0] = base /\ \A n \in Nat : f[n + 1] = F[n][f[n]]

LEMMA Recursion ==
    ASSUME NEW S, NEW base \in S, NEW F \in [Nat -> [S -> S]]
    PROVE  \E f : Solves(f, S, base, F)
<1> DEFINE pick(n) == CHOOSE f : f \in Upto(S, base, F, n)
           f == [n \in Nat |-> pick(n)[n]]
<1>1. \A n \in Nat : pick(n) \in Upto(S, base, F, n)
  BY UptoExists
<1> HIDE DEF pick
<1>2. ASSUME NEW n \in Nat PROVE f[n] \in S
  BY <1>1 DEF Upto
<1>3. f[0] = base
  BY <1>1 DEF Upto
<1>4. ASSUME NEW n \in Nat PROVE f[n + 1] = F[n][f[n]]
  <2>1. pick(n + 1) \in Upto(S, base, F, n + 1) /\ pick(n) \in Upto(S, base, F, n)
    BY <1>1
  <2>2. n \in 0 .. (n + 1) - 1
    OBVIOUS
  <2>3. pick(n + 1)[n + 1] = F[n][pick(n + 1)[n]]
    BY <2>1, <2>2 DEF Upto
  <2>4. pick(n + 1)[n] = pick(n)[n]
    BY <2>1, UptoAgree
  <2> QED BY <2>3, <2>4
<1>5. f \in [Nat -> S]
  BY <1>2
<1>6. Solves(f, S, base, F)
  <2> HIDE DEF f
  <2> QED BY <1>3, <1>4, <1>5 DEF Solves
<1> QED BY <1>6

-----------------------------------------------------------------------------
(* Powers *)

\* The two equations that define a power.
LEMMA PowerIs ==
    ASSUME NEW b \in Nat
    PROVE  /\ Power(b, 0) = 1
           /\ \A n \in Nat : Power(b, n) \in Nat /\ Power(b, n + 1) = b * Power(b, n)
<1> DEFINE Equation(p) == p = [i \in Nat |-> IF i = 0 THEN 1 ELSE b * p[i - 1]]
           F == [n \in Nat |-> [x \in Nat |-> b * x]]
<1>1. F \in [Nat -> [Nat -> Nat]]
  OBVIOUS
<1>2. PICK f : Solves(f, Nat, 1, F)
  <2> HIDE DEF F
  <2> QED BY <1>1, Recursion
<1>3. f \in [Nat -> Nat] /\ f[0] = 1 /\ \A n \in Nat : f[n + 1] = b * f[n]
  BY <1>2 DEF Solves
<1>4. \A i \in Nat : f[i] = IF i = 0 THEN 1 ELSE b * f[i - 1]
  <2> TAKE i \in Nat
  <2>1. CASE i = 0
    BY <1>3, <2>1
  <2>2. CASE i # 0
    <3>1. i - 1 \in Nat /\ (i - 1) + 1 = i
      BY <2>2
    <3>2. f[(i - 1) + 1] = b * f[i - 1]
      BY <1>3, <3>1
    <3> QED BY <2>2, <3>1, <3>2
  <2> QED BY <2>1, <2>2
<1>5. Equation(f)
  BY <1>3, <1>4
<1> DEFINE p == CHOOSE q : Equation(q)
<1>6. Equation(p)
  BY <1>5
<1>7. \A n : Power(b, n) = p[n]
  BY DEF Power
<1> HIDE DEF p
<1>8. p[0] = 1 /\ \A n \in Nat : p[n + 1] = b * p[n]
  <2>1. \A i \in Nat : p[i] = IF i = 0 THEN 1 ELSE b * p[i - 1]
    BY <1>6
  <2>2. ASSUME NEW n \in Nat PROVE p[n + 1] = b * p[n]
    <3>1. n + 1 \in Nat /\ n + 1 # 0 /\ (n + 1) - 1 = n
      OBVIOUS
    <3> QED BY <2>1, <3>1
  <2> QED BY <2>1, <2>2
<1> DEFINE T == {n \in Nat : p[n] \in Nat}
<1>9. Nat \subseteq T
  <2>1. 0 \in T
    BY <1>8
  <2>2. \A n \in Nat : n \in T => n + 1 \in T
    BY <1>8
  <2> HIDE DEF T
  <2> QED BY <2>1, <2>2, InductionOnNat
<1> QED BY <1>7, <1>8, <1>9

\* Powers of a positive number are positive, and grow with the exponent.
LEMMA PowerGrows ==
    ASSUME NEW b \in Nat \ {0}, NEW m \in Nat, NEW n \in Nat, m <= n
    PROVE  Power(b, m) \in Nat \ {0} /\ Power(b, m) <= Power(b, n)
<1>1. b \in Nat /\ b >= 1
  OBVIOUS
<1>2. /\ Power(b, 0) = 1
      /\ \A i \in Nat : Power(b, i) \in Nat /\ Power(b, i + 1) = b * Power(b, i)
  BY <1>1, PowerIs
<1> DEFINE T == {i \in Nat : Power(b, i) >= 1}
           U == {i \in Nat : Power(b, m) <= Power(b, m + i)}
<1>3. Nat \subseteq T
  <2>1. 0 \in T
    BY <1>2
  <2>2. ASSUME NEW i \in Nat, i \in T PROVE i + 1 \in T
    <3>1. Power(b, i) \in Nat /\ Power(b, i) >= 1 /\ Power(b, i + 1) = b * Power(b, i)
      BY <1>2, <2>2
    <3>2. b * Power(b, i) >= 1
      BY <1>1, <3>1
    <3> QED BY <3>1, <3>2
  <2> HIDE DEF T
  <2> QED BY <2>1, <2>2, InductionOnNat
<1>4. Nat \subseteq U
  <2>1. 0 \in U
    BY <1>2
  <2>2. ASSUME NEW i \in Nat, i \in U PROVE i + 1 \in U
    <3>1. m + i \in Nat /\ m + (i + 1) = (m + i) + 1
      OBVIOUS
    <3>2. Power(b, m + (i + 1)) = b * Power(b, m + i) /\ Power(b, m + i) \in Nat
      BY <1>2, <3>1
    <3>3. Power(b, m + i) <= b * Power(b, m + i)
      BY <1>1, <3>2
    <3> QED BY <1>2, <2>2, <3>2, <3>3
  <2> HIDE DEF U
  <2> QED BY <2>1, <2>2, InductionOnNat
<1>5. n - m \in U /\ m + (n - m) = n
  BY <1>4
<1>6. m \in T
  BY <1>3
<1> QED BY <1>2, <1>5, <1>6

LEMMA PowerSum ==
    ASSUME NEW b \in Nat, NEW m \in Nat, NEW n \in Nat
    PROVE  Power(b, m + n) = Power(b, m) * Power(b, n)
<1>1. /\ Power(b, 0) = 1
      /\ \A i \in Nat : Power(b, i) \in Nat /\ Power(b, i + 1) = b * Power(b, i)
  BY PowerIs
<1> DEFINE T == {i \in Nat : Power(b, m + i) = Power(b, m) * Power(b, i)}
<1>2. 0 \in T
  BY <1>1
<1>3. ASSUME NEW i \in Nat, i \in T PROVE i + 1 \in T
  <2>1. m + i \in Nat /\ m + (i + 1) = (m + i) + 1
    OBVIOUS
  <2>2. Power(b, m + (i + 1)) = b * (Power(b, m) * Power(b, i))
    BY <1>1, <1>3, <2>1
  <2>3. b * (Power(b, m) * Power(b, i)) = Power(b, m) * (b * Power(b, i))
    BY <1>1
  <2> QED BY <1>1, <2>2, <2>3
<1> HIDE DEF T
<1>4. Nat \subseteq T
  BY <1>2, <1>3, InductionOnNat
<1> QED BY <1>4 DEF T

LEMMA PowerProduct ==
    ASSUME NEW b \in Nat, NEW m \in Nat, NEW n \in Nat
    PROVE  Power(Power(b, m), n) = Power(b, n * m)
<1>1. Power(b, m) \in Nat
  BY PowerIs
<1>2. /\ Power(Power(b, m), 0) = 1 /\ Power(b, 0) = 1
      /\ \A i \in Nat : Power(Power(b, m), i + 1) = Power(b, m) * Power(Power(b, m), i)
  BY <1>1, PowerIs
<1> DEFINE T == {i \in Nat : Power(Power(b, m), i) = Power(b, i * m)}
<1>3. 0 \in T
  BY <1>2
<1>4. ASSUME NEW i \in Nat, i \in T PROVE i + 1 \in T
  <2>1. i * m \in Nat /\ (i + 1) * m = m + i * m
    OBVIOUS
  <2>2. Power(b, m + i * m) = Power(b, m) * Power(b, i * m)
    BY <2>1, PowerSum
  <2> QED BY <1>2, <1>4, <2>1, <2>2
<1> HIDE DEF T
<1>5. Nat \subseteq T
  BY <1>3, <1>4, InductionOnNat
<1> QED BY <1>5 DEF T

\* The widths of the code: a byte has a bit more than a group, a word is so many bits.
LEMMA Widths ==
    /\ GroupBits \in Nat \ {0} /\ VarintBytes \in Nat \ {0} /\ Fixed32 \in Nat \ {0}
    /\ Fixed64 \in Nat \ {0} /\ CrcPoly \in Nat
    /\ Radix \in Nat \ {0} /\ Radix >= 2 /\ ByteRadix \in Nat \ {0} /\ ByteRadix = 2 * Radix
    /\ Word \in Nat \ {0} /\ Word <= Power(Radix, VarintBytes)
    /\ WordBits \in Nat \ {0} /\ Word = Power(2, WordBits)
<1>1. /\ GroupBits \in Nat \ {0} /\ VarintBytes \in Nat \ {0} /\ Fixed32 \in Nat \ {0}
      /\ Fixed64 \in Nat \ {0} /\ CrcPoly \in Nat /\ Word <= Power(Radix, VarintBytes)
  BY CodingAssumption
<1>2. Power(2, 0) = 1 /\ Power(2, 1) = 2 /\ Power(2, GroupBits + 1) = 2 * Power(2, GroupBits)
  BY <1>1, PowerIs
<1>3. Radix \in Nat \ {0} /\ Radix >= 2
  BY <1>1, <1>2, PowerGrows DEF Radix
<1>4. ByteRadix \in Nat \ {0} /\ ByteRadix = 2 * Radix /\ ByteRadix = Power(2, GroupBits + 1)
  BY <1>2, <1>3 DEF ByteRadix, Radix
<1>5. Word \in Nat \ {0}
  <2>1. Fixed32 \in Nat /\ Fixed32 <= Fixed32
    BY <1>1
  <2> QED BY <1>4, <2>1, PowerGrows DEF Word
<1>6. WordBits \in Nat \ {0}
  BY <1>1 DEF WordBits
<1>7. Power(ByteRadix, Fixed32) = Power(2, Fixed32 * (GroupBits + 1))
  BY <1>1, <1>4, PowerProduct
<1> QED BY <1>1, <1>3, <1>4, <1>5, <1>6, <1>7 DEF Word, WordBits

-----------------------------------------------------------------------------
(* Division *)

LEMMA DivMod ==
    ASSUME NEW v \in Nat, NEW d \in Nat \ {0}
    PROVE  /\ v \div d \in Nat /\ v % d \in Nat /\ v % d < d
           /\ d * (v \div d) \in Nat /\ v = d * (v \div d) + (v % d)
OBVIOUS

LEMMA DivSmall ==
    ASSUME NEW v \in Nat, NEW d \in Nat \ {0}, v < d
    PROVE  v \div d = 0 /\ v % d = v
OBVIOUS

LEMMA DivTwice ==
    ASSUME NEW v \in Nat, NEW a \in Nat \ {0}, NEW b \in Nat \ {0}
    PROVE  (v \div a) \div b = v \div (b * a)
OBVIOUS

LEMMA TwoDigitsOf ==
    ASSUME NEW r \in Nat \ {0}, NEW d \in 0 .. r - 1, NEW y \in Nat
    PROVE  (d + r * y) \div r = y /\ (d + r * y) % r = d
OBVIOUS

LEMMA Scaled ==
    ASSUME NEW a \in Nat, NEW b \in Nat, NEW c \in Nat, a + 1 <= b
    PROVE  c * a + c <= c * b /\ c * a \in Nat /\ c * b \in Nat
OBVIOUS

-----------------------------------------------------------------------------
(* Digits *)

\* A function that adds up the digits from the last one on gives the number they stand for.
Sums(g, radix, ds, n) ==
    /\ g = [i \in 1 .. n + 1 |-> g[i]]
    /\ g[n + 1] = 0
    /\ \A i \in 1 .. n : g[i] = ds[i] + radix * g[i + 1]

LEMMA NumberIs ==
    ASSUME NEW radix, NEW ds, NEW n \in Nat, Len(ds) = n, NEW g, Sums(g, radix, ds, n)
    PROVE  Number(radix, ds) = g[1]
<1> DEFINE Equation(f) == f = [i \in 1 .. n + 1 |-> IF i > n THEN 0 ELSE ds[i] + radix * f[i + 1]]
           f == CHOOSE h : Equation(h)
<1>1. Equation(g)
  <2>1. \A i \in 1 .. n + 1 : g[i] = IF i > n THEN 0 ELSE ds[i] + radix * g[i + 1]
    <3> TAKE i \in 1 .. n + 1
    <3>1. CASE i > n
      <4>1. i = n + 1
        BY <3>1
      <4> QED BY <3>1, <4>1 DEF Sums
    <3>2. CASE ~(i > n)
      <4>1. i \in 1 .. n
        BY <3>2
      <4> QED BY <3>2, <4>1 DEF Sums
    <3> QED BY <3>1, <3>2
  <2> QED BY <2>1 DEF Sums
<1>2. Equation(f)
  BY <1>1
<1>3. Number(radix, ds) = f[1]
  BY DEF Number
<1> HIDE DEF f
<1> DEFINE T == {k \in Nat : k <= n => f[n + 1 - k] = g[n + 1 - k]}
<1>4. \A i \in 1 .. n + 1 : f[i] = IF i > n THEN 0 ELSE ds[i] + radix * f[i + 1]
  BY <1>2
<1>5. 0 \in T
  <2>1. n + 1 \in 1 .. n + 1 /\ n + 1 > n /\ n + 1 - 0 = n + 1
    OBVIOUS
  <2>2. f[n + 1] = 0 /\ g[n + 1] = 0
    BY <1>4, <2>1 DEF Sums
  <2> QED BY <2>1, <2>2
<1>6. ASSUME NEW k \in Nat, k \in T PROVE k + 1 \in T
  <2> SUFFICES ASSUME k + 1 <= n PROVE f[n + 1 - (k + 1)] = g[n + 1 - (k + 1)]
    OBVIOUS
  <2> DEFINE i == n + 1 - (k + 1)
  <2>1. i \in 1 .. n /\ i \in 1 .. n + 1 /\ ~(i > n) /\ i + 1 = n + 1 - k /\ k <= n
    OBVIOUS
  <2> HIDE DEF i
  <2>2. f[i + 1] = g[i + 1]
    BY <1>6, <2>1
  <2>3. f[i] = ds[i] + radix * f[i + 1]
    BY <1>4, <2>1
  <2>4. g[i] = ds[i] + radix * g[i + 1]
    BY <2>1 DEF Sums
  <2>5. f[i] = g[i]
    BY <2>2, <2>3, <2>4
  <2> QED BY <2>5 DEF i
<1>7. n \in T
  <2> HIDE DEF T
  <2> QED BY <1>5, <1>6, InductionOnNat
<1>8. f[1] = g[1]
  BY <1>7
<1> QED BY <1>3, <1>8

\* The digits of a number that fits stand for it.
LEMMA DigitsNumber ==
    ASSUME NEW radix \in Nat \ {0}, NEW n \in Nat, NEW v \in 0 .. Power(radix, n) - 1,
           NEW ds, Len(ds) = n, \A i \in 1 .. n : ds[i] = (v \div Power(radix, i - 1)) % radix
    PROVE  Number(radix, ds) = v
<1> DEFINE g == [i \in 1 .. n + 1 |-> v \div Power(radix, i - 1)]
<1>0. /\ Power(radix, 0) = 1
      /\ \A i \in Nat : Power(radix, i) \in Nat \ {0} /\ Power(radix, i + 1) = radix * Power(radix, i)
  <2>1. \A i \in Nat : i <= i
    OBVIOUS
  <2> QED BY <2>1, PowerIs, PowerGrows
<1>1. v \in Nat /\ v < Power(radix, n)
  BY <1>0
<1>2. g[n + 1] = 0
  <2>1. n + 1 \in 1 .. n + 1 /\ (n + 1) - 1 = n
    OBVIOUS
  <2>2. v \div Power(radix, n) = 0
    BY <1>0, <1>1, DivSmall
  <2> QED BY <2>1, <2>2
<1>3. ASSUME NEW i \in 1 .. n PROVE g[i] = ds[i] + radix * g[i + 1]
  <2> DEFINE p == Power(radix, i - 1)
             q == v \div p
  <2>1. i - 1 \in Nat /\ (i - 1) + 1 = i /\ (i + 1) - 1 = i /\ i \in 1 .. n + 1 /\ i + 1 \in 1 .. n + 1
    OBVIOUS
  <2>2. p \in Nat \ {0} /\ Power(radix, i) = radix * p
    BY <1>0, <2>1
  <2>3. g[i] = q /\ g[i + 1] = v \div Power(radix, i) /\ ds[i] = q % radix
    BY <2>1
  <2> HIDE DEF p
  <2>4. q \in Nat
    BY <1>1, <2>2, DivMod
  <2>5. q \div radix = v \div (radix * p)
    BY <1>1, <2>2, DivTwice
  <2> HIDE DEF q, g
  <2>6. /\ q = radix * (q \div radix) + (q % radix) /\ q % radix \in Nat
        /\ radix * (q \div radix) \in Nat
    BY <2>4, DivMod, Zenon
  <2>7. g[i + 1] = q \div radix /\ g[i] = radix * (q \div radix) + (q % radix) /\ ds[i] = q % radix
    BY <2>2, <2>3, <2>5, <2>6
  <2> QED BY <2>6, <2>7
<1>4. g = [i \in 1 .. n + 1 |-> g[i]]
  OBVIOUS
<1>5. g[1] = v
  <2>1. 1 \in 1 .. n + 1 /\ 1 - 1 = 0
    OBVIOUS
  <2> QED BY <1>0, <1>1, <2>1
<1>6. Sums(g, radix, ds, n)
  <2> HIDE DEF g
  <2> QED BY <1>2, <1>3, <1>4 DEF Sums
<1> HIDE DEF g
<1> QED BY <1>5, <1>6, NumberIs

LEMMA SumsExist ==
    ASSUME NEW radix \in Nat \ {0}, NEW n \in Nat, NEW ds, \A i \in 1 .. n : ds[i] \in 0 .. radix - 1
    PROVE  \E g : Sums(g, radix, ds, n) /\ g \in [1 .. n + 1 -> Nat]
<1> DEFINE F == [k \in Nat |-> [x \in Nat |-> IF k < n THEN ds[n - k] + radix * x ELSE 0]]
<1>1. F \in [Nat -> [Nat -> Nat]]
  <2>1. ASSUME NEW k \in Nat, NEW x \in Nat PROVE (IF k < n THEN ds[n - k] + radix * x ELSE 0) \in Nat
    <3>1. k < n => n - k \in 1 .. n
      OBVIOUS
    <3>2. k < n => ds[n - k] \in Nat
      BY <3>1
    <3>3. radix * x \in Nat
      OBVIOUS
    <3> QED BY <3>2, <3>3
  <2> QED BY <2>1
<1>2. PICK f : Solves(f, Nat, 0, F)
  <2> HIDE DEF F
  <2> QED BY <1>1, Recursion
<1>3. f \in [Nat -> Nat] /\ f[0] = 0 /\ \A k \in Nat : k < n => f[k + 1] = ds[n - k] + radix * f[k]
  BY <1>2 DEF Solves
<1> DEFINE g == [i \in 1 .. n + 1 |-> f[n + 1 - i]]
<1>4. g \in [1 .. n + 1 -> Nat]
  BY <1>3
<1>5. Sums(g, radix, ds, n)
  <2>1. g[n + 1] = 0
    BY <1>3
  <2>2. ASSUME NEW i \in 1 .. n PROVE g[i] = ds[i] + radix * g[i + 1]
    <3>1. n - i \in Nat /\ n - i < n /\ n - (n - i) = i /\ (n - i) + 1 = n + 1 - i
      OBVIOUS
    <3>2. f[(n - i) + 1] = ds[i] + radix * f[n - i]
      BY <1>3, <3>1
    <3>3. g[i] = f[n + 1 - i] /\ g[i + 1] = f[n - i]
      OBVIOUS
    <3> QED BY <3>1, <3>2, <3>3
  <2>3. g = [i \in 1 .. n + 1 |-> g[i]]
    OBVIOUS
  <2> HIDE DEF g
  <2> QED BY <2>1, <2>2, <2>3 DEF Sums
<1> HIDE DEF g
<1> QED BY <1>4, <1>5

\* So many digits stand for a number that fits in so many digits.
LEMMA NumberBound ==
    ASSUME NEW radix \in Nat \ {0}, NEW n \in Nat, NEW ds, Len(ds) = n,
           \A i \in 1 .. n : ds[i] \in 0 .. radix - 1
    PROVE  Number(radix, ds) \in 0 .. Power(radix, n) - 1
<1>0. /\ Power(radix, 0) = 1
      /\ \A i \in Nat : Power(radix, i) \in Nat /\ Power(radix, i + 1) = radix * Power(radix, i)
  BY PowerIs
<1>1. PICK g : Sums(g, radix, ds, n) /\ g \in [1 .. n + 1 -> Nat]
  BY SumsExist
<1> DEFINE f == [k \in 0 .. n |-> g[n + 1 - k]]
<1>2. /\ f[0] = 0 /\ \A k \in Nat : k <= n => f[k] \in Nat
      /\ \A k \in Nat : k < n => f[k + 1] = ds[n - k] + radix * f[k]
  <2>1. f[0] = 0
    BY <1>1 DEF Sums
  <2>2. ASSUME NEW k \in Nat, k <= n PROVE f[k] \in Nat
    <3>1. k \in 0 .. n /\ n + 1 - k \in 1 .. n + 1
      BY <2>2
    <3> QED BY <1>1, <3>1
  <2>3. ASSUME NEW k \in Nat, k < n PROVE f[k + 1] = ds[n - k] + radix * f[k]
    <3>1. k \in 0 .. n /\ k + 1 \in 0 .. n /\ n - k \in 1 .. n /\ n + 1 - (k + 1) = n - k /\ (n - k) + 1 = n + 1 - k
      BY <2>3
    <3>2. f[k + 1] = g[n - k] /\ f[k] = g[(n - k) + 1]
      BY <3>1
    <3> HIDE DEF f
    <3> QED BY <1>1, <3>1, <3>2 DEF Sums
  <2> HIDE DEF f
  <2> QED BY <2>1, <2>2, <2>3
<1>3. Number(radix, ds) = f[n]
  <2>1. f[n] = g[1]
    OBVIOUS
  <2> HIDE DEF f
  <2> QED BY <1>1, <2>1, NumberIs
<1> HIDE DEF f
<1> DEFINE T == {k \in Nat : k <= n => f[k] < Power(radix, k)}
<1>4. 0 \in T
  <2>1. f[0] = 0 /\ Power(radix, 0) = 1 /\ 0 < 1
    BY <1>0, <1>2
  <2>2. f[0] < Power(radix, 0)
    BY <2>1
  <2> QED BY <2>2
<1>5. ASSUME NEW k \in Nat, k \in T PROVE k + 1 \in T
  <2> SUFFICES ASSUME k + 1 <= n PROVE f[k + 1] < Power(radix, k + 1)
    OBVIOUS
  <2>1. k <= n /\ k < n /\ n - k \in 1 .. n
    OBVIOUS
  <2>2. f[k] \in Nat /\ Power(radix, k) \in Nat /\ f[k] < Power(radix, k)
    BY <1>0, <1>2, <1>5, <2>1
  <2>3. f[k + 1] = ds[n - k] + radix * f[k] /\ ds[n - k] \in 0 .. radix - 1
    BY <1>2, <2>1
  <2>4. f[k] + 1 <= Power(radix, k)
    BY <2>2
  <2>5. /\ radix * f[k] + radix <= radix * Power(radix, k)
        /\ radix * f[k] \in Nat /\ radix * Power(radix, k) \in Nat
    BY <2>2, <2>4, Scaled
  <2>6. Power(radix, k + 1) = radix * Power(radix, k)
    BY <1>0
  <2> QED BY <2>3, <2>5, <2>6
<1>6. n \in T
  <2> HIDE DEF T
  <2> QED BY <1>4, <1>5, InductionOnNat
<1>7. f[n] \in Nat /\ f[n] < Power(radix, n) /\ Power(radix, n) \in Nat
  <2>1. n <= n
    OBVIOUS
  <2>2. f[n] \in Nat
    BY <1>2, <2>1
  <2>3. f[n] < Power(radix, n)
    BY <1>6, <2>1
  <2> QED BY <1>0, <2>2, <2>3
<1> QED BY <1>3, <1>7

\* A number has the digits that stand for it.
LEMMA NumberDigits ==
    ASSUME NEW radix \in Nat \ {0}, NEW n \in Nat, NEW ds, Len(ds) = n,
           \A i \in 1 .. n : ds[i] \in 0 .. radix - 1
    PROVE  \A i \in 1 .. n : (Number(radix, ds) \div Power(radix, i - 1)) % radix = ds[i]
<1>0. /\ Power(radix, 0) = 1
      /\ \A i \in Nat : Power(radix, i) \in Nat \ {0} /\ Power(radix, i + 1) = radix * Power(radix, i)
  <2>1. \A i \in Nat : i <= i
    OBVIOUS
  <2> QED BY <2>1, PowerIs, PowerGrows
<1>1. PICK g : Sums(g, radix, ds, n) /\ g \in [1 .. n + 1 -> Nat]
  BY SumsExist
<1> DEFINE v == Number(radix, ds)
<1>2. v = g[1] /\ v \in Nat
  BY <1>1, NumberIs
<1> HIDE DEF v
<1>3. ASSUME NEW i \in 1 .. n PROVE g[i] \div radix = g[i + 1] /\ g[i] % radix = ds[i]
  <2> DEFINE x == g[i]
             y == g[i + 1]
             d == ds[i]
  <2>1. i + 1 \in 1 .. n + 1 /\ i \in 1 .. n + 1
    OBVIOUS
  <2>2. x = d + radix * y /\ y \in Nat /\ d \in 0 .. radix - 1
    BY <1>1, <2>1 DEF Sums
  <2> HIDE DEF x, y, d
  <2>3. x \div radix = y /\ x % radix = d
    BY <2>2, TwoDigitsOf
  <2> QED BY <2>3 DEF x, y, d
<1> DEFINE T == {k \in Nat : k <= n => v \div Power(radix, k) = g[k + 1]}
<1>4. 0 \in T
  <2>1. v \div 1 = v
    BY <1>2
  <2> QED BY <1>0, <1>2, <2>1
<1>5. ASSUME NEW k \in Nat, k \in T PROVE k + 1 \in T
  <2> SUFFICES ASSUME k + 1 <= n PROVE v \div Power(radix, k + 1) = g[(k + 1) + 1]
    OBVIOUS
  <2> DEFINE p == Power(radix, k)
  <2>1. k <= n /\ k + 1 \in 1 .. n
    OBVIOUS
  <2>2. v \div p = g[k + 1] /\ p \in Nat \ {0} /\ Power(radix, k + 1) = radix * p
    BY <1>0, <1>5, <2>1
  <2>3. g[k + 1] \div radix = g[(k + 1) + 1]
    BY <1>3, <2>1
  <2> HIDE DEF p
  <2>4. (v \div p) \div radix = v \div (radix * p)
    BY <1>2, <2>2, DivTwice
  <2> QED BY <2>2, <2>3, <2>4
<1>6. Nat \subseteq T
  <2> HIDE DEF T
  <2> QED BY <1>4, <1>5, InductionOnNat
<1>7. ASSUME NEW i \in 1 .. n PROVE (v \div Power(radix, i - 1)) % radix = ds[i]
  <2>1. i - 1 \in Nat /\ i - 1 <= n /\ (i - 1) + 1 = i
    OBVIOUS
  <2>2. v \div Power(radix, i - 1) = g[i]
    BY <1>6, <2>1
  <2> QED BY <1>3, <2>2
<1> QED BY <1>7 DEF v

-----------------------------------------------------------------------------
(* Bytes *)

\* Taking off what is in front of the rest.
LEMMA TakeOff ==
    ASSUME NEW S, NEW s \in Seq(S), NEW t \in Seq(S)
    PROVE  /\ s \o t \in Seq(S) /\ Len(s \o t) = Len(s) + Len(t)
           /\ SubSeq(s \o t, 1, Len(s)) = s
           /\ Rest(s \o t, Len(s)) = t
<1>1. /\ s \o t \in Seq(S) /\ Len(s \o t) = Len(s) + Len(t)
      /\ \A i \in 1 .. Len(s) + Len(t) : (s \o t)[i] = IF i <= Len(s) THEN s[i] ELSE t[i - Len(s)]
      /\ Len(s) \in Nat /\ Len(t) \in Nat
  BY ConcatProperties, LenProperties
<1>2. \A i \in 1 .. Len(s) + Len(t) : (s \o t)[i] \in S
  BY <1>1, ElementOfSeq
<1>3. SubSeq(s \o t, 1, Len(s)) = s
  <2>1. \A i \in 1 .. Len(s) : (s \o t)[i] \in S
    BY <1>1, <1>2
  <2>2. /\ SubSeq(s \o t, 1, Len(s)) \in Seq(S)
        /\ Len(SubSeq(s \o t, 1, Len(s))) = Len(s)
        /\ \A i \in 1 .. Len(s) : SubSeq(s \o t, 1, Len(s))[i] = (s \o t)[i]
    BY <1>1, <2>1, SubSeqProperties
  <2> QED BY <1>1, <2>2, SeqEqual
<1>4. Rest(s \o t, Len(s)) = t
  <2> DEFINE r == SubSeq(s \o t, Len(s) + 1, Len(s) + Len(t))
  <2>1. \A i \in Len(s) + 1 .. Len(s) + Len(t) : (s \o t)[i] \in S
    BY <1>1, <1>2
  <2>2. /\ r \in Seq(S) /\ Len(r) = Len(t)
        /\ \A i \in 1 .. Len(t) : r[i] = (s \o t)[Len(s) + 1 + i - 1]
    <3>1. Len(s) + 1 \in Int /\ Len(s) + Len(t) \in Int
      BY <1>1
    <3>2. /\ r \in Seq(S)
          /\ Len(r) = IF Len(s) + 1 <= Len(s) + Len(t)
                      THEN Len(s) + Len(t) - (Len(s) + 1) + 1 ELSE 0
          /\ \A i \in 1 .. Len(s) + Len(t) - (Len(s) + 1) + 1 :
               r[i] = (s \o t)[Len(s) + 1 + i - 1]
      BY <2>1, <3>1, SubSeqProperties
    <3> QED BY <1>1, <3>2
  <2>3. \A i \in 1 .. Len(t) : r[i] = t[i]
    BY <1>1, <2>2
  <2>4. r = t
    BY <2>2, <2>3, SeqEqual
  <2> QED BY <1>1, <2>4 DEF Rest
<1> QED BY <1>1, <1>3, <1>4

\* A fixed integer is so many bytes.
LEMMA FixedType ==
    ASSUME NEW v \in Nat, NEW n \in Nat
    PROVE  Fixed(v, n) \in Seq(Byte) /\ Len(Fixed(v, n)) = n
<1>1. ASSUME NEW i \in 1 .. n PROVE (v \div Power(ByteRadix, i - 1)) % ByteRadix \in Byte
  <2>1. i - 1 \in Nat /\ i - 1 <= i - 1 /\ ByteRadix \in Nat \ {0}
    BY Widths
  <2>2. Power(ByteRadix, i - 1) \in Nat \ {0}
    BY <2>1, PowerGrows
  <2>3. v \div Power(ByteRadix, i - 1) \in Nat
    BY <2>2, DivMod
  <2> QED BY <2>1, <2>3, DivMod DEF Byte
<1>2. Fixed(v, n) \in [1 .. n -> Byte]
  BY <1>1 DEF Fixed
<1> QED BY <1>2

(***************************************************************************)
(* A fixed integer that fits is read back, and what follows it is left     *)
(* (PutFixed32 and DecodeFixed32, PutFixed64 and DecodeFixed64).           *)
(***************************************************************************)
THEOREM FixedReadsBack ==
    ASSUME NEW n \in Nat, NEW v \in 0 .. Power(ByteRadix, n) - 1, NEW t \in Seq(Byte)
    PROVE  GetFixed(Fixed(v, n) \o t, n) = [ok |-> TRUE, value |-> v, rest |-> t]
<1> DEFINE f == Fixed(v, n)
<1>0. ByteRadix \in Nat \ {0} /\ v \in Nat
  <2>1. ByteRadix \in Nat \ {0} /\ ByteRadix \in Nat
    BY Widths
  <2>2. Power(ByteRadix, n) \in Nat
    BY <2>1, PowerIs
  <2> QED BY <2>1, <2>2
<1>1. f \in Seq(Byte) /\ Len(f) = n /\ \A i \in 1 .. n : f[i] = (v \div Power(ByteRadix, i - 1)) % ByteRadix
  BY <1>0, FixedType DEF Fixed
<1> HIDE DEF f
<1>2. /\ f \o t \in Seq(Byte) /\ Len(f \o t) = n + Len(t)
      /\ SubSeq(f \o t, 1, n) = f /\ Rest(f \o t, n) = t
  BY <1>1, TakeOff
<1>3. Number(ByteRadix, f) = v
  BY <1>0, <1>1, DigitsNumber
<1>4. ~(Len(f \o t) < n)
  BY <1>2
<1>5. GetFixed(f \o t, n) = [ok |-> TRUE, value |-> v, rest |-> t]
  BY <1>2, <1>3, <1>4 DEF GetFixed, Parsed
<1> QED BY <1>5 DEF f

LEMMA ModRadix ==
    ASSUME NEW r \in Nat \ {0}, NEW d \in 0 .. r - 1
    PROVE  d % r = d /\ (d + r) % r = d
OBVIOUS

\* The groups of a varint: all but the last are marked, and there are no more than may be.
LEMMA VarintIs ==
    ASSUME NEW v \in 0 .. Word - 1
    PROVE  \E n \in 1 .. VarintBytes :
             /\ v \in 0 .. Power(Radix, n) - 1
             /\ Varint(v) \in Seq(Byte) /\ Len(Varint(v)) = n
             /\ \A i \in 1 .. n : Varint(v)[i] % Radix = (v \div Power(Radix, i - 1)) % Radix
             /\ \A i \in 1 .. n : Varint(v)[i] < Radix <=> i = n
<1> DEFINE fits == {m \in 1 .. VarintBytes : v < Power(Radix, m)}
           n == Min(fits)
           group(i) == (v \div Power(Radix, i - 1)) % Radix
           bytes == [i \in 1 .. n |-> group(i) + (IF i < n THEN Radix ELSE 0)]
<1>1. /\ v \in Nat /\ v < Word /\ Word <= Power(Radix, VarintBytes) /\ VarintBytes \in Nat \ {0}
      /\ Radix \in Nat \ {0} /\ ByteRadix = 2 * Radix /\ Word \in Nat
  BY Widths
<1>2. \A i \in Nat : Power(Radix, i) \in Nat \ {0}
  <2>1. \A i \in Nat : i <= i
    OBVIOUS
  <2> QED BY <1>1, <2>1, PowerGrows
<1>3. VarintBytes \in fits
  BY <1>1, <1>2
<1>4. fits \subseteq Nat
  OBVIOUS
<1>5. n \in fits
  <2> HIDE DEF fits
  <2> QED BY <1>3, <1>4, LeastIs
<1>6. n \in 1 .. VarintBytes /\ v \in 0 .. Power(Radix, n) - 1
  <2>1. n \in 1 .. VarintBytes /\ v < Power(Radix, n)
    BY <1>5
  <2>2. Power(Radix, n) \in Nat
    BY <1>1, <1>2, <2>1
  <2> HIDE DEF n
  <2> QED BY <1>1, <2>1, <2>2
<1>7. Varint(v) = bytes
  BY DEF Varint
<1> HIDE DEF n, fits
<1>8. ASSUME NEW i \in 1 .. n PROVE group(i) \in 0 .. Radix - 1
  <2>1. i - 1 \in Nat
    BY <1>6
  <2>2. v \div Power(Radix, i - 1) \in Nat
    BY <1>1, <1>2, <2>1, DivMod
  <2> QED BY <1>1, <2>2, DivMod
<1> HIDE DEF group
<1>9. ASSUME NEW i \in 1 .. n
      PROVE  bytes[i] \in Byte /\ bytes[i] % Radix = group(i) /\ (bytes[i] < Radix <=> i = n)
  <2>1. group(i) \in 0 .. Radix - 1
    BY <1>8
  <2>2. group(i) % Radix = group(i) /\ (group(i) + Radix) % Radix = group(i)
    BY <1>1, <2>1, ModRadix
  <2>3. CASE i < n
    <3>1. bytes[i] = group(i) + Radix /\ i # n
      BY <1>6, <2>3
    <3> HIDE DEF bytes
    <3> QED BY <1>1, <2>1, <2>2, <3>1 DEF Byte
  <2>4. CASE i = n
    <3>1. bytes[i] = group(i)
      BY <1>1, <1>6, <2>1, <2>4
    <3> HIDE DEF bytes
    <3> QED BY <1>1, <2>1, <2>2, <2>4, <3>1 DEF Byte
  <2> QED BY <1>6, <2>3, <2>4
<1>10. bytes \in Seq(Byte) /\ Len(bytes) = n
  <2>1. bytes \in [1 .. n -> Byte]
    BY <1>9
  <2>2. n \in Nat
    BY <1>6
  <2> HIDE DEF bytes
  <2> QED BY <2>1, <2>2
<1> HIDE DEF bytes
<1> QED BY <1>6, <1>7, <1>9, <1>10 DEF group

(***************************************************************************)
(* A varint is read back, and what follows it is left: whatever the value, *)
(* and whether the next bytes look like a group or not (PutVarint32 and    *)
(* GetVarint32Ptr).                                                        *)
(***************************************************************************)
THEOREM VarintReadsBack ==
    ASSUME NEW v \in 0 .. Word - 1, NEW t \in Seq(Byte)
    PROVE  GetVarint(Varint(v) \o t) = [ok |-> TRUE, value |-> v, rest |-> t]
<1> DEFINE b == Varint(v)
           s == b \o t
           last == {i \in DOMAIN s : i <= VarintBytes /\ s[i] < Radix}
<1>1. PICK n \in 1 .. VarintBytes :
        /\ v \in 0 .. Power(Radix, n) - 1
        /\ b \in Seq(Byte) /\ Len(b) = n
        /\ \A i \in 1 .. n : b[i] % Radix = (v \div Power(Radix, i - 1)) % Radix
        /\ \A i \in 1 .. n : b[i] < Radix <=> i = n
  BY VarintIs
<1>0. n \in Nat /\ n >= 1 /\ n <= VarintBytes /\ VarintBytes \in Nat /\ Radix \in Nat \ {0} /\ Word \in Nat \ {0}
  BY Widths
<1> HIDE DEF b
<1>2. /\ s \in Seq(Byte) /\ Len(s) = n + Len(t) /\ Rest(s, n) = t
      /\ Len(t) \in Nat
  BY <1>1, TakeOff, LenProperties
<1>3. \A i \in 1 .. n : s[i] = b[i] /\ i \in DOMAIN s
  BY <1>1, <1>2, ConcatProperties
<1> HIDE DEF s
<1>4. n \in last
  BY <1>0, <1>1, <1>3
<1>5. last \subseteq Nat
  BY <1>2
<1>6. Min(last) \in last /\ \A y \in last : Min(last) <= y
  <2> HIDE DEF last
  <2> QED BY <1>4, <1>5, LeastIs
<1>7. Min(last) = n
  <2>1. Min(last) \in Nat /\ Min(last) <= n /\ Min(last) \in DOMAIN s /\ s[Min(last)] < Radix
    BY <1>4, <1>5, <1>6
  <2>2. Min(last) \in 1 .. n
    BY <1>2, <2>1
  <2> QED BY <1>1, <1>3, <2>1, <2>2
<1> DEFINE ds == [i \in 1 .. n |-> s[i] % Radix]
<1>8. Len(ds) = n /\ \A i \in 1 .. n : ds[i] = (v \div Power(Radix, i - 1)) % Radix
  BY <1>0, <1>1, <1>3
<1>9. Number(Radix, ds) = v
  <2> HIDE DEF ds
  <2> QED BY <1>0, <1>1, <1>8, DigitsNumber
<1>10. v % Word = v
  BY <1>0, DivSmall
<1>11. GetVarint(s) = Parsed(s, n, v)
  <2>1. last # {}
    BY <1>4
  <2>2. GetVarint(s) = Parsed(s, Min(last), Number(Radix, [i \in 1 .. Min(last) |-> s[i] % Radix]) % Word)
    BY <2>1 DEF GetVarint
  <2> HIDE DEF last
  <2> QED BY <1>7, <1>9, <1>10, <2>2
<1> QED BY <1>2, <1>11 DEF Parsed, s, b

LEMMA LengthPrefixedType ==
    ASSUME NEW d \in Seq(Byte), Len(d) < Word
    PROVE  LengthPrefixed(d) \in Seq(Byte)
<1>1. Len(d) \in 0 .. Word - 1 /\ Len(d) % Word = Len(d)
  BY Widths, LenProperties, DivSmall
<1>2. Varint(Len(d)) \in Seq(Byte)
  BY <1>1, VarintIs
<1> QED BY <1>1, <1>2, ConcatProperties DEF LengthPrefixed

(***************************************************************************)
(* A byte string behind its length is read back, and what follows it is    *)
(* left, where the length fits (PutLengthPrefixedSlice and                 *)
(* GetLengthPrefixedSlice).                                                *)
(***************************************************************************)
THEOREM LengthPrefixedReadsBack ==
    ASSUME NEW d \in Seq(Byte), Len(d) < Word, NEW t \in Seq(Byte)
    PROVE  GetLengthPrefixed(LengthPrefixed(d) \o t) = [ok |-> TRUE, value |-> d, rest |-> t]
<1>1. Len(d) \in 0 .. Word - 1 /\ Len(d) % Word = Len(d) /\ Len(d) \in Nat /\ Len(t) \in Nat
  BY Widths, LenProperties, DivSmall
<1>2. Varint(Len(d)) \in Seq(Byte)
  BY <1>1, VarintIs
<1>3. d \o t \in Seq(Byte) /\ Len(d \o t) = Len(d) + Len(t) /\ SubSeq(d \o t, 1, Len(d)) = d
      /\ Rest(d \o t, Len(d)) = t
  BY TakeOff
<1>4. LengthPrefixed(d) \o t = Varint(Len(d)) \o (d \o t)
  <2>1. LengthPrefixed(d) = Varint(Len(d)) \o d
    BY <1>1 DEF LengthPrefixed
  <2>2. (Varint(Len(d)) \o d) \o t = Varint(Len(d)) \o (d \o t)
    BY <1>2, ConcatAssociative
  <2> QED BY <2>1, <2>2
<1>5. GetVarint(LengthPrefixed(d) \o t) = [ok |-> TRUE, value |-> Len(d), rest |-> d \o t]
  BY <1>1, <1>3, <1>4, VarintReadsBack
<1>6. ~(Len(d) > Len(d \o t))
  BY <1>1, <1>3
<1> DEFINE g == GetVarint(LengthPrefixed(d) \o t)
<1>7. g.ok /\ g.value = Len(d) /\ g.rest = d \o t
  BY <1>5
<1>8. GetLengthPrefixed(LengthPrefixed(d) \o t)
        = IF ~g.ok THEN Malformed
          ELSE IF g.value > Len(g.rest) THEN Malformed
          ELSE Parsed(g.rest, g.value, SubSeq(g.rest, 1, g.value))
  BY DEF GetLengthPrefixed
<1> HIDE DEF g
<1>9. GetLengthPrefixed(LengthPrefixed(d) \o t) = Parsed(d \o t, Len(d), SubSeq(d \o t, 1, Len(d)))
  BY <1>6, <1>7, <1>8
<1> QED BY <1>3, <1>9 DEF Parsed

-----------------------------------------------------------------------------
(* The checksum *)

LEMMA XorIs ==
    ASSUME NEW a \in Nat, NEW b \in Nat
    PROVE  Xor(a, b) \in 0 .. Word - 1
<1> DEFINE ds == [i \in 1 .. WordBits |->
                    ((a \div Power(2, i - 1)) + (b \div Power(2, i - 1))) % 2]
<1>1. WordBits \in Nat /\ Word = Power(2, WordBits)
  BY Widths
<1>2. ASSUME NEW i \in 1 .. WordBits PROVE ds[i] \in 0 .. 2 - 1
  <2>1. i - 1 \in Nat /\ i - 1 <= i - 1
    BY <1>1
  <2>2. Power(2, i - 1) \in Nat \ {0}
    BY <2>1, PowerGrows
  <2>3. a \div Power(2, i - 1) \in Nat /\ b \div Power(2, i - 1) \in Nat
    BY <2>2, DivMod
  <2>4. (a \div Power(2, i - 1)) + (b \div Power(2, i - 1)) \in Nat
    BY <2>3
  <2>5. ds[i] = ((a \div Power(2, i - 1)) + (b \div Power(2, i - 1))) % 2
    OBVIOUS
  <2> QED BY <2>4, <2>5, DivMod
<1>3. Len(ds) = WordBits
  BY <1>1
<1>4. Xor(a, b) = Number(2, ds)
  BY DEF Xor
<1> HIDE DEF ds
<1>5. Number(2, ds) \in 0 .. Power(2, WordBits) - 1
  BY <1>1, <1>2, <1>3, NumberBound
<1> QED BY <1>1, <1>4, <1>5

LEMMA CrcBitIs ==
    ASSUME NEW c \in Nat
    PROVE  CrcBit(c) \in Nat
<1>1. c \div 2 \in Nat /\ CrcPoly \in Nat /\ Word \in Nat
  BY Widths, DivMod
<1>2. Xor(CrcPoly, c \div 2) \in Nat
  BY <1>1, XorIs
<1> QED BY <1>1, <1>2 DEF CrcBit

LEMMA CrcTableIs ==
    ASSUME NEW n \in Byte
    PROVE  CrcTable[n] \in Nat
<1> DEFINE m == GroupBits + 1
           Equation(c) == c = [i \in 0 .. m |-> IF i = 0 THEN n ELSE CrcBit(c[i - 1])]
           c == CHOOSE d : Equation(d)
           F == [i \in Nat |-> [x \in Nat |-> CrcBit(x)]]
<1>1. m \in Nat /\ n \in Nat
  BY Widths DEF Byte
<1>2. F \in [Nat -> [Nat -> Nat]]
  BY CrcBitIs
<1>3. PICK f : Solves(f, Nat, n, F)
  <2> HIDE DEF F
  <2> QED BY <1>1, <1>2, Recursion
<1>4. f[0] = n /\ \A i \in Nat : f[i + 1] = CrcBit(f[i])
  BY <1>3 DEF Solves
<1> DEFINE g == [i \in 0 .. m |-> f[i]]
<1>5. Equation(g)
  <2> SUFFICES ASSUME NEW i \in 0 .. m PROVE g[i] = IF i = 0 THEN n ELSE CrcBit(g[i - 1])
    BY Zenon
  <2>1. CASE i = 0
    BY <1>4, <2>1
  <2>2. CASE i # 0
    <3>1. i - 1 \in Nat /\ i - 1 \in 0 .. m /\ (i - 1) + 1 = i
      BY <1>1, <2>2
    <3>2. f[(i - 1) + 1] = CrcBit(f[i - 1])
      BY <1>4, <3>1
    <3> QED BY <2>2, <3>1, <3>2
  <2> QED BY <2>1, <2>2
<1>6. Equation(c)
  <2> HIDE DEF g
  <2> QED BY <1>5
<1>7. CrcTable[n] = c[m]
  BY DEF CrcTable
<1> HIDE DEF c
<1>8. \A i \in 0 .. m : c[i] = IF i = 0 THEN n ELSE CrcBit(c[i - 1])
  BY <1>6
<1> DEFINE T == {i \in Nat : i <= m => c[i] \in Nat}
<1>9. 0 \in T
  BY <1>1, <1>8
<1>10. ASSUME NEW i \in Nat, i \in T PROVE i + 1 \in T
  <2> SUFFICES ASSUME i + 1 <= m PROVE c[i + 1] \in Nat
    OBVIOUS
  <2>1. i <= m /\ i + 1 \in 0 .. m /\ i + 1 # 0 /\ (i + 1) - 1 = i
    BY <1>1
  <2>2. c[i] \in Nat /\ c[i + 1] = CrcBit(c[i])
    BY <1>8, <1>10, <2>1
  <2> QED BY <2>2, CrcBitIs
<1>11. m \in T
  <2> HIDE DEF T, m
  <2> QED BY <1>1, <1>9, <1>10, InductionOnNat
<1> QED BY <1>1, <1>7, <1>11

LEMMA CrcStepIs ==
    ASSUME NEW c \in 0 .. Word - 1, NEW b \in Byte
    PROVE  CrcStep[c][b] \in 0 .. Word - 1
<1>1. c \in Nat /\ b \in Nat /\ ByteRadix \in Nat \ {0} /\ Word \in Nat
  BY Widths DEF Byte
<1>2. Xor(c, b) \in Nat
  <2>1. Xor(c, b) \in 0 .. Word - 1
    BY <1>1, XorIs
  <2> QED BY <2>1
<1>3. Xor(c, b) % ByteRadix \in Byte
  BY <1>1, <1>2, DivMod DEF Byte
<1>4. CrcTable[Xor(c, b) % ByteRadix] \in Nat /\ c \div ByteRadix \in Nat
  BY <1>1, <1>3, CrcTableIs, DivMod
<1>5. CrcByte(c, b) \in 0 .. Word - 1
  BY <1>4, XorIs DEF CrcByte
<1> QED BY <1>5 DEF CrcStep

\* A checksum is a word: it fits into the fixed32 it is written to.
LEMMA CrcIs ==
    ASSUME NEW s \in Seq(Byte)
    PROVE  Crc(s) \in 0 .. Word - 1
<1> DEFINE n == Len(s)
           W == 0 .. Word - 1
           Equation(r) ==
             r = [i \in 0 .. n |-> IF i = 0 THEN Word - 1 ELSE CrcStep[r[i - 1]][s[i]]]
           r == CHOOSE q : Equation(q)
           F == [i \in Nat |-> [x \in W |-> IF i < n THEN CrcStep[x][s[i + 1]] ELSE x]]
<1>1. n \in Nat /\ Word - 1 \in W /\ Word \in Nat \ {0} /\ \A i \in 1 .. n : s[i] \in Byte
  BY Widths, LenProperties, ElementOfSeq
<1> HIDE DEF n
<1>2. F \in [Nat -> [W -> W]]
  <2>1. ASSUME NEW i \in Nat, NEW x \in W PROVE (IF i < n THEN CrcStep[x][s[i + 1]] ELSE x) \in W
    <3>1. i < n => s[i + 1] \in Byte
      BY <1>1
    <3>2. i < n => CrcStep[x][s[i + 1]] \in W
      BY <3>1, CrcStepIs
    <3> QED BY <3>2
  <2> HIDE DEF W
  <2> QED BY <2>1
<1>3. PICK f : Solves(f, W, Word - 1, F)
  <2> HIDE DEF F, W
  <2> QED BY <1>1, <1>2, Recursion
<1>4. f \in [Nat -> W] /\ f[0] = Word - 1 /\ \A i \in Nat : i < n => f[i + 1] = CrcStep[f[i]][s[i + 1]]
  <2> HIDE DEF W
  <2> QED BY <1>3 DEF Solves
<1> DEFINE g == [i \in 0 .. n |-> f[i]]
<1>5. Equation(g)
  <2> SUFFICES ASSUME NEW i \in 0 .. n
               PROVE  g[i] = IF i = 0 THEN Word - 1 ELSE CrcStep[g[i - 1]][s[i]]
    BY Zenon
  <2>1. CASE i = 0
    BY <1>4, <2>1
  <2>2. CASE i # 0
    <3>1. i - 1 \in Nat /\ i - 1 < n /\ i - 1 \in 0 .. n /\ (i - 1) + 1 = i
      BY <1>1, <2>2
    <3>2. f[(i - 1) + 1] = CrcStep[f[i - 1]][s[(i - 1) + 1]]
      BY <1>4, <3>1
    <3> QED BY <2>2, <3>1, <3>2
  <2> QED BY <2>1, <2>2
<1>6. Equation(r)
  <2> HIDE DEF g
  <2> QED BY <1>5
<1>7. Crc(s) = Word - 1 - r[n]
  BY DEF Crc, n
<1> HIDE DEF r, F
<1>8. \A i \in 0 .. n : r[i] = IF i = 0 THEN Word - 1 ELSE CrcStep[r[i - 1]][s[i]]
  BY <1>6
<1> DEFINE T == {i \in Nat : i <= n => r[i] \in W}
<1>9. 0 \in T
  BY <1>1, <1>8
<1>10. ASSUME NEW i \in Nat, i \in T PROVE i + 1 \in T
  <2> SUFFICES ASSUME i + 1 <= n PROVE r[i + 1] \in W
    OBVIOUS
  <2>1. i <= n /\ i + 1 \in 0 .. n /\ i + 1 \in 1 .. n /\ i + 1 # 0 /\ (i + 1) - 1 = i
    BY <1>1
  <2>2. r[i] \in W /\ r[i + 1] = CrcStep[r[i]][s[i + 1]] /\ s[i + 1] \in Byte
    BY <1>1, <1>8, <1>10, <2>1
  <2> QED BY <2>2, CrcStepIs
<1>11. n \in T
  <2> HIDE DEF T
  <2> QED BY <1>1, <1>9, <1>10, InductionOnNat
<1> QED BY <1>1, <1>7, <1>11

\* A number of two digits, in mixed radix.
LEMMA TwoDigits ==
    ASSUME NEW u \in Nat \ {0}, NEW q \in 0 .. u - 1, NEW r \in Nat
    PROVE  (q + r * u) \div u = r /\ (q + r * u) % u = q /\ q + r * u \in Nat
OBVIOUS

LEMMA BelowProduct ==
    ASSUME NEW p \in Nat \ {0}, NEW u \in Nat \ {0}, NEW q \in 0 .. u - 1, NEW r \in 0 .. p - 1
    PROVE  q + r * u < p * u
<1>1. r + 1 <= p /\ r \in Nat /\ q \in Nat /\ q < u
  OBVIOUS
<1>2. u * r + u <= u * p /\ u * r \in Nat /\ u * p \in Nat
  BY <1>1, Scaled
<1>3. r * u = u * r /\ p * u = u * p
  BY <1>1
<1> QED BY <1>1, <1>2, <1>3

LEMMA ModMultiple ==
    ASSUME NEW w \in Nat \ {0}, NEW r \in 0 .. w - 1, NEW k \in Int
    PROVE  (r + w * k) % w = r
OBVIOUS

LEMMA AddThenTake ==
    ASSUME NEW w \in Nat \ {0}, NEW r \in 0 .. w - 1, NEW d \in Nat
    PROVE  (((r + d) % w) - d) % w = r
<1> DEFINE q == (r + d) \div w
           m == (r + d) % w
<1>1. r + d \in Nat
  OBVIOUS
<1>2. q \in Nat /\ m \in Nat /\ w * q \in Nat /\ r + d = w * q + m
  BY <1>1, DivMod
<1> HIDE DEF q, m
<1> DEFINE k == -q
<1>3. k \in Int /\ m - d = r + w * k
  BY <1>2
<1> HIDE DEF k
<1>4. (r + w * k) % w = r
  BY <1>3, ModMultiple
<1>5. (m - d) % w = r
  BY <1>3, <1>4
<1> QED BY <1>5 DEF m

(***************************************************************************)
(* What Mask makes of a checksum, Unmask undoes (CRC32C::Mask, Unmask).    *)
(***************************************************************************)
LEMMA UnmaskMask ==
    ASSUME NEW c \in 0 .. Word - 1
    PROVE  Mask(c) \in 0 .. Word - 1 /\ Unmask(Mask(c)) = c
<1> DEFINE p == Power(2, MaskShift)
           u == Word \div p
           q == c \div p
           r == c % p
           rot == q + r * u
<1>1. /\ MaskShift \in Nat /\ WordBits - MaskShift \in Nat /\ MaskShift + (WordBits - MaskShift) = WordBits
      /\ MaskDelta \in Nat /\ Word \in Nat \ {0} /\ c \in Nat /\ c < Word
  BY Widths, CodingAssumption
<1>2. p \in Nat \ {0} /\ Power(2, WordBits - MaskShift) \in Nat \ {0}
  <2>1. MaskShift <= MaskShift /\ WordBits - MaskShift <= WordBits - MaskShift
    BY <1>1
  <2> QED BY <1>1, <2>1, PowerGrows
<1>3. Word = p * Power(2, WordBits - MaskShift)
  BY <1>1, Widths, PowerSum
<1>4. u = Power(2, WordBits - MaskShift) /\ u \in Nat \ {0} /\ Word = p * u
  <2> DEFINE x == Power(2, WordBits - MaskShift)
  <2>1. (0 + x * p) \div p = x
    <3>1. 0 \in 0 .. p - 1 /\ x \in Nat
      BY <1>2
    <3> HIDE DEF p, x
    <3> QED BY <1>2, <3>1, TwoDigits
  <2>2. 0 + x * p = p * x
    <3>1. p \in Nat /\ x \in Nat
      BY <1>2
    <3> HIDE DEF p, x
    <3> QED BY <3>1
  <2> QED BY <1>2, <1>3, <2>1, <2>2
<1> HIDE DEF p, u
<1>5. q \in Nat /\ r \in 0 .. p - 1 /\ c = p * q + r /\ p * q \in Nat
  <2>1. /\ q \in Nat /\ r \in Nat /\ r < p /\ p * q \in Nat
        /\ c = p * q + r
    BY <1>1, <1>2, DivMod
  <2> HIDE DEF q, r
  <2> QED BY <1>2, <2>1
<1> HIDE DEF q, r
<1>6. q \in 0 .. u - 1
  <2>1. SUFFICES ASSUME u <= q PROVE FALSE
    BY <1>4, <1>5
  <2>2. p * u <= p * q
    BY <1>2, <1>4, <1>5, <2>1
  <2> QED BY <1>1, <1>2, <1>4, <1>5, <2>2
<1>7. rot \div u = r /\ rot % u = q /\ rot \in Nat /\ rot < p * u
  <2>1. rot \div u = r /\ rot % u = q /\ rot \in Nat
    <3>1. u \in Nat \ {0} /\ q \in 0 .. u - 1 /\ r \in Nat
      BY <1>2, <1>4, <1>5, <1>6
    <3> QED BY <3>1, TwoDigits
  <2>2. rot < p * u
    BY <1>2, <1>4, <1>5, <1>6, BelowProduct
  <2> QED BY <2>1, <2>2
<1>8. rot \in 0 .. Word - 1
  BY <1>1, <1>4, <1>7
<1>9. Mask(c) = (rot + MaskDelta) % Word
  BY DEF Mask, p, q, r, u
<1> HIDE DEF rot
<1>10. Mask(c) \in 0 .. Word - 1
  <2>1. rot + MaskDelta \in Nat
    BY <1>1, <1>7
  <2> QED BY <1>1, <1>9, <2>1, DivMod
<1>11. (Mask(c) - MaskDelta) % Word = rot
  BY <1>1, <1>8, <1>9, AddThenTake
<1>12. Unmask(Mask(c)) = (rot \div u) + (rot % u) * p
  BY <1>11 DEF Unmask, u, p
<1>13. r + q * p = c
  BY <1>2, <1>5
<1> QED BY <1>7, <1>10, <1>12, <1>13

-----------------------------------------------------------------------------
(* Flattening *)

\* What is left of a flattened sequence behind its first elements.
SuffixesOf(h, S, ss, n) ==
    /\ h \in [1 .. n + 1 -> Seq(S)]
    /\ h[n + 1] = << >>
    /\ \A i \in 1 .. n : h[i] = ss[i] \o h[i + 1]

LEMMA SuffixesExist ==
    ASSUME NEW S, NEW n \in Nat, NEW ss \in [1 .. n -> Seq(S)]
    PROVE  \E h : SuffixesOf(h, S, ss, n)
<1> DEFINE F == [k \in Nat |-> [x \in Seq(S) |-> IF k < n THEN ss[n - k] \o x ELSE x]]
<1>1. F \in [Nat -> [Seq(S) -> Seq(S)]]
  <2>1. ASSUME NEW k \in Nat, NEW x \in Seq(S) PROVE (IF k < n THEN ss[n - k] \o x ELSE x) \in Seq(S)
    <3>1. k < n => ss[n - k] \in Seq(S)
      OBVIOUS
    <3>2. k < n => ss[n - k] \o x \in Seq(S)
      BY <3>1, ConcatProperties
    <3> QED BY <3>2
  <2> QED BY <2>1
<1>2. << >> \in Seq(S)
  OBVIOUS
<1>3. PICK f : Solves(f, Seq(S), << >>, F)
  <2> HIDE DEF F
  <2> QED BY <1>1, <1>2, Recursion
<1>4. f \in [Nat -> Seq(S)] /\ f[0] = << >> /\ \A k \in Nat : k < n => f[k + 1] = ss[n - k] \o f[k]
  BY <1>3 DEF Solves
<1> DEFINE h == [i \in 1 .. n + 1 |-> f[n + 1 - i]]
<1>5. h \in [1 .. n + 1 -> Seq(S)]
  <2>1. ASSUME NEW i \in 1 .. n + 1 PROVE f[n + 1 - i] \in Seq(S)
    <3>1. n + 1 - i \in Nat
      OBVIOUS
    <3> QED BY <1>4, <3>1
  <2> QED BY <2>1
<1>6. h[n + 1] = << >>
  <2>1. n + 1 \in 1 .. n + 1 /\ n + 1 - (n + 1) = 0
    OBVIOUS
  <2> QED BY <1>4, <2>1
<1>7. ASSUME NEW i \in 1 .. n PROVE h[i] = ss[i] \o h[i + 1]
  <2>1. /\ n - i \in Nat /\ n - i < n /\ n - (n - i) = i /\ (n - i) + 1 = n + 1 - i
        /\ n + 1 - (i + 1) = n - i /\ i \in 1 .. n + 1 /\ i + 1 \in 1 .. n + 1
    OBVIOUS
  <2>2. f[(n - i) + 1] = ss[n - (n - i)] \o f[n - i]
    BY <1>4, <2>1
  <2> QED BY <2>1, <2>2
<1> HIDE DEF h
<1>8. SuffixesOf(h, S, ss, n)
  BY <1>5, <1>6, <1>7 DEF SuffixesOf
<1> QED BY <1>8

LEMMA FlattenIs ==
    ASSUME NEW S, NEW n \in Nat, NEW ss \in [1 .. n -> Seq(S)], NEW h, SuffixesOf(h, S, ss, n)
    PROVE  FlattenSeq(ss) = h[1] /\ FlattenSeq(ss) \in Seq(S)
<1>0. /\ \A i \in 1 .. n + 1 : h[i] \in Seq(S)
      /\ h[n + 1] = << >> /\ \A i \in 1 .. n : h[i] = ss[i] \o h[i + 1]
  BY DEF SuffixesOf
<1>1. ss \in Seq(Seq(S)) /\ Len(ss) = n
  OBVIOUS
<1>2. h[1] \in Seq(S)
  BY <1>0
<1>3. CASE n = 0
  <2>1. FlattenSeq(ss) = ss
    BY <1>1, <1>3 DEF FlattenSeq
  <2>2. ss = << >>
    BY <1>1, <1>3, EmptySeq
  <2>3. h[1] = << >>
    BY <1>0, <1>3
  <2> QED BY <1>2, <2>1, <2>2, <2>3
<1>4. CASE n # 0
  <2> DEFINE Equation(f) == f = [i \in 1 .. n |-> IF i = 1 THEN ss[i] ELSE f[i - 1] \o ss[i]]
             f == CHOOSE g : Equation(g)
             F == [k \in Nat |-> [x \in Seq(S) |-> IF k + 2 <= n THEN x \o ss[k + 2] ELSE x]]
  <2>1. F \in [Nat -> [Seq(S) -> Seq(S)]]
    <3>1. ASSUME NEW k \in Nat, NEW x \in Seq(S)
          PROVE  (IF k + 2 <= n THEN x \o ss[k + 2] ELSE x) \in Seq(S)
      <4>1. k + 2 <= n => ss[k + 2] \in Seq(S)
        OBVIOUS
      <4>2. k + 2 <= n => x \o ss[k + 2] \in Seq(S)
        BY <4>1, ConcatProperties
      <4> QED BY <4>2
    <3> QED BY <3>1
  <2>2. ss[1] \in Seq(S)
    BY <1>4
  <2>3. PICK p : Solves(p, Seq(S), ss[1], F)
    <3> HIDE DEF F
    <3> QED BY <2>1, <2>2, Recursion
  <2>4. /\ p \in [Nat -> Seq(S)] /\ p[0] = ss[1]
        /\ \A k \in Nat : k + 2 <= n => p[k + 1] = p[k] \o ss[k + 2]
    BY <2>3 DEF Solves
  <2> DEFINE g == [i \in 1 .. n |-> p[i - 1]]
  <2>5. Equation(g)
    <3> SUFFICES ASSUME NEW i \in 1 .. n PROVE g[i] = IF i = 1 THEN ss[i] ELSE g[i - 1] \o ss[i]
      BY Zenon
    <3>1. CASE i = 1
      BY <2>4, <3>1
    <3>2. CASE i # 1
      <4>1. i - 2 \in Nat /\ (i - 2) + 2 = i /\ (i - 2) + 1 = i - 1 /\ i - 1 \in 1 .. n /\ (i - 1) - 1 = i - 2
            /\ (i - 2) + 2 <= n
        BY <3>2
      <4>2. p[(i - 2) + 1] = p[i - 2] \o ss[(i - 2) + 2]
        BY <2>4, <4>1
      <4> QED BY <3>2, <4>1, <4>2
    <3> QED BY <3>1, <3>2
  <2>6. Equation(f)
    <3> HIDE DEF g
    <3> QED BY <2>5
  <2>7. FlattenSeq(ss) = f[n]
    BY <1>1, <1>4 DEF FlattenSeq
  <2> HIDE DEF f, F
  <2>8. \A i \in 1 .. n : f[i] = IF i = 1 THEN ss[i] ELSE f[i - 1] \o ss[i]
    BY <2>6
  <2> DEFINE T == {k \in Nat : k + 1 <= n => f[k + 1] \in Seq(S) /\ f[k + 1] \o h[k + 2] = h[1]}
  <2>9. 0 \in T
    <3>1. 0 + 1 = 1 /\ 0 + 2 = 1 + 1 /\ 1 \in 1 .. n
      BY <1>4
    <3>2. f[1] = ss[1] /\ h[1] = ss[1] \o h[1 + 1]
      BY <1>0, <2>8, <3>1
    <3> QED BY <2>2, <3>1, <3>2
  <2>10. ASSUME NEW k \in Nat, k \in T PROVE k + 1 \in T
    <3>0. k + 1 \in Nat
      OBVIOUS
    <3> SUFFICES ASSUME (k + 1) + 1 <= n
                 PROVE  f[(k + 1) + 1] \in Seq(S) /\ f[(k + 1) + 1] \o h[(k + 1) + 2] = h[1]
      BY <3>0, Zenon
    <3> DEFINE i == k + 2
    <3>1. /\ i \in 1 .. n /\ i # 1 /\ i - 1 = k + 1 /\ (k + 1) + 1 = i /\ (k + 1) + 2 = i + 1
          /\ k + 1 <= n /\ i \in 1 .. n + 1 /\ i + 1 \in 1 .. n + 1
      OBVIOUS
    <3>2. f[k + 1] \in Seq(S) /\ f[k + 1] \o h[i] = h[1]
      BY <2>10, <3>1
    <3> HIDE DEF i
    <3>3. f[i] = f[k + 1] \o ss[i] /\ h[i] = ss[i] \o h[i + 1] /\ ss[i] \in Seq(S) /\ h[i + 1] \in Seq(S)
      BY <1>0, <2>8, <3>1
    <3>4. (f[k + 1] \o ss[i]) \o h[i + 1] = f[k + 1] \o (ss[i] \o h[i + 1])
      <4> DEFINE a == f[k + 1]
                 b == ss[i]
                 c == h[i + 1]
      <4>1. a \in Seq(S) /\ b \in Seq(S) /\ c \in Seq(S)
        BY <3>2, <3>3
      <4> HIDE DEF a, b, c
      <4>2. (a \o b) \o c = a \o (b \o c)
        BY <4>1, ConcatAssociative
      <4> QED BY <4>2 DEF a, b, c
    <3>5. f[k + 1] \o ss[i] \in Seq(S)
      BY <3>2, <3>3, ConcatProperties
    <3> QED BY <3>1, <3>2, <3>3, <3>4, <3>5
  <2>11. n - 1 \in T
    <3>1. n - 1 \in Nat
      BY <1>4
    <3> HIDE DEF T
    <3> QED BY <2>9, <2>10, <3>1, InductionOnNat
  <2>12. f[n] \in Seq(S) /\ f[n] \o h[n + 1] = h[1]
    <3>1. (n - 1) + 1 = n /\ (n - 1) + 2 = n + 1 /\ (n - 1) + 1 <= n
      OBVIOUS
    <3> QED BY <2>11, <3>1
  <2>13. f[n] = h[1]
    BY <1>0, <2>12, ConcatEmptySeq
  <2> QED BY <1>2, <2>7, <2>13
<1> QED BY <1>3, <1>4

\* What is put together from bytes is bytes, and may be taken apart from the front.
Associate(x, y, z) == (x \o y) \o z = x \o (y \o z)

LEMMA Joined ==
    \A x, y \in Seq(Byte) :
       /\ x \o y \in Seq(Byte) /\ Len(x \o y) = Len(x) + Len(y) /\ Len(x) \in Nat /\ Len(y) \in Nat
       /\ \A z \in Seq(Byte) : Associate(x, y, z)
BY ConcatProperties, LenProperties, ConcatAssociative DEF Associate

TakenApart(a, b, c, d, t) ==
    /\ ((a \o b) \o c) \o d \in Seq(Byte)
    /\ (((a \o b) \o c) \o d) \o t = a \o (b \o (c \o (d \o t)))
    /\ Len(a \o (b \o (c \o (d \o t)))) = Len(a) + Len(b) + Len(c) + Len(d) + Len(t)
    /\ Len(c) \in Nat /\ Len(d) \in Nat /\ Len(t) \in Nat
    /\ d \o t \in Seq(Byte) /\ c \o (d \o t) \in Seq(Byte) /\ b \o (c \o (d \o t)) \in Seq(Byte)

LEMMA Joined4 ==
    ASSUME NEW a, NEW b, NEW c, NEW d, NEW t,
           a \in Seq(Byte), b \in Seq(Byte), c \in Seq(Byte), d \in Seq(Byte), t \in Seq(Byte)
    PROVE  TakenApart(a, b, c, d, t)
<1>1. /\ d \o t \in Seq(Byte) /\ a \o b \in Seq(Byte) /\ Len(d \o t) = Len(d) + Len(t)
      /\ Len(a) \in Nat /\ Len(b) \in Nat /\ Len(c) \in Nat /\ Len(d) \in Nat /\ Len(t) \in Nat
  BY Joined
<1>2. /\ c \o (d \o t) \in Seq(Byte) /\ (a \o b) \o c \in Seq(Byte)
      /\ Len(c \o (d \o t)) = Len(c) + Len(d \o t)
  BY <1>1, Joined
<1>3. /\ b \o (c \o (d \o t)) \in Seq(Byte) /\ ((a \o b) \o c) \o d \in Seq(Byte)
      /\ Len(b \o (c \o (d \o t))) = Len(b) + Len(c \o (d \o t))
  BY <1>2, Joined
<1>4. Len(a \o (b \o (c \o (d \o t)))) = Len(a) + Len(b \o (c \o (d \o t)))
  BY <1>3, Joined
<1>5. Associate(a, b, c \o (d \o t))
  BY <1>2, Joined
<1>6. Associate(a \o b, c, d \o t)
  BY <1>1, Joined
<1>7. Associate((a \o b) \o c, d, t)
  BY <1>2, Joined
<1>8. (((a \o b) \o c) \o d) \o t = a \o (b \o (c \o (d \o t)))
  BY <1>5, <1>6, <1>7 DEF Associate
<1> QED BY <1>1, <1>2, <1>3, <1>4, <1>8 DEF TakenApart

LEMMA SubSeqGrows ==
    ASSUME NEW S, NEW s \in Seq(S)
    PROVE  /\ SubSeq(s, 1, 0) = << >> /\ SubSeq(s, 1, Len(s)) = s
           /\ \A i \in 1 .. Len(s) : Append(SubSeq(s, 1, i - 1), s[i]) = SubSeq(s, 1, i)
OBVIOUS

LEMMA RestZero ==
    ASSUME NEW s \in Seq(Byte)
    PROVE  Rest(s, 0) = s
BY SubSeqGrows DEF Rest

LEMMA SeqOfSubset ==
    ASSUME NEW A, NEW B, A \subseteq B, NEW s \in Seq(A)
    PROVE  s \in Seq(B)
BY LenProperties, ElementOfSeq, SeqDef

\* No part of a flattened sequence is longer than it.
LEMMA PartsOf ==
    ASSUME NEW S, NEW n \in Nat, NEW ss \in [1 .. n -> Seq(S)]
    PROVE  /\ FlattenSeq(ss) \in Seq(S) /\ Len(FlattenSeq(ss)) \in Nat
           /\ \A i \in 1 .. n : Len(ss[i]) \in Nat /\ Len(ss[i]) <= Len(FlattenSeq(ss))
<1>1. PICK h : SuffixesOf(h, S, ss, n)
  BY SuffixesExist
<1>2. FlattenSeq(ss) = h[1] /\ FlattenSeq(ss) \in Seq(S)
  BY <1>1, FlattenIs
<1>3. ASSUME NEW i \in 1 .. n
      PROVE  /\ Len(h[i]) = Len(ss[i]) + Len(h[i + 1])
             /\ Len(h[i]) \in Nat /\ Len(ss[i]) \in Nat /\ Len(h[i + 1]) \in Nat
  <2>1. h[i] = ss[i] \o h[i + 1] /\ h[i + 1] \in Seq(S) /\ ss[i] \in Seq(S)
    <3>1. i + 1 \in 1 .. n + 1
      OBVIOUS
    <3> QED BY <1>1, <3>1 DEF SuffixesOf
  <2> QED BY <2>1, ConcatProperties, LenProperties
<1> DEFINE T == {k \in Nat : k + 1 <= n => Len(h[k + 1]) <= Len(h[1])}
<1>4. 0 \in T
  <2>1. 0 + 1 <= n => Len(h[1]) \in Nat
    BY <1>3
  <2> QED BY <2>1
<1>5. ASSUME NEW k \in Nat, k \in T PROVE k + 1 \in T
  <2> SUFFICES ASSUME (k + 1) + 1 <= n PROVE Len(h[(k + 1) + 1]) <= Len(h[1])
    OBVIOUS
  <2>1. 1 \in 1 .. n /\ k + 1 \in 1 .. n /\ k + 1 <= n
    OBVIOUS
  <2>2. Len(h[k + 1]) <= Len(h[1])
    BY <1>5, <2>1
  <2>3. /\ Len(h[k + 1]) = Len(ss[k + 1]) + Len(h[(k + 1) + 1]) /\ Len(h[k + 1]) \in Nat
        /\ Len(ss[k + 1]) \in Nat /\ Len(h[(k + 1) + 1]) \in Nat /\ Len(h[1]) \in Nat
    BY <1>3, <2>1
  <2> DEFINE a == Len(h[k + 1])
             b == Len(ss[k + 1])
             c == Len(h[(k + 1) + 1])
             d == Len(h[1])
  <2>4. a = b + c /\ a \in Nat /\ b \in Nat /\ c \in Nat /\ d \in Nat /\ a <= d
    BY <2>2, <2>3
  <2> HIDE DEF a, b, c, d
  <2>5. c <= d
    BY <2>4
  <2> QED BY <2>5 DEF c, d
<1>6. Nat \subseteq T
  <2> HIDE DEF T
  <2> QED BY <1>4, <1>5, InductionOnNat
<1>7. ASSUME NEW i \in 1 .. n PROVE Len(ss[i]) <= Len(h[1])
  <2>1. 1 \in 1 .. n /\ i - 1 \in Nat /\ (i - 1) + 1 = i /\ i <= n
    OBVIOUS
  <2>2. i - 1 \in T
    BY <1>6, <2>1
  <2>3. Len(h[i]) <= Len(h[1])
    BY <2>1, <2>2
  <2>4. /\ Len(h[i]) = Len(ss[i]) + Len(h[i + 1]) /\ Len(h[i]) \in Nat
        /\ Len(ss[i]) \in Nat /\ Len(h[i + 1]) \in Nat /\ Len(h[1]) \in Nat
    BY <1>3, <2>1
  <2> QED BY <2>3, <2>4
<1> QED BY <1>2, <1>3, <1>7, LenProperties

\* A beginning of some bytes is bytes.
LEMMA BeginningIs ==
    ASSUME NEW s \in Seq(Byte), NEW n \in 0 .. Len(s)
    PROVE  SubSeq(s, 1, n) \in Seq(Byte)
<1>1. \A i \in 1 .. n : s[i] \in Byte
  BY ElementOfSeq, LenProperties
<1> QED BY <1>1, SubSeqProperties, LenProperties

LEMMA Associative ==
    ASSUME NEW S, NEW x \in Seq(S), NEW y \in Seq(S), NEW z \in Seq(S)
    PROVE  Associate(x, y, z)
BY ConcatAssociative DEF Associate

\* One part more at the end.
LEMMA FlattenAppend ==
    ASSUME NEW S, NEW n \in Nat, NEW ss \in [1 .. n -> Seq(S)], NEW tt \in [1 .. n + 1 -> Seq(S)],
           \A i \in 1 .. n : tt[i] = ss[i]
    PROVE  FlattenSeq(tt) = FlattenSeq(ss) \o tt[n + 1]
<1>1. PICK h : SuffixesOf(h, S, ss, n)
  BY SuffixesExist
<1> DEFINE last == tt[n + 1]
           g == [i \in 1 .. (n + 1) + 1 |-> IF i <= n + 1 THEN h[i] \o last ELSE << >>]
<1>2. last \in Seq(S) /\ \A i \in 1 .. n + 1 : h[i] \in Seq(S)
  BY <1>1 DEF SuffixesOf
<1> HIDE DEF last
<1>3. \A i \in 1 .. n + 1 : h[i] \o last \in Seq(S)
  BY <1>2, ConcatProperties
<1>4. SuffixesOf(g, S, tt, n + 1)
  <2>1. g \in [1 .. (n + 1) + 1 -> Seq(S)]
    <3>1. << >> \in Seq(S)
      OBVIOUS
    <3>2. \A i \in 1 .. (n + 1) + 1 : (IF i <= n + 1 THEN h[i] \o last ELSE << >>) \in Seq(S)
      BY <1>3, <3>1
    <3> QED BY <3>2
  <2>2. g[(n + 1) + 1] = << >>
    OBVIOUS
  <2>3. ASSUME NEW i \in 1 .. n + 1 PROVE g[i] = tt[i] \o g[i + 1]
    <3>0. g[i] = h[i] \o last
      OBVIOUS
    <3>1. CASE i = n + 1
      <4>1. g[i + 1] = << >> /\ h[i] = << >> /\ tt[i] = last
        BY <1>1, <3>1 DEF SuffixesOf, last
      <4>2. << >> \o last = last /\ last \o << >> = last
        BY <1>2, ConcatEmptySeq
      <4> QED BY <3>0, <4>1, <4>2
    <3>2. CASE i # n + 1
      <4>1. i \in 1 .. n /\ i + 1 \in 1 .. n + 1 /\ i + 1 <= n + 1 /\ i + 1 \in 1 .. (n + 1) + 1
        BY <3>2
      <4>2. g[i + 1] = h[i + 1] \o last
        BY <4>1
      <4> HIDE DEF g
      <4>3. h[i] = ss[i] \o h[i + 1] /\ tt[i] = ss[i]
        BY <1>1, <4>1 DEF SuffixesOf
      <4> DEFINE x == ss[i]
                 y == h[i + 1]
      <4>4. x \in Seq(S) /\ y \in Seq(S)
        BY <1>2, <4>1
      <4> HIDE DEF x, y
      <4>5. Associate(x, y, last)
        BY <1>2, <4>4, Associative
      <4> QED BY <3>0, <4>2, <4>3, <4>5 DEF x, y, Associate
    <3> QED BY <3>1, <3>2
  <2> HIDE DEF g
  <2> QED BY <2>1, <2>2, <2>3 DEF SuffixesOf
<1>5. FlattenSeq(ss) = h[1]
  BY <1>1, FlattenIs
<1>6. g[1] = h[1] \o last
  OBVIOUS
<1> HIDE DEF g
<1>7. FlattenSeq(tt) = g[1]
  <2>1. n + 1 \in Nat
    OBVIOUS
  <2> QED BY <1>4, <2>1, FlattenIs
<1> QED BY <1>5, <1>6, <1>7 DEF last

\* What is in front of a part.
InFront(ss, i) == FlattenSeq([j \in 1 .. i - 1 |-> ss[j]])

Splits(h, S, ss, n) ==
    \A i \in 1 .. n + 1 : InFront(ss, i) \in Seq(S) /\ h[1] = InFront(ss, i) \o h[i]

\* A flattened sequence is what is in front of a part, and what is left from there on.
LEMMA FlattenSplit ==
    ASSUME NEW S, NEW n \in Nat, NEW ss \in [1 .. n -> Seq(S)], NEW h, SuffixesOf(h, S, ss, n)
    PROVE  Splits(h, S, ss, n)
<1> DEFINE parts(k) == [j \in 1 .. k |-> ss[j]]
           front(k) == FlattenSeq(parts(k))
           T == {k \in Nat : k <= n => front(k) \in Seq(S) /\ h[1] = front(k) \o h[k + 1]}
<1>1. \A i \in 1 .. n + 1 : h[i] \in Seq(S)
  BY DEF SuffixesOf
<1>2. \A k \in Nat : k <= n => parts(k) \in [1 .. k -> Seq(S)]
  OBVIOUS
<1>3. 0 \in T
  <2> DEFINE g == [i \in 1 .. 1 |-> << >>]
  <2>1. parts(0) \in [1 .. 0 -> Seq(S)] /\ 0 \in Nat
    BY <1>2
  <2> HIDE DEF parts
  <2>2. SuffixesOf(g, S, parts(0), 0)
    <3>1. g \in [1 .. 0 + 1 -> Seq(S)] /\ g[0 + 1] = << >> /\ 1 .. 0 = {}
      OBVIOUS
    <3> HIDE DEF g
    <3> QED BY <3>1 DEF SuffixesOf
  <2>3. g[1] = << >>
    OBVIOUS
  <2> HIDE DEF g
  <2>4. front(0) = << >>
    BY <2>1, <2>2, <2>3, FlattenIs
  <2>5. << >> \in Seq(S) /\ << >> \o h[1] = h[1] /\ 0 + 1 = 1
    <3>1. h[1] \in Seq(S)
      BY <1>1
    <3> QED BY <3>1, ConcatEmptySeq
  <2> HIDE DEF front
  <2> QED BY <2>4, <2>5
<1>4. ASSUME NEW k \in Nat, k \in T PROVE k + 1 \in T
  <2> SUFFICES ASSUME k + 1 <= n PROVE front(k + 1) \in Seq(S) /\ h[1] = front(k + 1) \o h[(k + 1) + 1]
    OBVIOUS
  <2>1. k <= n /\ k + 1 \in 1 .. n /\ (k + 1) + 1 \in 1 .. n + 1
    OBVIOUS
  <2> DEFINE x == front(k)
             y == ss[k + 1]
             z == h[(k + 1) + 1]
  <2>2. x \in Seq(S) /\ h[1] = x \o h[k + 1]
    BY <1>4, <2>1
  <2>3. y \in Seq(S) /\ z \in Seq(S) /\ h[k + 1] = y \o z
    BY <1>1, <2>1 DEF SuffixesOf
  <2>4. front(k + 1) = x \o y
    <3>1. /\ parts(k) \in [1 .. k -> Seq(S)] /\ parts(k + 1) \in [1 .. k + 1 -> Seq(S)]
          /\ \A i \in 1 .. k : parts(k + 1)[i] = parts(k)[i]
          /\ parts(k + 1)[k + 1] = y
      BY <1>2, <2>1
    <3> HIDE DEF parts
    <3>2. FlattenSeq(parts(k + 1)) = FlattenSeq(parts(k)) \o parts(k + 1)[k + 1]
      BY <3>1, FlattenAppend
    <3> QED BY <3>1, <3>2
  <2> HIDE DEF x, y, z, front
  <2>5. Associate(x, y, z) /\ x \o y \in Seq(S)
    BY <2>2, <2>3, Associative, ConcatProperties
  <2> QED BY <2>2, <2>3, <2>4, <2>5 DEF Associate, z
<1>5. Nat \subseteq T
  <2> HIDE DEF T
  <2> QED BY <1>3, <1>4, InductionOnNat
<1>6. ASSUME NEW i \in 1 .. n + 1 PROVE front(i - 1) \in Seq(S) /\ h[1] = front(i - 1) \o h[i]
  <2>1. i - 1 \in Nat /\ i - 1 <= n /\ (i - 1) + 1 = i
    OBVIOUS
  <2> HIDE DEF front
  <2> QED BY <1>5, <2>1
<1>7. \A i : InFront(ss, i) = front(i - 1)
  BY DEF InFront
<1> HIDE DEF front
<1> QED BY <1>6, <1>7 DEF Splits

\* The bytes in the middle.
LEMMA MiddleOf ==
    ASSUME NEW a \in Seq(Byte), NEW b \in Seq(Byte), NEW c \in Seq(Byte)
    PROVE  SubSeq(a \o (b \o c), Len(a) + 1, Len(a) + Len(b)) = b
<1> DEFINE bc == b \o c
           s == a \o bc
           m == SubSeq(s, Len(a) + 1, Len(a) + Len(b))
<1>1. /\ Len(a) \in Nat /\ Len(b) \in Nat /\ Len(c) \in Nat
      /\ bc \in Seq(Byte) /\ Len(bc) = Len(b) + Len(c)
      /\ \A i \in 1 .. Len(b) : bc[i] = b[i]
  BY ConcatProperties, LenProperties
<1> HIDE DEF bc
<1>2. /\ s \in Seq(Byte) /\ Len(s) = Len(a) + Len(bc)
      /\ \A i \in 1 .. Len(a) + Len(bc) : s[i] = IF i <= Len(a) THEN a[i] ELSE bc[i - Len(a)]
  <2>1. bc \in Seq(Byte)
    BY <1>1
  <2> QED BY <2>1, ConcatProperties
<1> HIDE DEF s
<1>3. \A i \in Len(a) + 1 .. Len(a) + Len(b) : i \in 1 .. Len(s) /\ s[i] \in Byte
  BY <1>1, <1>2, ElementOfSeq
<1>4. Len(a) + 1 \in Int /\ Len(a) + Len(b) \in Int
  BY <1>1
<1>5. /\ m \in Seq(Byte)
      /\ Len(m) = IF Len(a) + 1 <= Len(a) + Len(b) THEN Len(a) + Len(b) - (Len(a) + 1) + 1 ELSE 0
      /\ \A i \in 1 .. Len(a) + Len(b) - (Len(a) + 1) + 1 : m[i] = s[Len(a) + 1 + i - 1]
  BY <1>3, <1>4, SubSeqProperties
<1> HIDE DEF m
<1>6. Len(m) = Len(b)
  BY <1>1, <1>5
<1>7. ASSUME NEW i \in 1 .. Len(b) PROVE m[i] = b[i]
  <2>1. m[i] = s[Len(a) + i]
    <3>1. i \in 1 .. Len(a) + Len(b) - (Len(a) + 1) + 1 /\ Len(a) + 1 + i - 1 = Len(a) + i
      BY <1>1
    <3> QED BY <1>5, <3>1
  <2>2. s[Len(a) + i] = bc[i]
    <3>1. Len(a) + i \in 1 .. Len(a) + Len(bc) /\ ~(Len(a) + i <= Len(a)) /\ (Len(a) + i) - Len(a) = i
      BY <1>1
    <3> QED BY <1>2, <3>1
  <2> QED BY <1>1, <2>1, <2>2
<1>8. m = b
  BY <1>5, <1>6, <1>7, SeqEqual
<1> QED BY <1>8 DEF m, s, bc

\* Parts that are not empty, and not too long, bound what is left behind the first ones.
LEMMA SuffixLengths ==
    ASSUME NEW S, NEW n \in Nat, NEW ss \in [1 .. n -> Seq(S)], NEW h, SuffixesOf(h, S, ss, n),
           NEW lo \in Nat, NEW hi \in Nat, \A i \in 1 .. n : lo <= Len(ss[i]) /\ Len(ss[i]) <= hi
    PROVE  Len(h[1]) \in Nat /\ n * lo <= Len(h[1]) /\ Len(h[1]) <= n * hi
<1> DEFINE T == {k \in Nat : k <= n => LET x == Len(h[n + 1 - k])
                                       IN  x \in Nat /\ k * lo <= x /\ x <= k * hi}
<1>1. 0 \in T
  <2>1. n + 1 - 0 = n + 1 /\ h[n + 1] = << >> /\ Len(<< >>) = 0
    BY DEF SuffixesOf
  <2> QED BY <2>1
<1>2. ASSUME NEW k \in Nat, k \in T PROVE k + 1 \in T
  <2>0. k + 1 \in Nat
    OBVIOUS
  <2> DEFINE i == n + 1 - (k + 1)
             x == Len(h[i])
             y == Len(ss[i])
             z == Len(h[i + 1])
  <2> SUFFICES ASSUME k + 1 <= n PROVE x \in Nat /\ (k + 1) * lo <= x /\ x <= (k + 1) * hi
    BY <2>0, Zenon
  <2>1. i \in 1 .. n /\ i + 1 = n + 1 - k /\ k <= n /\ i + 1 \in 1 .. n + 1
    OBVIOUS
  <2> HIDE DEF i
  <2>2. z \in Nat /\ k * lo <= z /\ z <= k * hi
    BY <1>2, <2>1
  <2>3. h[i] = ss[i] \o h[i + 1] /\ h[i + 1] \in Seq(S) /\ ss[i] \in Seq(S)
    BY <2>1 DEF SuffixesOf
  <2>4. x = y + z /\ y \in Nat
    BY <2>3, ConcatProperties, LenProperties
  <2>5. lo <= y /\ y <= hi
    BY <2>1
  <2> HIDE DEF x, y, z
  <2>6. (k + 1) * lo = k * lo + lo /\ (k + 1) * hi = k * hi + hi /\ k * lo \in Nat /\ k * hi \in Nat
    OBVIOUS
  <2> QED BY <2>2, <2>4, <2>5, <2>6
<1>3. n \in T
  <2> HIDE DEF T
  <2> QED BY <1>1, <1>2, InductionOnNat
<1>4. n + 1 - n = 1 /\ n <= n
  OBVIOUS
<1> QED BY <1>3, <1>4

LEMMA HeadAndTail ==
    ASSUME NEW b \in Byte, NEW s \in Seq(Byte)
    PROVE  /\ <<b>> \in Seq(Byte) /\ <<b>> \o s \in Seq(Byte) /\ Len(<<b>> \o s) = 1 + Len(s)
           /\ Head(<<b>> \o s) = b /\ Tail(<<b>> \o s) = s
OBVIOUS

LEMMA RestIs ==
    ASSUME NEW s \in Seq(Byte), NEW n \in 0 .. Len(s)
    PROVE  Rest(s, n) \in Seq(Byte) /\ Len(Rest(s, n)) = Len(s) - n
<1>1. Len(s) \in Nat /\ \A i \in n + 1 .. Len(s) : s[i] \in Byte
  BY LenProperties, ElementOfSeq
<1>2. n + 1 \in Int /\ Len(s) \in Int
  BY <1>1
<1>3. /\ SubSeq(s, n + 1, Len(s)) \in Seq(Byte)
      /\ Len(SubSeq(s, n + 1, Len(s))) = IF n + 1 <= Len(s) THEN Len(s) - (n + 1) + 1 ELSE 0
  BY <1>1, <1>2, SubSeqProperties
<1> QED BY <1>1, <1>3 DEF Rest

\* A fixed integer is read from any bytes that are long enough.
LEMMA GetFixedIs ==
    ASSUME NEW n \in Nat, NEW s \in Seq(Byte), Len(s) >= n
    PROVE  LET g == GetFixed(s, n)
           IN  g.ok /\ g.value \in Nat /\ g.rest \in Seq(Byte) /\ Len(g.rest) = Len(s) - n
<1>0. Len(s) \in Nat /\ ByteRadix \in Nat \ {0} /\ \A i \in 1 .. Len(s) : s[i] \in Byte
  BY Widths, LenProperties, ElementOfSeq
<1> DEFINE ds == SubSeq(s, 1, n)
<1>1. ds \in Seq(Byte) /\ Len(ds) = n /\ \A i \in 1 .. n : ds[i] = s[i]
  <2>1. \A i \in 1 .. n : s[i] \in Byte
    BY <1>0
  <2> QED BY <2>1, SubSeqProperties
<1> HIDE DEF ds
<1>2. Number(ByteRadix, ds) \in 0 .. Power(ByteRadix, n) - 1
  <2>1. \A i \in 1 .. n : ds[i] \in 0 .. ByteRadix - 1
    BY <1>0, <1>1 DEF Byte
  <2> QED BY <1>0, <1>1, <2>1, NumberBound
<1>3. Rest(s, n) \in Seq(Byte) /\ Len(Rest(s, n)) = Len(s) - n
  BY <1>0, RestIs
<1>4. GetFixed(s, n) = [ok |-> TRUE, value |-> Number(ByteRadix, ds), rest |-> Rest(s, n)]
  BY <1>0 DEF GetFixed, Parsed, ds
<1>5. Number(ByteRadix, ds) \in Nat
  BY <1>2
<1> QED BY <1>3, <1>4, <1>5

\* What is read as a varint, or behind a length, is a number, or bytes, and leaves bytes.
LEMMA GetVarintIs ==
    ASSUME NEW s \in Seq(Byte), GetVarint(s).ok
    PROVE  GetVarint(s).value \in Nat /\ GetVarint(s).rest \in Seq(Byte)
<1> DEFINE last == {i \in DOMAIN s : i <= VarintBytes /\ s[i] < Radix}
           m == Min(last)
           ds == [i \in 1 .. m |-> s[i] % Radix]
           v == Number(Radix, ds) % Word
<1>1. Len(s) \in Nat /\ DOMAIN s = 1 .. Len(s) /\ \A i \in 1 .. Len(s) : s[i] \in Nat
  <2>1. ByteRadix \in Nat /\ \A i \in 1 .. Len(s) : s[i] \in Byte
    BY Widths, ElementOfSeq
  <2> QED BY <2>1, LenProperties DEF Byte
<1>2. last # {}
  <2>1. ASSUME last = {} PROVE GetVarint(s) = Malformed
    BY <2>1 DEF GetVarint
  <2>2. Malformed.ok = FALSE
    BY DEF Malformed
  <2> HIDE DEF last
  <2> QED BY <2>1, <2>2
<1>3. last \subseteq Nat
  BY <1>1
<1>4. m \in last
  <2> HIDE DEF last
  <2> QED BY <1>2, <1>3, LeastIs
<1>5. m \in 1 .. Len(s)
  BY <1>1, <1>4
<1>6. GetVarint(s) = [ok |-> TRUE, value |-> v, rest |-> Rest(s, m)]
  BY <1>2 DEF GetVarint, Parsed
<1> HIDE DEF m, last
<1>7. m \in Nat /\ Radix \in Nat \ {0} /\ Word \in Nat \ {0}
  BY <1>1, <1>5, Widths
<1>8. Len(ds) = m /\ \A i \in 1 .. m : ds[i] \in 0 .. Radix - 1
  <2>1. Len(ds) = m
    BY <1>7
  <2>2. ASSUME NEW i \in 1 .. m PROVE s[i] % Radix \in 0 .. Radix - 1
    <3>1. s[i] \in Nat
      BY <1>1, <1>5
    <3> QED BY <1>7, <3>1, DivMod
  <2> QED BY <2>1, <2>2
<1> HIDE DEF ds
<1>9. Number(Radix, ds) \in Nat
  <2>1. Number(Radix, ds) \in 0 .. Power(Radix, m) - 1
    BY <1>7, <1>8, NumberBound
  <2> QED BY <2>1
<1>10. v \in Nat
  BY <1>7, <1>9, DivMod
<1>11. Rest(s, m) \in Seq(Byte)
  BY <1>1, <1>5, RestIs
<1> HIDE DEF v
<1> QED BY <1>6, <1>10, <1>11

LEMMA GetLengthPrefixedIs ==
    ASSUME NEW s \in Seq(Byte), GetLengthPrefixed(s).ok
    PROVE  GetLengthPrefixed(s).value \in Seq(Byte) /\ GetLengthPrefixed(s).rest \in Seq(Byte)
<1> DEFINE v == GetVarint(s)
           g == GetLengthPrefixed(s)
           d == SubSeq(v.rest, 1, v.value)
<1>1. g = IF ~v.ok THEN Malformed
          ELSE IF v.value > Len(v.rest) THEN Malformed
          ELSE [ok |-> TRUE, value |-> d, rest |-> Rest(v.rest, v.value)]
  BY DEF GetLengthPrefixed, Parsed
<1>2. Malformed.ok = FALSE
  BY DEF Malformed
<1>3. v.ok /\ ~(v.value > Len(v.rest)) /\ g = [ok |-> TRUE, value |-> d, rest |-> Rest(v.rest, v.value)]
  <2>1. g.ok
    OBVIOUS
  <2> HIDE DEF g, v, d
  <2> QED BY <1>1, <1>2, <2>1
<1>4. v.value \in Nat /\ v.rest \in Seq(Byte)
  BY <1>3, GetVarintIs
<1> HIDE DEF v
<1> DEFINE n == v.value
           r == v.rest
<1>5. r \in Seq(Byte) /\ n \in 0 .. Len(r)
  BY <1>3, <1>4, LenProperties
<1> HIDE DEF n, r
<1>6. SubSeq(r, 1, n) \in Seq(Byte) /\ Rest(r, n) \in Seq(Byte)
  BY <1>5, BeginningIs, RestIs
<1> HIDE DEF g
<1> QED BY <1>3, <1>6 DEF n, r, g

-----------------------------------------------------------------------------
(* Loops: the rounds of Items *)

Begin(s) == [items |-> << >>, ok |-> TRUE, rest |-> s]

\* A round that finds g.
After(before, g) ==
    IF ~before.ok \/ before.rest = << >> THEN before
    ELSE IF ~g.ok THEN [before EXCEPT !.ok = FALSE]
    ELSE [items |-> Append(before.items, g.value), ok |-> TRUE, rest |-> g.rest]

\* Where the rounds stand: what is found in bytes is a V and leaves bytes.
State(V) == [items : Seq(V), ok : BOOLEAN, rest : Seq(Byte)]

LEMMA AfterIs ==
    ASSUME NEW V, NEW b \in State(V), NEW g,
           b.rest # << >> /\ g.ok => g.value \in V /\ g.rest \in Seq(Byte)
    PROVE  After(b, g) \in State(V)
<1>1. CASE ~b.ok \/ b.rest = << >>
  BY <1>1 DEF After
<1>2. CASE b.ok /\ b.rest # << >> /\ ~g.ok
  BY <1>2 DEF After, State
<1>3. CASE b.ok /\ b.rest # << >> /\ g.ok
  <2>1. b.items \in Seq(V)
    BY DEF State
  <2>2. Append(b.items, g.value) \in Seq(V)
    BY <1>3, <2>1, AppendProperties
  <2> QED BY <1>3, <2>2 DEF After, State
<1> QED BY <1>1, <1>2, <1>3

\* The first n rounds over s, with what a round finds as a function of the bytes.
Rounds(f, s, n, get) ==
    f = [i \in 0 .. n |-> IF i = 0 THEN Begin(s) ELSE After(f[i - 1], get[f[i - 1].rest])]

LEMMA RoundsExist ==
    ASSUME NEW V, NEW s \in Seq(Byte), NEW get,
           \A x \in Seq(Byte) : x # << >> /\ get[x].ok => get[x].value \in V /\ get[x].rest \in Seq(Byte)
    PROVE  \A n \in Nat : \E f : Rounds(f, s, n, get) /\ \A i \in 0 .. n : f[i] \in State(V)
<1> DEFINE Typed(f, n) == \A i \in 0 .. n : f[i] \in State(V)
           T == {n \in Nat : \E f : Rounds(f, s, n, get) /\ Typed(f, n)}
<1>0. Begin(s) \in State(V)
  BY DEF Begin, State
<1>1. 0 \in T
  <2> DEFINE f == [i \in 0 .. 0 |-> Begin(s)]
  <2>1. f = [i \in 0 .. 0 |-> IF i = 0 THEN Begin(s) ELSE After(f[i - 1], get[f[i - 1].rest])]
    OBVIOUS
  <2>2. Typed(f, 0)
    BY <1>0
  <2> HIDE DEF f
  <2>3. Rounds(f, s, 0, get)
    BY <2>1 DEF Rounds
  <2> QED BY <2>2, <2>3
<1>2. ASSUME NEW n \in Nat, n \in T PROVE n + 1 \in T
  <2>1. PICK f : Rounds(f, s, n, get) /\ Typed(f, n)
    BY <1>2
  <2> DEFINE next == After(f[n], get[f[n].rest])
             g == [i \in 0 .. n + 1 |-> IF i <= n THEN f[i] ELSE next]
             Round(h, i) == IF i = 0 THEN Begin(s) ELSE After(h[i - 1], get[h[i - 1].rest])
  <2>2. \A i \in 0 .. n : f[i] = Round(f, i)
    BY <2>1 DEF Rounds
  <2>3. /\ \A i \in 0 .. n : i \in 0 .. n + 1 /\ g[i] = f[i]
        /\ g[n + 1] = next /\ g = [i \in 0 .. n + 1 |-> g[i]]
    OBVIOUS
  <2>4. next \in State(V)
    <3>1. f[n] \in State(V) /\ f[n].rest \in Seq(Byte)
      BY <2>1 DEF State
    <3> QED BY <3>1, AfterIs
  <2> HIDE DEF g
  <2>5. ASSUME NEW i \in 0 .. n + 1 PROVE g[i] = Round(g, i) /\ g[i] \in State(V)
    <3>1. CASE i = 0
      <4>1. 0 \in 0 .. n
        OBVIOUS
      <4> QED BY <1>0, <2>2, <2>3, <3>1, <4>1
    <3>2. CASE i # 0 /\ i <= n
      <4>1. i \in 0 .. n /\ i - 1 \in 0 .. n
        BY <3>2
      <4>2. g[i] = f[i] /\ g[i - 1] = f[i - 1]
        BY <2>3, <4>1
      <4>3. f[i] = Round(f, i) /\ f[i] \in State(V)
        BY <2>1, <2>2, <4>1
      <4> QED BY <3>2, <4>2, <4>3
    <3>3. CASE i = n + 1
      <4>1. i # 0 /\ i - 1 = n /\ n \in 0 .. n
        BY <3>3
      <4>2. g[n] = f[n]
        BY <2>3, <4>1
      <4> QED BY <2>3, <2>4, <3>3, <4>1, <4>2
    <3> QED BY <3>1, <3>2, <3>3
  <2>6. g = [i \in 0 .. n + 1 |-> Round(g, i)]
    BY <2>3, <2>5
  <2>7. Rounds(g, s, n + 1, get) /\ Typed(g, n + 1)
    BY <2>5, <2>6 DEF Rounds
  <2> QED BY <2>7
<1>3. Nat \subseteq T
  <2> HIDE DEF T
  <2> QED BY <1>1, <1>2, InductionOnNat
<1> QED BY <1>3

\* N rounds f that find G, where the items xs stand one in front of another: r[i] is what
\* is left behind i of them.
Reads(xs, N, r, f, G) ==
    /\ N \in Nat /\ Len(xs) <= N
    /\ \A i \in 0 .. Len(xs) - 1 : r[i] # << >>
    /\ f[0] = Begin(r[0]) /\ \A i \in 1 .. N : f[i] = After(f[i - 1], G[i])
    /\ \A i \in 1 .. Len(xs) :
          f[i - 1].rest = r[i - 1] => G[i] = [ok |-> TRUE, value |-> xs[i], rest |-> r[i]]

\* The items are found in this order. If nothing follows them, nothing else is found.
LEMMA RoundsFind ==
    ASSUME NEW V, NEW xs \in Seq(V), NEW N, NEW r, NEW f, NEW G, Reads(xs, N, r, f, G)
    PROVE  /\ f[Len(xs)] = [items |-> xs, ok |-> TRUE, rest |-> r[Len(xs)]]
           /\ r[Len(xs)] = << >> => f[N] = f[Len(xs)]
<1> DEFINE n == Len(xs)
           At(i) == [items |-> SubSeq(xs, 1, i), ok |-> TRUE, rest |-> r[i]]
           T == {i \in Nat : i <= n => f[i] = At(i)}
<1> USE DEF Reads
<1>0. n \in Nat /\ SubSeq(xs, 1, 0) = << >> /\ SubSeq(xs, 1, n) = xs
      /\ \A i \in 1 .. n : Append(SubSeq(xs, 1, i - 1), xs[i]) = SubSeq(xs, 1, i)
  BY SubSeqGrows, LenProperties
<1>1. 0 \in T
  BY <1>0 DEF Begin
<1> HIDE DEF n
<1>2. ASSUME NEW k \in Nat, k \in T PROVE k + 1 \in T
  <2> SUFFICES ASSUME k + 1 <= n PROVE f[k + 1] = At(k + 1)
    OBVIOUS
  <2>1. k + 1 \in 1 .. n /\ k + 1 \in 1 .. N /\ (k + 1) - 1 = k /\ k <= n /\ k \in 0 .. n - 1
    BY <1>0 DEF n
  <2>2. f[k] = [items |-> SubSeq(xs, 1, k), ok |-> TRUE, rest |-> r[k]] /\ r[k] # << >>
    BY <1>2, <2>1 DEF n
  <2>3. f[k].ok /\ f[k].items = SubSeq(xs, 1, k) /\ f[k].rest = r[k]
    BY <2>2
  <2>4. G[k + 1] = [ok |-> TRUE, value |-> xs[k + 1], rest |-> r[k + 1]]
    BY <2>1, <2>3 DEF n
  <2>5. G[k + 1].ok /\ G[k + 1].value = xs[k + 1] /\ G[k + 1].rest = r[k + 1]
    BY <2>4
  <2>6. f[k + 1] = After(f[k], G[k + 1])
    BY <2>1
  <2>7. Append(SubSeq(xs, 1, k), xs[k + 1]) = SubSeq(xs, 1, k + 1)
    BY <1>0, <2>1
  <2>8. After(f[k], G[k + 1]) = [items |-> Append(f[k].items, G[k + 1].value), ok |-> TRUE, rest |-> G[k + 1].rest]
    BY <2>2, <2>3, <2>5 DEF After
  <2> QED BY <2>3, <2>5, <2>6, <2>7, <2>8
<1>3. n \in T
  <2> HIDE DEF T
  <2> QED BY <1>0, <1>1, <1>2, InductionOnNat
<1>4. f[n] = [items |-> xs, ok |-> TRUE, rest |-> r[n]]
  <2>1. n <= n
    BY <1>0
  <2>2. f[n] = [items |-> SubSeq(xs, 1, n), ok |-> TRUE, rest |-> r[n]]
    BY <1>3, <2>1
  <2> QED BY <1>0, <2>2
<1>5. ASSUME r[n] = << >> PROVE f[N] = f[n]
  <2> DEFINE U == {k \in Nat : n + k <= N => f[n + k] = f[n]}
  <2>1. 0 \in U
    BY <1>0
  <2>2. ASSUME NEW k \in Nat, k \in U PROVE k + 1 \in U
    <3> SUFFICES ASSUME n + (k + 1) <= N PROVE f[n + (k + 1)] = f[n]
      OBVIOUS
    <3>1. n + (k + 1) \in 1 .. N /\ (n + (k + 1)) - 1 = n + k /\ n + k <= N
      BY <1>0
    <3>2. f[n + k] = f[n] /\ f[n + (k + 1)] = After(f[n + k], G[n + (k + 1)])
      BY <2>2, <3>1
    <3>3. f[n].rest = << >>
      BY <1>4, <1>5
    <3> QED BY <3>2, <3>3 DEF After
  <2>3. N - n \in Nat /\ n + (N - n) = N
    BY <1>0 DEF n
  <2>4. N - n \in U
    <3> HIDE DEF U
    <3> QED BY <2>1, <2>2, <2>3, InductionOnNat
  <2> QED BY <2>3, <2>4
<1> QED BY <1>4, <1>5 DEF n

\* Where the rounds stand once they have found xs.
Found(b, V, xs) ==
    /\ b \in State(V)
    /\ Len(xs) <= Len(b.items) /\ \A i \in 1 .. Len(xs) : b.items[i] = xs[i]

LEMMA StaysFound ==
    ASSUME NEW V, NEW xs \in Seq(V), NEW b, Found(b, V, xs),
           NEW g, g.ok => g.value \in V /\ g.rest \in Seq(Byte)
    PROVE  Found(After(b, g), V, xs)
<1> DEFINE more == [items |-> Append(b.items, g.value), ok |-> TRUE, rest |-> g.rest]
<1>1. /\ b.items \in Seq(V) /\ b.rest \in Seq(Byte) /\ Len(b.items) \in Nat /\ Len(xs) \in Nat
      /\ Len(xs) <= Len(b.items) /\ \A i \in 1 .. Len(xs) : b.items[i] = xs[i]
  BY LenProperties DEF Found, State
<1>2. CASE ~b.ok \/ b.rest = << >>
  BY <1>2 DEF After
<1>3. CASE b.ok /\ b.rest # << >> /\ ~g.ok
  <2>1. After(b, g) = [b EXCEPT !.ok = FALSE]
    BY <1>3 DEF After
  <2>2. [b EXCEPT !.ok = FALSE] \in [items : Seq(V), ok : BOOLEAN, rest : Seq(Byte)]
        /\ [b EXCEPT !.ok = FALSE].items = b.items
    BY DEF Found, State
  <2> QED BY <1>1, <2>1, <2>2 DEF Found, State
<1>4. CASE b.ok /\ b.rest # << >> /\ g.ok
  <2>1. After(b, g) = more
    BY <1>4 DEF After
  <2> DEFINE x == b.items
             v == g.value
  <2>2. x \in Seq(V) /\ v \in V /\ Len(x) \in Nat
    BY <1>1, <1>4
  <2> HIDE DEF x, v
  <2>3. /\ Append(x, v) \in Seq(V) /\ Len(Append(x, v)) = Len(x) + 1
        /\ \A i \in 1 .. Len(x) : Append(x, v)[i] = x[i]
    BY <2>2, AppendProperties
  <2>4. more.items = Append(x, v) /\ more \in [items : Seq(V), ok : BOOLEAN, rest : Seq(Byte)]
    BY <1>4, <2>3 DEF x, v
  <2>5. Len(xs) <= Len(more.items) /\ \A i \in 1 .. Len(xs) : more.items[i] = xs[i]
    BY <1>1, <2>2, <2>3, <2>4 DEF x
  <2> HIDE DEF more
  <2> QED BY <2>1, <2>4, <2>5 DEF Found, State
<1> QED BY <1>2, <1>3, <1>4

\* What follows the items does not reach back, whatever is found in it.
LEMMA RoundsKeep ==
    ASSUME NEW V, NEW xs \in Seq(V), NEW N, NEW r, NEW f, NEW G, Reads(xs, N, r, f, G),
           r[Len(xs)] \in Seq(Byte),
           \A i \in 1 .. N : f[i - 1].rest \in Seq(Byte) /\ G[i].ok => G[i].value \in V /\ G[i].rest \in Seq(Byte)
    PROVE  Found(f[N], V, xs)
<1> DEFINE n == Len(xs)
           U == {k \in Nat : n + k <= N => Found(f[n + k], V, xs)}
<1>1. n \in Nat /\ N \in Nat /\ n <= N /\ \A i \in 1 .. N : f[i] = After(f[i - 1], G[i])
  BY LenProperties DEF Reads
<1>2. f[n] = [items |-> xs, ok |-> TRUE, rest |-> r[n]]
  BY RoundsFind
<1>3. 0 \in U
  <2>1. f[n] \in [items : Seq(V), ok : BOOLEAN, rest : Seq(Byte)] /\ f[n].items = xs
    BY <1>2
  <2> HIDE DEF n
  <2>2. Found(f[n], V, xs)
    BY <1>1, <2>1 DEF Found, State, n
  <2>3. n + 0 = n
    BY <1>1
  <2> QED BY <2>2, <2>3
<1> HIDE DEF n
<1>4. ASSUME NEW k \in Nat, k \in U PROVE k + 1 \in U
  <2> SUFFICES ASSUME n + (k + 1) <= N PROVE Found(f[n + (k + 1)], V, xs)
    OBVIOUS
  <2>1. n + (k + 1) \in 1 .. N /\ (n + (k + 1)) - 1 = n + k /\ n + k <= N
    BY <1>1
  <2>2. Found(f[n + k], V, xs)
    BY <1>4, <2>1
  <2>3. f[n + (k + 1)] = After(f[n + k], G[n + (k + 1)])
    BY <1>1, <2>1
  <2>4. f[n + k].rest \in Seq(Byte)
    BY <2>2 DEF Found, State
  <2>5. G[n + (k + 1)].ok => G[n + (k + 1)].value \in V /\ G[n + (k + 1)].rest \in Seq(Byte)
    BY <2>1, <2>4
  <2> QED BY <2>2, <2>3, <2>5, StaysFound
<1>5. N - n \in U /\ n + (N - n) = N
  <2>1. N - n \in Nat /\ n + (N - n) = N
    BY <1>1
  <2> HIDE DEF U
  <2> QED BY <1>3, <1>4, <2>1, InductionOnNat
<1> QED BY <1>1, <1>5

\* Where a round begins with the bytes of an item, it finds this item.
Gives(xs, ss, f, G) ==
    \A i \in 1 .. Len(xs), y \in Seq(Byte) :
       f[i - 1].rest = ss[i] \o y => G[i] = [ok |-> TRUE, value |-> xs[i], rest |-> y]

\* The bytes ss of the items xs stand one behind another in front of t, and the rounds f
\* that find G go over all of it.
Loop(xs, ss, t, s, f, G) ==
    /\ ss \in [1 .. Len(xs) -> Seq(Byte)] /\ \A i \in 1 .. Len(xs) : 1 <= Len(ss[i])
    /\ t \in Seq(Byte) /\ s = FlattenSeq(ss) \o t
    /\ f[0] = Begin(s) /\ \A i \in 1 .. Len(s) : f[i] = After(f[i - 1], G[i])
    /\ Gives(xs, ss, f, G)

LEMMA LoopReads ==
    ASSUME NEW V, NEW xs \in Seq(V), NEW ss, NEW t, NEW s, NEW f, NEW G, Loop(xs, ss, t, s, f, G)
    PROVE  s \in Seq(Byte) /\ Len(xs) <= Len(s) /\ \E r : Reads(xs, Len(s), r, f, G) /\ r[Len(xs)] = t
<1> USE DEF Loop
<1> DEFINE n == Len(xs)
           N == Len(s)
           flat == FlattenSeq(ss)
<1>1. n \in Nat
  BY LenProperties
<1>2. PICK h : SuffixesOf(h, Byte, ss, n)
  BY <1>1, SuffixesExist
<1>3. flat = h[1] /\ flat \in Seq(Byte)
  BY <1>1, <1>2, FlattenIs
<1>4. /\ \A i \in 1 .. n + 1 : h[i] \in Seq(Byte)
      /\ h[n + 1] = << >> /\ \A i \in 1 .. n : h[i] = ss[i] \o h[i + 1]
  BY <1>2 DEF SuffixesOf
<1>5. s = h[1] \o t
  BY <1>3
<1>6. s \in Seq(Byte) /\ N \in Nat /\ n <= N
  <2> DEFINE hi == Len(flat)
  <2>1. \A i \in 1 .. n : Len(ss[i]) \in Nat /\ Len(ss[i]) <= hi
    BY <1>1, PartsOf
  <2> HIDE DEF flat
  <2>2. hi \in Nat /\ 1 \in Nat
    BY <1>3, LenProperties
  <2> HIDE DEF hi
  <2>3. \A i \in 1 .. n : 1 <= Len(ss[i]) /\ Len(ss[i]) <= hi
    BY <2>1
  <2>4. s \in Seq(Byte) /\ N = Len(flat) + Len(t) /\ Len(t) \in Nat /\ Len(flat) \in Nat
    BY <1>3, Joined DEF flat
  <2> HIDE DEF N
  <2>5. n * 1 <= Len(h[1]) /\ Len(h[1]) \in Nat
    BY <1>1, <1>2, <2>2, <2>3, SuffixLengths
  <2> HIDE DEF n
  <2> QED BY <1>1, <1>3, <2>4, <2>5
<1> HIDE DEF flat
<1> DEFINE r == [i \in 0 .. n |-> h[i + 1] \o t]
<1>7. r[0] = s /\ r[n] = t
  <2>1. 0 \in 0 .. n /\ n \in 0 .. n /\ 0 + 1 = 1
    BY <1>1
  <2>2. r[0] = h[1] \o t /\ r[n] = h[n + 1] \o t
    BY <2>1
  <2>3. << >> \o t = t
    BY ConcatEmptySeq
  <2> HIDE DEF r
  <2> QED BY <1>4, <1>5, <2>2, <2>3
<1>8. ASSUME NEW i \in 1 .. n
      PROVE  r[i] \in Seq(Byte) /\ r[i - 1] = ss[i] \o r[i] /\ r[i - 1] # << >>
  <2> DEFINE x == ss[i]
             y == h[i + 1]
  <2>1. i - 1 \in 0 .. n /\ i \in 0 .. n /\ (i - 1) + 1 = i /\ i + 1 \in 1 .. n + 1
    BY <1>1
  <2>2. r[i - 1] = (x \o y) \o t /\ r[i] = y \o t
    <3>1. r[i - 1] = h[i] \o t /\ r[i] = h[i + 1] \o t
      BY <2>1
    <3> HIDE DEF r
    <3> QED BY <1>4, <3>1
  <2>3. x \in Seq(Byte) /\ y \in Seq(Byte) /\ 1 <= Len(x)
    BY <1>4, <2>1
  <2> HIDE DEF x, y, r
  <2>4. y \o t \in Seq(Byte) /\ Len(y \o t) \in Nat
    BY <2>3, Joined, LenProperties
  <2>5. Associate(x, y, t) /\ Len(x \o (y \o t)) = Len(x) + Len(y \o t) /\ Len(x) \in Nat
    BY <2>3, <2>4, Joined
  <2>6. r[i - 1] = x \o (y \o t)
    BY <2>2, <2>5 DEF Associate
  <2>7. Len(r[i - 1]) # 0
    BY <2>3, <2>4, <2>5, <2>6
  <2>8. r[i - 1] # << >>
    BY <2>7
  <2> QED BY <2>2, <2>4, <2>6, <2>8 DEF x
<1> HIDE DEF r
<1>9. \A i \in 0 .. n - 1 : r[i] # << >>
  <2> TAKE i \in 0 .. n - 1
  <2>1. i + 1 \in 1 .. n /\ (i + 1) - 1 = i
    BY <1>1
  <2> QED BY <1>8, <2>1
<1>10. \A i \in 1 .. n :
          f[i - 1].rest = r[i - 1] => G[i] = [ok |-> TRUE, value |-> xs[i], rest |-> r[i]]
  BY <1>8 DEF Gives
<1>11. Reads(xs, N, r, f, G)
  BY <1>6, <1>7, <1>9, <1>10 DEF Reads
<1> QED BY <1>6, <1>7, <1>11

\* The items are found, and what is in front of them all is t. Nothing else is found where
\* t is empty, and otherwise nothing that is found in it reaches back.
LEMMA LoopFinds ==
    ASSUME NEW V, NEW xs \in Seq(V), NEW ss, NEW t, NEW s, NEW f, NEW G, Loop(xs, ss, t, s, f, G)
    PROVE  /\ Len(xs) <= Len(s) /\ f[Len(xs)] = [items |-> xs, ok |-> TRUE, rest |-> t]
           /\ t = << >> => f[Len(s)] = f[Len(xs)]
<1>1. Len(xs) <= Len(s) /\ \E r : Reads(xs, Len(s), r, f, G) /\ r[Len(xs)] = t
  BY LoopReads
<1>2. PICK r : Reads(xs, Len(s), r, f, G) /\ r[Len(xs)] = t
  BY <1>1
<1>3. /\ f[Len(xs)] = [items |-> xs, ok |-> TRUE, rest |-> r[Len(xs)]]
      /\ r[Len(xs)] = << >> => f[Len(s)] = f[Len(xs)]
  BY <1>2, RoundsFind
<1> QED BY <1>1, <1>2, <1>3

\* Whatever is found in bytes is a V and leaves bytes.
Finds(V, n, f, G) ==
    \A i \in 1 .. n : f[i - 1].rest \in Seq(Byte) /\ G[i].ok => G[i].value \in V /\ G[i].rest \in Seq(Byte)

LEMMA LoopKeeps ==
    ASSUME NEW V, NEW xs \in Seq(V), NEW ss, NEW t, NEW s, NEW f, NEW G, Loop(xs, ss, t, s, f, G),
           Finds(V, Len(s), f, G)
    PROVE  Found(f[Len(s)], V, xs)
<1>1. \E r : Reads(xs, Len(s), r, f, G) /\ r[Len(xs)] = t
  BY LoopReads
<1>2. PICK r : Reads(xs, Len(s), r, f, G) /\ r[Len(xs)] = t
  BY <1>1
<1>3. r[Len(xs)] \in Seq(Byte)
  BY <1>2 DEF Loop
<1> QED BY <1>2, <1>3, RoundsKeep DEF Finds

=============================================================================
