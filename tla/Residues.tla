------------------------------ MODULE Residues ------------------------------
(***************************************************************************)
(* Lemmas of elementary number theory that the proofs about the            *)
(* arithmetic of the program rest on: residues, the least element of a set *)
(* of natural numbers, inverses modulo a prime, Euclid's lemma, powers,    *)
(* and the theorems of Fermat and, for two primes, of Euler.               *)
(***************************************************************************)
EXTENDS Integers, FiniteSetTheorems, WellFoundedInduction, Modular, TLAPS

LEMMA DivMod ==
  ASSUME NEW a \in Int, NEW c \in Nat, c > 0
  PROVE  /\ a \div c \in Int /\ a % c \in 0..(c - 1)
         /\ a = c * (a \div c) + (a % c)
OBVIOUS

\* A product with a number of absolute value at least 1 is not smaller.
LEMMA NoSmallMultiple ==
  ASSUME NEW c \in Nat, c > 0, NEW k \in Int, -c < c * k, c * k < c
  PROVE  k = 0
<1>1. CASE k >= 1
  <2>1. c * k >= c
    BY <1>1
  <2>2. QED
    BY <2>1
<1>2. CASE k <= -1
  <2>1. c * k <= -c
    BY <1>2
  <2>2. QED
    BY <2>1
<1>3. QED
  BY <1>1, <1>2

LEMMA ModUnique ==
  ASSUME NEW c \in Nat, c > 0, NEW q \in Int, NEW m \in 0..(c - 1), NEW a \in Int,
         a = c * q + m
  PROVE  a % c = m
<1> DEFINE q1 == a \div c
           m1 == a % c
<1>1. q1 \in Int /\ m1 \in 0..(c - 1) /\ a = c * q1 + m1
  BY DivMod
<1> HIDE DEF q1, m1
<1>2. c * (q - q1) = m1 - m
  BY <1>1
<1>3. q - q1 = 0
  BY <1>1, <1>2, NoSmallMultiple
<1>4. m1 = m
  BY <1>1, <1>2, <1>3
<1>5. QED
  BY <1>4 DEF m1

LEMMA ModShift ==
  ASSUME NEW c \in Nat, c > 0, NEW a \in Int, NEW k \in Int
  PROVE  (a + c * k) % c = a % c
<1> DEFINE q == a \div c
           m == a % c
<1>1. q \in Int /\ m \in 0..(c - 1) /\ a = c * q + m
  BY DivMod
<1> HIDE DEF q, m
<1>2. a + c * k = c * (q + k) + m
  BY <1>1
<1>3. (a + c * k) % c = m
  BY <1>1, <1>2, ModUnique
<1>4. QED
  BY <1>3 DEF m

LEMMA ModTimes ==
  ASSUME NEW c \in Nat, c > 0, NEW a \in Int, NEW b \in Int
  PROVE  ((a % c) * b) % c = (a * b) % c
<1> DEFINE q == a \div c
           m == a % c
<1>1. q \in Int /\ m \in 0..(c - 1) /\ a = c * q + m
  BY DivMod
<1> HIDE DEF q, m
<1>2. a * b = m * b + c * (q * b)
  BY <1>1
<1>3. (m * b + c * (q * b)) % c = (m * b) % c
  BY <1>1, ModShift
<1>4. QED
  BY <1>2, <1>3 DEF m

LEMMA ModPlus ==
  ASSUME NEW c \in Nat, c > 0, NEW a \in Int, NEW b \in Int
  PROVE  ((a % c) + b) % c = (a + b) % c
<1> DEFINE q == a \div c
           m == a % c
<1>1. q \in Int /\ m \in 0..(c - 1) /\ a = c * q + m
  BY DivMod
<1> HIDE DEF q, m
<1>2. a + b = (m + b) + c * q
  BY <1>1
<1>3. m + b \in Int
  BY <1>1
<1>4. ((m + b) + c * q) % c = (m + b) % c
  BY <1>1, <1>3, ModShift
<1>5. QED
  BY <1>2, <1>4 DEF m

LEMMA ModSmall ==
  ASSUME NEW c \in Nat, c > 0, NEW a \in 0..(c - 1)
  PROVE  a % c = a
<1>1. a = c * 0 + a
  OBVIOUS
<1>2. QED
  BY <1>1, ModUnique

-----------------------------------------------------------------------------
(* Induction, in a form that needs no operator for a parameter.            *)

\* Every set of natural numbers that is not empty has a least element.
LEMMA LeastElement ==
  ASSUME NEW S, S \subseteq Nat, S # {}
  PROVE  \E m \in S : \A k \in S : m <= k
<1> DEFINE Less == OpToRel(<, Nat)
<1>1. IsWellFoundedOn(Less, Nat)
  BY NatLessThanWellFounded
<1>2. \A a, b \in Nat : a < b => <<a, b>> \in Less
  BY DEF OpToRel
<1> HIDE DEF Less
<1>3. PICK m \in S : \A k \in S : ~(<<k, m>> \in Less)
  BY <1>1, WFMin
<1>4. \A k \in S : ~(k < m)
  BY <1>2, <1>3
<1>5. QED
  BY <1>4

\* Induction over a set that is closed under successors.
LEMMA SetInduction ==
  ASSUME NEW S, 0 \in S, \A k \in Nat : k \in S => k + 1 \in S
  PROVE  \A k \in Nat : k \in S
<1> SUFFICES ASSUME NEW k0 \in Nat, k0 \notin S PROVE FALSE
  OBVIOUS
<1> DEFINE B == {k \in Nat : k \notin S}
<1>1. B \subseteq Nat /\ B # {}
  OBVIOUS
<1>2. PICK m \in B : \A k \in B : m <= k
  <2> HIDE DEF B
  <2>1. QED
    BY <1>1, LeastElement
<1>3. m # 0 /\ m - 1 \in Nat
  OBVIOUS
<1>4. m - 1 \in S
  BY <1>2, <1>3
<1>5. QED
  BY <1>3, <1>4

-----------------------------------------------------------------------------
(* Equal residues and multiples.                                           *)

LEMMA SameResidue ==
  ASSUME NEW c \in Nat, c > 0, NEW a \in Int, NEW b \in Int, a % c = b % c
  PROVE  \E k \in Int : a = b + c * k
<1> DEFINE qa == a \div c
           qb == b \div c
<1>1. /\ qa \in Int /\ qb \in Int /\ a % c \in Int
      /\ a = c * qa + (a % c) /\ b = c * qb + (b % c)
  BY DivMod
<1> HIDE DEF qa, qb
<1>2. a = b + c * (qa - qb) /\ qa - qb \in Int
  BY <1>1
<1>3. QED
  BY <1>2

LEMMA Multiple ==
  ASSUME NEW c \in Nat, c > 0, NEW a \in Int
  PROVE  a % c = 0 <=> \E k \in Int : a = c * k
<1>1. ASSUME a % c = 0 PROVE \E k \in Int : a = c * k
  BY <1>1, DivMod
<1>2. ASSUME NEW k \in Int, a = c * k PROVE a % c = 0
  <2>1. 0 \in 0..(c - 1) /\ a = c * k + 0
    BY <1>2
  <2>2. QED
    BY <2>1, ModUnique
<1>3. QED
  BY <1>1, <1>2

LEMMA EqualResidues ==
  ASSUME NEW c \in Nat, c > 0, NEW a \in Int, NEW b \in Int
  PROVE  a % c = b % c <=> (a - b) % c = 0
<1>1. ASSUME a % c = b % c PROVE (a - b) % c = 0
  <2>1. PICK k \in Int : a = b + c * k
    BY <1>1, SameResidue
  <2>2. a - b = c * k
    BY <2>1
  <2>3. QED
    BY <2>2, Multiple
<1>2. ASSUME (a - b) % c = 0 PROVE a % c = b % c
  <2>1. PICK k \in Int : a - b = c * k
    <3>1. a - b \in Int
      OBVIOUS
    <3>2. QED
      BY <1>2, <3>1, Multiple
  <2>2. a = b + c * k
    BY <2>1
  <2>3. QED
    BY <2>2, ModShift
<1>3. QED
  BY <1>1, <1>2

-----------------------------------------------------------------------------
(* Primes.                                                                 *)

IsPrime(p) == p \in Nat /\ p > 1 /\ \A t \in 2..(p - 1) : p % t # 0

\* The least positive residue of the multiples of a divides p, so it is 1.
LEMMA PrimeInverse ==
  ASSUME NEW p, IsPrime(p), NEW a \in Int, a % p # 0
  PROVE  \E u \in 0..(p - 1) : (u * a) % p = 1
<1>1. p \in Nat /\ p > 1 /\ \A t \in 2..(p - 1) : p % t # 0
  BY DEF IsPrime
<1> DEFINE S == {t \in 1..(p - 1) : \E u \in Int : (u * a) % p = t}
<1>2. a % p \in S
  <2>1. a % p \in 1..(p - 1)
    BY <1>1, DivMod
  <2>2. 1 * a = a /\ 1 \in Int
    OBVIOUS
  <2>3. QED
    BY <2>1, <2>2
<1>3. PICK m \in S : \A k \in S : m <= k
  <2>1. S \subseteq Nat /\ S # {}
    BY <1>2
  <2> HIDE DEF S
  <2>2. QED
    BY <2>1, LeastElement
<1>4. PICK u \in Int : (u * a) % p = m
  OBVIOUS
<1>5. m \in 1..(p - 1) /\ m \in Nat /\ m > 0
  OBVIOUS
<1> DEFINE t == p \div m
           e == p % m
<1>6. t \in Int /\ e \in 0..(m - 1) /\ p = m * t + e
  BY <1>1, <1>5, DivMod
<1> HIDE DEF t, e
<1>7. e = 0
  <2>1. SUFFICES ASSUME e # 0 PROVE FALSE
    OBVIOUS
  <2>2. PICK k \in Int : u * a = m + p * k
    <3>1. m % p = m /\ u * a \in Int /\ m \in Int
      BY <1>1, <1>5, ModSmall
    <3>2. (u * a) % p = m % p
      BY <1>4, <3>1
    <3>3. QED
      BY <1>1, <3>1, <3>2, SameResidue
  <2>3. (-t * u) * a = e + p * (-1 - t * k)
    <3>1. (-t * u) * a = -t * (u * a)
      BY <1>6
    <3>2. -t * (m + p * k) = -(m * t) - p * (t * k)
      BY <1>1, <1>5, <1>6, <2>2
    <3>3. -(m * t) = e - p
      BY <1>1, <1>5, <1>6
    <3>4. e - p - p * (t * k) = e + p * (-1 - t * k)
      BY <1>1, <1>6, <2>2
    <3>5. QED
      BY <2>2, <3>1, <3>2, <3>3, <3>4
  <2>4. e \in 1..(p - 1)
    BY <1>1, <1>5, <1>6, <2>1
  <2>5. ((-t * u) * a) % p = e
    <3> DEFINE v == (-t * u) * a
               w == -1 - t * k
    <3>1. v \in Int /\ w \in Int /\ e \in 0..(p - 1)
      BY <1>1, <1>6, <2>2, <2>4
    <3>2. v = p * w + e
      BY <1>1, <1>6, <2>3, <3>1
    <3> HIDE DEF v, w
    <3>3. v % p = e
      BY <1>1, <3>1, <3>2, ModUnique
    <3>4. QED
      BY <3>3 DEF v
  <2>6. e \in S
    <3>1. -t * u \in Int
      BY <1>6
    <3>2. QED
      BY <2>4, <2>5, <3>1
  <2>7. m <= e
    BY <1>3, <2>6
  <2>8. QED
    BY <1>5, <1>6, <2>7
<1>8. p % m = 0
  BY <1>7 DEF e
<1>9. m = 1
  BY <1>1, <1>5, <1>8
<1>10. ((u % p) * a) % p = 1 /\ u % p \in 0..(p - 1)
  <2> HIDE DEF S
  <2>1. ((u % p) * a) % p = (u * a) % p
    <3>1. p \in Nat /\ p > 0 /\ u \in Int /\ a \in Int
      BY <1>1
    <3>2. QED
      BY <3>1, ModTimes
  <2>2. u % p \in 0..(p - 1)
    BY <1>1, DivMod
  <2>3. QED
    BY <1>4, <1>9, <2>1, <2>2
<1>11. QED
  BY <1>10

\* A prime that divides a product divides one of the factors.
LEMMA Euclid ==
  ASSUME NEW p, IsPrime(p), NEW a \in Int, NEW b \in Int, (a * b) % p = 0
  PROVE  a % p = 0 \/ b % p = 0
<1>1. SUFFICES ASSUME a % p # 0 PROVE b % p = 0
  OBVIOUS
<1>2. p \in Nat /\ p > 1
  BY DEF IsPrime
<1>3. PICK u \in 0..(p - 1) : (u * a) % p = 1
  BY <1>1, PrimeInverse
<1>4. ((u * a) * b) % p = b % p
  <2>1. u * a \in Int /\ 1 * b = b
    BY <1>3
  <2>2. (((u * a) % p) * b) % p = ((u * a) * b) % p
    BY <1>2, <2>1, ModTimes
  <2>3. QED
    BY <1>3, <2>1, <2>2
<1>5. ((a * b) * u) % p = 0
  <2>1. a * b \in Int /\ 0 * u = 0
    BY <1>3
  <2>2. (((a * b) % p) * u) % p = ((a * b) * u) % p
    BY <1>2, <1>3, <2>1, ModTimes
  <2>3. 0 % p = 0
    BY <1>2, ModSmall
  <2>4. QED
    BY <2>1, <2>2, <2>3
<1>6. (u * a) * b = (a * b) * u
  BY <1>3
<1>7. QED
  BY <1>4, <1>5, <1>6

\* Primes divide each other only if they are equal.
LEMMA PrimeDividesPrime ==
  ASSUME NEW p, NEW q, IsPrime(p), IsPrime(q), p # q
  PROVE  p % q # 0
<1>1. p \in Nat /\ q \in Nat /\ p > 1 /\ q > 1 /\ \A t \in 2..(p - 1) : p % t # 0
  BY DEF IsPrime
<1>2. CASE q < p
  BY <1>1, <1>2
<1>3. CASE p < q
  <2>1. p \in 0..(q - 1)
    BY <1>1, <1>3
  <2>2. p % q = p
    BY <1>1, <2>1, ModSmall
  <2>3. QED
    BY <1>1, <2>2
<1>4. QED
  BY <1>1, <1>2, <1>3

\* What two different primes divide, their product divides.
LEMMA TwoPrimes ==
  ASSUME NEW p, NEW q, IsPrime(p), IsPrime(q), p # q,
         NEW z \in Int, z % p = 0, z % q = 0
  PROVE  z % (p * q) = 0
<1>1. p \in Nat /\ q \in Nat /\ p > 0 /\ q > 0
  BY DEF IsPrime
<1>2. PICK k \in Int : z = p * k
  BY <1>1, Multiple
<1>3. p % q # 0
  BY PrimeDividesPrime
<1>4. k % q = 0
  <2>1. (p * k) % q = 0 /\ p \in Int
    BY <1>1, <1>2
  <2>2. QED
    BY <1>3, <2>1, Euclid
<1>5. PICK w \in Int : k = q * w
  BY <1>1, <1>4, Multiple
<1>6. z = (p * q) * w
  BY <1>1, <1>2, <1>5
<1>7. p * q \in Nat /\ p * q > 0
  BY <1>1
<1>8. QED
  BY <1>6, <1>7, Multiple

\* A prime has two divisors.
LEMMA DivisorsOfPrime ==
  ASSUME NEW p, IsPrime(p), NEW t \in Nat, NEW w \in Int, p = t * w
  PROVE  t \in {1, p}
<1>1. p \in Nat /\ p > 1 /\ \A e \in 2..(p - 1) : p % e # 0
  BY DEF IsPrime
<1>2. t > 0 /\ w > 0
  <2>1. t # 0
    BY <1>1
  <2>2. CASE w <= 0
    <3>1. t * w <= 0
      BY <2>2
    <3>2. QED
      BY <1>1, <3>1
  <2>3. QED
    BY <2>1, <2>2
<1>3. t <= p
  <2>1. w >= 1
    BY <1>2
  <2>2. t * w >= t
    BY <1>2, <2>1
  <2>3. QED
    BY <1>1, <2>2
<1>4. p % t = 0
  BY <1>1, <1>2, Multiple
<1>5. ~(t \in 2..(p - 1))
  BY <1>1, <1>4
<1>6. QED
  BY <1>1, <1>2, <1>3, <1>5

\* A product of two primes has four.
LEMMA DivisorsOfProduct ==
  ASSUME NEW p, NEW q, IsPrime(p), IsPrime(q),
         NEW t \in Nat, t > 0, (p * q) % t = 0
  PROVE  t \in {1, p, q, p * q}
<1>1. p \in Nat /\ q \in Nat /\ p > 1 /\ q > 1
  BY DEF IsPrime
<1>2. PICK w \in Int : p * q = t * w
  <2>1. p * q \in Int
    BY <1>1
  <2>2. QED
    BY <2>1, Multiple
<1>3. (t * w) % p = 0
  <2>1. t * w = p * q /\ p * q \in Int
    BY <1>1, <1>2
  <2>2. QED
    BY <1>1, <2>1, Multiple
<1>4. CASE t % p = 0
  <2>1. PICK v \in Int : t = p * v
    BY <1>1, <1>4, Multiple
  <2>2. v > 0
    <3>1. CASE v <= 0
      <4>1. p * v <= 0
        BY <1>1, <3>1
      <4>2. QED
        BY <2>1, <4>1
    <3>2. QED
      BY <3>1
  <2>3. p * q = p * (v * w)
    BY <1>1, <1>2, <2>1
  <2>4. q = v * w
    <3>1. p * (q - v * w) = 0
      BY <1>1, <2>3
    <3>2. QED
      BY <1>1, <3>1
  <2>5. v \in {1, q}
    <3>1. v \in Nat
      BY <2>2
    <3>2. QED
      BY <2>4, <3>1, DivisorsOfPrime
  <2>6. QED
    BY <1>1, <2>1, <2>5
<1>5. CASE w % p = 0
  <2>1. PICK v \in Int : w = p * v
    BY <1>1, <1>5, Multiple
  <2>2. p * q = p * (t * v)
    BY <1>1, <1>2, <2>1
  <2>3. q = t * v
    <3>1. p * (q - t * v) = 0
      BY <1>1, <2>2
    <3>2. QED
      BY <1>1, <3>1
  <2>4. QED
    BY <2>3, DivisorsOfPrime
<1>6. QED
  BY <1>3, <1>4, <1>5, Euclid

-----------------------------------------------------------------------------
(* Squares.                                                                *)

LEMMA SquareOfSame ==
  ASSUME NEW c \in Nat, c > 0, NEW a \in Int, NEW b \in Int, a % c = b % c
  PROVE  (a * a) % c = (b * b) % c
<1>1. PICK k \in Int : a = b + c * k
  BY SameResidue
<1>2. a * a = b * b + c * (2 * b * k + c * k * k)
  BY <1>1
<1> DEFINE e == b * b
           f == 2 * b * k + c * k * k
<1>3. a * a = e + c * f /\ e \in Int /\ f \in Int
  BY <1>2
<1> HIDE DEF e, f
<1>4. (a * a) % c = e % c
  BY <1>3, ModShift
<1>5. QED
  BY <1>4 DEF e

LEMMA SquareOfOpposite ==
  ASSUME NEW c \in Nat, c > 0, NEW a \in Int, NEW b \in Int, (a + b) % c = 0
  PROVE  (a * a) % c = (b * b) % c
<1>1. PICK k \in Int : a + b = c * k
  <2>1. a + b \in Int
    OBVIOUS
  <2>2. QED
    BY <2>1, Multiple
<1>2. a * a = b * b + c * (k * (a - b))
  <2>1. a * a - b * b = (a + b) * (a - b)
    OBVIOUS
  <2>2. (c * k) * (a - b) = c * (k * (a - b))
    OBVIOUS
  <2>3. QED
    BY <1>1, <2>1, <2>2
<1>3. b * b \in Int /\ k * (a - b) \in Int
  OBVIOUS
<1>4. QED
  BY <1>2, <1>3, ModShift

\* Modulo a prime a square has no roots but one and its opposite.
LEMMA RootsOfSquare ==
  ASSUME NEW p, IsPrime(p), NEW a \in Int, NEW b \in Int, (a * a) % p = (b * b) % p
  PROVE  (a - b) % p = 0 \/ (a + b) % p = 0
<1>1. p \in Nat /\ p > 0
  BY DEF IsPrime
<1>2. a * a \in Int /\ b * b \in Int /\ a - b \in Int /\ a + b \in Int
  OBVIOUS
<1>3. (a * a - b * b) % p = 0
  BY <1>1, <1>2, EqualResidues
<1>4. a * a - b * b = (a - b) * (a + b)
  OBVIOUS
<1>5. QED
  BY <1>2, <1>3, <1>4, Euclid

-----------------------------------------------------------------------------
(* Powers.                                                                 *)

\* f is the function that ExpMod computes up to b.
PowersUpTo(f, a, b, c) == f = [i \in 0..b |-> IF i = 0 THEN 1 % c ELSE (f[i - 1] * a) % c]

LEMMA PowersExist ==
  ASSUME NEW a \in Int, NEW c \in Nat, c > 0
  PROVE  \A b \in Nat : \E f : PowersUpTo(f, a, b, c)
<1> DEFINE S == {b \in Nat : \E f : PowersUpTo(f, a, b, c)}
<1>1. 0 \in S
  <2> DEFINE f == [i \in 0..0 |-> 1 % c]
  <2>1. PowersUpTo(f, a, 0, c)
    BY DEF PowersUpTo
  <2>2. QED
    BY <2>1
<1>2. ASSUME NEW k \in Nat, k \in S PROVE k + 1 \in S
  <2>1. PICK f : PowersUpTo(f, a, k, c)
    BY <1>2
  <2> DEFINE h == [i \in 0..(k + 1) |-> IF i <= k THEN f[i] ELSE (f[k] * a) % c]
             H(i) == IF i = 0 THEN 1 % c ELSE (h[i - 1] * a) % c
  <2>2. ASSUME NEW i \in 0..(k + 1) PROVE h[i] = H(i)
    <3>1. CASE i = 0
      BY <2>1, <3>1 DEF PowersUpTo
    <3>2. CASE i # 0 /\ i <= k
      <4>1. f[i] = (f[i - 1] * a) % c
        BY <2>1, <3>2 DEF PowersUpTo
      <4>2. h[i] = f[i] /\ h[i - 1] = f[i - 1]
        BY <3>2
      <4>3. QED
        BY <3>2, <4>1, <4>2
    <3>3. CASE i = k + 1
      <4>1. h[i] = (f[k] * a) % c /\ h[i - 1] = f[k] /\ i # 0
        BY <3>3
      <4>2. QED
        BY <4>1
    <3>4. QED
      BY <3>1, <3>2, <3>3
  <2>3. h = [i \in 0..(k + 1) |-> H(i)]
    <3>1. h = [i \in 0..(k + 1) |-> h[i]]
      OBVIOUS
    <3> HIDE DEF h, H
    <3>2. QED
      BY <2>2, <3>1
  <2>4. PowersUpTo(h, a, k + 1, c)
    <3> HIDE DEF h
    <3>1. QED
      BY <2>3 DEF PowersUpTo
  <2>5. QED
    BY <2>4
<1>3. \A b \in Nat : b \in S
  <2> HIDE DEF S
  <2>1. QED
    BY <1>1, <1>2, SetInduction
<1>4. QED
  BY <1>3

LEMMA ExpModFunction ==
  ASSUME NEW a \in Int, NEW c \in Nat, c > 0, NEW b \in Nat
  PROVE  \E f : PowersUpTo(f, a, b, c) /\ ExpMod(a, b, c) = f[b]
<1> DEFINE f == CHOOSE g : PowersUpTo(g, a, b, c)
<1>1. PowersUpTo(f, a, b, c)
  BY PowersExist
<1>2. ExpMod(a, b, c) = f[b]
  BY DEF ExpMod, PowersUpTo
<1>3. QED
  BY <1>1, <1>2

\* Two such functions agree where both are defined.
LEMMA PowersAgree ==
  ASSUME NEW a \in Int, NEW c \in Nat, c > 0, NEW b \in Nat, NEW d \in Nat, b <= d,
         NEW f, NEW h, PowersUpTo(f, a, b, c), PowersUpTo(h, a, d, c)
  PROVE  f[b] = h[b]
<1> DEFINE S == {i \in Nat : i <= b => f[i] = h[i]}
<1>1. 0 \in S
  BY DEF PowersUpTo
<1>2. ASSUME NEW i \in Nat, i \in S PROVE i + 1 \in S
  <2> SUFFICES ASSUME i + 1 <= b PROVE f[i + 1] = h[i + 1]
    OBVIOUS
  <2>1. f[i] = h[i]
    BY <1>2
  <2>2. i + 1 \in 0..b /\ i + 1 \in 0..d /\ i + 1 # 0 /\ (i + 1) - 1 = i
    OBVIOUS
  <2>3. f[i + 1] = (f[i] * a) % c /\ h[i + 1] = (h[i] * a) % c
    BY <2>2 DEF PowersUpTo
  <2>4. QED
    BY <2>1, <2>3
<1>3. \A i \in Nat : i \in S
  <2> HIDE DEF S
  <2>1. QED
    BY <1>1, <1>2, SetInduction
<1>4. QED
  BY <1>3

\* What ExpMod computes: a power is 1 or the power before it times the base.
LEMMA ExpModZero ==
  ASSUME NEW a \in Int, NEW c \in Nat, c > 0
  PROVE  ExpMod(a, 0, c) = 1 % c
<1>1. PICK f : PowersUpTo(f, a, 0, c) /\ ExpMod(a, 0, c) = f[0]
  BY ExpModFunction
<1>2. QED
  BY <1>1 DEF PowersUpTo

LEMMA ExpModNext ==
  ASSUME NEW a \in Int, NEW c \in Nat, c > 0, NEW b \in Nat
  PROVE  ExpMod(a, b + 1, c) = (ExpMod(a, b, c) * a) % c
<1>1. PICK f : PowersUpTo(f, a, b, c) /\ ExpMod(a, b, c) = f[b]
  BY ExpModFunction
<1>2. b + 1 \in Nat
  OBVIOUS
<1>3. PICK h : PowersUpTo(h, a, b + 1, c) /\ ExpMod(a, b + 1, c) = h[b + 1]
  BY <1>2, ExpModFunction
<1>4. f[b] = h[b]
  BY <1>1, <1>2, <1>3, PowersAgree
<1>5. h[b + 1] = (h[b] * a) % c
  <2>1. b + 1 \in 0..(b + 1) /\ b + 1 # 0 /\ (b + 1) - 1 = b
    OBVIOUS
  <2>2. QED
    BY <1>3, <2>1 DEF PowersUpTo
<1>6. QED
  BY <1>1, <1>3, <1>4, <1>5

\* Either factor may be reduced.
LEMMA ModLeft ==
  ASSUME NEW c \in Nat, c > 0, NEW a \in Int, NEW a1 \in Int, a % c = a1 % c, NEW b \in Int
  PROVE  (a * b) % c = (a1 * b) % c
<1>1. (a * b) % c = ((a % c) * b) % c /\ (a1 * b) % c = ((a1 % c) * b) % c
  BY ModTimes
<1>2. QED
  BY <1>1

LEMMA ModRight ==
  ASSUME NEW c \in Nat, c > 0, NEW a \in Int, NEW a1 \in Int, a % c = a1 % c, NEW b \in Int
  PROVE  (b * a) % c = (b * a1) % c
<1>1. (a * b) % c = (a1 * b) % c
  BY ModLeft
<1>2. a * b = b * a /\ a1 * b = b * a1
  OBVIOUS
<1>3. QED
  BY <1>1, <1>2

LEMMA ModMod ==
  ASSUME NEW c \in Nat, c > 0, NEW a \in Int
  PROVE  (a % c) % c = a % c
<1>1. a % c \in 0..(c - 1)
  BY DivMod
<1>2. QED
  BY <1>1, ModSmall

\* A residue may be reduced further modulo a divisor.
LEMMA ModDivisor ==
  ASSUME NEW c \in Nat, c > 0, NEW d \in Nat, d > 0, NEW e \in Nat, c = d * e, NEW a \in Int
  PROVE  (a % c) % d = a % d
<1> DEFINE k == a \div c
           m == a % c
<1>1. k \in Int /\ m \in Int /\ a = c * k + m
  BY DivMod
<1> HIDE DEF k, m
<1>2. a = m + d * (e * k) /\ e * k \in Int
  BY <1>1
<1>3. (m + d * (e * k)) % d = m % d
  BY <1>1, <1>2, ModShift
<1>4. QED
  BY <1>2, <1>3 DEF m

LEMMA ExpModType ==
  ASSUME NEW a \in Int, NEW c \in Nat, c > 0, NEW b \in Nat
  PROVE  ExpMod(a, b, c) \in 0..(c - 1) /\ ExpMod(a, b, c) \in Int
<1> DEFINE S == {i \in Nat : ExpMod(a, i, c) \in 0..(c - 1)}
<1>1. 0 \in S
  BY ExpModZero, DivMod
<1>2. ASSUME NEW i \in Nat, i \in S PROVE i + 1 \in S
  <2> DEFINE e == ExpMod(a, i, c)
  <2>1. e \in Int
    BY <1>2
  <2>2. ExpMod(a, i + 1, c) = (e * a) % c
    BY ExpModNext
  <2> HIDE DEF e
  <2>3. e * a \in Int
    BY <2>1
  <2>4. (e * a) % c \in 0..(c - 1)
    BY <2>3, DivMod
  <2>5. QED
    BY <2>2, <2>4
<1>3. \A i \in Nat : i \in S
  <2> HIDE DEF S
  <2>1. QED
    BY <1>1, <1>2, SetInduction
<1>4. QED
  BY <1>3

LEMMA ExpModReduced ==
  ASSUME NEW a \in Int, NEW c \in Nat, c > 0, NEW b \in Nat
  PROVE  ExpMod(a, b, c) % c = ExpMod(a, b, c)
BY ExpModType, ModSmall

\* Only the residue of the base counts.
LEMMA ExpModBase ==
  ASSUME NEW a \in Int, NEW a1 \in Int, NEW c \in Nat, c > 0, a % c = a1 % c, NEW b \in Nat
  PROVE  ExpMod(a, b, c) = ExpMod(a1, b, c)
<1> DEFINE S == {i \in Nat : ExpMod(a, i, c) = ExpMod(a1, i, c)}
<1>1. 0 \in S
  BY ExpModZero
<1>2. ASSUME NEW i \in Nat, i \in S PROVE i + 1 \in S
  <2> DEFINE e == ExpMod(a, i, c)
  <2>1. e \in Int
    BY ExpModType
  <2>2. ExpMod(a, i + 1, c) = (e * a) % c /\ ExpMod(a1, i + 1, c) = (e * a1) % c
    BY <1>2, ExpModNext
  <2> HIDE DEF e
  <2>3. (e * a) % c = (e * a1) % c
    BY <2>1, ModRight
  <2>4. QED
    BY <2>2, <2>3
<1>3. \A i \in Nat : i \in S
  <2> HIDE DEF S
  <2>1. QED
    BY <1>1, <1>2, SetInduction
<1>4. QED
  BY <1>3

\* A power modulo a divisor.
LEMMA ExpModDivisor ==
  ASSUME NEW a \in Int, NEW c \in Nat, c > 0, NEW d \in Nat, d > 0, NEW e \in Nat, c = d * e,
         NEW b \in Nat
  PROVE  ExpMod(a, b, c) % d = ExpMod(a, b, d)
<1> DEFINE S == {i \in Nat : ExpMod(a, i, c) % d = ExpMod(a, i, d)}
<1>1. 0 \in S
  BY ExpModZero, ModDivisor
<1>2. ASSUME NEW i \in Nat, i \in S PROVE i + 1 \in S
  <2> DEFINE x == ExpMod(a, i, c)
             y == ExpMod(a, i, d)
  <2>1. x \in Int /\ y \in Int /\ x % d = y /\ y % d = y
    BY <1>2, ExpModType, ExpModReduced
  <2>2. ExpMod(a, i + 1, c) = (x * a) % c /\ ExpMod(a, i + 1, d) = (y * a) % d
    BY ExpModNext
  <2> HIDE DEF x, y
  <2>3. ((x * a) % c) % d = (x * a) % d
    <3>1. x * a \in Int
      BY <2>1
    <3>2. QED
      BY <3>1, ModDivisor
  <2>4. (x * a) % d = (y * a) % d
    BY <2>1, ModLeft
  <2>5. QED
    BY <2>2, <2>3, <2>4
<1>3. \A i \in Nat : i \in S
  <2> HIDE DEF S
  <2>1. QED
    BY <1>1, <1>2, SetInduction
<1>4. QED
  BY <1>3

\* The laws of powers.
LEMMA ExpModPlus ==
  ASSUME NEW a \in Int, NEW c \in Nat, c > 0, NEW b \in Nat, NEW d \in Nat
  PROVE  ExpMod(a, b + d, c) = (ExpMod(a, b, c) * ExpMod(a, d, c)) % c
<1> DEFINE x == ExpMod(a, b, c)
           S == {i \in Nat : ExpMod(a, b + i, c) = (x * ExpMod(a, i, c)) % c}
<1>0. x \in Int /\ x % c = x
  BY ExpModType, ExpModReduced
<1>1. 0 \in S
  <2>1. b + 0 = b
    OBVIOUS
  <2>2. ExpMod(a, 0, c) = 1 % c /\ 1 % c \in Int
    BY ExpModZero, DivMod
  <2> SUFFICES x = (x * (1 % c)) % c
    BY <2>1, <2>2
  <2> HIDE DEF x
  <2>3. (1 % c) % c = 1 % c
    BY ModMod
  <2>4. (x * (1 % c)) % c = (x * 1) % c
    BY <1>0, <2>2, <2>3, ModRight
  <2>5. x * 1 = x
    BY <1>0
  <2>6. QED
    BY <1>0, <2>4, <2>5
<1>2. ASSUME NEW i \in Nat, i \in S PROVE i + 1 \in S
  <2> DEFINE y == ExpMod(a, i, c)
             z == ExpMod(a, b + i, c)
  <2>1. y \in Int /\ z \in Int /\ z = (x * y) % c /\ b + i \in Nat
    BY <1>2, ExpModType
  <2>2. b + (i + 1) = (b + i) + 1
    OBVIOUS
  <2>3. ExpMod(a, b + (i + 1), c) = (z * a) % c
    BY <2>1, <2>2, ExpModNext
  <2>4. ExpMod(a, i + 1, c) = (y * a) % c
    BY ExpModNext
  <2> SUFFICES (z * a) % c = (x * ((y * a) % c)) % c
    BY <2>3, <2>4
  <2> HIDE DEF x, y, z
  <2>5. x * y \in Int /\ y * a \in Int
    BY <1>0, <2>1
  <2>6. (z * a) % c = ((x * y) * a) % c
    BY <2>1, <2>5, ModTimes
  <2>7. (x * ((y * a) % c)) % c = (x * (y * a)) % c
    <3>1. ((y * a) % c) % c = (y * a) % c /\ (y * a) % c \in Int
      BY <2>5, ModMod, DivMod
    <3> DEFINE w == y * a
               v == (y * a) % c
    <3>2. w \in Int /\ v \in Int /\ v % c = w % c
      BY <2>5, <3>1
    <3> HIDE DEF w, v
    <3>3. (x * v) % c = (x * w) % c
      BY <1>0, <3>2, ModRight
    <3>4. QED
      BY <3>3 DEF w, v
  <2>8. (x * y) * a = x * (y * a)
    BY <1>0, <2>1
  <2>9. QED
    BY <2>6, <2>7, <2>8
<1>3. \A i \in Nat : i \in S
  <2> HIDE DEF S
  <2>1. QED
    BY <1>1, <1>2, SetInduction
<1>4. QED
  BY <1>3

LEMMA ModBoth ==
  ASSUME NEW c \in Nat, c > 0, NEW a \in Int, NEW b \in Int
  PROVE  ((a % c) * (b % c)) % c = (a * b) % c
<1> DEFINE m == b % c
<1>1. m \in Int /\ m % c = b % c
  BY DivMod, ModMod
<1> HIDE DEF m
<1>2. ((a % c) * m) % c = (a * m) % c
  BY <1>1, ModTimes
<1>3. (a * m) % c = (a * b) % c
  BY <1>1, ModRight
<1>4. QED
  BY <1>2, <1>3 DEF m

LEMMA ExpModProduct ==
  ASSUME NEW a \in Int, NEW b \in Int, NEW c \in Nat, c > 0, NEW d \in Nat
  PROVE  ExpMod(a * b, d, c) = (ExpMod(a, d, c) * ExpMod(b, d, c)) % c
<1> DEFINE S == {i \in Nat : ExpMod(a * b, i, c) = (ExpMod(a, i, c) * ExpMod(b, i, c)) % c}
<1>0. a * b \in Int
  OBVIOUS
<1>1. 0 \in S
  <2>1. ExpMod(a * b, 0, c) = 1 % c /\ ExpMod(a, 0, c) = 1 % c /\ ExpMod(b, 0, c) = 1 % c
    BY <1>0, ExpModZero
  <2>2. ((1 % c) * (1 % c)) % c = (1 * 1) % c
    BY ModBoth
  <2>3. QED
    BY <2>1, <2>2
<1>2. ASSUME NEW i \in Nat, i \in S PROVE i + 1 \in S
  <2> DEFINE x == ExpMod(a, i, c)
             y == ExpMod(b, i, c)
             ab == a * b
             z == ExpMod(ab, i, c)
  <2>1. x \in Int /\ y \in Int /\ z \in Int /\ z = (x * y) % c
    BY <1>0, <1>2, ExpModType
  <2>2. ExpMod(a, i + 1, c) = (x * a) % c /\ ExpMod(b, i + 1, c) = (y * b) % c
    BY ExpModNext
  <2>3. ExpMod(ab, i + 1, c) = (z * ab) % c
    <3> HIDE DEF ab
    <3>1. ab \in Int
      BY <1>0 DEF ab
    <3>2. QED
      BY <3>1, ExpModNext
  <2> SUFFICES (z * ab) % c = (((x * a) % c) * ((y * b) % c)) % c
    BY <2>2, <2>3
  <2> HIDE DEF x, y, z
  <2> DEFINE xy == x * y
             xa == x * a
             yb == y * b
  <2>4. xy \in Int /\ xa \in Int /\ yb \in Int /\ ab \in Int /\ xy * ab = xa * yb
    BY <2>1
  <2>5. z = xy % c
    BY <2>1
  <2> HIDE DEF xy, xa, yb, ab
  <2>6. ((xy % c) * ab) % c = (xy * ab) % c
    BY <2>4, ModTimes
  <2>7. ((xa % c) * (yb % c)) % c = (xa * yb) % c
    BY <2>4, ModBoth
  <2>8. QED
    BY <2>4, <2>5, <2>6, <2>7 DEF xa, yb
<1>3. \A i \in Nat : i \in S
  <2> HIDE DEF S
  <2>1. QED
    BY <1>1, <1>2, SetInduction
<1>4. QED
  BY <1>3

LEMMA ExpModPower ==
  ASSUME NEW a \in Int, NEW c \in Nat, c > 0, NEW b \in Nat, NEW d \in Nat
  PROVE  ExpMod(ExpMod(a, b, c), d, c) = ExpMod(a, b * d, c)
<1> DEFINE x == ExpMod(a, b, c)
           S == {i \in Nat : ExpMod(x, i, c) = ExpMod(a, b * i, c)}
<1>0. x \in Int
  BY ExpModType
<1>1. 0 \in S
  <2>1. b * 0 = 0
    OBVIOUS
  <2>2. ExpMod(x, 0, c) = 1 % c /\ ExpMod(a, 0, c) = 1 % c
    BY <1>0, ExpModZero
  <2>3. QED
    BY <2>1, <2>2
<1>2. ASSUME NEW i \in Nat, i \in S PROVE i + 1 \in S
  <2> DEFINE bi == b * i
  <2>1. b * (i + 1) = bi + b /\ bi \in Nat
    OBVIOUS
  <2>2. ExpMod(x, i, c) = ExpMod(a, bi, c)
    BY <1>2
  <2> HIDE DEF bi
  <2>3. ExpMod(a, bi + b, c) = (ExpMod(a, bi, c) * x) % c
    BY <2>1, ExpModPlus
  <2>4. ExpMod(x, i + 1, c) = (ExpMod(x, i, c) * x) % c
    BY <1>0, ExpModNext
  <2>5. QED
    BY <2>1, <2>2, <2>3, <2>4
<1>3. \A i \in Nat : i \in S
  <2> HIDE DEF S, x
  <2>1. QED
    BY <1>1, <1>2, SetInduction
<1>4. QED
  BY <1>3

LEMMA ExpModOne ==
  ASSUME NEW a \in Int, NEW c \in Nat, c > 0
  PROVE  ExpMod(a, 1, c) = a % c
<1>1. ExpMod(a, 0 + 1, c) = (ExpMod(a, 0, c) * a) % c
  BY ExpModNext
<1>2. ((1 % c) * a) % c = (1 * a) % c
  BY ModTimes
<1>3. 0 + 1 = 1 /\ 1 * a = a /\ ExpMod(a, 0, c) = 1 % c
  BY ExpModZero
<1>4. QED
  BY <1>1, <1>2, <1>3

LEMMA ExpModOfOne ==
  ASSUME NEW a \in Int, NEW c \in Nat, c > 0, a % c = 1 % c, NEW b \in Nat
  PROVE  ExpMod(a, b, c) = 1 % c
<1> DEFINE S == {i \in Nat : ExpMod(a, i, c) = 1 % c}
<1>1. 0 \in S
  BY ExpModZero
<1>2. ASSUME NEW i \in Nat, i \in S PROVE i + 1 \in S
  <2>1. ExpMod(a, i + 1, c) = ((1 % c) * a) % c
    BY <1>2, ExpModNext
  <2>2. ((1 % c) * a) % c = (1 * a) % c /\ 1 * a = a
    BY ModTimes
  <2>3. QED
    BY <2>1, <2>2
<1>3. \A i \in Nat : i \in S
  <2> HIDE DEF S
  <2>1. QED
    BY <1>1, <1>2, SetInduction
<1>4. QED
  BY <1>3

\* A power with a positive exponent of a multiple of c.
LEMMA ExpModOfZero ==
  ASSUME NEW a \in Int, NEW c \in Nat, c > 0, a % c = 0, NEW b \in Nat, b > 0
  PROVE  ExpMod(a, b, c) = 0
<1> DEFINE e == ExpMod(a, b - 1, c)
<1>1. b - 1 \in Nat /\ (b - 1) + 1 = b
  OBVIOUS
<1>2. ExpMod(a, b, c) = (e * a) % c /\ e \in Int
  BY <1>1, ExpModNext, ExpModType
<1> HIDE DEF e
<1>3. 0 % c = 0 /\ 0 \in Int
  BY ModSmall
<1>4. (e * a) % c = (e * 0) % c
  BY <1>2, <1>3, ModRight
<1>5. e * 0 = 0
  BY <1>2
<1>6. QED
  BY <1>2, <1>3, <1>4, <1>5

\* A prime divides a power only if it divides the base.
LEMMA PrimeDividesPower ==
  ASSUME NEW p, IsPrime(p), NEW a \in Int, a % p # 0, NEW b \in Nat
  PROVE  ExpMod(a, b, p) # 0
<1> DEFINE S == {i \in Nat : ExpMod(a, i, p) # 0}
<1>0. p \in Nat /\ p > 0 /\ 1 % p = 1
  <2>1. p \in Nat /\ p > 1 /\ 1 \in 0..(p - 1)
    BY DEF IsPrime
  <2>2. QED
    BY <2>1, ModSmall
<1>1. 0 \in S
  BY <1>0, ExpModZero
<1>2. ASSUME NEW i \in Nat, i \in S PROVE i + 1 \in S
  <2> DEFINE e == ExpMod(a, i, p)
  <2>1. e \in Int /\ e % p = e /\ e # 0
    BY <1>0, <1>2, ExpModType, ExpModReduced
  <2>2. ExpMod(a, i + 1, p) = (e * a) % p
    BY <1>0, ExpModNext
  <2> HIDE DEF e
  <2>3. (e * a) % p # 0
    BY <2>1, Euclid
  <2>4. QED
    BY <2>2, <2>3
<1>3. \A i \in Nat : i \in S
  <2> HIDE DEF S
  <2>1. QED
    BY <1>1, <1>2, SetInduction
<1>4. QED
  BY <1>3

-----------------------------------------------------------------------------
(* Fermat's little theorem.                                                *)

LEMMA CancelFactor ==
  ASSUME NEW p, IsPrime(p), NEW a \in Int, a % p # 0, NEW x \in Int, NEW y \in Int,
         (x * a) % p = (y * a) % p
  PROVE  x % p = y % p
<1>1. p \in Nat /\ p > 0
  BY DEF IsPrime
<1> DEFINE xa == x * a
           ya == y * a
<1>2. xa \in Int /\ ya \in Int /\ xa - ya = (x - y) * a /\ x - y \in Int
  OBVIOUS
<1>3. xa % p = ya % p
  OBVIOUS
<1> HIDE DEF xa, ya
<1>4. (xa - ya) % p = 0
  BY <1>1, <1>2, <1>3, EqualResidues
<1>5. ((x - y) * a) % p = 0
  BY <1>2, <1>4
<1>6. (x - y) % p = 0
  BY <1>2, <1>5, Euclid
<1>7. QED
  BY <1>1, <1>6, EqualResidues

\* If two powers are equal then the power of the difference is 1.
LEMMA EqualPowers ==
  ASSUME NEW p, IsPrime(p), NEW a \in Int, a % p # 0, NEW i \in Nat, NEW j \in Nat, i < j,
         ExpMod(a, i, p) = ExpMod(a, j, p)
  PROVE  ExpMod(a, j - i, p) = 1
<1>1. p \in Nat /\ p > 0 /\ 1 % p = 1
  <2>1. p \in Nat /\ p > 1 /\ 1 \in 0..(p - 1)
    BY DEF IsPrime
  <2>2. QED
    BY <2>1, ModSmall
<1> DEFINE e == ExpMod(a, i, p)
           f == ExpMod(a, j - i, p)
<1>2. j - i \in Nat /\ (j - i) + i = j
  OBVIOUS
<1>3. e \in Int /\ f \in Int /\ e % p = e /\ f % p = f /\ e # 0
  BY <1>1, <1>2, ExpModType, ExpModReduced, PrimeDividesPower
<1>4. ExpMod(a, (j - i) + i, p) = (f * e) % p
  BY <1>1, <1>2, ExpModPlus
<1>5. (f * e) % p = e
  BY <1>2, <1>4
<1> HIDE DEF e, f
<1>6. (1 * e) % p = e
  BY <1>3
<1>7. f % p = 1 % p
  <2>1. e % p # 0 /\ (f * e) % p = (1 * e) % p /\ 1 \in Int
    BY <1>3, <1>5, <1>6
  <2>2. QED
    BY <1>3, <2>1, CancelFactor
<1>8. QED
  BY <1>1, <1>3, <1>7 DEF f

\* Some power of a is 1.
LEMMA OrderExists ==
  ASSUME NEW p, IsPrime(p), NEW a \in Int, a % p # 0
  PROVE  \E d \in Nat : d > 0 /\ ExpMod(a, d, p) = 1
<1>1. p \in Nat /\ p > 1
  BY DEF IsPrime
<1> DEFINE f == [i \in 1..p |-> ExpMod(a, i, p)]
           V == 1..(p - 1)
           U == 1..p
<1>2. f \in [U -> V]
  <2>1. ASSUME NEW i \in U PROVE ExpMod(a, i, p) \in V
    <3>1. i \in Nat
      BY <1>1
    <3>a. p > 0
      BY <1>1
    <3>b. ExpMod(a, i, p) # 0
      BY <3>1, PrimeDividesPower
    <3>2. ExpMod(a, i, p) \in 0..(p - 1) /\ ExpMod(a, i, p) # 0
      BY <1>1, <3>1, <3>a, <3>b, ExpModType
    <3>3. QED
      BY <3>2
  <2>2. QED
    BY <2>1
<1>3. IsFiniteSet(U) /\ IsFiniteSet(V) /\ Cardinality(V) < Cardinality(U)
  <2>1. 1 \in Int /\ p \in Int /\ p - 1 \in Int /\ ~(1 > p) /\ ~(1 > p - 1)
    BY <1>1
  <2>2. Cardinality(1..p) = IF 1 > p THEN 0 ELSE p - 1 + 1
    BY <2>1, FS_Interval
  <2>3. Cardinality(1..(p - 1)) = IF 1 > p - 1 THEN 0 ELSE (p - 1) - 1 + 1
    BY <2>1, FS_Interval
  <2>4. IsFiniteSet(1..p) /\ IsFiniteSet(1..(p - 1))
    BY <2>1, FS_Interval
  <2>5. QED
    BY <1>1, <2>2, <2>3, <2>4
<1> HIDE DEF V
<1>4. PICK i, j \in U : i # j /\ f[i] = f[j]
  <2> HIDE DEF f, U
  <2>1. QED
    BY <1>2, <1>3, FS_PigeonHole
<1>5. i \in Nat /\ j \in Nat /\ ExpMod(a, i, p) = ExpMod(a, j, p)
  BY <1>1, <1>4
<1>6. CASE i < j
  <2>1. ExpMod(a, j - i, p) = 1
    BY <1>5, <1>6, EqualPowers
  <2>2. j - i \in Nat /\ j - i > 0
    BY <1>5, <1>6
  <2>3. QED
    BY <2>1, <2>2
<1>7. CASE j < i
  <2>1. ExpMod(a, i - j, p) = 1
    BY <1>5, <1>7, EqualPowers
  <2>2. i - j \in Nat /\ i - j > 0
    BY <1>5, <1>7
  <2>3. QED
    BY <2>1, <2>2
<1>8. QED
  BY <1>4, <1>5, <1>6, <1>7

\* A set that multiplication by a does not leave.
ClosedUnder(S, a, p) == S \subseteq 1..(p - 1) /\ \A x \in S : (x * a) % p \in S

\* The elements that are reached from x by multiplication with a.
Orbit(x, a, d, p) == {(x * ExpMod(a, i, p)) % p : i \in 0..(d - 1)}

LEMMA OrbitInside ==
  ASSUME NEW p, IsPrime(p), NEW a \in Int, NEW S, ClosedUnder(S, a, p), NEW x \in S
  PROVE  \A i \in Nat : (x * ExpMod(a, i, p)) % p \in S
<1>1. p \in Nat /\ p > 0 /\ x \in 0..(p - 1) /\ x \in Int
  BY DEF IsPrime, ClosedUnder
<1>2. x % p = x
  BY <1>1, ModSmall
<1> DEFINE B == {i \in Nat : (x * ExpMod(a, i, p)) % p \in S}
<1>3. 0 \in B
  <2>1. ExpMod(a, 0, p) = 1 % p
    BY <1>1, ExpModZero
  <2>2. (1 % p) % p = 1 % p /\ 1 % p \in Int
    BY <1>1, ModMod, DivMod
  <2>3. (x * (1 % p)) % p = (x * 1) % p
    BY <1>1, <2>2, ModRight
  <2>4. x * 1 = x
    BY <1>1
  <2>5. QED
    BY <1>2, <2>1, <2>3, <2>4
<1>4. ASSUME NEW i \in Nat, i \in B PROVE i + 1 \in B
  <2> DEFINE e == ExpMod(a, i, p)
             xe == x * e
             ea == e * a
             m == ea % p
  <2>1. e \in Int /\ xe \in Int /\ ea \in Int /\ m \in Int /\ xe * a = x * ea
    <3>1. e \in Int
      BY <1>1, ExpModType
    <3> HIDE DEF e
    <3>2. xe \in Int /\ ea \in Int /\ xe * a = x * ea
      BY <1>1, <3>1
    <3>3. m \in Int
      <4> HIDE DEF ea
      <4>1. QED
        BY <1>1, <3>2, DivMod
    <3>4. QED
      BY <3>1, <3>2, <3>3
  <2>2. ExpMod(a, i + 1, p) = m
    BY <1>1, ExpModNext
  <2>3. xe % p \in S
    BY <1>4
  <2> HIDE DEF e, xe, ea
  <2>4. ((xe % p) * a) % p \in S
    BY <2>3 DEF ClosedUnder
  <2>5. ((xe % p) * a) % p = (xe * a) % p
    BY <1>1, <2>1, ModTimes
  <2>6. m % p = ea % p
    BY <1>1, <2>1, ModMod
  <2> HIDE DEF m
  <2>a. x \in Int /\ m \in Int /\ ea \in Int /\ p \in Nat /\ p > 0
    BY <1>1, <2>1
  <2>7. (x * m) % p = (x * ea) % p
    BY ONLY <2>a, <2>6, ModRight
  <2>8. (x * ExpMod(a, i + 1, p)) % p \in S
    BY <2>1, <2>2, <2>4, <2>5, <2>7
  <2>9. QED
    BY <2>8
<1>5. \A i \in Nat : i \in B
  <2> HIDE DEF B
  <2>1. QED
    BY <1>3, <1>4, SetInduction
<1>6. QED
  BY <1>5

\* d is the order of a: the least positive number of factors that make 1.
IsOrder(d, a, p) ==
  /\ d \in Nat /\ d > 0 /\ ExpMod(a, d, p) = 1
  /\ \A i \in Nat : i > 0 /\ ExpMod(a, i, p) = 1 => d <= i

LEMMA OrbitSize ==
  ASSUME NEW p, IsPrime(p), NEW a \in Int, a % p # 0, NEW d, IsOrder(d, a, p),
         NEW x \in 1..(p - 1)
  PROVE  IsFiniteSet(Orbit(x, a, d, p)) /\ Cardinality(Orbit(x, a, d, p)) = d
<1>1. p \in Nat /\ p > 0 /\ d \in Nat /\ d > 0
  BY DEF IsPrime, IsOrder
<1>2. x \in Int /\ x % p # 0
  BY <1>1, ModSmall
<1> DEFINE D == 0..(d - 1)
           O == Orbit(x, a, d, p)
           f == [i \in D |-> (x * ExpMod(a, i, p)) % p]
<1>3. f \in [D -> O] /\ \A y \in O : \E i \in D : f[i] = y
  BY DEF Orbit
<1>4. ASSUME NEW i \in D, NEW j \in D, f[i] = f[j], i < j PROVE FALSE
  <2> DEFINE e == ExpMod(a, i, p)
             g == ExpMod(a, j, p)
  <2>1. i \in Nat /\ j \in Nat
    BY <1>1
  <2>2. e \in Int /\ g \in Int /\ e % p = e /\ g % p = g
    BY <1>1, <2>1, ExpModType, ExpModReduced
  <2>3. (x * e) % p = (x * g) % p
    BY <1>4
  <2> HIDE DEF e, g
  <2>4. (e * x) % p = (g * x) % p
    <3>1. x * e = e * x /\ x * g = g * x
      BY <1>2, <2>2
    <3>2. QED
      BY <2>3, <3>1
  <2>5. e % p = g % p
    BY <1>2, <2>2, <2>4, CancelFactor
  <2>6. ExpMod(a, i, p) = ExpMod(a, j, p)
    BY <2>2, <2>5 DEF e, g
  <2>7. ExpMod(a, j - i, p) = 1
    BY <1>4, <2>1, <2>6, EqualPowers
  <2>8. j - i \in Nat /\ j - i > 0 /\ j - i < d
    BY <1>1, <1>4, <2>1
  <2>9. d <= j - i
    BY <2>7, <2>8 DEF IsOrder
  <2>10. QED
    BY <1>1, <2>8, <2>9
<1>5. \A i, j \in D : f[i] = f[j] => i = j
  <2> SUFFICES ASSUME NEW i \in D, NEW j \in D, f[i] = f[j], i # j PROVE FALSE
    OBVIOUS
  <2>1. i < j \/ j < i
    BY <1>1
  <2> HIDE DEF f, D
  <2>2. QED
    BY <1>4, <2>1
<1>6. IsFiniteSet(D) /\ Cardinality(D) = d
  <2>1. 0 \in Int /\ d - 1 \in Int /\ ~(0 > d - 1)
    BY <1>1
  <2>2. IsFiniteSet(0..(d - 1)) /\ Cardinality(0..(d - 1)) = IF 0 > d - 1 THEN 0 ELSE (d - 1) - 0 + 1
    BY <2>1, FS_Interval
  <2>3. QED
    BY <1>1, <2>2
<1> HIDE DEF f, D, O
<1>7. f \in Surjection(D, O) /\ f \in Injection(D, O)
  BY <1>3, <1>5 DEF Surjection, Injection, IsInjective
<1>8. IsFiniteSet(O) /\ Cardinality(O) = Cardinality(D)
  BY <1>6, <1>7, FS_Surjection
<1>9. QED
  BY <1>6, <1>8 DEF O

\* What multiplication leads into an orbit was in it already.
LEMMA OrbitRest ==
  ASSUME NEW p, IsPrime(p), NEW a \in Int, a % p # 0, NEW d, IsOrder(d, a, p),
         NEW S, ClosedUnder(S, a, p), NEW x \in S
  PROVE  Orbit(x, a, d, p) \subseteq S /\ ClosedUnder(S \ Orbit(x, a, d, p), a, p)
<1>1. p \in Nat /\ p > 0 /\ d \in Nat /\ d > 0 /\ S \subseteq 1..(p - 1)
  BY DEF IsPrime, IsOrder, ClosedUnder
<1>2. Orbit(x, a, d, p) \subseteq S
  <2>1. \A i \in 0..(d - 1) : i \in Nat
    BY <1>1
  <2>2. QED
    BY <2>1, OrbitInside DEF Orbit
<1>3. ASSUME NEW y \in S, (y * a) % p \in Orbit(x, a, d, p)
      PROVE  y \in Orbit(x, a, d, p)
  <2>1. PICK i \in 0..(d - 1) : (y * a) % p = (x * ExpMod(a, i, p)) % p
    BY <1>3 DEF Orbit
  <2>2. x \in Int /\ y \in Int /\ y % p = y
    BY <1>1, ModSmall
  <2>3. PICK k \in 0..(d - 1) : ExpMod(a, i, p) = ExpMod(a, k + 1, p)
    <3>1. CASE i = 0
      <4>1. ExpMod(a, 0, p) = 1
        <5>1. ExpMod(a, 0, p) = 1 % p
          BY <1>1, ExpModZero
        <5>2. 1 \in 0..(p - 1)
          BY DEF IsPrime
        <5>3. QED
          BY <1>1, <5>1, <5>2, ModSmall
      <4>2. ExpMod(a, (d - 1) + 1, p) = 1
        <5>1. (d - 1) + 1 = d
          BY <1>1
        <5>2. QED
          BY <5>1 DEF IsOrder
      <4>3. d - 1 \in 0..(d - 1)
        BY <1>1
      <4>4. QED
        BY <3>1, <4>1, <4>2, <4>3
    <3>2. CASE i # 0
      <4>1. i - 1 \in 0..(d - 1) /\ (i - 1) + 1 = i
        BY <1>1, <3>2
      <4>2. QED
        BY <4>1
    <3>3. QED
      BY <3>1, <3>2
  <2> DEFINE e == ExpMod(a, k, p)
             ea == e * a
             m == ea % p
             xe == x * e
  <2>4. k \in Nat
    BY <1>1
  <2>5. e \in Int
    BY <1>1, <2>4, ExpModType
  <2>6. ExpMod(a, k + 1, p) = m
    BY <1>1, <2>4, ExpModNext
  <2> HIDE DEF e
  <2>7. ea \in Int /\ xe \in Int /\ x * ea = xe * a
    BY <2>2, <2>5
  <2> HIDE DEF ea
  <2>8. m \in Int /\ m % p = ea % p
    BY <1>1, <2>7, DivMod, ModMod
  <2> HIDE DEF m, xe
  <2>a. p \in Nat /\ p > 0 /\ x \in Int /\ m \in Int /\ ea \in Int
    BY <1>1, <2>2, <2>7, <2>8
  <2>9. (x * m) % p = (x * ea) % p
    BY ONLY <2>a, <2>8, ModRight
  <2>10. (y * a) % p = (xe * a) % p
    BY <2>1, <2>3, <2>6, <2>7, <2>9
  <2>11. y % p = xe % p
    BY <2>2, <2>7, <2>10, CancelFactor
  <2>12. y = (x * ExpMod(a, k, p)) % p
    BY <2>2, <2>11 DEF xe, e
  <2>13. QED
    BY <2>12 DEF Orbit
<1>4. QED
  BY <1>2, <1>3 DEF ClosedUnder

\* The order divides the size of a closed set, as in Lagrange's theorem: orbits
\* are taken away from it, one by one.
LEMMA OrderDividesSize ==
  ASSUME NEW p, IsPrime(p), NEW a \in Int, a % p # 0, NEW d, IsOrder(d, a, p),
         NEW S, ClosedUnder(S, a, p)
  PROVE  Cardinality(S) \in Nat /\ Cardinality(S) % d = 0
<1>1. p \in Nat /\ p > 0 /\ d \in Nat /\ d > 0
  BY DEF IsPrime, IsOrder
<1>2. ASSUME NEW Z, ClosedUnder(Z, a, p) PROVE IsFiniteSet(Z) /\ Cardinality(Z) \in Nat
  <2>1. 1 \in Int /\ p - 1 \in Int
    BY <1>1
  <2>2. IsFiniteSet(1..(p - 1)) /\ Z \in SUBSET (1..(p - 1))
    BY <1>2, <2>1, FS_Interval DEF ClosedUnder
  <2>3. IsFiniteSet(Z)
    BY <2>2, FS_Subset
  <2>4. QED
    BY <2>3, FS_CardinalityType
<1> DEFINE B == {k \in Nat : \E Z : ClosedUnder(Z, a, p) /\ Cardinality(Z) = k /\ k % d # 0}
<1>3. B = {}
  <2> SUFFICES ASSUME B # {} PROVE FALSE
    OBVIOUS
  <2>1. PICK m \in B : \A k \in B : m <= k
    <3>1. B \subseteq Nat
      OBVIOUS
    <3> HIDE DEF B
    <3>2. QED
      BY <3>1, LeastElement
  <2>2. PICK Z : ClosedUnder(Z, a, p) /\ Cardinality(Z) = m /\ m % d # 0
    BY <2>1
  <2>3. m \in Nat
    BY <2>1
  <2>4. IsFiniteSet(Z)
    BY <1>2, <2>2
  <2>5. Z # {}
    <3>1. 0 % d = 0
      BY <1>1, ModSmall
    <3>2. QED
      BY <2>2, <3>1, FS_EmptySet
  <2>6. PICK x \in Z : TRUE
    BY <2>5
  <2> DEFINE O == Orbit(x, a, d, p)
  <2>7. x \in 1..(p - 1)
    BY <2>2 DEF ClosedUnder
  <2>8. IsFiniteSet(O) /\ Cardinality(O) = d
    BY <2>7, OrbitSize
  <2>9. O \subseteq Z /\ ClosedUnder(Z \ O, a, p)
    BY <2>2, OrbitRest
  <2> HIDE DEF O
  <2>10. Z \cap O = O
    BY <2>9
  <2>11. Cardinality(Z \ O) = m - d
    <3>1. Cardinality(Z \ O) = Cardinality(Z) - Cardinality(Z \cap O)
      BY <2>4, FS_Difference
    <3>2. QED
      BY <2>2, <2>8, <2>10, <3>1
  <2>12. m - d \in Nat
    BY <1>2, <2>9, <2>11
  <2>13. (m - d) % d # 0
    <3> DEFINE w == m - d
    <3>1. w + d * 1 = m /\ w \in Int /\ 1 \in Int
      BY <1>1, <2>3
    <3> HIDE DEF w
    <3>2. (w + d * 1) % d = w % d
      BY <1>1, <3>1, ModShift
    <3>3. QED
      BY <2>2, <3>1, <3>2 DEF w
  <2>14. m - d \in B
    BY <2>9, <2>11, <2>12, <2>13
  <2>15. m <= m - d
    BY <2>1, <2>14
  <2>16. QED
    BY <1>1, <2>3, <2>15
<1>4. QED
  BY <1>2, <1>3

LEMMA Fermat ==
  ASSUME NEW p, IsPrime(p), NEW a \in Int, a % p # 0
  PROVE  ExpMod(a, p - 1, p) = 1
<1>1. p \in Nat /\ p > 1 /\ p > 0 /\ p - 1 \in Nat
  BY DEF IsPrime
<1>2. PICK d : IsOrder(d, a, p)
  <2> DEFINE D == {d \in Nat : d > 0 /\ ExpMod(a, d, p) = 1}
  <2>1. D \subseteq Nat /\ D # {}
    BY OrderExists
  <2>2. PICK d \in D : \A i \in D : d <= i
    <3> HIDE DEF D
    <3>1. QED
      BY <2>1, LeastElement
  <2>3. QED
    BY <2>2 DEF IsOrder
<1>3. d \in Nat /\ d > 0 /\ ExpMod(a, d, p) = 1
  BY <1>2 DEF IsOrder
<1> DEFINE S == 1..(p - 1)
<1>4. ClosedUnder(S, a, p)
  <2> SUFFICES ASSUME NEW x \in S PROVE (x * a) % p \in S
    BY DEF ClosedUnder
  <2>1. x \in Int /\ x % p # 0
    BY <1>1, ModSmall
  <2>2. x * a \in Int /\ (x * a) % p # 0
    BY <2>1, Euclid
  <2>3. (x * a) % p \in 0..(p - 1)
    BY <1>1, <2>2, DivMod
  <2>4. QED
    BY <2>2, <2>3
<1>5. Cardinality(S) = p - 1
  <2>1. 1 \in Int /\ p - 1 \in Int /\ ~(1 > p - 1)
    BY <1>1
  <2>2. Cardinality(1..(p - 1)) = IF 1 > p - 1 THEN 0 ELSE (p - 1) - 1 + 1
    BY <2>1, FS_Interval
  <2>3. QED
    BY <1>1, <2>1, <2>2
<1>6. (p - 1) % d = 0
  <2> HIDE DEF S
  <2>1. QED
    BY <1>2, <1>4, <1>5, OrderDividesSize
<1>7. PICK k \in Int : p - 1 = d * k
  <2> DEFINE w == p - 1
  <2>1. w \in Int /\ w % d = 0
    BY <1>1, <1>6
  <2> HIDE DEF w
  <2>2. \E k \in Int : w = d * k
    BY <1>3, <2>1, Multiple
  <2>3. QED
    BY <2>2 DEF w
<1>8. k \in Nat
  BY <1>1, <1>3, <1>7
<1>9. ExpMod(ExpMod(a, d, p), k, p) = ExpMod(a, d * k, p)
  BY <1>1, <1>3, <1>8, ExpModPower
<1>10. ExpMod(1, k, p) = 1 % p
  BY <1>1, <1>8, ExpModOfOne
<1>11. 1 % p = 1
  BY <1>1, ModSmall
<1>12. QED
  BY <1>3, <1>7, <1>9, <1>10, <1>11

\* Multiples of p - 1 in the exponent count for nothing, unless the power is of a
\* multiple of p and nothing else is left of the exponent.
LEMMA FermatPeriod ==
  ASSUME NEW p, IsPrime(p), NEW a \in Int, NEW k \in Nat, NEW s \in Nat, s > 0 \/ a % p # 0
  PROVE  ExpMod(a, (p - 1) * k + s, p) = ExpMod(a, s, p)
<1>1. p \in Nat /\ p > 1 /\ p > 0 /\ p - 1 \in Nat
  BY DEF IsPrime
<1> DEFINE t == (p - 1) * k
<1>2. t \in Nat /\ t + s \in Nat /\ (s > 0 => t + s > 0)
  BY <1>1
<1>3. CASE a % p = 0
  <2>1. s > 0
    BY <1>3
  <2> HIDE DEF t
  <2>2. ExpMod(a, t + s, p) = 0 /\ ExpMod(a, s, p) = 0
    BY <1>1, <1>2, <1>3, <2>1, ExpModOfZero
  <2>3. QED
    BY <2>2 DEF t
<1>4. CASE a % p # 0
  <2>1. ExpMod(ExpMod(a, p - 1, p), k, p) = ExpMod(a, t, p)
    BY <1>1, ExpModPower
  <2>2. ExpMod(a, p - 1, p) = 1
    BY <1>4, Fermat
  <2>3. ExpMod(1, k, p) = 1 % p /\ 1 % p = 1
    BY <1>1, ExpModOfOne, ModSmall
  <2>4. ExpMod(a, t, p) = 1
    BY <2>1, <2>2, <2>3
  <2> DEFINE e == ExpMod(a, s, p)
  <2> HIDE DEF t
  <2>5. ExpMod(a, t + s, p) = (ExpMod(a, t, p) * e) % p
    BY <1>1, <1>2, ExpModPlus
  <2>6. e \in Int /\ e % p = e
    BY <1>1, ExpModType, ExpModReduced
  <2> HIDE DEF e
  <2>7. 1 * e = e
    BY <2>6
  <2>8. ExpMod(a, t + s, p) = e
    BY <2>4, <2>5, <2>6, <2>7
  <2>9. QED
    BY <2>8 DEF t, e
<1>5. QED
  BY <1>3, <1>4

\* Two residues modulo p * q that agree modulo p and modulo q are equal.
LEMMA TwoPrimesEqual ==
  ASSUME NEW p, NEW q, IsPrime(p), IsPrime(q), p # q,
         NEW x \in 0..(p * q - 1), NEW y \in 0..(p * q - 1), x % p = y % p, x % q = y % q
  PROVE  x = y
<1>1. p \in Nat /\ q \in Nat /\ p > 0 /\ q > 0
  BY DEF IsPrime
<1> DEFINE m == p * q
<1>2. m \in Nat /\ m > 0 /\ x \in Int /\ y \in Int /\ x - y \in Int
  BY <1>1
<1>3. (x - y) % p = 0 /\ (x - y) % q = 0
  BY <1>1, <1>2, EqualResidues
<1>4. (x - y) % (p * q) = 0
  BY <1>2, <1>3, TwoPrimes
<1>5. x \in 0..(m - 1) /\ y \in 0..(m - 1) /\ (x - y) % m = 0
  BY <1>4
<1> HIDE DEF m
<1>6. x % m = y % m
  BY <1>2, <1>5, EqualResidues
<1>7. x % m = x /\ y % m = y
  BY <1>2, <1>5, ModSmall
<1>8. QED
  BY <1>6, <1>7

\* Euler's theorem for the product of two different primes, in the form that
\* also speaks of numbers that share a factor with it.
LEMMA EulerPeriod ==
  ASSUME NEW p, NEW q, IsPrime(p), IsPrime(q), p # q, NEW a \in Int,
         NEW k \in Nat, NEW s \in Nat, s > 0 \/ (a % p # 0 /\ a % q # 0)
  PROVE  ExpMod(a, ((p - 1) * (q - 1)) * k + s, p * q) = ExpMod(a, s, p * q)
<1>1. p \in Nat /\ q \in Nat /\ p > 0 /\ q > 0 /\ p - 1 \in Nat /\ q - 1 \in Nat
  BY DEF IsPrime
<1> DEFINE m == p * q
           t == ((p - 1) * (q - 1)) * k + s
           kp == (q - 1) * k
           kq == (p - 1) * k
           x == ExpMod(a, t, m)
           y == ExpMod(a, s, m)
<1>2. m \in Nat /\ m > 0 /\ m = p * q /\ m = q * p
  BY <1>1
<1>3. kp \in Nat /\ kq \in Nat /\ t \in Nat /\ t = (p - 1) * kp + s /\ t = (q - 1) * kq + s
  <2> DEFINE p1 == p - 1
             q1 == q - 1
  <2>1. p1 \in Nat /\ q1 \in Nat
    BY <1>1
  <2> HIDE DEF p1, q1
  <2>2. q1 * k \in Nat /\ p1 * k \in Nat /\ (p1 * q1) * k \in Nat
        /\ (p1 * q1) * k = p1 * (q1 * k) /\ (p1 * q1) * k = q1 * (p1 * k)
    BY <2>1
  <2>3. QED
    BY <2>2 DEF p1, q1
<1> HIDE DEF m, t, kp, kq
<1>4. x \in 0..(m - 1) /\ y \in 0..(m - 1)
  BY <1>2, <1>3, ExpModType
<1>5. x % p = ExpMod(a, t, p) /\ y % p = ExpMod(a, s, p)
  <2>1. \A b \in Nat : ExpMod(a, b, m) % p = ExpMod(a, b, p)
    BY <1>1, <1>2, ExpModDivisor
  <2>2. QED
    BY <1>3, <2>1
<1>6. x % q = ExpMod(a, t, q) /\ y % q = ExpMod(a, s, q)
  <2>1. \A b \in Nat : ExpMod(a, b, m) % q = ExpMod(a, b, q)
    BY <1>1, <1>2, ExpModDivisor
  <2>2. QED
    BY <1>3, <2>1
<1>7. ExpMod(a, t, p) = ExpMod(a, s, p)
  BY <1>3, FermatPeriod
<1>8. ExpMod(a, t, q) = ExpMod(a, s, q)
  BY <1>3, FermatPeriod
<1> HIDE DEF x, y
<1>9. x = y
  BY <1>2, <1>4, <1>5, <1>6, <1>7, <1>8, TwoPrimesEqual
<1>10. QED
  BY <1>9 DEF x, y, t, m

=============================================================================
