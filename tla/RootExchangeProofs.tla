------------------------- MODULE RootExchangeProofs -------------------------
(***************************************************************************)
(* Theorems about RootExchange, for all odd primes, any number of rounds   *)
(* and indices, and whatever the two parties do wrong.                     *)
(***************************************************************************)
EXTENDS RootExchange, Residues, FiniteSetTheorems, TLAPS

-----------------------------------------------------------------------------
(* The constants.                                                          *)

LEMMA Primes ==
  /\ IsPrime(P) /\ IsPrime(Q) /\ P # Q /\ P % Q # 0
  /\ P \in Nat /\ Q \in Nat /\ P > 2 /\ Q > 2
<1>1. IsPrime(P) /\ IsPrime(Q) /\ P > 2 /\ Q > 2
  BY PrimesAssumption DEF IsOddPrime, IsPrime
<1>2. QED
  BY <1>1, PrimesAssumption, PrimeDividesPrime

LEMMA nFacts ==
  /\ n \in Nat /\ n = P * Q /\ n > 8
  /\ n \div 2 \in Nat /\ n = 2 * (n \div 2) + 1 /\ n \div 2 < n
<1>1. P \in Nat /\ Q \in Nat /\ P > 2 /\ Q > 2 /\ P % 2 # 0 /\ Q % 2 # 0
  BY PrimesAssumption, Primes DEF IsOddPrime
<1>2. PICK e \in Int, f \in Int : P = 2 * e + 1 /\ Q = 2 * f + 1
  BY <1>1
<1>3. n = 2 * (2 * e * f + e + f) + 1
  BY <1>2 DEF n
<1>4. n = P * Q /\ n \in Nat
  BY <1>1 DEF n
<1>5. P * Q > 8
  <2>1. (P - 3) * (Q - 3) >= 0
    BY <1>1
  <2>2. P * Q = (P - 3) * (Q - 3) + 3 * P + 3 * Q - 9
    BY <1>1
  <2>3. QED
    BY <1>1, <2>1, <2>2
<1> DEFINE h == 2 * e * f + e + f
<1>6. h \in Int /\ n = 2 * h + 1
  BY <1>2, <1>3
<1> HIDE DEF h, n
<1>7. n \div 2 = h
  BY <1>4, <1>6
<1>8. QED
  BY <1>4, <1>5, <1>6, <1>7

-----------------------------------------------------------------------------
(* common/square_root.cpp: the four roots of a square.                     *)

\* The roots of a square modulo one prime.
LEMMA RootModPrime ==
  ASSUME NEW p, NEW w \in Int, IsPrime(p), n = p * w, NEW z \in Int,
         NEW a, a = (z * z) % n
  PROVE  /\ ModularSquareRoot(a, p) \in 0..(p - 1)
         /\ LET s == ModularSquareRoot(a, p) IN (s * s) % p = (z * z) % p
         /\ a % p = (z * z) % p
<1>1. p \in Nat /\ p > 0 /\ n \in Nat /\ n > 0
  BY nFacts DEF IsPrime
<1>2. a % p = (z * z) % p
  <2> DEFINE b == z * z
             f == b \div n
  <2>1. b \in Int /\ f \in Int /\ a \in Int /\ b = n * f + a
    BY <1>1, DivMod
  <2> HIDE DEF b, f
  <2> DEFINE g == w * f
  <2>2. b = a + p * g /\ g \in Int
    BY <1>1, <2>1
  <2> HIDE DEF g
  <2>3. (a + p * g) % p = a % p
    BY <1>1, <2>1, <2>2, ModShift
  <2>4. QED
    BY <2>2, <2>3 DEF b
<1>3. \E s \in 0..(p - 1) : (s * s) % p = a % p
  <2> DEFINE s == z % p
  <2>1. s \in 0..(p - 1)
    BY <1>1, DivMod
  <2>2. s % p = z % p
    BY <1>1, <2>1, ModSmall
  <2>a. s \in Int
    BY <2>1
  <2> HIDE DEF s
  <2>3. (s * s) % p = (z * z) % p
    BY <1>1, <2>a, <2>2, SquareOfSame
  <2>4. QED
    BY <1>2, <2>1, <2>3
<1> DEFINE s == ModularSquareRoot(a, p)
<1>4. s \in 0..(p - 1) /\ (s * s) % p = a % p
  BY <1>3 DEF ModularSquareRoot
<1>5. QED
  BY <1>2, <1>4

LEMMA InverseExists ==
  InverseMod(P, Q) \in 0..(Q - 1) /\ (InverseMod(P, Q) * P) % Q = 1
<1>1. Q \in Nat /\ Q > 1 /\ P \in Int
  BY Primes
<1>2. PICK w \in 0..(Q - 1) : (w * P) % Q = 1
  BY <1>1, Primes, PrimeInverse
<1>3. w \in 1..(Q - 1)
  <2>1. 0 * P = 0 /\ 0 % Q = 0
    BY <1>1, ModSmall
  <2>2. w # 0
    BY <1>2, <2>1
  <2>3. QED
    BY <1>1, <2>2
<1>4. \A v \in 1..(Q - 1) : P * v = v * P /\ v \in 0..(Q - 1)
  BY <1>1
<1>5. QED
  BY <1>2, <1>3, <1>4 DEF InverseMod

\* Crypto++'s CRT: the number with the two given residues.
LEMMA CRTValue ==
  ASSUME NEW xp \in 0..P, NEW xq \in 0..Q
  PROVE  LET root == CRT(xp, P, xq, Q, InverseMod(P, Q))
         IN  /\ \E t \in 0..(Q - 1) : root = P * t + xp
             /\ (root - xp) % P = 0 /\ (root - xq) % Q = 0
<1>1. PICK u \in 0..(Q - 1) : u = InverseMod(P, Q) /\ (u * P) % Q = 1
  BY InverseExists
<1>2. P \in Nat /\ Q \in Nat /\ P > 0 /\ Q > 1
  BY Primes
<1> DEFINE b == u * (xq - xp)
           t == b % Q
           root == P * t + xp
<1>3. t \in 0..(Q - 1) /\ b \in Int
  BY <1>2, DivMod
<1>4. CRT(xp, P, xq, Q, InverseMod(P, Q)) = root
  BY <1>1 DEF CRT
<1>5. PICK e \in Int : u * P = 1 + Q * e
  <2> DEFINE c == u * P
  <2>1. 1 % Q = 1 /\ c \in Int /\ c % Q = 1
    BY <1>1, <1>2, ModSmall
  <2> HIDE DEF c
  <2>2. \E e \in Int : c = 1 + Q * e
    BY <1>2, <2>1, SameResidue
  <2>3. QED
    BY <2>2 DEF c
<1>6. PICK f \in Int : b = t + Q * f
  <2>1. b % Q = t % Q /\ t \in Int /\ b \in Int /\ Q \in Nat /\ Q > 0
    BY <1>2, <1>3, ModSmall
  <2> HIDE DEF b, t, root
  <2>2. QED
    BY ONLY <2>1, SameResidue
<1>7. (root - xp) % P = 0
  <2>1. root - xp = P * t /\ root - xp \in Int /\ t \in Int
    BY <1>2, <1>3
  <2> HIDE DEF root, t
  <2>2. QED
    BY <1>2, <2>1, Multiple
<1>8. (root - xq) % Q = 0
  <2>1. P * b = (1 + Q * e) * (xq - xp)
    <3>1. P * b = (u * P) * (xq - xp)
      BY <1>2
    <3>2. QED
      BY <1>5, <3>1
  <2> HIDE DEF b, t
  <2>2. P * t = P * b - Q * (P * f)
    BY <1>2, <1>3, <1>6
  <2>3. root - xq = Q * (e * (xq - xp) - P * f)
    BY <1>2, <1>3, <2>1, <2>2
  <2> DEFINE c == root - xq
             g == e * (xq - xp) - P * f
  <2>4. c \in Int /\ g \in Int /\ c = Q * g
    BY <1>2, <1>3, <2>3
  <2> HIDE DEF c, g
  <2>5. c % Q = 0
    BY <1>2, <2>4, Multiple
  <2>6. QED
    BY <2>5 DEF c
<1>9. \E t1 \in 0..(Q - 1) : root = P * t1 + xp
  BY <1>3
<1> HIDE DEF root
<1>10. QED
  BY <1>4, <1>7, <1>8, <1>9

\* With the signs of the code: plus or minus the root modulo each prime.
Residue(s, sign, p) == IF sign = -1 THEN p - s ELSE s

LEMMA ResidueFacts ==
  ASSUME NEW p \in Nat, p > 0, NEW s \in 0..(p - 1), NEW sign \in {-1, 1}
  PROVE  /\ Residue(s, sign, p) \in 0..p
         /\ Residue(s, sign, p) + Residue(s, -sign, p) = p
         /\ (Residue(s, sign, p) - sign * s) % p = 0
<1>1. Residue(s, sign, p) \in 0..p /\ Residue(s, sign, p) + Residue(s, -sign, p) = p
  BY DEF Residue
<1>2. \E e \in Int : Residue(s, sign, p) - sign * s = p * e
  <2>1. CASE sign = -1
    <3>1. Residue(s, sign, p) - sign * s = p * 1
      BY <2>1 DEF Residue
    <3>2. QED
      BY <3>1
  <2>2. CASE sign = 1
    <3>1. Residue(s, sign, p) - sign * s = p * 0
      BY <2>2 DEF Residue
    <3>2. QED
      BY <3>1
  <2>3. QED
    BY <2>1, <2>2
<1> DEFINE f == Residue(s, sign, p) - sign * s
<1>3. f \in Int
  BY <1>1
<1>4. f % p = 0
  <2>1. \E e \in Int : f = p * e
    BY <1>2
  <2> HIDE DEF f
  <2>2. QED
    BY <1>3, <2>1, Multiple
<1>5. QED
  BY <1>1, <1>4

\* Numbers that are congruent to a third one are congruent.
LEMMA CongruentTransitive ==
  ASSUME NEW c \in Nat, c > 0, NEW a \in Int, NEW b \in Int, NEW e \in Int,
         (a - b) % c = 0, (b - e) % c = 0
  PROVE  (a - e) % c = 0
<1>1. a % c = b % c /\ b % c = e % c
  BY EqualResidues
<1>2. a % c = e % c
  BY <1>1
<1>3. QED
  BY <1>2, EqualResidues

\* square_root never returns -1 for a square: its result is a root, between 0
\* and n, with the residues that the signs ask for.
LEMMA SquareRootValue ==
  ASSUME NEW z \in Int, NEW a, a = (z * z) % n,
         NEW sx \in {-1, 1}, NEW sy \in {-1, 1}
  PROVE  LET root == square_root(a, sx, sy)
             xp == ModularSquareRoot(a, P)
             xq == ModularSquareRoot(a, Q)
         IN  /\ root \in 0..n /\ (root * root) % n = a
             /\ \E t \in 0..(Q - 1) : root = P * t + Residue(xp, sx, P)
             /\ (root - sx * xp) % P = 0 /\ (root - sy * xq) % Q = 0
<1> DEFINE xp == ModularSquareRoot(a, P)
           xq == ModularSquareRoot(a, Q)
           vp == Residue(xp, sx, P)
           vq == Residue(xq, sy, Q)
           root == CRT(vp, P, vq, Q, InverseMod(P, Q))
<1>1. /\ P \in Nat /\ Q \in Nat /\ P > 0 /\ Q > 0 /\ IsPrime(P) /\ IsPrime(Q)
      /\ n = P * Q /\ n = Q * P /\ n \in Nat /\ n > 0
  BY Primes, nFacts
<1>2. /\ xp \in 0..(P - 1) /\ (xp * xp) % P = (z * z) % P
      /\ xq \in 0..(Q - 1) /\ (xq * xq) % Q = (z * z) % Q
      /\ a % P = (z * z) % P /\ a % Q = (z * z) % Q
  <2>1. P \in Int /\ Q \in Int
    BY <1>1
  <2>2. /\ xp \in 0..(P - 1) /\ (xp * xp) % P = (z * z) % P
        /\ a % P = (z * z) % P
    BY <1>1, <2>1, RootModPrime
  <2>3. /\ xq \in 0..(Q - 1) /\ (xq * xq) % Q = (z * z) % Q
        /\ a % Q = (z * z) % Q
    BY <1>1, <2>1, RootModPrime
  <2>4. QED
    BY <2>2, <2>3
<1>3. a \in 0..(n - 1)
  BY <1>1, DivMod
<1>4. square_root(a, sx, sy) = IF (root * root) % n # a THEN -1 ELSE root
  BY DEF square_root, Residue
<1> HIDE DEF xp, xq
<1>5. vp \in 0..P /\ vq \in 0..Q /\ (vp - sx * xp) % P = 0 /\ (vq - sy * xq) % Q = 0
  BY <1>1, <1>2, ResidueFacts
<1> HIDE DEF vp, vq
<1>6. /\ \E t \in 0..(Q - 1) : root = P * t + vp
      /\ (root - vp) % P = 0 /\ (root - vq) % Q = 0
  BY <1>5, CRTValue
<1> HIDE DEF root
<1>7. PICK t \in 0..(Q - 1) : root = P * t + vp
  BY <1>6
<1>8. root \in 0..n /\ root \in Int
  <2>1. P * t <= P * (Q - 1)
    BY <1>1
  <2>2. P * t >= 0
    BY <1>1
  <2>3. P * (Q - 1) = n - P
    BY <1>1
  <2>4. P * t \in Int /\ vp \in Int /\ 0 <= vp /\ vp <= P
    BY <1>1, <1>5
  <2>5. QED
    BY <1>1, <1>7, <2>1, <2>2, <2>3, <2>4
<1>9. (root - sx * xp) % P = 0 /\ (root - sy * xq) % Q = 0
  <2>1. vp \in Int /\ vq \in Int /\ sx * xp \in Int /\ sy * xq \in Int
    BY <1>1, <1>2, <1>5
  <2>2. (root - sx * xp) % P = 0
    BY <1>1, <1>5, <1>6, <1>8, <2>1, CongruentTransitive
  <2>3. (root - sy * xq) % Q = 0
    BY <1>1, <1>5, <1>6, <1>8, <2>1, CongruentTransitive
  <2>4. QED
    BY <2>2, <2>3
<1>10. (root * root) % P = a % P /\ (root * root) % Q = a % Q
  <2>1. ASSUME NEW p, p \in Nat, p > 0, NEW s \in Int, NEW sign \in {-1, 1},
               (root - sign * s) % p = 0
        PROVE  (root * root) % p = (s * s) % p
    <3>1. CASE sign = 1
      <4>1. root - sign * s = root - s
        BY <1>8, <3>1
      <4>2. root % p = s % p
        BY <1>8, <2>1, <4>1, EqualResidues
      <4>3. QED
        BY <1>8, <2>1, <4>2, SquareOfSame
    <3>2. CASE sign = -1
      <4>1. root - sign * s = root + s
        BY <1>8, <3>2
      <4>2. (root + s) % p = 0
        BY <2>1, <4>1
      <4>3. QED
        BY <1>8, <2>1, <4>2, SquareOfOpposite
    <3>3. QED
      BY <3>1, <3>2
  <2>2. xp \in Int /\ xq \in Int
    BY <1>2
  <2>3. (root * root) % P = (xp * xp) % P
    BY <1>1, <1>9, <2>1, <2>2
  <2>4. (root * root) % Q = (xq * xq) % Q
    BY <1>1, <1>9, <2>1, <2>2
  <2>5. QED
    BY <1>2, <2>3, <2>4
<1>11. (root * root) % n = a
  <2> DEFINE b == root * root
             c == b - a
  <2>1. b \in Int /\ a \in Int /\ c \in Int
    BY <1>3, <1>8
  <2>2. b % P = a % P /\ b % Q = a % Q
    BY <1>10
  <2> HIDE DEF b
  <2>3. c % P = 0 /\ c % Q = 0
    BY <1>1, <2>1, <2>2, EqualResidues
  <2> HIDE DEF c
  <2>4. c % n = 0
    <3>1. c % (P * Q) = 0
      BY <2>1, <2>3, Primes, TwoPrimes
    <3>2. QED
      BY <1>1, <3>1
  <2>5. b % n = a % n
    BY <1>1, <2>1, <2>4, EqualResidues DEF c
  <2>6. a % n = a
    BY <1>1, <1>3, ModSmall
  <2>7. QED
    BY <2>5, <2>6 DEF b
<1>12. square_root(a, sx, sy) = root
  BY <1>4, <1>11
<1>13. QED
  BY <1>7, <1>8, <1>9, <1>11, <1>12 DEF xp, xq, vp

\* Opposite signs give opposite roots.
LEMMA OppositeRoots ==
  ASSUME NEW z \in Int, NEW a, a = (z * z) % n,
         NEW sx \in {-1, 1}, NEW sy \in {-1, 1}
  PROVE  square_root(a, sx, sy) + square_root(a, -sx, -sy) = n
<1> DEFINE xp == ModularSquareRoot(a, P)
           xq == ModularSquareRoot(a, Q)
           s1 == square_root(a, sx, sy)
           s2 == square_root(a, -sx, -sy)
           sum == s1 + s2
<1>1. /\ P \in Nat /\ Q \in Nat /\ P > 0 /\ Q > 0 /\ IsPrime(P) /\ IsPrime(Q) /\ P # Q
      /\ n = P * Q /\ n \in Nat /\ n > 0
  BY Primes, nFacts
<1>2. xp \in 0..(P - 1) /\ xq \in 0..(Q - 1)
  <2>1. P \in Int /\ Q \in Int /\ n = Q * P
    BY <1>1
  <2>2. QED
    BY <1>1, <2>1, RootModPrime
<1>3. -sx \in {-1, 1} /\ -sy \in {-1, 1}
  OBVIOUS
<1>4. /\ s1 \in 0..n /\ \E t \in 0..(Q - 1) : s1 = P * t + Residue(xp, sx, P)
      /\ (s1 - sx * xp) % P = 0 /\ (s1 - sy * xq) % Q = 0
  BY SquareRootValue
<1>5. /\ s2 \in 0..n /\ \E t \in 0..(Q - 1) : s2 = P * t + Residue(xp, -sx, P)
      /\ (s2 - (-sx) * xp) % P = 0 /\ (s2 - (-sy) * xq) % Q = 0
  BY <1>3, SquareRootValue
<1> HIDE DEF xp, xq, s1, s2
<1>6. ASSUME NEW p, p \in Nat, p > 0, NEW s \in Int, NEW sign \in {-1, 1},
             (s1 - sign * s) % p = 0, (s2 - (-sign) * s) % p = 0
      PROVE  sum % p = 0
  <2>1. PICK e \in Int : s1 - sign * s = p * e
    <3>1. s1 - sign * s \in Int
      BY <1>4
    <3>2. QED
      BY <1>6, <3>1, Multiple
  <2>2. PICK f \in Int : s2 - (-sign) * s = p * f
    <3>1. s2 - (-sign) * s \in Int
      BY <1>5
    <3>2. QED
      BY <1>6, <3>1, Multiple
  <2>3. sum = p * (e + f) /\ e + f \in Int /\ sum \in Int
    <3>1. (-sign) * s = -(sign * s) /\ sign * s \in Int
      BY <1>6
    <3>2. p * e + p * f = p * (e + f)
      BY <1>6
    <3>3. s1 + s2 = (s1 - sign * s) + (s2 - (-sign) * s)
      BY <1>4, <1>5, <3>1
    <3>4. QED
      BY <1>4, <1>5, <2>1, <2>2, <3>2, <3>3
  <2> HIDE DEF sum
  <2>4. QED
    BY <1>6, <2>3, Multiple
<1>7. sum % P = 0 /\ sum % Q = 0
  <2>1. xp \in Int /\ xq \in Int
    BY <1>2
  <2>2. sum % P = 0
    BY <1>1, <1>4, <1>5, <1>6, <2>1
  <2>3. sum % Q = 0
    BY <1>1, <1>4, <1>5, <1>6, <2>1
  <2>4. QED
    BY <2>2, <2>3
<1>8. PICK t1 \in 0..(Q - 1), t2 \in 0..(Q - 1) :
        s1 = P * t1 + Residue(xp, sx, P) /\ s2 = P * t2 + Residue(xp, -sx, P)
  BY <1>4, <1>5
<1>9. Residue(xp, sx, P) + Residue(xp, -sx, P) = P
      /\ Residue(xp, sx, P) \in Int /\ Residue(xp, -sx, P) \in Int
  <2>1. Residue(xp, sx, P) \in 0..P /\ Residue(xp, sx, P) + Residue(xp, -sx, P) = P
    BY <1>1, <1>2, ResidueFacts
  <2>2. Residue(xp, -sx, P) \in 0..P
    BY <1>1, <1>2, <1>3, ResidueFacts
  <2>3. QED
    BY <2>1, <2>2
<1>10. sum = P * (t1 + t2 + 1)
  <2>1. P * (t1 + t2 + 1) = P * t1 + P * t2 + P
    BY <1>1
  <2> DEFINE m1 == P * t1
             m2 == P * t2
             v1 == Residue(xp, sx, P)
             v2 == Residue(xp, -sx, P)
  <2>2. m1 \in Int /\ m2 \in Int /\ v1 \in Int /\ v2 \in Int /\ v1 + v2 = P
    BY <1>1, <1>9
  <2>3. s1 = m1 + v1 /\ s2 = m2 + v2
    BY <1>8
  <2> HIDE DEF m1, m2, v1, v2
  <2>4. s1 + s2 = m1 + m2 + P
    BY <1>1, <2>2, <2>3
  <2>5. QED
    BY <2>1, <2>4 DEF m1, m2
<1>11. 0 < sum /\ sum < n + n
  <2>1. P * (t1 + t2 + 1) >= P * 1
    BY <1>1
  <2>2. P * (t1 + t2 + 1) <= P * (2 * Q - 1)
    BY <1>1
  <2>3. P * (2 * Q - 1) = n + n - P
    BY <1>1
  <2>4. QED
    BY <1>1, <1>10, <2>1, <2>2, <2>3
<1>12. PICK g \in Int : sum = n * g
  <2>1. sum \in Int
    BY <1>4, <1>5
  <2> HIDE DEF sum
  <2>2. sum % (P * Q) = 0
    BY <1>1, <1>7, <2>1, TwoPrimes
  <2>3. sum % n = 0
    BY <1>1, <2>2
  <2>4. QED
    BY <1>1, <2>1, <2>3, Multiple
<1> HIDE DEF sum
<1>13. g = 1
  <2>1. CASE g <= 0
    <3>1. n * g <= 0
      BY <1>1, <2>1
    <3>2. QED
      BY <1>11, <1>12, <3>1
  <2>2. CASE g >= 2
    <3>1. n * g >= n * 2
      BY <1>1, <2>2
    <3>2. QED
      BY <1>1, <1>11, <1>12, <3>1
  <2>3. QED
    BY <2>1, <2>2
<1>14. sum = n
  BY <1>1, <1>12, <1>13
<1>15. QED
  BY <1>14 DEF sum, s1, s2

\* Every root up to n/2 is one of the four.
LEMMA AllRootsFound ==
  ASSUME NEW z \in Int, NEW a, a = (z * z) % n,
         NEW s \in 0..(n \div 2), (s * s) % n = a
  PROVE  \E sx \in {-1, 1}, sy \in {-1, 1} : s = square_root(a, sx, sy)
<1> DEFINE xp == ModularSquareRoot(a, P)
           xq == ModularSquareRoot(a, Q)
<1>1. /\ P \in Nat /\ Q \in Nat /\ P > 0 /\ Q > 0 /\ IsPrime(P) /\ IsPrime(Q) /\ P # Q
      /\ n = P * Q /\ n \in Nat /\ n > 0 /\ n \div 2 \in Nat /\ n \div 2 < n
  BY Primes, nFacts
<1>2. s \in Int /\ 0 <= s /\ s < n
  BY <1>1
<1>3. /\ xp \in 0..(P - 1) /\ (xp * xp) % P = (s * s) % P
      /\ xq \in 0..(Q - 1) /\ (xq * xq) % Q = (s * s) % Q
  <2>1. P \in Int /\ Q \in Int /\ n = Q * P /\ a = (s * s) % n
    BY <1>1
  <2>2. xp \in 0..(P - 1) /\ (xp * xp) % P = (s * s) % P
    BY <1>1, <1>2, <2>1, RootModPrime
  <2>3. xq \in 0..(Q - 1) /\ (xq * xq) % Q = (s * s) % Q
    BY <1>1, <1>2, <2>1, RootModPrime
  <2>4. QED
    BY <2>2, <2>3
<1>a. xp \in Int /\ xq \in Int
  BY <1>3
<1> HIDE DEF xp, xq
<1>4. ASSUME NEW p, IsPrime(p), NEW v \in Int, (v * v) % p = (s * s) % p
      PROVE  \E sign \in {-1, 1} : (sign * v - s) % p = 0
  <2>1. CASE (v - s) % p = 0
    <3>1. 1 * v - s = v - s
      BY <1>4
    <3>2. QED
      BY <2>1, <3>1
  <2>2. CASE (v + s) % p = 0
    <3>1. p \in Nat /\ p > 0
      BY <1>4 DEF IsPrime
    <3>2. PICK e \in Int : v + s = p * e
      <4>1. v + s \in Int
        BY <1>2, <1>4
      <4>2. QED
        BY <2>2, <3>1, <4>1, Multiple
    <3> DEFINE b == (-1) * v - s
               f == -e
    <3>3. b = p * f /\ b \in Int /\ f \in Int
      BY <1>2, <1>4, <3>1, <3>2
    <3> HIDE DEF b, f
    <3>4. b % p = 0
      BY <3>1, <3>3, Multiple
    <3>5. QED
      BY <3>4 DEF b
  <2>3. QED
    BY <1>2, <1>4, <2>1, <2>2, RootsOfSquare
<1>5. PICK sx \in {-1, 1} : (sx * xp - s) % P = 0
  BY <1>1, <1>3, <1>4, <1>a
<1>6. PICK sy \in {-1, 1} : (sy * xq - s) % Q = 0
  BY <1>1, <1>3, <1>4, <1>a
<1> DEFINE root == square_root(a, sx, sy)
           diff == root - s
<1>7. root \in 0..n /\ (root - sx * xp) % P = 0 /\ (root - sy * xq) % Q = 0
  BY SquareRootValue DEF xp, xq
<1>8. root + square_root(a, -sx, -sy) = n
  BY OppositeRoots
<1>8a. square_root(a, -sx, -sy) \in Int
  <2>1. -sx \in {-1, 1} /\ -sy \in {-1, 1}
    OBVIOUS
  <2>2. square_root(a, -sx, -sy) \in 0..n
    BY <2>1, SquareRootValue
  <2>3. QED
    BY <2>2
<1> HIDE DEF root
<1>9. diff % P = 0 /\ diff % Q = 0
  <2>1. root \in Int /\ sx * xp \in Int /\ sy * xq \in Int
    BY <1>7, <1>a
  <2>2. diff % P = 0
    BY <1>1, <1>2, <1>5, <1>7, <2>1, CongruentTransitive
  <2>3. diff % Q = 0
    BY <1>1, <1>2, <1>6, <1>7, <2>1, CongruentTransitive
  <2>4. QED
    BY <2>2, <2>3
<1>10. PICK g \in Int : diff = n * g
  <2>1. diff \in Int
    BY <1>2, <1>7
  <2> HIDE DEF diff
  <2>2. diff % (P * Q) = 0
    BY <1>1, <1>9, <2>1, TwoPrimes
  <2>3. diff % n = 0
    BY <1>1, <2>2
  <2>4. QED
    BY <1>1, <2>1, <2>3, Multiple
<1>11. g = 0 \/ g = 1
  <2>1. -n < diff /\ diff <= n
    BY <1>1, <1>2, <1>7
  <2> HIDE DEF diff
  <2>2. CASE g <= -1
    <3>1. n * g <= n * (-1)
      BY <1>1, <2>2
    <3>2. QED
      BY <1>1, <1>10, <2>1, <3>1
  <2>3. CASE g >= 2
    <3>1. n * g >= n * 2
      BY <1>1, <2>3
    <3>2. QED
      BY <1>1, <1>10, <2>1, <3>1
  <2>4. QED
    BY <2>2, <2>3
<1>12. CASE g = 0
  <2>1. root = s
    BY <1>1, <1>2, <1>7, <1>10, <1>12
  <2>2. QED
    BY <2>1 DEF root
<1>13. CASE g = 1
  <2>1. root = n + s
    BY <1>1, <1>2, <1>7, <1>10, <1>13
  <2>2. s = 0 /\ root = n
    BY <1>1, <1>2, <1>7, <2>1
  <2>3. square_root(a, -sx, -sy) = s
    BY <1>1, <1>8, <1>8a, <2>2
  <2>4. -sx \in {-1, 1} /\ -sy \in {-1, 1}
    OBVIOUS
  <2>5. QED
    BY <2>3, <2>4
<1>14. QED
  BY <1>11, <1>12, <1>13

\* std::sort returns the same four numbers in ascending order.
LEMMA SortedOrder ==
  ASSUME NEW s \in [1..4 -> Int]
  PROVE  \E o \in Orders : /\ \A e, f \in 1..4 : e < f => s[o[e]] <= s[o[f]]
                           /\ sort(s) = [e \in 1..4 |-> s[o[e]]]
<1>1. PICK m1 \in 1..4 : \A e \in 1..4 : s[m1] <= s[e]
  <2>1. s[1] \in Int /\ s[2] \in Int /\ s[3] \in Int /\ s[4] \in Int
    OBVIOUS
  <2>2. QED
    BY <2>1
<1>2. PICK m2 \in 1..4 : m2 # m1 /\ \A e \in 1..4 : e # m1 => s[m2] <= s[e]
  <2>1. s[1] \in Int /\ s[2] \in Int /\ s[3] \in Int /\ s[4] \in Int
    OBVIOUS
  <2>2. QED
    BY <2>1
<1>3. PICK m3 \in 1..4 : m3 # m1 /\ m3 # m2
                         /\ \A e \in 1..4 : e # m1 /\ e # m2 => s[m3] <= s[e]
  <2>1. s[1] \in Int /\ s[2] \in Int /\ s[3] \in Int /\ s[4] \in Int
    OBVIOUS
  <2>2. QED
    BY <2>1
<1>4. PICK m4 \in 1..4 : m4 # m1 /\ m4 # m2 /\ m4 # m3
  OBVIOUS
<1> DEFINE o == [e \in 1..4 |-> IF e = 1 THEN m1 ELSE IF e = 2 THEN m2
                                ELSE IF e = 3 THEN m3 ELSE m4]
<1>5. o \in Orders
  BY <1>2, <1>3, <1>4 DEF Orders
<1>6. \A e, f \in 1..4 : e < f => s[o[e]] <= s[o[f]]
  <2>1. s[m1] <= s[m2] /\ s[m1] <= s[m3] /\ s[m1] <= s[m4] /\ s[m2] <= s[m3]
        /\ s[m2] <= s[m4] /\ s[m3] <= s[m4]
    BY <1>1, <1>2, <1>3, <1>4
  <2>2. QED
    BY <2>1
<1> HIDE DEF o
<1>7. \E o1 \in Orders : \A e, f \in 1..4 : e < f => s[o1[e]] <= s[o1[f]]
  BY <1>5, <1>6
<1> DEFINE order == CHOOSE o1 \in Orders : \A e, f \in 1..4 : e < f => s[o1[e]] <= s[o1[f]]
<1>8. order \in Orders /\ \A e, f \in 1..4 : e < f => s[order[e]] <= s[order[f]]
  BY <1>7
<1>9. sort(s) = [e \in 1..4 |-> s[order[e]]]
  BY DEF sort
<1> HIDE DEF order
<1>10. QED
  BY <1>8, <1>9

\* Of two opposite pairs of numbers, the two smallest are the ones up to n/2.
LEMMA LowestTwo ==
  ASSUME NEW s \in [1..4 -> Int], s[1] + s[4] = n, s[2] + s[3] = n
  PROVE  {sort(s)[1], sort(s)[2]} = {s[e] : e \in {e \in 1..4 : s[e] <= n \div 2}}
<1> DEFINE h == n \div 2
<1>1. n \in Int /\ h \in Int /\ n = 2 * h + 1
  BY nFacts
<1> HIDE DEF h
<1>2. PICK o \in Orders : /\ \A e, f \in 1..4 : e < f => s[o[e]] <= s[o[f]]
                          /\ sort(s) = [e \in 1..4 |-> s[o[e]]]
  BY SortedOrder
<1>3. /\ s[1] \in Int /\ s[2] \in Int /\ s[3] \in Int /\ s[4] \in Int
      /\ (s[1] <= h <=> s[4] > h) /\ (s[2] <= h <=> s[3] > h)
  BY <1>1
<1>4. /\ o[1] \in 1..4 /\ o[2] \in 1..4 /\ o[3] \in 1..4 /\ o[4] \in 1..4
      /\ o[1] # o[2] /\ o[1] # o[3] /\ o[1] # o[4]
      /\ o[2] # o[3] /\ o[2] # o[4] /\ o[3] # o[4]
  BY DEF Orders
<1>5. s[o[1]] <= s[o[2]] /\ s[o[2]] <= s[o[3]] /\ s[o[3]] <= s[o[4]]
  BY <1>2
<1>6. sort(s)[1] = s[o[1]] /\ sort(s)[2] = s[o[2]]
  BY <1>2
<1>7. s[o[1]] <= h /\ s[o[2]] <= h
  <2>1. PICK l1 \in {1, 4} : s[l1] <= h
    BY <1>1, <1>3
  <2>2. PICK l2 \in {2, 3} : s[l2] <= h
    BY <1>1, <1>3
  <2>3. l1 \in {o[1], o[2], o[3], o[4]} /\ l2 \in {o[1], o[2], o[3], o[4]} /\ l1 # l2
    BY <1>4, <2>1, <2>2
  <2>4. s[o[1]] \in Int /\ s[o[2]] \in Int /\ s[o[3]] \in Int /\ s[o[4]] \in Int
    BY <1>4
  <2>5. QED
    BY <1>1, <1>5, <2>1, <2>2, <2>3, <2>4
<1>8. s[o[3]] > h /\ s[o[4]] > h
  <2>1. PICK l1 \in {1, 4} : s[l1] > h
    BY <1>3, <1>1
  <2>2. PICK l2 \in {2, 3} : s[l2] > h
    BY <1>3, <1>1
  <2>3. l1 \in {o[1], o[2], o[3], o[4]} /\ l2 \in {o[1], o[2], o[3], o[4]} /\ l1 # l2
    BY <1>4, <2>1, <2>2
  <2>4. s[o[1]] \in Int /\ s[o[2]] \in Int /\ s[o[3]] \in Int /\ s[o[4]] \in Int
    BY <1>4
  <2>5. QED
    BY <1>1, <1>5, <2>1, <2>2, <2>3, <2>4
<1>9. ASSUME NEW e \in 1..4, s[e] <= h PROVE e = o[1] \/ e = o[2]
  <2>1. e \in {o[1], o[2], o[3], o[4]}
    BY <1>4
  <2>2. QED
    BY <1>1, <1>3, <1>8, <1>9, <2>1
<1>10. {s[o[1]], s[o[2]]} = {s[e] : e \in {e \in 1..4 : s[e] <= h}}
  BY <1>4, <1>7, <1>9
<1>11. QED
  BY <1>6, <1>10 DEF h

\* The two roots that findRoots keeps of a square are all its roots up to n/2.
LEMMA LowRoots ==
  ASSUME NEW z \in Int, NEW a, a = (z * z) % n
  PROVE  LET roots == all_square_roots(a)
         IN  {roots[1], roots[2]} = {s \in 0..(n \div 2) : (s * s) % n = a}
<1> DEFINE s == four_roots(a)
<1>1. \A sx \in {-1, 1}, sy \in {-1, 1} :
        /\ square_root(a, sx, sy) \in 0..n
        /\ square_root(a, sx, sy) * square_root(a, sx, sy) % n = a
        /\ square_root(a, sx, sy) + square_root(a, -sx, -sy) = n
  <2> TAKE sx \in {-1, 1}, sy \in {-1, 1}
  <2>1. QED
    BY SquareRootValue, OppositeRoots
<1>2. n \in Nat /\ n \div 2 \in Nat /\ n \div 2 < n
  BY nFacts
<1>3. /\ s[1] = square_root(a, -1, -1) /\ s[2] = square_root(a, 1, -1)
      /\ s[3] = square_root(a, -1, 1) /\ s[4] = square_root(a, 1, 1)
      /\ DOMAIN s = 1..4
  BY DEF four_roots
<1>4. s \in [1..4 -> 0..n]
  <2>1. s = [e \in 1..4 |-> s[e]]
    BY DEF four_roots
  <2>2. \A e \in 1..4 : s[e] \in 0..n
    <3> TAKE e \in 1..4
    <3>1. e = 1 \/ e = 2 \/ e = 3 \/ e = 4
      OBVIOUS
    <3> HIDE DEF s
    <3>2. QED
      BY <1>1, <1>3, <3>1
  <2> HIDE DEF s
  <2>3. QED
    BY <2>1, <2>2
<1>5. s[1] + s[4] = n /\ s[2] + s[3] = n
  <2> HIDE DEF s
  <2>1. PICK m \in {-1, 1} : m # 1
    OBVIOUS
  <2>2. -m = 1 /\ m = -1
    BY <2>1
  <2>a. square_root(a, m, m) + square_root(a, -m, -m) = n
    BY <1>1
  <2>b. square_root(a, 1, m) + square_root(a, -1, -m) = n
    BY <1>1
  <2>c. square_root(a, -1, -1) + square_root(a, 1, 1) = n
    BY <2>2, <2>a
  <2>3. square_root(a, 1, -1) + square_root(a, -1, 1) = n
    BY <2>2, <2>b
  <2>4. QED
    BY <1>3, <2>c, <2>3
<1>6. all_square_roots(a) = sort(s)
  BY DEF all_square_roots
<1>7. \A e \in 1..4 : s[e] * s[e] % n = a
  <2> TAKE e \in 1..4
  <2>1. e = 1 \/ e = 2 \/ e = 3 \/ e = 4
    OBVIOUS
  <2> HIDE DEF s
  <2>2. QED
    BY <1>1, <1>3, <2>1
<1>8. ASSUME NEW v \in 0..(n \div 2), (v * v) % n = a
      PROVE  \E e \in 1..4 : v = s[e]
  <2>1. PICK sx \in {-1, 1}, sy \in {-1, 1} : v = square_root(a, sx, sy)
    BY <1>8, AllRootsFound
  <2> HIDE DEF s
  <2>2. v = s[1] \/ v = s[2] \/ v = s[3] \/ v = s[4]
    BY <1>3, <2>1
  <2>3. QED
    BY <2>2
<1> HIDE DEF s
<1>9. {s[e] : e \in {e \in 1..4 : s[e] <= n \div 2}} = {v \in 0..(n \div 2) : (v * v) % n = a}
  BY <1>2, <1>4, <1>7, <1>8
<1>10. s \in [1..4 -> Int]
  BY <1>2, <1>4
<1>11. {sort(s)[1], sort(s)[2]} = {s[e] : e \in {e \in 1..4 : s[e] <= n \div 2}}
  BY <1>5, <1>10, LowestTwo
<1>12. QED
  BY <1>6, <1>9, <1>11

-----------------------------------------------------------------------------
(* The inductive invariant.                                                *)

\* Where the seller deviates.
Deviates(kind, round, i) == lie.kind = kind /\ lie.round = round /\ lie.index = i

DeviatesOn(kind, side, round, i) == Deviates(kind, round, i) /\ side \in DOMAIN lie.c

\* What the seller commits to at an index of a round.
Content(side, round, i) ==
  IF DeviatesOn("root", side, round, i) THEN lie.c[side]
  ELSE enc({Key(round, i)}, r[side][round][i])

BeforeCommit == {"genSquares", "findRoots", "commit"}
BeforeOpen == BeforeCommit \cup {"pickSubset", "acceptSubset"}

\* The rounds whose commitments the buyer has received.
HasCommitted(round) == round < j \/ (round = j /\ pc \notin BeforeCommit)

\* The seller's y are the squares of the buyer's x, and r their roots up to n/2.
Squares == \A round \in Rounds, i \in Indices : y[round][i] = Square(x[round][i])
HasRoots(round) == round < j \/ (round = j /\ pc \notin {"genSquares", "findRoots"})
Roots ==
  \A round \in Rounds : HasRoots(round) =>
    \A i \in Indices : {r[1][round][i], r[2][round][i]}
                         = {s \in 0..(n \div 2) : (s * s) % n = y[round][i]}

\* The commitments to the keys, and what was opened of them.
KeysForm ==
  \A round \in Rounds, i \in Indices :
    /\ keys[round][i].com = {Key(round, i)}
    /\ keys[round][i].m \in {{}, {Key(round, i)}}

\* The commitments to the roots, and what was opened of them.
RootsForm ==
  \A side \in Sides, round \in Rounds, i \in Indices :
    /\ HasCommitted(round) =>
         d[side][round][i].com = Content(side, round, i)
    /\ ~HasCommitted(round) => d[side][round][i].com = {}
    /\ d[side][round][i].m \in {{}, d[side][round][i].com}

\* A commitment that the seller opens to something else stays without message.
LiesClosed ==
  \A round \in Rounds, i \in Indices :
    /\ Deviates("key", round, i) => keys[round][i].m = {}
    /\ \A side \in Sides : DeviatesOn("message", side, round, i) => d[side][round][i].m = {}

\* An index before the openings, one that was checked, and one of the rest.
Untouched(round, i) == keys[round][i].m = {} /\ \A side \in Sides : d[side][round][i].m = {}
CheckedOne(round, i) ==
  /\ keys[round][i].m = {Key(round, i)}
  /\ \E side \in Sides : /\ d[side][round][i].m = enc({Key(round, i)}, x[round][i])
                         /\ d[3 - side][round][i].m = {}
RestOne(round, i) ==
  /\ keys[round][i].m = {}
  /\ \A side \in Sides : d[side][round][i].m = d[side][round][i].com

\* A round that is over, in two halves.
Done(round) ==
  /\ Cardinality(Checked(round)) = L \div 2
  /\ \A i \in Checked(round) : CheckedOne(round, i)
  /\ \A i \in Indices \ Checked(round) : RestOne(round, i)

\* The indices of the subset that the loop has passed.
Passed == {indices[a] : a \in 1..(k - 1)}

\* Where exec is in the rounds.
Progress ==
  /\ \A round \in Rounds : round < j => Done(round)
  /\ \A round \in Rounds, i \in Indices :
       round > j \/ (round = j /\ pc \in BeforeOpen) => Untouched(round, i)
  /\ pc = "open" => /\ \A i \in Passed : CheckedOne(j, i)
                    /\ \A i \in Indices \ Passed : Untouched(j, i)
  /\ pc \in {"exchanged", "finished"} => j = R - 1 /\ Done(j)

\* What exec and acceptSubset have checked of the subset and of its values.
SubsetChecked ==
  /\ pc \in {"acceptSubset", "open"} =>
       /\ indices \in [1..(L \div 2) -> Indices]
       /\ \A a, b \in 1..(L \div 2) : indices[a] = indices[b] => a = b
       /\ \A a \in 1..(L \div 2) : values[a] \in OtherValues \cup {x[j][indices[a]]}
  /\ pc = "open" =>
       /\ DOMAIN commitment_indices = 1..(L \div 2)
       /\ \A a \in 1..(L \div 2) :
            commitment_indices[a] = MatchingSide(indices[a], values[a])

\* Of an index whose key the buyer has, at most one root is open, and it is one
\* that she sent herself.
OneSideOpen ==
  \A round \in Rounds, i \in Indices : keys[round][i].m # {} =>
    \E side \in Sides :
      /\ d[3 - side][round][i].m = {}
      /\ d[side][round][i].m # {} => r[side][round][i] \in OtherValues \cup {x[round][i]}

IInv == /\ TypeOK /\ Squares /\ Roots /\ KeysForm /\ RootsForm /\ LiesClosed
        /\ Progress /\ SubsetChecked /\ OneSideOpen

-----------------------------------------------------------------------------
(* Encryption, and the loops' ranges.                                      *)

LEMMA EncFacts ==
  ASSUME NEW key, NEW m
  PROVE  /\ enc({key}, m) # {} /\ dec({key}, enc({key}, m)) = {m}
         /\ dec({key}, {}) = {} /\ \A c : dec({}, c) = {}
<1>1. enc({key}, m) = {[key |-> key, msg |-> m]}
  BY DEF enc
<1> DEFINE c1 == [key |-> key, msg |-> m]
<1>2. c1.key = key /\ c1.msg = m
  OBVIOUS
<1> HIDE DEF c1
<1>3. {c0 \in {c1} : c0.key \in {key}} = {c1}
  BY <1>2
<1>4. dec({key}, {c1}) = {c1.msg}
  BY <1>3 DEF dec
<1>5. dec({key}, {}) = {} /\ \A c : dec({}, c) = {}
  BY DEF dec
<1>6. QED
  BY <1>1, <1>2, <1>4, <1>5 DEF c1

LEMMA EncInjective ==
  ASSUME NEW key, NEW m1, NEW m2, enc({key}, m1) = enc({key}, m2)
  PROVE  m1 = m2
<1>1. dec({key}, enc({key}, m1)) = {m1} /\ dec({key}, enc({key}, m2)) = {m2}
  BY EncFacts
<1>2. QED
  BY <1>1

LEMMA KeyType == \A round \in Rounds, i \in Indices : Key(round, i) \in Rounds \X Indices
BY DEF Key

LEMMA EncType ==
  ASSUME NEW key \in (Rounds \X Indices) \cup {OtherKey}, NEW m \in ((-1)..n) \cup Plaintexts
  PROVE  enc({key}, m) \in Ciphertext
<1> DEFINE Ks == (Rounds \X Indices) \cup {OtherKey}
           Ms == ((-1)..n) \cup Plaintexts
           S == {enc({k0}, m0) : k0 \in Ks, m0 \in Ms}
<1>1. Ciphertext = {{}} \cup S
  BY DEF Ciphertext
<1>2. enc({key}, m) \in S
  <2>1. key \in Ks /\ m \in Ms
    OBVIOUS
  <2> HIDE DEF Ks, Ms
  <2>2. QED
    BY <2>1
<1> HIDE DEF S
<1>3. QED
  BY <1>1, <1>2

\* What decrypts at all was encrypted with the key.
LEMMA DecFacts ==
  ASSUME NEW c \in Ciphertext, NEW key
  PROVE  \/ dec({key}, c) = {}
         \/ \E v \in ((-1)..n) \cup Plaintexts : c = enc({key}, v) /\ dec({key}, c) = {v}
<1> DEFINE Ks == (Rounds \X Indices) \cup {OtherKey}
           Ms == ((-1)..n) \cup Plaintexts
<1>1. c = {} \/ \E k0 \in Ks, m0 \in Ms : c = enc({k0}, m0)
  BY DEF Ciphertext
<1> HIDE DEF Ks, Ms
<1>2. CASE c = {}
  BY <1>2, EncFacts
<1>3. ASSUME NEW k0 \in Ks, NEW m0 \in Ms, c = enc({k0}, m0)
      PROVE  \/ dec({key}, c) = {}
             \/ \E v \in Ms : c = enc({key}, v) /\ dec({key}, c) = {v}
  <2>1. CASE k0 = key
    <3>1. c = enc({key}, m0) /\ dec({key}, c) = {m0}
      BY <1>3, <2>1, EncFacts
    <3>2. QED
      BY <3>1
  <2>2. CASE k0 # key
    <3>1. c = {[key |-> k0, msg |-> m0]}
      BY <1>3 DEF enc
    <3> DEFINE c1 == [key |-> k0, msg |-> m0]
    <3>2. c1.key = k0
      OBVIOUS
    <3> HIDE DEF c1
    <3>3. \A c0 \in c : c0.key # key
      BY <2>2, <3>1, <3>2 DEF c1
    <3>4. QED
      BY <3>3 DEF dec
  <2>3. QED
    BY <2>1, <2>2
<1>4. QED
  BY <1>1, <1>2, <1>3 DEF Ms

LEMMA OtherKeyFacts == \A round \in Rounds, i \in Indices : Key(round, i) # OtherKey
BY RoundsAssumption DEF Key, OtherKey, Rounds

\* What the seller commits to is bytes; it is the encrypted root unless he lies.
LEMMA ContentFacts ==
  ASSUME TypeOK, NEW side \in Sides, NEW round \in Rounds, NEW i \in Indices
  PROVE  /\ Content(side, round, i) \in Ciphertext
         /\ ~DeviatesOn("root", side, round, i) =>
              /\ Content(side, round, i) = enc({Key(round, i)}, r[side][round][i])
              /\ Content(side, round, i) # {}
              /\ dec({Key(round, i)}, Content(side, round, i)) = {r[side][round][i]}
         /\ DeviatesOn("root", side, round, i) => Content(side, round, i) \in Forged(round, i)
         /\ DeviatesOn("message", side, round, i) => ~DeviatesOn("root", side, round, i)
<1>1. r[side][round][i] \in (-1)..n
  BY DEF TypeOK, Table
<1>2. Key(round, i) \in Rounds \X Indices
  BY KeyType
<1>3. \A v \in ((-1)..n) \cup Plaintexts : enc({Key(round, i)}, v) \in Ciphertext
  <2> TAKE v \in ((-1)..n) \cup Plaintexts
  <2>1. Key(round, i) \in (Rounds \X Indices) \cup {OtherKey}
    BY <1>2
  <2> QED
    BY <2>1, EncType
<1>4. enc({OtherKey}, 0) \in Ciphertext
  <2>1. 0 \in ((-1)..n) \cup Plaintexts
    BY nFacts
  <2> QED
    BY <2>1, EncType
<1>5. CASE DeviatesOn("root", side, round, i)
  <2>1. Content(side, round, i) = lie.c[side]
    BY <1>5 DEF Content
  <2>2. lie.c[side] \in Forged(round, i)
    BY <1>5 DEF DeviatesOn, Deviates, TypeOK
  <2>3. lie.c[side] \in Ciphertext
    <3>1. \A v \in Plaintexts : enc({Key(round, i)}, v) \in Ciphertext
      BY <1>3
    <3>2. {} \in Ciphertext
      BY DEF Ciphertext
    <3>3. QED
      BY <1>4, <2>2, <3>1, <3>2 DEF Forged
  <2>4. ~DeviatesOn("message", side, round, i)
    BY <1>5 DEF DeviatesOn, Deviates
  <2>5. QED
    BY <1>5, <2>1, <2>2, <2>3, <2>4
<1>6. CASE ~DeviatesOn("root", side, round, i)
  <2>1. Content(side, round, i) = enc({Key(round, i)}, r[side][round][i])
    BY <1>6 DEF Content
  <2>2. enc({Key(round, i)}, r[side][round][i]) \in Ciphertext
    BY <1>1, <1>3
  <2> DEFINE c == Content(side, round, i)
             key == Key(round, i)
             v == r[side][round][i]
  <2>3. c = enc({key}, v)
    BY <2>1
  <2>4. enc({key}, v) # {} /\ dec({key}, enc({key}, v)) = {v}
    BY EncFacts
  <2> HIDE DEF c, key, v
  <2>5. c # {} /\ dec({key}, c) = {v}
    BY <2>3, <2>4
  <2>6. QED
    BY <1>6, <2>1, <2>2, <2>5 DEF c, key, v
<1>7. QED
  BY <1>5, <1>6

LEMMA LFacts == L \in Nat /\ L > 0 /\ L \div 2 \in Nat /\ L = 2 * (L \div 2) /\ L \div 2 > 0
BY IndicesAssumption

\* The buyer's roots are at most n/2.
LEMMA xType ==
  ASSUME TypeOK, NEW round \in Rounds, NEW i \in Indices
  PROVE  x[round][i] \in 0..(n \div 2) /\ x[round][i] \in Int /\ x[round][i] < n
<1>1. x[round][i] \in Draws \cup {0}
  BY DEF TypeOK, Table
<1>2. n \div 2 \in Nat /\ n \div 2 < n /\ n \in Nat
  BY nFacts
<1>3. x[round][i] \in 0..(n \div 2)
  <2>1. Draws \subseteq 0..(n \div 2) /\ 0 \in 0..(n \div 2)
    BY <1>2, DrawsAssumption
  <2>2. QED
    BY <1>1, <2>1
<1>4. QED
  BY <1>2, <1>3

LEMMA RFacts == R \in Nat /\ R > 0 /\ 0 \in Rounds /\ \A round \in Rounds : round \in Int
BY RoundsAssumption DEF Rounds

\* A sequence of L/2 indices names L/2 indices only if it repeats none.
LEMMA NoneRepeated ==
  ASSUME NEW s, DOMAIN s = 1..(L \div 2), Cardinality({s[a] : a \in DOMAIN s}) = L \div 2
  PROVE  \A a, b \in 1..(L \div 2) : s[a] = s[b] => a = b
<1> DEFINE S == 1..(L \div 2)
           T == {s[a] : a \in S}
           f == [a \in S |-> s[a]]
<1>1. IsFiniteSet(S) /\ Cardinality(S) = L \div 2
  BY LFacts, FS_Interval
<1>2. f \in Surjection(S, T)
  BY DEF Surjection
<1>3. IsFiniteSet(T)
  BY <1>1, <1>2, FS_Surjection
<1>4. Cardinality(T) = Cardinality(S)
  BY <1>1
<1>5. f \in Injection(S, T)
  BY <1>1, <1>2, <1>3, <1>4, FS_SurjSameCardinalityImpliesInj
<1>6. \A a, b \in S : f[a] = f[b] => a = b
  BY <1>5 DEF Injection, IsInjective
<1>7. QED
  BY <1>6

\* And the other way round.
LEMMA HalfOfIndices ==
  ASSUME NEW s, \A a, b \in 1..(L \div 2) : s[a] = s[b] => a = b
  PROVE  Cardinality({s[a] : a \in 1..(L \div 2)}) = L \div 2
<1> DEFINE S == 1..(L \div 2)
           T == {s[a] : a \in S}
           f == [a \in S |-> s[a]]
<1>1. IsFiniteSet(S) /\ Cardinality(S) = L \div 2
  BY LFacts, FS_Interval
<1>2. f \in Surjection(S, T)
  BY DEF Surjection
<1>3. f \in [S -> T] /\ \A a, b \in S : f[a] = f[b] => a = b
  OBVIOUS
<1>4. f \in Injection(S, T)
  BY <1>3 DEF Injection, IsInjective
<1> HIDE DEF S, T, f
<1>5. Cardinality(T) = Cardinality(S)
  BY <1>1, <1>2, <1>4, FS_Surjection
<1>6. QED
  BY <1>1, <1>5 DEF S, T

-----------------------------------------------------------------------------
(* The invariant is inductive.                                             *)

LEMMA IInvInit == Init => IInv
<1> SUFFICES ASSUME Init PROVE IInv
  OBVIOUS
<1> USE DEF Init
<1>1. 0 \in Rounds /\ 1 \in 1..(L \div 2 + 1) /\ 0 \in 0..(n - 1) /\ 0 \in (-1)..n
  BY RFacts, LFacts, nFacts
<1>2. \A round \in Rounds, i \in Indices :
        /\ x[round][i] = 0 /\ y[round][i] = 0
        /\ keys[round][i] = [com |-> {Key(round, i)}, m |-> {}]
        /\ \A side \in Sides : d[side][round][i] = [com |-> {}, m |-> {}]
  BY DEF Filled
<1>3. TypeOK
  <2>1. keys \in Table([com : KeyBytes, m : KeyBytes])
    BY KeyType DEF Table, KeyBytes
  <2>2. d \in [Sides -> Table([com : Ciphertext, m : Ciphertext])]
    BY DEF Table, Ciphertext, Filled
  <2>3. x \in Table(Draws \cup {0}) /\ y \in Table(0..(n - 1)) /\ r \in [Sides -> Table((-1)..n)]
    BY <1>1 DEF Table, Filled
  <2>4. /\ DOMAIN values = DOMAIN indices /\ DOMAIN commitment_indices \subseteq DOMAIN indices
        /\ \A a \in DOMAIN commitment_indices : commitment_indices[a] \in Sides \cup {5}
    OBVIOUS
  <2>a. /\ lie.kind \in LieKinds /\ lie.round \in Rounds /\ lie.index \in Indices
        /\ DOMAIN lie.c \in (SUBSET Sides) \ {{}}
        /\ \A side \in DOMAIN lie.c :
             lie.c[side] \in IF lie.kind = "root" THEN Forged(lie.round, lie.index) ELSE {{}}
    <3>1. PICK kind \in LieKinds, round \in Rounds, index \in Indices,
               sides \in (SUBSET Sides) \ {{}} :
            \E c \in [sides -> IF kind = "root" THEN Forged(round, index) ELSE {{}}] :
              lie = [kind |-> kind, round |-> round, index |-> index, c |-> c]
      BY DEF Init
    <3>2. PICK c \in [sides -> IF kind = "root" THEN Forged(round, index) ELSE {{}}] :
            lie = [kind |-> kind, round |-> round, index |-> index, c |-> c]
      BY <3>1
    <3>3. lie.kind = kind /\ lie.round = round /\ lie.index = index /\ lie.c = c
      BY ONLY <3>2
    <3>4. DOMAIN c = sides /\ sides \in (SUBSET Sides) \ {{}}
      BY <3>1, <3>2
    <3>5. \A side \in sides : c[side] \in IF kind = "root" THEN Forged(round, index) ELSE {{}}
      BY <3>2
    <3>6. QED
      BY <3>1, <3>3, <3>4, <3>5
  <2>5. QED
    BY <1>1, <2>1, <2>2, <2>3, <2>4, <2>a DEF TypeOK
<1>4. Squares
  <2>1. (0 * 0) % n = 0
    BY nFacts, ModSmall
  <2>2. QED
    BY <1>2, <2>1 DEF Squares, Square
<1>5. \A round \in Rounds : ~(round < j)
  BY DEF Rounds
<1>6. Roots
  BY <1>5 DEF Roots, HasRoots
<1>7. KeysForm /\ RootsForm /\ LiesClosed
  <2>1. \A round \in Rounds : ~HasCommitted(round)
    BY <1>5 DEF HasCommitted, BeforeCommit
  <2>2. RootsForm
    BY <1>2, <2>1 DEF RootsForm
  <2>3. KeysForm /\ LiesClosed
    BY <1>2 DEF KeysForm, LiesClosed
  <2>4. QED
    BY <2>2, <2>3
<1>8. Progress
  BY <1>2, <1>5 DEF Progress, Untouched
<1>9. SubsetChecked /\ OneSideOpen
  BY <1>2 DEF SubsetChecked, OneSideOpen
<1>10. QED
  BY <1>3, <1>4, <1>6, <1>7, <1>8, <1>9 DEF IInv

\* A round that is over stays so if neither its commitments nor its x change.
LEMMA DoneStable ==
  ASSUME NEW round \in Rounds, Done(round),
         \A i \in Indices : /\ keys'[round][i] = keys[round][i]
                            /\ x'[round][i] = x[round][i]
                            /\ \A side \in Sides : d'[side][round][i] = d[side][round][i]
  PROVE  Done(round)'
<1>1. Checked(round)' = Checked(round) /\ Checked(round) \subseteq Indices
  BY DEF Checked
<1>2. \A side \in Sides : 3 - side \in Sides
  BY DEF Sides
<1>3. \A i \in Checked(round) : CheckedOne(round, i)'
  BY <1>1, <1>2 DEF Done, CheckedOne
<1>4. \A i \in Indices \ Checked(round) : RestOne(round, i)'
  BY DEF Done, RestOne
<1>5. QED
  BY <1>1, <1>3, <1>4 DEF Done

\* The commitments keep their form in a step that changes no digest.
LEMMA RootsFormStable ==
  ASSUME RootsForm,
         \A round \in Rounds : HasCommitted(round)' <=> HasCommitted(round),
         \A side \in Sides, round \in Rounds, i \in Indices :
           /\ HasCommitted(round) => Content(side, round, i)' = Content(side, round, i)
           /\ d'[side][round][i].com = d[side][round][i].com
           /\ d'[side][round][i].m \in {{}, d[side][round][i].com}
  PROVE  RootsForm'
<1>1. ASSUME NEW side \in Sides, NEW round \in Rounds, NEW i \in Indices
      PROVE  /\ HasCommitted(round)' =>
                  d'[side][round][i].com = Content(side, round, i)'
             /\ ~HasCommitted(round)' => d'[side][round][i].com = {}
             /\ d'[side][round][i].m \in {{}, d'[side][round][i].com}
  <2>1. /\ HasCommitted(round) =>
             d[side][round][i].com = Content(side, round, i)
        /\ ~HasCommitted(round) => d[side][round][i].com = {}
    BY DEF RootsForm
  <2>2. /\ HasCommitted(round)' <=> HasCommitted(round)
        /\ HasCommitted(round) => Content(side, round, i)' = Content(side, round, i)
        /\ d'[side][round][i].com = d[side][round][i].com
        /\ d'[side][round][i].m \in {{}, d[side][round][i].com}
    OBVIOUS
  <2> HIDE DEF enc, Content, HasCommitted, Key
  <2>3. QED
    BY ONLY <2>1, <2>2
<1>2. QED
  BY <1>1 DEF RootsForm

LEMMA genSquaresStep == IInv /\ genSquares => IInv'
<1> SUFFICES ASSUME IInv, genSquares PROVE IInv'
  OBVIOUS
<1> USE DEF IInv
<1>1. /\ pc = "genSquares" /\ pc' = "findRoots" /\ error' = error
      /\ UNCHANGED <<lie, j, k, r, d, keys, indices, values, commitment_indices, result>>
  BY DEF genSquares, Proceed
<1>2. PICK draw \in [Indices -> Draws] :
        /\ x' = [x EXCEPT ![j] = draw]
        /\ y' = [y EXCEPT ![j] = [i \in Indices |-> Square(draw[i])]]
  BY DEF genSquares
<1>3. /\ j \in Rounds /\ x \in [Rounds -> [Indices -> Draws \cup {0}]]
      /\ y \in [Rounds -> [Indices -> 0..(n - 1)]]
  BY DEF TypeOK, Table
<1>4. \A round \in Rounds : round # j => x'[round] = x[round] /\ y'[round] = y[round]
  BY <1>2, <1>3
<1>5. \A i \in Indices : x'[j][i] = draw[i] /\ y'[j][i] = Square(draw[i])
  BY <1>2, <1>3
<1>6. \A i \in Indices : Square(draw[i]) \in 0..(n - 1)
  <2> TAKE i \in Indices
  <2>1. draw[i] \in 0..(n \div 2)
    BY DrawsAssumption
  <2>2. n \in Nat /\ n > 0 /\ n \div 2 \in Nat
    BY nFacts
  <2>3. draw[i] * draw[i] \in Int
    BY <2>1, <2>2
  <2>4. QED
    BY <2>2, <2>3, DivMod DEF Square
<1>7. TypeOK'
  <2>1. x' \in Table(Draws \cup {0})
    BY <1>2, <1>3 DEF Table
  <2>2. y' \in Table(0..(n - 1))
    BY <1>2, <1>3, <1>6 DEF Table
  <2>3. QED
    BY <1>1, <2>1, <2>2 DEF TypeOK
<1>8. Squares'
  BY <1>4, <1>5 DEF Squares
<1>9. Roots'
  <2> SUFFICES ASSUME NEW round \in Rounds, HasRoots(round)', NEW i \in Indices
               PROVE  {r[1][round][i], r[2][round][i]}
                        = {s \in 0..(n \div 2) : (s * s) % n = y'[round][i]}
    BY <1>1 DEF Roots
  <2>1. round < j /\ round # j
    BY <1>1, <1>3, RFacts DEF HasRoots
  <2>2. QED
    BY <1>4, <2>1 DEF Roots, HasRoots
<1>10. KeysForm' /\ LiesClosed'
  BY <1>1 DEF KeysForm, LiesClosed, DeviatesOn, Deviates
<1>11. RootsForm'
  <2>1. \A round \in Rounds : HasCommitted(round)' <=> HasCommitted(round)
    BY <1>1 DEF HasCommitted, BeforeCommit
  <2>2. \A side \in Sides, round \in Rounds, i \in Indices :
          Content(side, round, i)' = Content(side, round, i)
    BY <1>1 DEF Content, DeviatesOn, Deviates
  <2>3. \A side \in Sides, round \in Rounds, i \in Indices :
          /\ d'[side][round][i].com = d[side][round][i].com
          /\ d'[side][round][i].m \in {{}, d[side][round][i].com}
    BY <1>1 DEF RootsForm
  <2>4. QED
    BY <2>1, <2>2, <2>3, RootsFormStable
<1>12. Progress'
  <2>1. \A round \in Rounds : round < j => Done(round)'
    <3> TAKE round \in Rounds
    <3>1. HAVE round < j
    <3>2. round # j /\ Done(round)
      BY <1>3, <3>1, RFacts DEF Progress
    <3>3. QED
      BY <1>1, <1>4, <3>2, DoneStable
  <2>2. \A round \in Rounds, i \in Indices :
          round > j \/ round = j => Untouched(round, i)'
    BY <1>1 DEF Progress, Untouched, BeforeOpen, BeforeCommit
  <2>3. QED
    BY <1>1, <2>1, <2>2 DEF Progress
<1>13. SubsetChecked'
  BY <1>1 DEF SubsetChecked
<1>14. OneSideOpen'
  <2> SUFFICES ASSUME NEW round \in Rounds, NEW i \in Indices, keys[round][i].m # {}
               PROVE  \E side \in Sides :
                        /\ d[3 - side][round][i].m = {}
                        /\ d[side][round][i].m # {} =>
                             r[side][round][i] \in OtherValues \cup {x'[round][i]}
    BY <1>1 DEF OneSideOpen
  <2>1. round # j
    BY <1>1 DEF Progress, Untouched, BeforeOpen, BeforeCommit
  <2>2. QED
    BY <1>4, <2>1 DEF OneSideOpen
<1>15. QED
  BY <1>7, <1>8, <1>9, <1>10, <1>11, <1>12, <1>13, <1>14

LEMMA findRootsStep == IInv /\ findRoots => IInv'
<1> SUFFICES ASSUME IInv, findRoots PROVE IInv'
  OBVIOUS
<1> USE DEF IInv
<1>1. /\ pc = "findRoots" /\ pc' = "commit" /\ error' = error
      /\ UNCHANGED <<lie, j, k, x, y, d, keys, indices, values, commitment_indices, result>>
  BY DEF findRoots, Proceed
<1> DEFINE roots == [i \in Indices |-> all_square_roots(y[j][i])]
           at(i, swapped, side) == IF i \in swapped THEN 3 - side ELSE side
<1>2. PICK swapped \in SUBSET Indices :
        r' = [side \in Sides |-> [r[side] EXCEPT ![j] =
               [i \in Indices |-> roots[i][at(i, swapped, side)]]]]
  BY DEF findRoots
<1>3. /\ j \in Rounds /\ r \in [Sides -> [Rounds -> [Indices -> (-1)..n]]]
      /\ x \in [Rounds -> [Indices -> Draws \cup {0}]]
  BY DEF TypeOK, Table
<1>4. \A i \in Indices : {roots[i][1], roots[i][2]}
                           = {s \in 0..(n \div 2) : (s * s) % n = y[j][i]}
  <2> TAKE i \in Indices
  <2>1. x[j][i] \in Int
    BY <1>3, xType
  <2>2. y[j][i] = (x[j][i] * x[j][i]) % n
    BY <1>3 DEF Squares, Square
  <2>3. roots[i] = all_square_roots(y[j][i])
    OBVIOUS
  <2> HIDE DEF roots
  <2>4. QED
    BY <2>1, <2>2, <2>3, LowRoots
<1> HIDE DEF roots
<1>5. \A side \in Sides, round \in Rounds : round # j => r'[side][round] = r[side][round]
  BY <1>2, <1>3
<1>6. \A side \in Sides, i \in Indices : r'[side][j][i] = roots[i][at(i, swapped, side)]
  BY <1>2, <1>3
<1>7. \A i \in Indices : {r'[1][j][i], r'[2][j][i]} = {roots[i][1], roots[i][2]}
  <2> TAKE i \in Indices
  <2>1. r'[1][j][i] = roots[i][at(i, swapped, 1)] /\ r'[2][j][i] = roots[i][at(i, swapped, 2)]
    BY <1>6 DEF Sides
  <2>2. CASE i \in swapped
    <3>1. at(i, swapped, 1) = 2 /\ at(i, swapped, 2) = 1
      BY <2>2
    <3>2. QED
      BY <2>1, <3>1
  <2>3. CASE i \notin swapped
    <3>1. at(i, swapped, 1) = 1 /\ at(i, swapped, 2) = 2
      BY <2>3
    <3>2. QED
      BY <2>1, <3>1
  <2>4. QED
    BY <2>2, <2>3
<1> HIDE DEF at
<1>8. \A side \in Sides, i \in Indices : r'[side][j][i] \in (-1)..n
  <2> TAKE side \in Sides, i \in Indices
  <2>1. r'[side][j][i] \in {r'[1][j][i], r'[2][j][i]}
    BY DEF Sides
  <2>2. r'[side][j][i] \in 0..(n \div 2)
    BY <1>4, <1>7, <2>1
  <2>3. QED
    BY <2>2, nFacts
<1>9. TypeOK'
  <2>1. r' \in [Sides -> [Rounds -> [Indices -> (-1)..n]]]
    <3>1. \A side \in Sides : [i \in Indices |-> roots[i][at(i, swapped, side)]]
                                \in [Indices -> (-1)..n]
      BY <1>6, <1>8
    <3>2. QED
      BY <1>2, <1>3, <3>1
  <2>2. QED
    BY <1>1, <2>1 DEF TypeOK, Table
<1>10. Squares' /\ KeysForm' /\ LiesClosed' /\ SubsetChecked'
  BY <1>1 DEF Squares, KeysForm, LiesClosed, DeviatesOn, Deviates, SubsetChecked
<1>11. Roots'
  <2> SUFFICES ASSUME NEW round \in Rounds, HasRoots(round)', NEW i \in Indices
               PROVE  {r'[1][round][i], r'[2][round][i]}
                        = {s \in 0..(n \div 2) : (s * s) % n = y[round][i]}
    BY <1>1 DEF Roots
  <2>1. CASE round = j
    BY <1>4, <1>7, <2>1
  <2>2. CASE round # j
    <3>1. HasRoots(round)
      BY <1>1, <2>2 DEF HasRoots
    <3>2. r'[1][round] = r[1][round] /\ r'[2][round] = r[2][round]
      BY <1>5, <2>2 DEF Sides
    <3>3. QED
      BY <3>1, <3>2 DEF Roots
  <2>3. QED
    BY <2>1, <2>2
<1>12. RootsForm'
  <2>1. \A round \in Rounds : HasCommitted(round)' <=> HasCommitted(round)
    BY <1>1 DEF HasCommitted, BeforeCommit
  <2>2. \A side \in Sides, round \in Rounds, i \in Indices :
          HasCommitted(round) => Content(side, round, i)' = Content(side, round, i)
    <3> TAKE side \in Sides, round \in Rounds, i \in Indices
    <3>1. HAVE HasCommitted(round)
    <3>2. round # j
      BY <1>1, <1>3, <3>1, RFacts DEF HasCommitted, BeforeCommit
    <3>3. QED
      BY <1>1, <1>5, <3>2 DEF Content, DeviatesOn, Deviates
  <2>3. \A side \in Sides, round \in Rounds, i \in Indices :
          /\ d'[side][round][i].com = d[side][round][i].com
          /\ d'[side][round][i].m \in {{}, d[side][round][i].com}
    BY <1>1 DEF RootsForm
  <2>4. QED
    BY <2>1, <2>2, <2>3, RootsFormStable
<1>13. Progress'
  <2>1. \A round \in Rounds : round < j => Done(round)'
    BY <1>1, DoneStable DEF Progress
  <2>2. \A round \in Rounds, i \in Indices :
          round > j \/ round = j => Untouched(round, i)'
    BY <1>1 DEF Progress, Untouched, BeforeOpen, BeforeCommit
  <2>3. QED
    BY <1>1, <2>1, <2>2 DEF Progress
<1>14. OneSideOpen'
  <2> SUFFICES ASSUME NEW round \in Rounds, NEW i \in Indices, keys[round][i].m # {}
               PROVE  \E side \in Sides :
                        /\ d[3 - side][round][i].m = {}
                        /\ d[side][round][i].m # {} =>
                             r'[side][round][i] \in OtherValues \cup {x[round][i]}
    BY <1>1 DEF OneSideOpen
  <2>1. round # j
    BY <1>1 DEF Progress, Untouched, BeforeOpen, BeforeCommit
  <2>2. PICK side \in Sides :
          /\ d[3 - side][round][i].m = {}
          /\ d[side][round][i].m # {} => r[side][round][i] \in OtherValues \cup {x[round][i]}
    BY DEF OneSideOpen
  <2>3. r'[side][round] = r[side][round]
    BY <1>5, <2>1
  <2>4. QED
    BY <2>2, <2>3
<1>15. QED
  BY <1>9, <1>10, <1>11, <1>12, <1>13, <1>14

LEMMA commitStep == IInv /\ commit => IInv'
<1> SUFFICES ASSUME IInv, commit PROVE IInv'
  OBVIOUS
<1> USE DEF IInv
<1>1. /\ pc = "commit" /\ pc' = "pickSubset" /\ error' = error
      /\ UNCHANGED <<lie, j, k, x, y, r, keys, indices, values, commitment_indices, result>>
  BY DEF commit, Proceed
<1>2. d' = [side \in Sides |-> [d[side] EXCEPT ![j] =
             [i \in Indices |-> [d[side][j][i] EXCEPT !.com =
                Content(side, j, i)]]]]
  BY DEF commit, Committed, Lies, LiesOn, Content, DeviatesOn, Deviates
<1>3. /\ j \in Rounds /\ r \in [Sides -> [Rounds -> [Indices -> (-1)..n]]]
      /\ d \in [Sides -> [Rounds -> [Indices -> [com : Ciphertext, m : Ciphertext]]]]
  BY DEF TypeOK, Table
<1>4. \A side \in Sides, round \in Rounds : round # j => d'[side][round] = d[side][round]
  BY <1>2, <1>3
<1>5. \A side \in Sides, i \in Indices :
        d'[side][j][i] = [d[side][j][i] EXCEPT !.com = Content(side, j, i)]
  BY <1>2, <1>3
<1>6. \A side \in Sides, i \in Indices :
        /\ d[side][j][i].m = {}
        /\ d'[side][j][i] = [com |-> Content(side, j, i), m |-> {}]
  <2> TAKE side \in Sides, i \in Indices
  <2>1. d[side][j][i].m = {}
    BY <1>1, <1>3 DEF Progress, Untouched, BeforeOpen, BeforeCommit
  <2>2. d[side][j][i] \in [com : Ciphertext, m : Ciphertext]
    BY <1>3
  <2>3. QED
    BY <1>5, <2>1, <2>2
<1>6a. \A side \in Sides, i \in Indices :
         /\ d'[side][j][i].com = Content(side, j, i)
         /\ d'[side][j][i].m = {}
  <2> TAKE side \in Sides, i \in Indices
  <2> DEFINE c == Content(side, j, i)
  <2>1. d'[side][j][i] = [com |-> c, m |-> {}]
    BY <1>6
  <2> HIDE DEF c
  <2>2. d'[side][j][i].com = c /\ d'[side][j][i].m = {}
    BY <2>1
  <2>3. QED
    BY <2>2 DEF c
<1>7. \A side \in Sides, i \in Indices : Content(side, j, i) \in Ciphertext
  BY <1>3, ContentFacts
<1>8. TypeOK'
  <2>1. {} \in Ciphertext
    BY DEF Ciphertext
  <2>a. \A side \in Sides, i \in Indices : d'[side][j][i] \in [com : Ciphertext, m : Ciphertext]
    <3> TAKE side \in Sides, i \in Indices
    <3> DEFINE c == Content(side, j, i)
    <3>1. d'[side][j][i] = [com |-> c, m |-> {}] /\ c \in Ciphertext
      BY <1>6, <1>7
    <3> HIDE DEF c
    <3>2. QED
      BY <2>1, <3>1
  <2>b. \A side \in Sides :
          [i \in Indices |-> [d[side][j][i] EXCEPT !.com = Content(side, j, i)]]
            \in [Indices -> [com : Ciphertext, m : Ciphertext]]
    BY <1>5, <2>a
  <2>2. d' \in [Sides -> [Rounds -> [Indices -> [com : Ciphertext, m : Ciphertext]]]]
    BY <1>2, <1>3, <2>b
  <2>3. QED
    BY <1>1, <2>2 DEF TypeOK, Table
<1>9. Squares' /\ KeysForm' /\ SubsetChecked'
  BY <1>1 DEF Squares, KeysForm, SubsetChecked
<1>10. Roots'
  BY <1>1 DEF Roots, HasRoots
<1>11. RootsForm'
  <2> SUFFICES ASSUME NEW side \in Sides, NEW round \in Rounds, NEW i \in Indices
               PROVE  /\ HasCommitted(round)' =>
                           d'[side][round][i].com = Content(side, round, i)'
                      /\ ~HasCommitted(round)' => d'[side][round][i].com = {}
                      /\ d'[side][round][i].m \in {{}, d'[side][round][i].com}
    BY DEF RootsForm
  <2>1. Content(side, round, i)' = Content(side, round, i)
    BY <1>1 DEF Content, DeviatesOn, Deviates
  <2>2. CASE round = j
    <3>1. HasCommitted(round)'
      BY <1>1, <2>2 DEF HasCommitted, BeforeCommit
    <3>2. QED
      BY <1>6a, <2>1, <2>2, <3>1
  <2>3. CASE round # j
    <3>1. HasCommitted(round)' <=> HasCommitted(round)
      BY <1>1, <2>3 DEF HasCommitted
    <3>2. d'[side][round][i] = d[side][round][i]
      BY <1>4, <2>3
    <3>3. /\ HasCommitted(round) =>
               d[side][round][i].com = Content(side, round, i)
          /\ ~HasCommitted(round) => d[side][round][i].com = {}
          /\ d[side][round][i].m \in {{}, d[side][round][i].com}
      BY DEF RootsForm
    <3>4. QED
      BY ONLY <2>1, <3>1, <3>2, <3>3
  <2>4. QED
    BY <2>2, <2>3
<1>12. \A side \in Sides, round \in Rounds, i \in Indices :
         d'[side][round][i].m = d[side][round][i].m
  <2> TAKE side \in Sides, round \in Rounds, i \in Indices
  <2>1. CASE round = j
    BY <1>6, <1>6a, <2>1
  <2>2. CASE round # j
    BY <1>4, <2>2
  <2>3. QED
    BY <2>1, <2>2
<1>13. LiesClosed'
  BY <1>1, <1>12 DEF LiesClosed, DeviatesOn, Deviates
<1>14. Progress'
  <2>1. \A round \in Rounds : round < j => Done(round)'
    <3> TAKE round \in Rounds
    <3>1. HAVE round < j
    <3>2. round # j /\ Done(round)
      BY <1>3, <3>1, RFacts DEF Progress
    <3>3. QED
      BY <1>1, <1>4, <3>2, DoneStable
  <2>2. \A round \in Rounds, i \in Indices :
          round > j \/ round = j => Untouched(round, i)'
    BY <1>1, <1>12 DEF Progress, Untouched, BeforeOpen, BeforeCommit
  <2>3. QED
    BY <1>1, <2>1, <2>2 DEF Progress
<1>15. OneSideOpen'
  <2>1. \A side \in Sides : 3 - side \in Sides
    BY DEF Sides
  <2> SUFFICES ASSUME NEW round \in Rounds, NEW i \in Indices, keys[round][i].m # {}
               PROVE  \E side \in Sides :
                        /\ d'[3 - side][round][i].m = {}
                        /\ d'[side][round][i].m # {} =>
                             r[side][round][i] \in OtherValues \cup {x[round][i]}
    BY <1>1 DEF OneSideOpen
  <2>2. PICK side \in Sides :
          /\ d[3 - side][round][i].m = {}
          /\ d[side][round][i].m # {} => r[side][round][i] \in OtherValues \cup {x[round][i]}
    BY DEF OneSideOpen
  <2>3. QED
    BY <1>12, <2>1, <2>2
<1>16. QED
  BY <1>8, <1>9, <1>10, <1>11, <1>13, <1>14, <1>15

LEMMA pickSubsetStep == IInv /\ pickSubset => IInv'
<1> SUFFICES ASSUME IInv, pickSubset PROVE IInv'
  OBVIOUS
<1> USE DEF IInv
<1>1. /\ pc = "pickSubset"
      /\ UNCHANGED <<lie, j, k, x, y, r, d, keys, commitment_indices, result>>
  BY DEF pickSubset
<1>2. PICK s \in Subsets :
        /\ indices' = s
        /\ values' \in {v \in [DOMAIN s -> {x[j][i] : i \in Indices} \cup OtherValues] :
                          \A a \in DOMAIN s : \/ v[a] \in OtherValues
                                              \/ s[a] \in Indices /\ v[a] = x[j][s[a]]}
        /\ IF SubsetError(s) = "none" THEN Proceed("acceptSubset") ELSE Throw(SubsetError(s))
  BY DEF pickSubset
<1>3. s \in [1..(L \div 2) -> Nat]
  BY SubsetsAssumption
<1>4. pc' \in {"acceptSubset", "thrown"} /\ (pc' = "acceptSubset" => SubsetError(s) = "none")
  BY <1>2 DEF Proceed, Throw
<1>5. DOMAIN values' = DOMAIN indices'
  BY <1>2
<1>6. TypeOK'
  <2>1. DOMAIN commitment_indices \subseteq DOMAIN indices'
    <3>1. DOMAIN commitment_indices \subseteq 1..(L \div 2)
      <4>1. CASE indices \in Subsets
        <5>1. DOMAIN indices = 1..(L \div 2)
          BY <4>1, SubsetsAssumption
        <5>2. QED
          BY <5>1 DEF TypeOK
      <4>2. CASE indices = <<>>
        BY <4>2 DEF TypeOK
      <4>3. QED
        BY <4>1, <4>2 DEF TypeOK
    <3>2. QED
      BY <1>2, <1>3, <3>1
  <2>2. QED
    BY <1>1, <1>2, <1>4, <1>5, <2>1 DEF TypeOK
<1>7. Squares' /\ KeysForm' /\ LiesClosed' /\ OneSideOpen'
  BY <1>1 DEF Squares, KeysForm, LiesClosed, DeviatesOn, Deviates, OneSideOpen
<1>8. Roots'
  BY <1>1, <1>4 DEF Roots, HasRoots
<1>9. RootsForm'
  <2>1. \A round \in Rounds : HasCommitted(round)' <=> HasCommitted(round)
    BY <1>1, <1>4 DEF HasCommitted, BeforeCommit
  <2>2. \A side \in Sides, round \in Rounds, i \in Indices :
          Content(side, round, i)' = Content(side, round, i)
    BY <1>1 DEF Content, DeviatesOn, Deviates
  <2>3. \A side \in Sides, round \in Rounds, i \in Indices :
          /\ d'[side][round][i].com = d[side][round][i].com
          /\ d'[side][round][i].m \in {{}, d[side][round][i].com}
    BY <1>1 DEF RootsForm
  <2>4. QED
    BY <2>1, <2>2, <2>3, RootsFormStable
<1>10. Progress'
  <2>1. \A round \in Rounds : round < j => Done(round)'
    BY <1>1, DoneStable DEF Progress
  <2>2. \A round \in Rounds, i \in Indices :
          round > j \/ round = j => Untouched(round, i)'
    BY <1>1 DEF Progress, Untouched, BeforeOpen, BeforeCommit
  <2>3. QED
    BY <1>1, <1>4, <2>1, <2>2 DEF Progress
<1>11. SubsetChecked'
  <2> SUFFICES ASSUME pc' = "acceptSubset"
               PROVE  /\ s \in [1..(L \div 2) -> Indices]
                      /\ \A a, b \in 1..(L \div 2) : s[a] = s[b] => a = b
                      /\ \A a \in 1..(L \div 2) : values'[a] \in OtherValues \cup {x[j][s[a]]}
    BY <1>1, <1>2, <1>4 DEF SubsetChecked
  <2>1. SubsetError(s) = "none"
    BY <1>4
  <2>2. /\ Cardinality({s[a] : a \in DOMAIN s}) = L \div 2
        /\ ~\E a \in DOMAIN s : s[a] >= L
    BY <2>1 DEF SubsetError
  <2>3. \A a, b \in 1..(L \div 2) : s[a] = s[b] => a = b
    BY <1>3, <2>2, NoneRepeated
  <2>4. s \in [1..(L \div 2) -> Indices]
    BY <1>3, <2>2, LFacts DEF Indices
  <2>5. \A a \in 1..(L \div 2) : values'[a] \in OtherValues \cup {x[j][s[a]]}
    BY <1>2, <1>3
  <2>6. QED
    BY <2>3, <2>4, <2>5
<1>12. QED
  BY <1>6, <1>7, <1>8, <1>9, <1>10, <1>11

LEMMA MatchingSideFacts ==
  ASSUME NEW ind, NEW val
  PROVE  /\ MatchingSide(ind, val) \in Sides \cup {5}
         /\ \A side \in Sides : MatchingSide(ind, val) = side => val = r[side][j][ind]
BY DEF MatchingSide, Sides

LEMMA acceptSubsetStep == IInv /\ acceptSubset => IInv'
<1> SUFFICES ASSUME IInv, acceptSubset PROVE IInv'
  OBVIOUS
<1> USE DEF IInv
<1>1. /\ pc = "acceptSubset"
      /\ UNCHANGED <<lie, j, x, y, r, d, keys, indices, values, result>>
  BY DEF acceptSubset
<1>2. \/ pc' = "thrown" /\ UNCHANGED <<commitment_indices, k>>
      \/ /\ pc' = "open" /\ k' = 1
         /\ commitment_indices' = [a \in DOMAIN indices |-> MatchingSide(indices[a], values[a])]
  BY DEF acceptSubset, Throw, Proceed
<1>3. /\ indices \in [1..(L \div 2) -> Indices]
      /\ \A a, b \in 1..(L \div 2) : indices[a] = indices[b] => a = b
      /\ \A a \in 1..(L \div 2) : values[a] \in OtherValues \cup {x[j][indices[a]]}
  BY <1>1 DEF SubsetChecked
<1>4. TypeOK'
  <2>1. CASE pc' = "thrown"
    BY <1>1, <1>2, <2>1 DEF TypeOK
  <2>2. CASE pc' = "open"
    <3>1. /\ DOMAIN commitment_indices' = DOMAIN indices
          /\ \A a \in DOMAIN commitment_indices' : commitment_indices'[a] \in Sides \cup {5}
      BY <1>2, <2>2, MatchingSideFacts
    <3>2. k' \in 1..(L \div 2 + 1)
      BY <1>2, <2>2, LFacts
    <3>3. QED
      BY <1>1, <2>2, <3>1, <3>2 DEF TypeOK
  <2>3. QED
    BY <1>2, <2>1, <2>2
<1>5. Squares' /\ KeysForm' /\ LiesClosed' /\ OneSideOpen'
  BY <1>1 DEF Squares, KeysForm, LiesClosed, DeviatesOn, Deviates, OneSideOpen
<1>6. Roots'
  BY <1>1, <1>2 DEF Roots, HasRoots
<1>7. RootsForm'
  <2>1. \A round \in Rounds : HasCommitted(round)' <=> HasCommitted(round)
    BY <1>1, <1>2 DEF HasCommitted, BeforeCommit
  <2>2. \A side \in Sides, round \in Rounds, i \in Indices :
          Content(side, round, i)' = Content(side, round, i)
    BY <1>1 DEF Content, DeviatesOn, Deviates
  <2>3. \A side \in Sides, round \in Rounds, i \in Indices :
          /\ d'[side][round][i].com = d[side][round][i].com
          /\ d'[side][round][i].m \in {{}, d[side][round][i].com}
    BY <1>1 DEF RootsForm
  <2>4. QED
    BY <2>1, <2>2, <2>3, RootsFormStable
<1>8. Progress'
  <2>1. \A round \in Rounds : round < j => Done(round)'
    BY <1>1, DoneStable DEF Progress
  <2>2. \A round \in Rounds, i \in Indices :
          round > j \/ round = j => Untouched(round, i)'
    BY <1>1 DEF Progress, Untouched, BeforeOpen, BeforeCommit
  <2>3. pc' = "open" => Passed' = {}
    <3>1. 1..(1 - 1) = {}
      OBVIOUS
    <3>2. QED
      BY <1>2, <3>1 DEF Passed
  <2>4. j \in Rounds
    BY DEF TypeOK
  <2>5. QED
    BY <1>1, <1>2, <2>1, <2>2, <2>3, <2>4 DEF Progress
<1>9. SubsetChecked'
  <2>1. CASE pc' = "thrown"
    BY <2>1 DEF SubsetChecked
  <2>2. CASE pc' = "open"
    <3>1. \A a \in 1..(L \div 2) :
            MatchingSide(indices[a], values[a])' = MatchingSide(indices[a], values[a])
      BY <1>1 DEF MatchingSide
    <3>2. /\ DOMAIN commitment_indices' = 1..(L \div 2)
          /\ \A a \in 1..(L \div 2) :
               commitment_indices'[a] = MatchingSide(indices[a], values[a])
      BY <1>2, <1>3, <2>2
    <3>3. QED
      BY <1>1, <1>3, <3>1, <3>2 DEF SubsetChecked
  <2>3. QED
    BY <1>2, <2>1, <2>2
<1>10. QED
  BY <1>4, <1>5, <1>6, <1>7, <1>8, <1>9

\* What one iteration of the loop over the subset does to the commitments: it
\* touches one index of the round, its key and at most one of its roots.
LEMMA openChosenEffect ==
  ASSUME IInv, openChosen
  PROVE  LET ind == indices[k]
         IN  /\ k \in 1..(L \div 2) /\ ind \in Indices /\ j \in Rounds
             /\ ind \notin Passed /\ Untouched(j, ind)
             /\ \A round \in Rounds, i \in Indices :
                  (round # j \/ i # ind) => keys'[round][i] = keys[round][i]
             /\ keys' \in Table([com : KeyBytes, m : KeyBytes])
             /\ keys'[j][ind].com = {Key(j, ind)}
             /\ keys'[j][ind].m = IF Deviates("key", j, ind) THEN {} ELSE {Key(j, ind)}
             /\ OpenFails(Lies("key", ind), keys[j][ind]) <=> Deviates("key", j, ind)
<1> DEFINE ind == indices[k]
<1> USE DEF IInv
<1>1. /\ pc = "open" /\ k <= L \div 2
      /\ keys' = [keys EXCEPT ![j][ind] = Stored(Lies("key", ind), @)]
  BY DEF openChosen
<1>2. k \in 1..(L \div 2) /\ j \in Rounds /\ keys \in [Rounds -> [Indices -> [com : KeyBytes, m : KeyBytes]]]
  BY <1>1, LFacts DEF TypeOK, Table
<1>3. /\ indices \in [1..(L \div 2) -> Indices]
      /\ \A a, b \in 1..(L \div 2) : indices[a] = indices[b] => a = b
  BY <1>1 DEF SubsetChecked
<1>4. ind \in Indices
  BY <1>2, <1>3
<1>5. ind \notin Passed
  <2> SUFFICES ASSUME NEW a \in 1..(k - 1), indices[a] = indices[k] PROVE FALSE
    BY DEF Passed
  <2>1. a \in 1..(L \div 2) /\ a # k
    BY <1>2, LFacts
  <2>2. QED
    BY <1>2, <1>3, <2>1
<1>6. Untouched(j, ind)
  BY <1>1, <1>4, <1>5 DEF Progress
<1>7. keys[j][ind].com = {Key(j, ind)}
  BY <1>2, <1>4 DEF KeysForm
<1> HIDE DEF ind
<1> DEFINE m1 == IF Deviates("key", j, ind) THEN {} ELSE {Key(j, ind)}
<1>8. Sent(Lies("key", ind), keys[j][ind]) = m1
  BY <1>7 DEF Sent, Lies, LiesOn, Deviates, DeviatesOn
<1>9. OpenFails(Lies("key", ind), keys[j][ind]) <=> Deviates("key", j, ind)
  BY <1>7, <1>8 DEF OpenFails
<1>10. m1 \in KeyBytes
  BY <1>2, <1>4, KeyType DEF KeyBytes
<1> HIDE DEF m1
<1>11. keys' = [keys EXCEPT ![j][ind] = [keys[j][ind] EXCEPT !.m = m1]]
  BY <1>1, <1>2, <1>4, <1>8 DEF Stored
<1>12. keys'[j][ind] = [keys[j][ind] EXCEPT !.m = m1]
  BY <1>2, <1>4, <1>11
<1>13. keys[j][ind] \in [com : KeyBytes, m : KeyBytes]
  BY <1>2, <1>4
<1>14. keys'[j][ind].com = {Key(j, ind)} /\ keys'[j][ind].m = m1
  BY <1>7, <1>12, <1>13
<1>15. \A round \in Rounds, i \in Indices :
         (round # j \/ i # ind) => keys'[round][i] = keys[round][i]
  BY <1>2, <1>4, <1>11
<1>16. keys' \in Table([com : KeyBytes, m : KeyBytes])
  <2>1. [keys[j][ind] EXCEPT !.m = m1] \in [com : KeyBytes, m : KeyBytes]
    BY <1>10, <1>13
  <2>2. QED
    BY <1>2, <1>4, <1>11, <2>1 DEF Table
<1>17. QED
  BY <1>2, <1>4, <1>5, <1>6, <1>9, <1>14, <1>15, <1>16 DEF ind, m1

LEMMA openChosenRoots ==
  ASSUME IInv, openChosen
  PROVE  LET ind == indices[k]
             side == commitment_indices[k]
             c == Content(side, j, ind)
         IN  \/ pc' = "thrown" /\ d' = d /\ k' = k
             \/ /\ side \in Sides
                /\ r[side][j][ind] \in OtherValues \cup {x[j][ind]}
                /\ d' \in [Sides -> Table([com : Ciphertext, m : Ciphertext])]
                /\ d[side][j][ind].com = c /\ d'[side][j][ind].com = c
                /\ d'[side][j][ind].m = IF DeviatesOn("message", side, j, ind) THEN {} ELSE c
                /\ \A s \in Sides, round \in Rounds, i \in Indices :
                     (s # side \/ round # j \/ i # ind) => d'[s][round][i] = d[s][round][i]
                /\ \/ pc' = "thrown" /\ k' = k
                   \/ /\ pc' = "open" /\ k' = k + 1
                      /\ ~Deviates("key", j, ind) /\ ~DeviatesOn("message", side, j, ind)
                      /\ c = enc({Key(j, ind)}, x[j][ind])
<1> DEFINE ind == indices[k]
           side == commitment_indices[k]
           c == Content(side, j, ind)
           key == Key(j, ind)
<1> USE DEF IInv
<1>1. pc = "open"
  BY DEF openChosen
<1>2. /\ k \in 1..(L \div 2) /\ ind \in Indices /\ j \in Rounds
      /\ keys'[j][ind].m = IF Deviates("key", j, ind) THEN {} ELSE {Key(j, ind)}
      /\ OpenFails(Lies("key", ind), keys[j][ind]) <=> Deviates("key", j, ind)
  BY openChosenEffect
<1>3. \/ pc' = "thrown" /\ d' = d /\ k' = k
      \/ /\ ~OpenFails(Lies("key", ind), keys[j][ind]) /\ side \in Sides
         /\ d' = [d EXCEPT ![side][j][ind] = Stored(LiesOn("message", side, ind), @)]
         /\ \/ pc' = "thrown" /\ k' = k
            \/ /\ ~OpenFails(LiesOn("message", side, ind), d[side][j][ind])
               /\ verifyRoot(ind, keys'[j][ind].m, d'[side][j][ind].m)
               /\ k' = k + 1 /\ pc' = "open"
  BY DEF openChosen, Throw, Proceed
<1>4. SUFFICES ASSUME ~OpenFails(Lies("key", ind), keys[j][ind]), side \in Sides,
                      d' = [d EXCEPT ![side][j][ind] = Stored(LiesOn("message", side, ind), @)],
                      \/ pc' = "thrown" /\ k' = k
                      \/ /\ ~OpenFails(LiesOn("message", side, ind), d[side][j][ind])
                         /\ verifyRoot(ind, keys'[j][ind].m, d'[side][j][ind].m)
                         /\ k' = k + 1 /\ pc' = "open"
               PROVE  /\ r[side][j][ind] \in OtherValues \cup {x[j][ind]}
                      /\ d' \in [Sides -> Table([com : Ciphertext, m : Ciphertext])]
                      /\ d[side][j][ind].com = c /\ d'[side][j][ind].com = c
                      /\ d'[side][j][ind].m = IF DeviatesOn("message", side, j, ind) THEN {} ELSE c
                      /\ \A s \in Sides, round \in Rounds, i \in Indices :
                           (s # side \/ round # j \/ i # ind) => d'[s][round][i] = d[s][round][i]
                      /\ \/ pc' = "thrown" /\ k' = k
                         \/ /\ pc' = "open" /\ k' = k + 1
                            /\ ~Deviates("key", j, ind) /\ ~DeviatesOn("message", side, j, ind)
                            /\ c = enc({Key(j, ind)}, x[j][ind])
  BY <1>3
<1>5. r[side][j][ind] \in OtherValues \cup {x[j][ind]}
  <2>1. side = MatchingSide(ind, values[k]) /\ values[k] \in OtherValues \cup {x[j][ind]}
    BY <1>1, <1>2 DEF SubsetChecked
  <2>2. QED
    BY <1>4, <2>1, MatchingSideFacts
<1>6. d[side][j][ind].com = c
  <2>1. HasCommitted(j)
    BY <1>1 DEF HasCommitted, BeforeCommit
  <2>2. QED
    BY <1>2, <1>4, <2>1 DEF RootsForm
<1>7. d \in [Sides -> [Rounds -> [Indices -> [com : Ciphertext, m : Ciphertext]]]]
  BY DEF TypeOK, Table
<1>8. d[side][j][ind] \in [com : Ciphertext, m : Ciphertext] /\ c \in Ciphertext
  BY <1>2, <1>4, <1>6, <1>7
<1>9. /\ DeviatesOn("message", side, j, ind) => c # {}
      /\ dec({key}, c) = {x[j][ind]} => c = enc({key}, x[j][ind])
  <2>1. TypeOK
    OBVIOUS
  <2>2. DeviatesOn("message", side, j, ind) => c # {}
    BY <1>2, <1>4, <2>1, ContentFacts
  <2>3. ASSUME dec({key}, c) = {x[j][ind]} PROVE c = enc({key}, x[j][ind])
    <3> DEFINE v == x[j][ind]
               c1 == c
               k1 == key
    <3>1. c1 \in Ciphertext /\ dec({k1}, c1) = {v}
      BY <1>8, <2>3
    <3> HIDE DEF v, c1, k1
    <3>2. PICK w : c1 = enc({k1}, w) /\ dec({k1}, c1) = {w}
      BY <3>1, DecFacts
    <3>3. w = v
      BY <3>1, <3>2
    <3>4. QED
      BY <3>2, <3>3 DEF v, c1, k1
  <2>4. QED
    BY <2>2, <2>3
<1>10. keys'[j][ind].m = {key} /\ ~Deviates("key", j, ind)
  BY <1>2, <1>4
<1> HIDE DEF ind, side, c, key
<1> DEFINE m1 == IF DeviatesOn("message", side, j, ind) THEN {} ELSE c
<1>11. Sent(LiesOn("message", side, ind), d[side][j][ind]) = m1
  BY <1>6 DEF Sent, Lies, LiesOn, Deviates, DeviatesOn
<1>12. OpenFails(LiesOn("message", side, ind), d[side][j][ind]) <=> DeviatesOn("message", side, j, ind)
  BY <1>6, <1>9, <1>11 DEF OpenFails
<1>13. m1 \in Ciphertext
  <2>1. {} \in Ciphertext
    BY DEF Ciphertext
  <2>2. QED
    BY <1>8, <2>1
<1> DEFINE new == [d[side][j][ind] EXCEPT !.m = m1]
<1>14. new \in [com : Ciphertext, m : Ciphertext] /\ new.com = c /\ new.m = m1
  BY <1>6, <1>8, <1>13
<1>15. d' = [d EXCEPT ![side][j][ind] = new]
  BY <1>2, <1>4, <1>7, <1>11 DEF Stored
<1> HIDE DEF new, m1
<1>16. d'[side][j][ind] = new
  BY <1>2, <1>4, <1>7, <1>15
<1>17. \A s \in Sides, round \in Rounds, i \in Indices :
         (s # side \/ round # j \/ i # ind) => d'[s][round][i] = d[s][round][i]
  BY <1>2, <1>4, <1>7, <1>15
<1>18. d' \in [Sides -> Table([com : Ciphertext, m : Ciphertext])]
  BY <1>2, <1>4, <1>7, <1>14, <1>15 DEF Table
<1>19. \/ pc' = "thrown" /\ k' = k
       \/ /\ pc' = "open" /\ k' = k + 1
          /\ ~Deviates("key", j, ind) /\ ~DeviatesOn("message", side, j, ind)
          /\ c = enc({Key(j, ind)}, x[j][ind])
  <2>1. CASE pc' = "thrown" /\ k' = k
    BY <2>1
  <2>2. CASE /\ ~OpenFails(LiesOn("message", side, ind), d[side][j][ind])
             /\ verifyRoot(ind, keys'[j][ind].m, d'[side][j][ind].m)
             /\ k' = k + 1 /\ pc' = "open"
    <3>1. ~DeviatesOn("message", side, j, ind)
      BY <1>12, <2>2
    <3>2. d'[side][j][ind].m = c
      BY <1>14, <1>16, <3>1 DEF m1
    <3>3. dec({key}, c) = {x[j][ind]}
      BY <1>10, <2>2, <3>2 DEF verifyRoot
    <3>4. c = enc({Key(j, ind)}, x[j][ind])
      BY <1>9, <3>3 DEF key
    <3>5. QED
      BY <1>10, <2>2, <3>1, <3>4
  <2>3. QED
    BY <1>4, <2>1, <2>2
<1>20. QED
  BY <1>5, <1>6, <1>14, <1>16, <1>17, <1>18, <1>19 DEF m1

LEMMA openChosenStep == IInv /\ openChosen => IInv'
<1> SUFFICES ASSUME IInv, openChosen PROVE IInv'
  OBVIOUS
<1> DEFINE ind == indices[k]
           side == commitment_indices[k]
           c == Content(side, j, ind)
<1> USE DEF IInv
<1>1. /\ pc = "open"
      /\ UNCHANGED <<lie, j, x, y, r, indices, values, commitment_indices, result>>
  BY DEF openChosen
<1>2. /\ k \in 1..(L \div 2) /\ ind \in Indices /\ j \in Rounds
      /\ ind \notin Passed /\ Untouched(j, ind)
      /\ \A round \in Rounds, i \in Indices :
           (round # j \/ i # ind) => keys'[round][i] = keys[round][i]
      /\ keys' \in Table([com : KeyBytes, m : KeyBytes])
      /\ keys'[j][ind].com = {Key(j, ind)}
      /\ keys'[j][ind].m = IF Deviates("key", j, ind) THEN {} ELSE {Key(j, ind)}
  BY openChosenEffect
<1> DEFINE Opens ==
             /\ side \in Sides
             /\ r[side][j][ind] \in OtherValues \cup {x[j][ind]}
             /\ d' \in [Sides -> Table([com : Ciphertext, m : Ciphertext])]
             /\ d[side][j][ind].com = c /\ d'[side][j][ind].com = c
             /\ d'[side][j][ind].m = IF DeviatesOn("message", side, j, ind) THEN {} ELSE c
             /\ \A s \in Sides, round \in Rounds, i \in Indices :
                  (s # side \/ round # j \/ i # ind) => d'[s][round][i] = d[s][round][i]
           Accepts ==
             /\ pc' = "open" /\ k' = k + 1
             /\ ~Deviates("key", j, ind) /\ ~DeviatesOn("message", side, j, ind)
             /\ c = enc({Key(j, ind)}, x[j][ind])
<1>3. \/ pc' = "thrown" /\ d' = d /\ k' = k
      \/ Opens /\ ((pc' = "thrown" /\ k' = k) \/ Accepts)
  BY openChosenRoots
<1>a. \A s \in Sides : 3 - s \in Sides /\ 3 - s # s /\ 3 - (3 - s) = s
  BY DEF Sides
<1>b. (\A s \in Sides : d[s][j][ind].m = {}) /\ 1 \in Sides
  BY <1>2 DEF Untouched, Sides
<1> HIDE DEF ind, side, c
<1>4. \A s \in Sides, round \in Rounds, i \in Indices :
        /\ (round # j \/ i # ind) => d'[s][round][i] = d[s][round][i]
        /\ d'[s][round][i].com = d[s][round][i].com
        /\ d'[s][round][i].m \in {{}, d[s][round][i].com}
  <2>1. CASE d' = d
    BY <2>1 DEF RootsForm
  <2>2. CASE Opens
    <3> TAKE s \in Sides, round \in Rounds, i \in Indices
    <3>1. CASE s # side \/ round # j \/ i # ind
      <4>1. d'[s][round][i] = d[s][round][i]
        BY <2>2, <3>1
      <4>2. QED
        BY <4>1 DEF RootsForm
    <3>2. CASE s = side /\ round = j /\ i = ind
      BY <2>2, <3>2
    <3>3. QED
      BY <3>1, <3>2
  <2>3. QED
    BY <1>3, <2>1, <2>2
<1>5. TypeOK'
  <2>1. d' \in [Sides -> Table([com : Ciphertext, m : Ciphertext])]
    BY <1>3 DEF TypeOK
  <2>2. k' \in 1..(L \div 2 + 1) /\ pc' \in {"open", "thrown"}
    BY <1>2, <1>3, LFacts
  <2>3. QED
    BY <1>1, <1>2, <2>1, <2>2 DEF TypeOK
<1>6. Squares'
  BY <1>1 DEF Squares
<1>7. Roots'
  BY <1>1, <1>3 DEF Roots, HasRoots
<1>8. KeysForm'
  <2> SUFFICES ASSUME NEW round \in Rounds, NEW i \in Indices
               PROVE  /\ keys'[round][i].com = {Key(round, i)}
                      /\ keys'[round][i].m \in {{}, {Key(round, i)}}
    BY DEF KeysForm
  <2>1. CASE round = j /\ i = ind
    BY <1>2, <2>1
  <2>2. CASE round # j \/ i # ind
    <3>1. keys'[round][i] = keys[round][i]
      BY <1>2, <2>2
    <3>2. QED
      BY <3>1 DEF KeysForm
  <2>3. QED
    BY <2>1, <2>2
<1>9. RootsForm'
  <2>1. \A round \in Rounds : HasCommitted(round)' <=> HasCommitted(round)
    BY <1>1, <1>3 DEF HasCommitted, BeforeCommit
  <2>2. \A s \in Sides, round \in Rounds, i \in Indices :
          Content(s, round, i)' = Content(s, round, i)
    BY <1>1 DEF Content, DeviatesOn, Deviates
  <2>3. QED
    BY <1>4, <2>1, <2>2, RootsFormStable
<1>10. LiesClosed'
  <2> SUFFICES ASSUME NEW round \in Rounds, NEW i \in Indices
               PROVE  /\ Deviates("key", round, i) => keys'[round][i].m = {}
                      /\ \A s \in Sides :
                           DeviatesOn("message", s, round, i) => d'[s][round][i].m = {}
    BY <1>1 DEF LiesClosed, DeviatesOn, Deviates
  <2>1. CASE round # j \/ i # ind
    <3>1. keys'[round][i] = keys[round][i] /\ \A s \in Sides : d'[s][round][i] = d[s][round][i]
      BY <1>2, <1>4, <2>1
    <3>2. QED
      BY <3>1 DEF LiesClosed
  <2>2. CASE round = j /\ i = ind
    <3>1. Deviates("key", j, ind) => keys'[j][ind].m = {}
      BY <1>2
    <3>2. ASSUME NEW s \in Sides, DeviatesOn("message", s, j, ind) PROVE d'[s][j][ind].m = {}
      <4>1. CASE d' = d
        BY <1>b, <4>1
      <4>2. CASE Opens
        <5>1. CASE s = side
          BY <3>2, <4>2, <5>1
        <5>2. CASE s # side
          BY <1>b, <1>2, <4>2, <5>2
        <5>3. QED
          BY <5>1, <5>2
      <4>3. QED
        BY <1>3, <4>1, <4>2
    <3>3. QED
      BY <2>2, <3>1, <3>2
  <2>3. QED
    BY <2>1, <2>2
<1>11. Progress'
  <2>1. \A round \in Rounds : round < j => Done(round)'
    <3> TAKE round \in Rounds
    <3>1. HAVE round < j
    <3>2. round # j /\ Done(round)
      BY <1>2, <3>1, RFacts DEF Progress
    <3>3. QED
      BY <1>1, <1>2, <1>4, <3>2, DoneStable
  <2>2. \A round \in Rounds, i \in Indices :
          round > j \/ (round = j /\ i \notin Passed /\ i # ind) => Untouched(round, i)'
    <3> TAKE round \in Rounds, i \in Indices
    <3>1. HAVE round > j \/ (round = j /\ i \notin Passed /\ i # ind)
    <3>2. round # j \/ i # ind
      BY <1>2, <3>1, RFacts
    <3>3. Untouched(round, i)
      BY <1>1, <3>1 DEF Progress
    <3>4. QED
      BY <1>2, <1>4, <3>2, <3>3 DEF Untouched
  <2>3. CASE pc' = "thrown"
    BY <1>1, <2>1, <2>2, <2>3 DEF Progress, BeforeOpen, BeforeCommit
  <2>4. CASE Opens /\ Accepts
    <3>0. PICK e \in Indices : e = ind
      BY <1>2
    <3>1. Passed' = Passed \cup {e}
      <4>1. 1..(k' - 1) = 1..(k - 1) \cup {k}
        BY <1>2, <2>4, LFacts
      <4>2. QED
        BY <1>1, <3>0, <4>1 DEF Passed, ind
    <3>2. CheckedOne(j, e)'
      <4>1. keys'[j][e].m = {Key(j, e)}
        BY <1>2, <2>4, <3>0
      <4>2. d'[side][j][e].m = enc({Key(j, e)}, x[j][e])
        BY <2>4, <3>0 DEF c
      <4>3. d'[3 - side][j][e].m = {}
        BY <1>2, <1>a, <1>b, <2>4, <3>0
      <4>4. PICK s \in Sides : s = side
        BY <2>4
      <4>5. QED
        BY <1>1, <4>1, <4>2, <4>3, <4>4 DEF CheckedOne
    <3>3. \A i \in Passed : CheckedOne(j, i)'
      <4> TAKE i \in Passed
      <4>1. i # ind /\ i \in Indices /\ CheckedOne(j, i)
        <5>1. i \in Indices
          <6>1. \A a \in 1..(k - 1) : a \in 1..(L \div 2)
            BY <1>2, LFacts
          <6>2. QED
            BY <1>1, <6>1 DEF Passed, SubsetChecked
        <5>2. QED
          BY <1>1, <1>2, <5>1 DEF Progress
      <4>2. keys'[j][i] = keys[j][i] /\ \A s \in Sides : d'[s][j][i] = d[s][j][i]
        BY <1>2, <1>4, <4>1
      <4>3. PICK s \in Sides : /\ d[s][j][i].m = enc({Key(j, i)}, x[j][i])
                               /\ d[3 - s][j][i].m = {}
        BY <4>1 DEF CheckedOne
      <4>4. /\ d'[s][j][i].m = enc({Key(j, i)}, x[j][i])
            /\ d'[3 - s][j][i].m = {}
        BY <1>a, <4>2, <4>3
      <4>5. keys'[j][i].m = {Key(j, i)}
        BY <4>1, <4>2 DEF CheckedOne
      <4>6. QED
        BY <1>1, <4>4, <4>5 DEF CheckedOne
    <3>4. \A i \in Passed' : CheckedOne(j, i)'
      BY <3>1, <3>2, <3>3
    <3>5. \A i \in Indices \ Passed' : Untouched(j, i)'
      <4> TAKE i \in Indices \ Passed'
      <4>1. j \in Rounds /\ i \notin Passed /\ i # ind
        BY <1>2, <3>0, <3>1
      <4>2. PICK round \in Rounds : round = j
        BY <4>1
      <4>3. Untouched(round, i)'
        BY <2>2, <4>1, <4>2
      <4>4. QED
        BY <1>1, <4>2, <4>3
    <3>6. QED
      BY <1>1, <2>1, <2>2, <2>4, <3>4, <3>5 DEF Progress, BeforeOpen, BeforeCommit
  <2>5. QED
    BY <1>3, <2>3, <2>4
<1>12. SubsetChecked'
  <2>1. \A a \in 1..(L \div 2) :
          MatchingSide(indices[a], values[a])' = MatchingSide(indices[a], values[a])
    BY <1>1 DEF MatchingSide
  <2>2. QED
    BY <1>1, <2>1 DEF SubsetChecked
<1>13. OneSideOpen'
  <2> SUFFICES ASSUME NEW round \in Rounds, NEW i \in Indices, keys'[round][i].m # {}
               PROVE  \E s \in Sides :
                        /\ d'[3 - s][round][i].m = {}
                        /\ d'[s][round][i].m # {} =>
                             r[s][round][i] \in OtherValues \cup {x[round][i]}
    BY <1>1 DEF OneSideOpen
  <2>1. CASE round # j \/ i # ind
    <3>1. keys'[round][i] = keys[round][i] /\ \A s \in Sides : d'[s][round][i] = d[s][round][i]
      BY <1>2, <1>4, <2>1
    <3>2. PICK s \in Sides :
            /\ d[3 - s][round][i].m = {}
            /\ d[s][round][i].m # {} => r[s][round][i] \in OtherValues \cup {x[round][i]}
      BY <3>1 DEF OneSideOpen
    <3>3. QED
      BY <1>a, <3>1, <3>2
  <2>2. CASE round = j /\ i = ind
    <3>1. CASE d' = d
      BY <1>a, <1>b, <2>2, <3>1
    <3>2. CASE Opens
      <4>1. d'[3 - side][j][ind].m = {}
        BY <1>2, <1>a, <1>b, <3>2
      <4>2. QED
        BY <2>2, <3>2, <4>1
    <3>3. QED
      BY <1>3, <3>1, <3>2
  <2>3. QED
    BY <2>1, <2>2
<1>14. QED
  BY <1>5, <1>6, <1>7, <1>8, <1>9, <1>10, <1>11, <1>12, <1>13

\* What openRest leaves alone and what it opens.
LEMMA openRestEffect ==
  ASSUME IInv, openRest
  PROVE  /\ j \in Rounds /\ k = L \div 2 + 1 /\ HasCommitted(j)
         /\ Passed \subseteq Indices /\ Cardinality(Passed) = L \div 2
         /\ d' \in [Sides -> Table([com : Ciphertext, m : Ciphertext])]
         /\ \A s \in Sides, round \in Rounds, i \in Indices :
              /\ (round # j \/ i \in Passed) => d'[s][round][i] = d[s][round][i]
              /\ d'[s][round][i].com = d[s][round][i].com
              /\ d'[s][round][i].m \in {{}, d[s][round][i].com}
              /\ DeviatesOn("message", s, round, i) => d'[s][round][i].m = {}
         /\ \/ pc' = "thrown" /\ j' = j
            \/ /\ \A i \in Indices \ Passed, s \in Sides : d'[s][j][i].m = d[s][j][i].com
               /\ \/ j < R - 1 /\ j' = j + 1 /\ pc' = "genSquares"
                  \/ j = R - 1 /\ j' = j /\ pc' = "exchanged"
<1> USE DEF IInv
<1> DEFINE lied(s, i) == LiesOn("message", s, i)
           bad == {p \in Rest \X Sides : OpenFails(lied(p[2], p[1]), d[p[2]][j][p[1]])}
           reached(s) == {i \in Rest : \A p \in bad : i < p[1] \/ (i = p[1] /\ s <= p[2])}
<1>1. /\ pc = "open" /\ k > L \div 2
      /\ d' = [s \in Sides |-> [d[s] EXCEPT ![j] =
                 [i \in Indices |-> IF i \in reached(s)
                                    THEN Stored(lied(s, i), d[s][j][i])
                                    ELSE d[s][j][i]]]]
      /\ IF bad # {}
         THEN Throw("sha commitment open failed") /\ UNCHANGED j
         ELSE IF j < R - 1
         THEN j' = j + 1 /\ Proceed("genSquares")
         ELSE j' = j /\ Proceed("exchanged")
  BY DEF openRest
<1>a. pc = "open" /\ k > L \div 2
  BY DEF openRest
<1>b. /\ indices \in [1..(L \div 2) -> Indices]
      /\ \A a, b \in 1..(L \div 2) : indices[a] = indices[b] => a = b
  BY <1>a DEF SubsetChecked
<1>2. j \in Rounds /\ k = L \div 2 + 1 /\ HasCommitted(j)
  <2>1. j \in Rounds /\ k \in 1..(L \div 2 + 1)
    BY DEF TypeOK
  <2>2. HasCommitted(j)
    BY <1>a DEF HasCommitted, BeforeCommit
  <2>3. QED
    BY <1>a, <2>1, <2>2, LFacts
<1>3. 1..(k - 1) = 1..(L \div 2) /\ DOMAIN indices = 1..(L \div 2)
  BY <1>b, <1>2, LFacts
<1>4. Passed = {indices[a] : a \in 1..(L \div 2)} /\ Rest = Indices \ Passed
  BY <1>3 DEF Passed, Rest
<1>5. Passed \subseteq Indices
  BY <1>b, <1>4
<1>6. Cardinality(Passed) = L \div 2
  BY <1>b, <1>4, HalfOfIndices
<1>7. ASSUME NEW s \in Sides, NEW i \in Indices
      PROVE  /\ Stored(lied(s, i), d[s][j][i]) \in [com : Ciphertext, m : Ciphertext]
             /\ Stored(lied(s, i), d[s][j][i]).com = d[s][j][i].com
             /\ Stored(lied(s, i), d[s][j][i]).m
                  = IF DeviatesOn("message", s, j, i) THEN {} ELSE d[s][j][i].com
             /\ d[s][j][i] \in [com : Ciphertext, m : Ciphertext]
             /\ OpenFails(lied(s, i), d[s][j][i]) => DeviatesOn("message", s, j, i)
             /\ DeviatesOn("message", s, j, i) => OpenFails(lied(s, i), d[s][j][i])
  <2> DEFINE c == d[s][j][i]
  <2>1. c \in [com : Ciphertext, m : Ciphertext]
    BY <1>2 DEF TypeOK, Table
  <2>2. DeviatesOn("message", s, j, i) => c.com # {}
    <3>1. c.com = Content(s, j, i) /\ TypeOK
      BY <1>2 DEF RootsForm
    <3>2. QED
      BY <1>2, <3>1, ContentFacts
  <2> HIDE DEF c
  <2>3. {} \in Ciphertext
    BY DEF Ciphertext
  <2>4. Sent(lied(s, i), c) = IF DeviatesOn("message", s, j, i) THEN {} ELSE c.com
    BY DEF Sent, Lies, LiesOn, Deviates, DeviatesOn
  <2>5. Sent(lied(s, i), c) \in Ciphertext
    BY <2>1, <2>3, <2>4
  <2>6. /\ Stored(lied(s, i), c) \in [com : Ciphertext, m : Ciphertext]
        /\ Stored(lied(s, i), c).com = c.com
        /\ Stored(lied(s, i), c).m = Sent(lied(s, i), c)
    BY <2>1, <2>5 DEF Stored
  <2>7. OpenFails(lied(s, i), c) <=> DeviatesOn("message", s, j, i)
    BY <2>2, <2>4 DEF OpenFails
  <2>8. QED
    BY <2>1, <2>4, <2>6, <2>7 DEF c
<1>8. d \in [Sides -> [Rounds -> [Indices -> [com : Ciphertext, m : Ciphertext]]]]
  BY DEF TypeOK, Table
<1>9. \A i \in Rest : i \in Indices /\ i \notin Passed
  BY <1>4
<1>10. \A s \in Sides, round \in Rounds : round # j => d'[s][round] = d[s][round]
  BY <1>1, <1>2, <1>8
<1>11. \A s \in Sides, i \in Indices :
         d'[s][j][i] = IF i \in reached(s) THEN Stored(lied(s, i), d[s][j][i])
                                           ELSE d[s][j][i]
  BY <1>1, <1>2, <1>8
<1>12. \A s \in Sides : reached(s) \subseteq Rest
  OBVIOUS
<1>13. bad = {} => \A s \in Sides : reached(s) = Rest
  OBVIOUS
<1>14. bad = {} => \A i \in Rest, s \in Sides : ~DeviatesOn("message", s, j, i)
  <2> SUFFICES ASSUME bad = {}, NEW i \in Rest, NEW s \in Sides, DeviatesOn("message", s, j, i)
               PROVE  FALSE
    OBVIOUS
  <2>1. OpenFails(lied(s, i), d[s][j][i])
    BY <1>7, <1>9
  <2>2. <<i, s>> \in Rest \X Sides /\ <<i, s>>[1] = i /\ <<i, s>>[2] = s
    OBVIOUS
  <2>3. <<i, s>> \in bad
    BY <2>1, <2>2
  <2>4. QED
    BY <2>3
<1> HIDE DEF bad, reached, lied
<1>15. d' \in [Sides -> Table([com : Ciphertext, m : Ciphertext])]
  <2>1. \A s \in Sides : [i \in Indices |-> IF i \in reached(s)
                                    THEN Stored(lied(s, i), d[s][j][i])
                                    ELSE d[s][j][i]]
                           \in [Indices -> [com : Ciphertext, m : Ciphertext]]
    BY <1>7
  <2>2. QED
    BY <1>1, <1>2, <1>8, <2>1 DEF Table
<1>16. ASSUME NEW s \in Sides, NEW round \in Rounds, NEW i \in Indices
       PROVE  /\ (round # j \/ i \in Passed) => d'[s][round][i] = d[s][round][i]
              /\ d'[s][round][i].com = d[s][round][i].com
              /\ d'[s][round][i].m \in {{}, d[s][round][i].com}
              /\ DeviatesOn("message", s, round, i) => d'[s][round][i].m = {}
  <2>1. CASE round = j /\ i \in reached(s)
    <3>1. d'[s][round][i] = Stored(lied(s, i), d[s][j][i]) /\ i \notin Passed
      BY <1>9, <1>11, <1>12, <2>1
    <3>2. QED
      BY <1>7, <2>1, <3>1
  <2>2. CASE round # j \/ i \notin reached(s)
    <3>1. d'[s][round][i] = d[s][round][i]
      BY <1>10, <1>11, <2>2
    <3>2. QED
      BY <3>1 DEF RootsForm, LiesClosed
  <2>3. QED
    BY <2>1, <2>2
<1>17. ASSUME bad = {}, NEW i \in Indices \ Passed, NEW s \in Sides
       PROVE  d'[s][j][i].m = d[s][j][i].com
  <2>1. i \in reached(s) /\ ~DeviatesOn("message", s, j, i)
    BY <1>4, <1>13, <1>14, <1>17
  <2>2. d'[s][j][i] = Stored(lied(s, i), d[s][j][i])
    BY <1>11, <2>1
  <2>3. QED
    BY <1>7, <2>1, <2>2
<1>18. j \in Int /\ (~(j < R - 1) => j = R - 1)
  BY <1>2, RFacts DEF Rounds
<1>19. QED
  <2>1. CASE bad # {}
    BY <1>1, <1>2, <1>5, <1>6, <1>15, <1>16, <2>1 DEF Throw
  <2>2. CASE bad = {}
    BY <1>1, <1>2, <1>5, <1>6, <1>15, <1>16, <1>17, <1>18, <2>2 DEF Proceed
  <2>3. QED
    BY <2>1, <2>2

LEMMA openRestStep == IInv /\ openRest => IInv'
<1> SUFFICES ASSUME IInv, openRest PROVE IInv'
  OBVIOUS
<1> USE DEF IInv
<1>1. /\ pc = "open"
      /\ UNCHANGED <<lie, k, x, y, r, keys, indices, values, commitment_indices, result>>
  BY DEF openRest
<1>2. /\ j \in Rounds /\ k = L \div 2 + 1 /\ HasCommitted(j)
      /\ Passed \subseteq Indices /\ Cardinality(Passed) = L \div 2
      /\ d' \in [Sides -> Table([com : Ciphertext, m : Ciphertext])]
  BY openRestEffect
<1>3. \A s \in Sides, round \in Rounds, i \in Indices :
        /\ (round # j \/ i \in Passed) => d'[s][round][i] = d[s][round][i]
        /\ d'[s][round][i].com = d[s][round][i].com
        /\ d'[s][round][i].m \in {{}, d[s][round][i].com}
        /\ DeviatesOn("message", s, round, i) => d'[s][round][i].m = {}
  BY openRestEffect
<1> DEFINE Opens == \A i \in Indices \ Passed, s \in Sides : d'[s][j][i].m = d[s][j][i].com
<1>4. \/ pc' = "thrown" /\ j' = j
      \/ Opens /\ j < R - 1 /\ j' = j + 1 /\ pc' = "genSquares"
      \/ Opens /\ j = R - 1 /\ j' = j /\ pc' = "exchanged"
  BY openRestEffect
<1>5. /\ \A i \in Passed : CheckedOne(j, i)
      /\ \A i \in Indices \ Passed : Untouched(j, i)
  BY <1>1 DEF Progress
<1> HIDE DEF Opens
<1>6. TypeOK'
  <2>1. j' \in Rounds
    BY <1>2, <1>4, RoundsAssumption DEF Rounds
  <2>2. QED
    BY <1>1, <1>2, <1>4, <2>1 DEF TypeOK
<1>7. Squares' /\ KeysForm'
  BY <1>1 DEF Squares, KeysForm
<1>8. \A round \in Rounds : round \in Int
  BY RFacts
<1>9. /\ \A round \in Rounds : HasRoots(round)' <=> HasRoots(round)
      /\ \A round \in Rounds : HasCommitted(round)' <=> HasCommitted(round)
  BY <1>1, <1>2, <1>4, <1>8 DEF HasRoots, HasCommitted, BeforeCommit
<1>10. Roots'
  BY <1>1, <1>9 DEF Roots
<1>11. RootsForm'
  <2>1. \A s \in Sides, round \in Rounds, i \in Indices :
          Content(s, round, i)' = Content(s, round, i)
    BY <1>1 DEF Content, DeviatesOn, Deviates
  <2>2. QED
    BY <1>3, <1>9, <2>1, RootsFormStable
<1>12. LiesClosed'
  BY <1>1, <1>3 DEF LiesClosed, DeviatesOn, Deviates
<1>13. Opens => \A round \in Rounds : round = j => Done(round)'
  <2> SUFFICES ASSUME Opens, NEW round \in Rounds, round = j PROVE Done(round)'
    OBVIOUS
  <2>1. \A i \in Indices : keys[round][i].m # {} <=> i \in Passed
    BY <1>5 DEF CheckedOne, Untouched
  <2>2. Checked(round)' = Passed
    BY <1>1, <1>2, <2>1 DEF Checked
  <2>3. ASSUME NEW i \in Passed PROVE CheckedOne(round, i)'
    <3>1. i \in Indices /\ \A s \in Sides : d'[s][round][i] = d[s][round][i]
      BY <1>2, <1>3
    <3>2. keys'[round][i].m = {Key(round, i)}
      BY <1>1, <1>5 DEF CheckedOne
    <3>3. PICK s \in Sides : /\ d[s][round][i].m = enc({Key(round, i)}, x[round][i])
                             /\ d[3 - s][round][i].m = {}
      BY <1>5 DEF CheckedOne
    <3>4. 3 - s \in Sides
      BY DEF Sides
    <3>5. QED
      BY <1>1, <3>1, <3>2, <3>3, <3>4 DEF CheckedOne
  <2>4. ASSUME NEW i \in Indices \ Passed PROVE RestOne(round, i)'
    <3>1. keys'[round][i].m = {}
      BY <1>1, <1>5 DEF Untouched
    <3>2. \A s \in Sides : d'[s][round][i].m = d'[s][round][i].com
      BY <1>3 DEF Opens
    <3>3. QED
      BY <3>1, <3>2 DEF RestOne
  <2>5. QED
    BY <1>2, <2>2, <2>3, <2>4 DEF Done
<1>14. \A round \in Rounds : round < j => Done(round)'
  <2> SUFFICES ASSUME NEW round \in Rounds, round < j PROVE Done(round)'
    OBVIOUS
  <2>1. Done(round) /\ round # j
    BY <1>2, <1>8 DEF Progress
  <2>2. QED
    BY <1>1, <1>3, <2>1, DoneStable
<1>15. \A round \in Rounds, i \in Indices : round > j => Untouched(round, i)'
  <2> SUFFICES ASSUME NEW round \in Rounds, NEW i \in Indices, round > j
               PROVE  Untouched(round, i)'
    OBVIOUS
  <2>1. Untouched(round, i) /\ round # j
    BY <1>2, <1>8 DEF Progress
  <2>2. QED
    BY <1>1, <1>3, <2>1 DEF Untouched
<1>16. Progress'
  <2>1. CASE pc' = "thrown" /\ j' = j
    BY <1>14, <1>15, <2>1 DEF Progress, BeforeOpen, BeforeCommit
  <2>2. CASE Opens /\ j < R - 1 /\ j' = j + 1 /\ pc' = "genSquares"
    <3>1. \A round \in Rounds : round < j' => Done(round)'
      BY <1>2, <1>8, <1>13, <1>14, <2>2
    <3>2. \A round \in Rounds, i \in Indices : round > j' \/ round = j' => Untouched(round, i)'
      BY <1>2, <1>8, <1>15, <2>2
    <3>3. QED
      BY <2>2, <3>1, <3>2 DEF Progress
  <2>3. CASE Opens /\ j = R - 1 /\ j' = j /\ pc' = "exchanged"
    <3>1. PICK round \in Rounds : round = j
      BY <1>2
    <3>2. Done(round)'
      BY <1>13, <2>3, <3>1
    <3>3. Done(j)'
      BY <2>3, <3>1, <3>2
    <3>4. QED
      BY <1>14, <1>15, <2>3, <3>3, RoundsAssumption DEF Progress, BeforeOpen, BeforeCommit
  <2>4. QED
    BY <1>4, <2>1, <2>2, <2>3
<1>17. SubsetChecked'
  BY <1>4 DEF SubsetChecked
<1>18. OneSideOpen'
  <2> SUFFICES ASSUME NEW round \in Rounds, NEW i \in Indices, keys[round][i].m # {}
               PROVE  \E s \in Sides :
                        /\ d'[3 - s][round][i].m = {}
                        /\ d'[s][round][i].m # {} =>
                             r[s][round][i] \in OtherValues \cup {x[round][i]}
    BY <1>1 DEF OneSideOpen
  <2>1. round # j \/ i \in Passed
    BY <1>5 DEF Untouched
  <2>2. \A s \in Sides : d'[s][round][i] = d[s][round][i] /\ 3 - s \in Sides
    BY <1>3, <2>1 DEF Sides
  <2>3. PICK s \in Sides :
          /\ d[3 - s][round][i].m = {}
          /\ d[s][round][i].m # {} => r[s][round][i] \in OtherValues \cup {x[round][i]}
    BY DEF OneSideOpen
  <2>4. QED
    BY <2>2, <2>3
<1>19. QED
  BY <1>6, <1>7, <1>10, <1>11, <1>12, <1>16, <1>17, <1>18

-----------------------------------------------------------------------------
(* Buyer::factorise.                                                       *)

\* GCD(a, n) is the greatest of the common divisors, unless a is a negative divisor.
LEMMA GCDInt ==
  ASSUME NEW a \in Int, ~(a < 0 /\ n % (-a) = 0)
  PROVE  /\ GCD[a] \in 1..n /\ a % GCD[a] = 0 /\ n % GCD[a] = 0
         /\ \A t \in 1..n : a % t = 0 /\ n % t = 0 => t <= GCD[a]
<1> DEFINE D == {t \in 1..n : a % t = 0 /\ n % t = 0}
           S == {n - t : t \in D}
<1>1. n \in Nat /\ n > 0 /\ a \in Int
  BY nFacts
<1>2. 1 \in D
  <2>1. a = 1 * a /\ n = 1 * n /\ 1 > 0 /\ 1 \in Nat
    BY <1>1
  <2>2. a % 1 = 0 /\ n % 1 = 0
    BY <1>1, <2>1, Multiple
  <2>3. QED
    BY <1>1, <2>2
<1>3. GCD[a] = Max(D)
  BY <1>1 DEF GCD
<1>4. D \subseteq 1..n
  OBVIOUS
<1> HIDE DEF D, n
<1>5. S \subseteq Nat /\ S # {}
  BY <1>1, <1>2, <1>4
<1>6. PICK s \in S : \A e \in S : s <= e
  <2> HIDE DEF S
  <2>1. QED
    BY <1>5, LeastElement
<1>7. PICK g \in D : s = n - g
  BY <1>6
<1>8. \A t \in D : g >= t
  <2> TAKE t \in D
  <2>1. n - g <= n - t
    BY <1>6, <1>7
  <2>2. t \in Int /\ g \in Int
    BY <1>1, <1>4
  <2>3. QED
    BY <1>1, <2>1, <2>2
<1>9. Max(D) \in D /\ \A t \in D : Max(D) >= t
  BY <1>7, <1>8 DEF Max
<1>10. QED
  BY <1>1, <1>3, <1>9 DEF D

LEMMA GCDFacts ==
  ASSUME NEW a \in 0..(2 * n)
  PROVE  /\ GCD[a] \in 1..n /\ a % GCD[a] = 0 /\ n % GCD[a] = 0
         /\ \A t \in 1..n : a % t = 0 /\ n % t = 0 => t <= GCD[a]
<1>1. a \in Int /\ ~(a < 0)
  BY nFacts
<1>2. QED
  BY <1>1, GCDInt

\* The loops of factorise have a first index at which they stop, if they stop.
LEMMA FirstWinner ==
  ASSUME NEW W, W \subseteq Rounds \X Indices, W # {}
  PROVE  (CHOOSE p \in W : \A o \in W : p[1] * L + p[2] <= o[1] * L + o[2]) \in W
<1> DEFINE place(p) == p[1] * L + p[2]
           S == {place(p) : p \in W}
<1>1. \A p \in W : p[1] \in Nat /\ p[2] \in Nat
  BY LFacts, RFacts DEF Rounds, Indices
<1>2. \A p \in W : place(p) \in Nat
  BY <1>1, LFacts
<1> HIDE DEF place
<1>3. PICK s \in S : \A e \in S : s <= e
  <2>1. S \subseteq Nat /\ S # {}
    BY <1>2
  <2> HIDE DEF S
  <2>2. QED
    BY <2>1, LeastElement
<1>4. PICK p \in W : \A o \in W : place(p) <= place(o)
  BY <1>3
<1>5. QED
  BY <1>4 DEF place

\* An index that factorise does not skip was not checked, and holds what was
\* committed to.
LEMMA ClosedPlace ==
  ASSUME IInv, pc \in {"exchanged", "finished"}, NEW p \in Closed
  PROVE  /\ p[1] \in Rounds /\ p[2] \in Indices /\ HasRoots(p[1])
         /\ keys[p[1]][p[2]].m = {}
         /\ \A side \in Sides : d[side][p[1]][p[2]].m = Content(side, p[1], p[2])
<1> USE DEF IInv
<1> DEFINE round == p[1]
           i == p[2]
<1>1. /\ round \in Rounds /\ i \in Indices
      /\ \A side \in Sides : d[side][round][i].m # {}
  BY DEF Closed
<1> HIDE DEF round, i
<1>2. j = R - 1 /\ Done(round) /\ HasRoots(round) /\ HasCommitted(round)
  <2>1. j = R - 1 /\ Done(j)
    BY DEF Progress
  <2>2. round < j \/ round = j
    BY <1>1, <2>1, RoundsAssumption DEF Rounds
  <2>3. Done(round)
    BY <1>1, <2>1, <2>2 DEF Progress
  <2>4. QED
    BY <2>1, <2>2, <2>3 DEF HasRoots, HasCommitted, BeforeCommit
<1>3. i \notin Checked(round)
  <2> SUFFICES ASSUME i \in Checked(round) PROVE FALSE
    OBVIOUS
  <2>1. PICK side \in Sides : d[3 - side][round][i].m = {}
    BY <1>2 DEF Done, CheckedOne
  <2>2. 3 - side \in Sides
    BY DEF Sides
  <2>3. QED
    BY <1>1, <2>1, <2>2
<1>4. keys[round][i].m = {}
  BY <1>1, <1>3 DEF Checked
<1>5. \A side \in Sides : d[side][round][i].m = Content(side, round, i)
  BY <1>1, <1>2, <1>3 DEF RootsForm, Done, RestOne
<1>6. QED
  BY <1>1, <1>2, <1>4, <1>5 DEF round, i

\* The roots that an honest seller encrypts.
LEMMA RootType ==
  ASSUME IInv, NEW round \in Rounds, NEW i \in Indices, HasRoots(round), NEW side \in Sides
  PROVE  /\ r[side][round][i] \in 0..n /\ r[side][round][i] \in Nat
         /\ r[side][round][i] \in 0..(n \div 2)
         /\ (r[side][round][i] * r[side][round][i]) % n = y[round][i]
<1> USE DEF IInv
<1>1. {r[1][round][i], r[2][round][i]} = {s \in 0..(n \div 2) : (s * s) % n = y[round][i]}
  BY DEF Roots
<1>2. r[side][round][i] \in {r[1][round][i], r[2][round][i]}
  BY DEF Sides
<1>3. n \in Nat /\ n \div 2 < n /\ n \div 2 \in Nat
  BY nFacts
<1>4. /\ r[side][round][i] \in 0..(n \div 2)
      /\ (r[side][round][i] * r[side][round][i]) % n = y[round][i]
  BY <1>1, <1>2
<1>5. QED
  BY <1>3, <1>4

\* What was committed to decrypts to one number, or not at all if the seller lied.
LEMMA ContentPlain ==
  ASSUME IInv, NEW round \in Rounds, NEW i \in Indices, HasRoots(round), NEW side \in Sides
  PROVE  /\ \/ dec({Key(round, i)}, Content(side, round, i)) = {}
            \/ \E v \in Nat : dec({Key(round, i)}, Content(side, round, i)) = {v}
         /\ ~DeviatesOn("root", side, round, i) =>
              dec({Key(round, i)}, Content(side, round, i)) = {r[side][round][i]}
<1> DEFINE c == Content(side, round, i)
           key == Key(round, i)
<1>1. TypeOK
  BY DEF IInv
<1>2. CASE ~DeviatesOn("root", side, round, i)
  <2>1. dec({Key(round, i)}, c) = {r[side][round][i]}
    BY <1>1, <1>2, ContentFacts
  <2>2. r[side][round][i] \in Nat
    BY RootType
  <2>3. QED
    BY <2>1, <2>2
<1>3. CASE DeviatesOn("root", side, round, i)
  <2>1. c \in Forged(round, i)
    BY <1>1, <1>3, ContentFacts
  <2>2. c = {} \/ c = enc({OtherKey}, 0) \/ \E v \in Plaintexts : c = enc({key}, v)
    BY <2>1 DEF Forged
  <2> HIDE DEF c, key
  <2>3. CASE c = {}
    BY <1>3, <2>3, EncFacts DEF c, key
  <2>4. CASE c = enc({OtherKey}, 0)
    <3>1. c = {[key |-> OtherKey, msg |-> 0]}
      BY <2>4 DEF enc
    <3>2. key # OtherKey
      BY OtherKeyFacts DEF key
    <3> DEFINE c1 == [key |-> OtherKey, msg |-> 0]
    <3>3. c1.key = OtherKey
      OBVIOUS
    <3> HIDE DEF c1
    <3>4. \A c0 \in c : c0.key # key
      BY <3>1, <3>2, <3>3 DEF c1
    <3>5. dec({key}, c) = {}
      BY <3>4 DEF dec
    <3>6. QED
      BY <1>3, <3>5 DEF c, key
  <2>5. ASSUME NEW v \in Plaintexts, c = enc({key}, v)
        PROVE  v \in Nat /\ dec({key}, c) = {v}
    BY <2>5, EncFacts, PlaintextsAssumption
  <2>6. QED
    BY <1>3, <2>2, <2>3, <2>4, <2>5 DEF c, key
<1>4. QED
  BY <1>2, <1>3

\* What factorise computes at an index that is not skipped and decrypts.
LEMMA ClosedRoots ==
  ASSUME IInv, pc \in {"exchanged", "finished"}, NEW p \in Closed, p \notin Undecryptable
  PROVE  \E a, b \in Nat :
           /\ Factors(p[1], p[2]) = <<GCD[n + a - b], GCD[a + b]>>
           /\ ~Deviates("root", p[1], p[2]) => a = r[1][p[1]][p[2]] /\ b = r[2][p[1]][p[2]]
<1> DEFINE round == p[1]
           i == p[2]
<1>1. /\ round \in Rounds /\ i \in Indices /\ HasRoots(round)
      /\ \A side \in Sides : d[side][round][i].m = Content(side, round, i)
  BY ClosedPlace
<1>2. \A side \in Sides : dec({Key(round, i)}, d[side][round][i].m) # {}
  BY DEF Undecryptable
<1> HIDE DEF round, i
<1>3. ASSUME NEW side \in Sides
      PROVE  \E v \in Nat :
               /\ (CHOOSE s \in dec({Key(round, i)}, d[side][round][i].m) : TRUE) = v
               /\ ~Deviates("root", round, i) => v = r[side][round][i]
  <2> DEFINE D == dec({Key(round, i)}, Content(side, round, i))
  <2>1. D = {} \/ \E v \in Nat : D = {v}
    BY <1>1, ContentPlain
  <2>2. ~DeviatesOn("root", side, round, i) => D = {r[side][round][i]}
    BY <1>1, ContentPlain
  <2>3. dec({Key(round, i)}, d[side][round][i].m) = D /\ D # {}
    BY <1>1, <1>2
  <2> HIDE DEF D
  <2>4. PICK v \in Nat : D = {v}
    BY <2>1, <2>3
  <2>5. ~Deviates("root", round, i) => v = r[side][round][i]
    BY <2>2, <2>4 DEF DeviatesOn
  <2>6. (CHOOSE s \in D : TRUE) = v
    BY <2>4
  <2>7. QED
    BY <2>3, <2>5, <2>6
<1>4. PICK a \in Nat :
        /\ (CHOOSE s \in dec({Key(round, i)}, d[1][round][i].m) : TRUE) = a
        /\ ~Deviates("root", round, i) => a = r[1][round][i]
  BY <1>3 DEF Sides
<1>5. PICK b \in Nat :
        /\ (CHOOSE s \in dec({Key(round, i)}, d[2][round][i].m) : TRUE) = b
        /\ ~Deviates("root", round, i) => b = r[2][round][i]
  BY <1>3 DEF Sides
<1>6. Factors(round, i) = <<GCD[n + a - b], GCD[a + b]>>
  BY <1>4, <1>5 DEF Factors
<1>7. QED
  BY <1>4, <1>5, <1>6 DEF round, i

\* An index without a lie decrypts.
LEMMA HonestDecrypts ==
  ASSUME IInv, pc \in {"exchanged", "finished"}, NEW p \in Closed, ~Deviates("root", p[1], p[2])
  PROVE  p \notin Undecryptable
<1>1. /\ p[1] \in Rounds /\ p[2] \in Indices /\ HasRoots(p[1])
      /\ \A side \in Sides : d[side][p[1]][p[2]].m = Content(side, p[1], p[2])
  BY ClosedPlace
<1>2. \A side \in Sides :
        dec({Key(p[1], p[2])}, Content(side, p[1], p[2])) = {r[side][p[1]][p[2]]}
  BY <1>1, ContentPlain DEF DeviatesOn
<1>3. QED
  BY <1>1, <1>2 DEF Undecryptable

\* A negative divisor of n does not win, so the winner's numbers are factors of n.
LEMMA FactorsType ==
  ASSUME IInv, pc \in {"exchanged", "finished"}, NEW p \in Closed, p \notin Undecryptable,
         IsFactorisation(Factors(p[1], p[2]))
  PROVE  Factors(p[1], p[2]) \in (1..n) \X (1..n)
<1>1. PICK a, b \in Nat : Factors(p[1], p[2]) = <<GCD[n + a - b], GCD[a + b]>>
  BY ClosedRoots
<1> DEFINE e == n + a - b
           f == GCD[e]
           g == GCD[a + b]
<1>2. n \in Nat /\ n > 0
  BY nFacts
<1>3. e \in Int /\ a + b \in Int /\ ~(a + b < 0)
  BY <1>2
<1>4. g \in 1..n
  BY <1>3, GCDInt
<1>5. f \in 1..n \/ (f \in Int /\ f < 0)
  <2> HIDE DEF e
  <2>1. CASE e < 0 /\ n % (-e) = 0
    BY <1>3, <2>1 DEF GCD
  <2>2. CASE ~(e < 0 /\ n % (-e) = 0)
    BY <1>3, <2>2, GCDInt
  <2>3. QED
    BY <2>1, <2>2
<1>6. Factors(p[1], p[2]) = <<f, g>>
  BY <1>1
<1> HIDE DEF e, f, g
<1>7. f * g = n
  BY <1>6 DEF IsFactorisation
<1> HIDE DEF n
<1>8. ~(f \in Int /\ f < 0)
  <2> SUFFICES ASSUME f \in Int, f < 0 PROVE FALSE
    OBVIOUS
  <2>1. f * g < 0
    BY <1>2, <1>4
  <2>2. QED
    BY <1>2, <1>7, <2>1
<1>9. QED
  BY <1>4, <1>5, <1>6, <1>8

\* What factorise returns, or why it throws.
LEMMA factoriseResult ==
  ASSUME IInv, factorise
  PROVE  \/ /\ pc' = "thrown" /\ result' = result /\ error' = "Factorization failed!"
            /\ \A p \in Closed : ~Deviates("root", p[1], p[2]) =>
                 ~IsFactorisation(Factors(p[1], p[2]))
         \/ pc' = "thrown" /\ result' = result /\ error' = "InvalidCiphertext"
         \/ /\ pc' = "finished" /\ error' = error
            /\ \E p \in Closed : /\ p \notin Undecryptable
                                 /\ IsFactorisation(Factors(p[1], p[2]))
                                 /\ result' = Factors(p[1], p[2])
<1> DEFINE winners == {p \in Closed \ Undecryptable : IsFactorisation(Factors(p[1], p[2]))}
           stops == winners \cup Undecryptable
           first == CHOOSE p \in stops :
                      \A o \in stops : p[1] * L + p[2] <= o[1] * L + o[2]
<1>1. /\ pc = "exchanged"
      /\ IF stops = {}
         THEN Throw("Factorization failed!") /\ UNCHANGED result
         ELSE IF first \in Undecryptable
         THEN Throw("InvalidCiphertext") /\ UNCHANGED result
         ELSE result' = Factors(first[1], first[2]) /\ Proceed("finished")
  BY DEF factorise
<1>2. stops \subseteq Rounds \X Indices
  BY DEF Closed, Undecryptable
<1> HIDE DEF first
<1>3. CASE stops = {}
  <2>1. ASSUME NEW p \in Closed, ~Deviates("root", p[1], p[2])
        PROVE  ~IsFactorisation(Factors(p[1], p[2]))
    <3>1. p \notin Undecryptable
      BY <1>1, <2>1, HonestDecrypts
    <3>2. QED
      BY <1>3, <3>1
  <2>2. pc' = "thrown" /\ result' = result /\ error' = "Factorization failed!"
    BY <1>1, <1>3 DEF Throw
  <2>3. QED
    BY <2>1, <2>2
<1>4. CASE stops # {} /\ first \in Undecryptable
  BY <1>1, <1>4 DEF Throw
<1>5. CASE stops # {} /\ first \notin Undecryptable
  <2>1. first \in stops
    <3> HIDE DEF stops
    <3>1. QED
      BY <1>2, <1>5, FirstWinner DEF first
  <2>2. result' = Factors(first[1], first[2]) /\ pc' = "finished" /\ error' = error
    BY <1>1, <1>5 DEF Proceed
  <2>3. /\ first \in Closed /\ first \notin Undecryptable
        /\ IsFactorisation(Factors(first[1], first[2]))
    BY <1>5, <2>1
  <2>4. QED
    BY <2>2, <2>3
<1>6. QED
  BY <1>3, <1>4, <1>5

LEMMA factoriseStep == IInv /\ factorise => IInv'
<1> SUFFICES ASSUME IInv, factorise PROVE IInv'
  OBVIOUS
<1> USE DEF IInv
<1>1. /\ pc = "exchanged"
      /\ UNCHANGED <<lie, j, k, x, y, r, d, keys, indices, values, commitment_indices>>
  BY DEF factorise
<1>2. pc' \in {"thrown", "finished"}
  BY factoriseResult
<1>3. result' \in {<<0, 0>>} \cup ((1..n) \X (1..n))
  <2>1. CASE result' = result
    BY <2>1 DEF TypeOK
  <2>2. CASE \E p \in Closed : /\ p \notin Undecryptable
                                /\ IsFactorisation(Factors(p[1], p[2]))
                                /\ result' = Factors(p[1], p[2])
    BY <1>1, <2>2, FactorsType
  <2>3. QED
    BY <2>1, <2>2, factoriseResult
<1>4. TypeOK'
  BY <1>1, <1>2, <1>3 DEF TypeOK
<1>5. Squares' /\ KeysForm' /\ LiesClosed' /\ OneSideOpen' /\ SubsetChecked'
  <2>1. Squares' /\ KeysForm'
    BY <1>1 DEF Squares, KeysForm
  <2>2. LiesClosed'
    BY <1>1 DEF LiesClosed, DeviatesOn, Deviates
  <2>3. OneSideOpen'
    BY <1>1 DEF OneSideOpen
  <2>4. SubsetChecked'
    BY <1>2 DEF SubsetChecked
  <2>5. QED
    BY <2>1, <2>2, <2>3, <2>4
<1>6. /\ \A round \in Rounds : HasRoots(round)' <=> HasRoots(round)
      /\ \A round \in Rounds : HasCommitted(round)' <=> HasCommitted(round)
  BY <1>1, <1>2 DEF HasRoots, HasCommitted, BeforeCommit
<1>7. Roots'
  BY <1>1, <1>6 DEF Roots
<1>8. RootsForm'
  <2>1. \A s \in Sides, round \in Rounds, i \in Indices :
          Content(s, round, i)' = Content(s, round, i)
    BY <1>1 DEF Content, DeviatesOn, Deviates
  <2>2. \A s \in Sides, round \in Rounds, i \in Indices :
           /\ d'[s][round][i].com = d[s][round][i].com
           /\ d'[s][round][i].m \in {{}, d[s][round][i].com}
    BY <1>1 DEF RootsForm
  <2>3. QED
    BY <1>6, <2>1, <2>2, RootsFormStable
<1>9. \A round \in Rounds : Done(round)' <=> Done(round)
  BY <1>1 DEF Done, Checked, CheckedOne, RestOne
<1>10. \A round \in Rounds, i \in Indices : Untouched(round, i)' <=> Untouched(round, i)
  BY <1>1 DEF Untouched
<1>11. Progress'
  <2>1. j \in Rounds /\ Done(j) /\ j = R - 1
    BY <1>1 DEF Progress, TypeOK
  <2>2. PICK round \in Rounds : round = j
    BY <2>1
  <2>3. Done(j)'
    BY <1>1, <1>9, <2>1, <2>2
  <2>4. QED
    BY <1>1, <1>2, <1>9, <1>10, <2>1, <2>3 DEF Progress, BeforeOpen, BeforeCommit
<1>12. QED
  BY <1>4, <1>5, <1>7, <1>8, <1>11

LEMMA StutterStep == IInv /\ UNCHANGED vars => IInv'
<1> SUFFICES ASSUME IInv, UNCHANGED vars PROVE IInv'
  OBVIOUS
<1> USE DEF vars, IInv
<1>1. TypeOK'
  BY DEF TypeOK
<1>2. Squares' /\ KeysForm' /\ OneSideOpen'
  BY DEF Squares, KeysForm, OneSideOpen
<1>3. Roots'
  BY DEF Roots, HasRoots
<1>4. RootsForm'
  <2>1. \A s \in Sides, round \in Rounds, i \in Indices :
          Content(s, round, i)' = Content(s, round, i)
    BY DEF Content, DeviatesOn, Deviates
  <2>2. QED
    BY <2>1 DEF RootsForm, HasCommitted
<1>5. LiesClosed'
  BY DEF LiesClosed, DeviatesOn, Deviates
<1>6. Progress'
  <2>1. \A round \in Rounds : Done(round)' <=> Done(round)
    BY DEF Done, Checked, CheckedOne, RestOne
  <2>2. \A round \in Rounds, i \in Indices : Untouched(round, i)' <=> Untouched(round, i)
    BY DEF Untouched
  <2>3. Passed' = Passed
    BY DEF Passed
  <2>4. j \in Rounds /\ j' = j /\ pc' = pc
    BY DEF TypeOK
  <2>5. PICK round \in Rounds : round = j
    BY <2>4
  <2>6. \A i \in Passed : CheckedOne(j, i)' <=> CheckedOne(j, i)
    BY DEF CheckedOne
  <2>7. \A i \in Indices : Untouched(j, i)' <=> Untouched(j, i)
    BY <2>2, <2>4, <2>5
  <2>8. Done(j)' <=> Done(j)
    BY <2>1, <2>4, <2>5
  <2>9. QED
    BY <2>1, <2>2, <2>3, <2>4, <2>6, <2>7, <2>8 DEF Progress
<1>7. SubsetChecked'
  BY DEF SubsetChecked, MatchingSide
<1>8. QED
  BY <1>1, <1>2, <1>3, <1>4, <1>5, <1>6, <1>7

\* The invariant holds in every state of every behaviour.
THEOREM Invariance == Spec => []IInv
<1>1. IInv /\ [Next]_vars => IInv'
  BY genSquaresStep, findRootsStep, commitStep, pickSubsetStep, acceptSubsetStep,
     openChosenStep, openRestStep, factoriseStep, StutterStep DEF Next
<1>2. QED
  BY IInvInit, <1>1, PTL DEF Spec

-----------------------------------------------------------------------------
(* The properties of the exchange.                                         *)

\* The variables of exec have their types.
THEOREM TypeCorrect == Spec => []TypeOK
<1>1. IInv => TypeOK
  BY DEF IInv
<1>2. QED
  BY <1>1, Invariance, PTL

\* What findRoots keeps are all the roots up to n/2 of the buyer's squares.
THEOREM RootsAreComplete == Spec => []RootsComplete
<1>1. IInv => RootsComplete
  BY DEF IInv, TypeOK, Roots, HasRoots, RootsComplete
<1>2. QED
  BY <1>1, Invariance, PTL

\* What can be decrypted at an index.
LEMMA DecryptableFacts ==
  ASSUME IInv, NEW round \in Rounds, NEW i \in Indices
  PROVE  /\ keys[round][i].m = {} => Decryptable(round, i) = {}
         /\ keys[round][i].m # {} =>
              \E side \in Sides :
                /\ Decryptable(round, i) = dec({Key(round, i)}, d[side][round][i].m)
                /\ d[3 - side][round][i].m = {}
                /\ \/ Decryptable(round, i) = {}
                   \/ /\ \E v : /\ Decryptable(round, i) = {v}
                                /\ lie.kind # "root" => v = r[side][round][i]
                      /\ r[side][round][i] \in OtherValues \cup {x[round][i]}
<1> USE DEF IInv
<1>1. Decryptable(round, i) =
        dec(keys[round][i].m, d[1][round][i].m) \cup dec(keys[round][i].m, d[2][round][i].m)
  BY DEF Decryptable, Sides
<1>2. CASE keys[round][i].m = {}
  <2>1. \A c : dec({}, c) = {}
    BY EncFacts
  <2>2. QED
    BY <1>1, <1>2, <2>1
<1>3. CASE keys[round][i].m # {}
  <2>1. keys[round][i].m = {Key(round, i)}
    BY <1>3 DEF KeysForm
  <2>2. PICK side \in Sides :
          /\ d[3 - side][round][i].m = {}
          /\ d[side][round][i].m # {} => r[side][round][i] \in OtherValues \cup {x[round][i]}
    BY <1>3 DEF OneSideOpen
  <2>3. dec({Key(round, i)}, {}) = {}
    BY EncFacts
  <2>4. (side = 1 /\ 3 - side = 2) \/ (side = 2 /\ 3 - side = 1)
    BY DEF Sides
  <2>5. Decryptable(round, i) = dec({Key(round, i)}, d[side][round][i].m)
    BY <1>1, <2>1, <2>2, <2>3, <2>4
  <2>6. \/ d[side][round][i].m = {}
        \/ d[side][round][i].m = Content(side, round, i)
    BY DEF RootsForm
  <2>7. \/ dec({Key(round, i)}, Content(side, round, i)) = {}
        \/ \E v : /\ dec({Key(round, i)}, Content(side, round, i)) = {v}
                  /\ lie.kind # "root" => v = r[side][round][i]
    <3>1. TypeOK
      OBVIOUS
    <3>2. Content(side, round, i) \in Ciphertext
      BY <3>1, ContentFacts
    <3>3. lie.kind # "root" =>
            dec({Key(round, i)}, Content(side, round, i)) = {r[side][round][i]}
      BY <3>1, ContentFacts DEF DeviatesOn, Deviates
    <3> DEFINE c == Content(side, round, i)
               key == Key(round, i)
    <3> HIDE DEF c, key
    <3>4. dec({key}, c) = {} \/ \E v : dec({key}, c) = {v}
      BY <3>2, DecFacts DEF c
    <3>5. QED
      BY <3>3, <3>4 DEF c, key
  <2>8. CASE d[side][round][i].m = {}
    BY <1>3, <2>2, <2>3, <2>5, <2>8
  <2>9. CASE d[side][round][i].m # {}
    BY <1>3, <2>2, <2>5, <2>6, <2>7, <2>9
  <2>10. QED
    BY <2>8, <2>9
<1>4. QED
  BY <1>2, <1>3

\* Whatever the buyer sends and whatever the seller encrypts or opens, no index
\* gives the buyer two roots before she has paid, nor one she did not hold.
THEOREM OneRootOnly == Spec => []OneRootPerIndex
<1>1. IInv => OneRootPerIndex
  <2> SUFFICES ASSUME IInv, NEW round \in Rounds, NEW i \in Indices
               PROVE  /\ Cardinality(Decryptable(round, i)) <= 1
                      /\ lie.kind # "root" =>
                           Decryptable(round, i) \subseteq {x[round][i]} \cup OtherValues
    BY DEF OneRootPerIndex
  <2>1. CASE Decryptable(round, i) = {}
    BY <2>1, FS_EmptySet
  <2>2. CASE \E side \in Sides :
               /\ \E v : /\ Decryptable(round, i) = {v}
                         /\ lie.kind # "root" => v = r[side][round][i]
               /\ r[side][round][i] \in OtherValues \cup {x[round][i]}
    <3>a. PICK side \in Sides :
               /\ \E v : /\ Decryptable(round, i) = {v}
                         /\ lie.kind # "root" => v = r[side][round][i]
               /\ r[side][round][i] \in OtherValues \cup {x[round][i]}
      BY <2>2
    <3>1. PICK v : /\ Decryptable(round, i) = {v}
                   /\ lie.kind # "root" => v = r[side][round][i]
      BY <3>a
    <3>2. Cardinality({v}) = 1
      BY FS_Singleton
    <3>3. QED
      BY <3>a, <3>1, <3>2
  <2>3. QED
    BY <2>1, <2>2, DecryptableFacts
<1>2. QED
  BY <1>1, Invariance, PTL

\* After the exchange every round is over.
LEMMA AllDone ==
  ASSUME IInv, pc \in {"exchanged", "finished"}, NEW round \in Rounds
  PROVE  Done(round) /\ HasCommitted(round)
<1>1. j = R - 1 /\ Done(j) /\ \A o \in Rounds : o < j => Done(o)
  BY DEF IInv, Progress
<1>2. round < j \/ round = j
  BY <1>1, RoundsAssumption DEF Rounds
<1>3. QED
  BY <1>1, <1>2 DEF HasCommitted, BeforeCommit

\* When exec goes on to the payment, half of the indices of every round have
\* been checked and the other half is open for factorise.
THEOREM HalfOpen == Spec => []ExchangeIsHalfOpen
<1>1. IInv => ExchangeIsHalfOpen
  <2> SUFFICES ASSUME IInv, pc = "exchanged", NEW round \in Rounds
               PROVE  /\ Cardinality(Checked(round)) = L \div 2
                      /\ \A i \in Checked(round) :
                           /\ <<round, i>> \notin Closed
                           /\ Decryptable(round, i) = {x[round][i]}
                      /\ \A i \in Indices \ Checked(round), side \in Sides :
                           d[side][round][i].m = d[side][round][i].com
    BY DEF ExchangeIsHalfOpen
  <2>1. Done(round)
    BY AllDone
  <2>2. ASSUME NEW i \in Checked(round)
        PROVE  <<round, i>> \notin Closed /\ Decryptable(round, i) = {x[round][i]}
    <3>1. i \in Indices /\ keys[round][i].m # {} /\ CheckedOne(round, i)
      BY <2>1 DEF Checked, Done
    <3>2. PICK side \in Sides : /\ d[side][round][i].m = enc({Key(round, i)}, x[round][i])
                                /\ d[3 - side][round][i].m = {}
      BY <3>1 DEF CheckedOne
    <3>3. /\ (side = 1 /\ 3 - side = 2) \/ (side = 2 /\ 3 - side = 1)
          /\ 3 - side \in Sides
      BY DEF Sides
    <3>4. <<round, i>> \notin Closed
      BY <3>2, <3>3 DEF Closed
    <3>5. PICK s \in Sides : /\ Decryptable(round, i) = dec({Key(round, i)}, d[s][round][i].m)
                             /\ d[3 - s][round][i].m = {}
      BY <3>1, DecryptableFacts
    <3>6. /\ enc({Key(round, i)}, x[round][i]) # {}
          /\ dec({Key(round, i)}, enc({Key(round, i)}, x[round][i])) = {x[round][i]}
      BY ONLY EncFacts
    <3>7. s = side
      <4>1. s # side => 3 - s = side
        BY <3>3 DEF Sides
      <4>2. d[3 - s][round][i].m # d[side][round][i].m
        BY <3>2, <3>5, <3>6
      <4>3. QED
        BY <4>1, <4>2
    <3>8. QED
      BY <3>2, <3>4, <3>5, <3>6, <3>7
  <2>3. QED
    BY <2>1, <2>2 DEF Done, RestOne
<1>2. QED
  BY <1>1, Invariance, PTL

\* What the seller can have done wrong when exec goes on to the payment.
LEMMA LieAtExchange ==
  ASSUME IInv, pc \in {"exchanged", "finished"}
  PROVE  LET checked == lie.index \in Checked(lie.round)
             opened(side) == d[side][lie.round][lie.index].m
         IN  CASE lie.kind = "none" -> TRUE
               [] lie.kind = "key" -> ~checked
               [] lie.kind = "message" -> checked /\ \A side \in DOMAIN lie.c : opened(side) = {}
               [] lie.kind = "root" -> checked =>
                    \A side \in DOMAIN lie.c : opened(side) # {} =>
                      opened(side) = enc({Key(lie.round, lie.index)}, x[lie.round][lie.index])
<1> DEFINE round == lie.round
           i == lie.index
           lied == DOMAIN lie.c
<1>1. /\ lie.kind \in {"none", "root", "message", "key"} /\ round \in Rounds /\ i \in Indices
      /\ lied \in (SUBSET Sides) \ {{}} /\ TypeOK
  BY LieKindsAssumption DEF IInv, TypeOK
<1>2. Done(round) /\ HasCommitted(round)
  BY <1>1, AllDone
<1>3. \A side \in lied : DeviatesOn(lie.kind, side, round, i)
  BY DEF DeviatesOn, Deviates
<1>a. Deviates(lie.kind, round, i)
  BY DEF Deviates
<1> HIDE DEF round, i, lied
<1>4. /\ Deviates("key", round, i) => keys[round][i].m = {}
      /\ \A side \in Sides : DeviatesOn("message", side, round, i) => d[side][round][i].m = {}
  BY <1>1 DEF IInv, LiesClosed
<1>5. i \in Checked(round) =>
        \E side \in Sides : /\ d[side][round][i].m = enc({Key(round, i)}, x[round][i])
                            /\ d[3 - side][round][i].m = {}
  BY <1>2 DEF Done, CheckedOne
<1>6. CASE lie.kind = "message"
  <2>1. \A side \in lied : side \in Sides /\ d[side][round][i].m = {}
    BY <1>1, <1>3, <1>4, <1>6
  <2>2. i \in Checked(round)
    <3> SUFFICES ASSUME i \notin Checked(round) PROVE FALSE
      OBVIOUS
    <3>a. lied # {} /\ lied \subseteq Sides
      <4>1. lied \in (SUBSET Sides) \ {{}}
        BY <1>1
      <4>2. QED
        BY ONLY <4>1, Zenon
    <3>1. PICK side \in lied : side \in Sides
      BY <3>a
    <3>2. d[side][round][i].m = d[side][round][i].com
      BY <1>1, <1>2, <3>1 DEF Done, RestOne
    <3>3. d[side][round][i].com = Content(side, round, i)
      BY <1>1, <1>2, <3>1 DEF IInv, RootsForm
    <3>4. DeviatesOn("message", side, round, i)
      BY <1>3, <1>6, <3>1
    <3>5. Content(side, round, i) # {}
      BY <1>1, <3>1, <3>4, ContentFacts
    <3>6. QED
      BY <2>1, <3>1, <3>2, <3>3, <3>5
  <2>3. QED
    BY <1>6, <2>1, <2>2 DEF round, i, lied
<1>7. CASE lie.kind = "key"
  <2>1. keys[round][i].m = {}
    BY <1>a, <1>4, <1>7
  <2>2. i \notin Checked(round)
    BY <2>1 DEF Checked
  <2>3. QED
    BY <1>7, <2>2 DEF round, i
<1>8. CASE lie.kind = "root"
  <2>1. ASSUME i \in Checked(round), NEW side \in lied, d[side][round][i].m # {}
        PROVE  d[side][round][i].m = enc({Key(round, i)}, x[round][i])
    <3>1. PICK s \in Sides : /\ d[s][round][i].m = enc({Key(round, i)}, x[round][i])
                             /\ d[3 - s][round][i].m = {}
      BY <1>5, <2>1
    <3>2. side \in Sides
      BY <1>1
    <3>3. side = s \/ side = 3 - s
      BY <3>1, <3>2 DEF Sides
    <3>4. QED
      BY <2>1, <3>1, <3>3
  <2>2. QED
    BY <1>8, <2>1 DEF round, i, lied
<1>9. CASE lie.kind = "none"
  BY <1>9
<1>10. QED
  BY <1>1, <1>6, <1>7, <1>8, <1>9

-----------------------------------------------------------------------------
(* What the roots of one index tell about the factors.                     *)

\* An odd prime that divides 2z divides z.
LEMMA HalfOfMultiple ==
  ASSUME NEW p, IsPrime(p), p > 2, NEW z \in Int, (z + z) % p = 0
  PROVE  z % p = 0
<1>1. p \in Nat /\ p > 0
  BY DEF IsPrime
<1>2. 2 % p = 2
  <2>1. 2 \in 0..(p - 1)
    BY <1>1
  <2>2. QED
    BY <1>1, <2>1, ModSmall
<1>3. z + z = 2 * z
  OBVIOUS
<1>4. 2 % p = 0 \/ z % p = 0
  BY <1>3, Euclid
<1>5. QED
  BY <1>2, <1>4

\* The sum and the difference of multiples of p are multiples of p.
LEMMA MultiplesAdd ==
  ASSUME NEW p \in Nat, p > 0, NEW a \in Int, NEW b \in Int, a % p = 0, b % p = 0
  PROVE  (a + b) % p = 0 /\ (a - b) % p = 0
<1>1. PICK e \in Int, f \in Int : a = p * e /\ b = p * f
  BY Multiple
<1>2. a + b = p * (e + f) /\ a - b = p * (e - f)
  BY <1>1
<1>3. e + f \in Int /\ e - f \in Int /\ a + b \in Int /\ a - b \in Int
  OBVIOUS
<1>4. QED
  BY <1>2, <1>3, Multiple

\* The residues of a number of 0..n and its two opposites modulo P and Q.
LEMMA MixedRoot ==
  ASSUME NEW z \in Int
  PROVE  \E w \in 0..(n - 1) : (w - z) % P = 0 /\ (w + z) % Q = 0
<1> DEFINE xp == z % P
           mq == z % Q
           xq == Q - mq
           w == CRT(xp, P, xq, Q, InverseMod(P, Q))
<1>1. P \in Nat /\ Q \in Nat /\ P > 0 /\ Q > 0 /\ n = P * Q
  BY Primes, nFacts
<1>2. xp \in 0..(P - 1) /\ mq \in 0..(Q - 1)
  BY <1>1, DivMod
<1>3. xp % P = z % P /\ mq % Q = z % Q
  <2>1. xp % P = xp
    BY <1>1, <1>2, ModSmall
  <2>2. mq % Q = mq
    BY <1>1, <1>2, ModSmall
  <2>3. QED
    BY <2>1, <2>2
<1> HIDE DEF xp, mq
<1>4. (xp - z) % P = 0 /\ (mq - z) % Q = 0
  <2>1. xp \in Int /\ mq \in Int
    BY <1>1, <1>2
  <2>2. (xp - z) % P = 0
    BY <1>1, <1>3, <2>1, EqualResidues
  <2>3. (mq - z) % Q = 0
    BY <1>1, <1>3, <2>1, EqualResidues
  <2>4. QED
    BY <2>2, <2>3
<1>5. xp \in 0..P /\ xq \in 0..Q
  BY <1>1, <1>2
<1>6. PICK t \in 0..(Q - 1) : w = P * t + xp
  BY <1>5, CRTValue
<1>7. (w - xp) % P = 0 /\ (w - xq) % Q = 0
  BY <1>5, CRTValue
<1> HIDE DEF w
<1>8. w \in 0..(n - 1)
  <2>1. P * t >= 0 /\ P * t <= P * (Q - 1)
    <3>1. P * t >= 0
      BY <1>1
    <3>2. P * (Q - 1 - t) >= 0
      BY <1>1
    <3>3. P * (Q - 1 - t) = P * (Q - 1) - P * t
      BY <1>1
    <3>4. QED
      BY <1>1, <3>1, <3>2, <3>3
  <2>2. P * (Q - 1) = P * Q - P
    BY <1>1
  <2> DEFINE e == P * t
             f == P * Q
  <2>3. e \in Int /\ f \in Int /\ e >= 0 /\ e <= f - P /\ w = e + xp /\ n = f
    BY <1>1, <1>6, <2>1, <2>2
  <2> HIDE DEF e, f, n
  <2>4. QED
    BY <1>1, <1>2, <2>3
<1>9. (w - z) % P = 0
  <2>1. w \in Int /\ xp \in Int
    BY <1>1, <1>2, <1>8
  <2>2. QED
    BY ONLY <1>1, <1>4, <1>7, <2>1, CongruentTransitive, z \in Int
<1>10. (w + z) % Q = 0
  <2> DEFINE e == w - xq
             f == mq - z
  <2>1. e \in Int /\ f \in Int /\ e % Q = 0 /\ f % Q = 0
    BY <1>1, <1>2, <1>4, <1>7, <1>8
  <2>2. w + z = (e - f) + Q * 1
    BY <1>1, <1>2, <1>8
  <2> HIDE DEF e, f
  <2>3. (e - f) % Q = 0 /\ e - f \in Int
    <3>1. (e - f) % Q = 0
      BY ONLY <1>1, <2>1, MultiplesAdd
    <3>2. QED
      BY <2>1, <3>1
  <2>4. ((e - f) + Q * 1) % Q = (e - f) % Q
    BY ONLY <1>1, <2>3, ModShift, 1 \in Int
  <2>5. QED
    BY <2>2, <2>3, <2>4
<1>11. QED
  BY <1>8, <1>9, <1>10

\* A number up to n/2 that no factor divides is not the only root of its square.
LEMMA OtherRoot ==
  ASSUME NEW z \in 0..(n \div 2), z % P # 0, z % Q # 0
  PROVE  \E s \in 0..(n \div 2) : s # z /\ (s * s) % n = (z * z) % n
<1>1. /\ P \in Nat /\ Q \in Nat /\ P > 2 /\ Q > 2 /\ P > 0 /\ Q > 0 /\ P # Q
      /\ IsPrime(P) /\ IsPrime(Q)
  BY Primes
<1>2. n = P * Q /\ n \in Nat /\ n > 0 /\ n \div 2 \in Nat /\ n = 2 * (n \div 2) + 1
  BY nFacts
<1>3. z \in Int
  BY <1>2
<1>4. PICK w \in 0..(n - 1) : (w - z) % P = 0 /\ (w + z) % Q = 0
  BY <1>3, MixedRoot
<1>5. w \in Int /\ w * w \in Int /\ z * z \in Int
  BY <1>2, <1>3
<1>6. (w * w) % n = (z * z) % n
  <2>1. w % P = z % P
    BY <1>1, <1>3, <1>4, <1>5, EqualResidues
  <2>2. (w * w) % P = (z * z) % P
    BY <1>1, <1>3, <1>5, <2>1, SquareOfSame
  <2>3. (w * w) % Q = (z * z) % Q
    BY <1>1, <1>3, <1>4, <1>5, SquareOfOpposite
  <2>4. (w * w - z * z) % P = 0 /\ (w * w - z * z) % Q = 0
    BY <1>1, <1>5, <2>2, <2>3, EqualResidues
  <2>5. (w * w - z * z) % (P * Q) = 0
    <3>1. w * w - z * z \in Int
      BY <1>5
    <3>2. QED
      BY <1>1, <2>4, <3>1, TwoPrimes
  <2>6. QED
    BY <1>2, <1>5, <2>5, EqualResidues
<1> HIDE DEF n
<1>7. w # z
  <2> SUFFICES ASSUME w = z PROVE FALSE
    OBVIOUS
  <2>1. z % Q = 0
    BY <1>1, <1>3, <1>4, HalfOfMultiple
  <2>2. QED
    BY <2>1
<1>8. n - w # z
  <2> SUFFICES ASSUME n - w = z PROVE FALSE
    OBVIOUS
  <2>1. n % P = 0
    <3>1. n \in Int /\ \E e \in Int : n = P * e
      BY <1>1, <1>2
    <3>2. QED
      BY ONLY <1>1, <3>1, Multiple
  <2> DEFINE e == w - z
  <2>2. e \in Int /\ e % P = 0 /\ n \in Int /\ n - e = z + z
    BY <1>2, <1>3, <1>4, <1>5
  <2> HIDE DEF e
  <2>3. (n - e) % P = 0
    BY <1>1, <2>1, <2>2, MultiplesAdd
  <2>4. z % P = 0
    BY <1>1, <1>3, <2>2, <2>3, HalfOfMultiple
  <2>5. QED
    BY <2>4
<1>9. ((n - w) * (n - w)) % n = (w * w) % n
  <2> DEFINE v == n - w
  <2>1. v \in Int /\ v + w = n * 1 /\ v + w \in Int
    BY <1>2, <1>5
  <2>2. (v + w) % n = 0
    BY <1>2, <2>1, Multiple
  <2> HIDE DEF v
  <2>3. (v * v) % n = (w * w) % n
    BY <1>2, <1>5, <2>1, <2>2, SquareOfOpposite
  <2>4. QED
    BY <2>3 DEF v
<1>10. CASE w <= n \div 2
  <2>1. w \in 0..(n \div 2)
    BY <1>2, <1>10
  <2>2. QED
    BY <1>6, <1>7, <2>1
<1>11. CASE w > n \div 2
  <2>1. n - w \in 0..(n \div 2)
    BY <1>2, <1>11
  <2>2. QED
    BY <1>6, <1>8, <1>9, <2>1
<1>12. QED
  BY <1>2, <1>5, <1>10, <1>11

\* Both primes divide n, and n is the only number they make.
LEMMA FactorsDivide ==
  /\ n % P = 0 /\ n % Q = 0 /\ n % n = 0 /\ P \in 1..n /\ Q \in 1..n
  /\ \A e \in Int : e % P = 0 /\ e % Q = 0 /\ -n < e /\ e < n => e = 0
<1>1. /\ P \in Nat /\ Q \in Nat /\ P > 2 /\ Q > 2 /\ P > 0 /\ Q > 0 /\ P # Q
      /\ IsPrime(P) /\ IsPrime(Q)
  BY Primes
<1>2. n = P * Q /\ n \in Nat /\ n > 0
  BY nFacts
<1> HIDE DEF n
<1>3. /\ n \in Int /\ \E e \in Int : n = P * e
      /\ \E e \in Int : n = Q * e /\ \E f \in Int : n = n * f
  <2>1. n = n * 1 /\ n = Q * P
    BY <1>1, <1>2
  <2>2. QED
    BY <1>1, <1>2, <2>1
<1>4. n % P = 0 /\ n % Q = 0 /\ n % n = 0
  <2>1. n % P = 0
    BY ONLY <1>1, <1>3, Multiple
  <2>2. n % Q = 0
    BY ONLY <1>1, <1>3, Multiple
  <2>3. n % n = 0
    BY ONLY <1>2, <1>3, Multiple
  <2>4. QED
    BY <2>1, <2>2, <2>3
<1>5. P <= n /\ Q <= n
  <2>1. P * (Q - 1) >= 0 /\ Q * (P - 1) >= 0
    BY <1>1
  <2>2. P * (Q - 1) = P * Q - P /\ Q * (P - 1) = P * Q - Q
    BY <1>1
  <2>3. QED
    BY <1>1, <1>2, <2>1, <2>2
<1>6. ASSUME NEW e \in Int, e % P = 0, e % Q = 0, -n < e, e < n PROVE e = 0
  <2>1. e % n = 0
    BY <1>1, <1>2, <1>6, TwoPrimes
  <2>2. PICK f \in Int : e = n * f
    BY <1>2, <2>1, Multiple
  <2>3. f = 0
    BY <1>2, <1>6, <2>2, NoSmallMultiple
  <2>4. QED
    BY <1>2, <2>2, <2>3
<1>7. QED
  BY <1>1, <1>2, <1>4, <1>5, <1>6

\* The greatest common divisor with n of a number only one factor divides.
LEMMA GCDOfOne ==
  ASSUME NEW p, NEW q, IsPrime(p), IsPrime(q), n = p * q, p \in 1..n, n % p = 0,
         NEW e \in 0..(2 * n), e % p = 0, e % q # 0
  PROVE  GCD[e] = p
<1> DEFINE g == GCD[e]
<1>1. /\ g \in 1..n /\ e % g = 0 /\ n % g = 0 /\ p <= g
  BY GCDFacts
<1> HIDE DEF g
<1>2. /\ n \in Nat /\ n > 0 /\ p \in Nat /\ q \in Nat /\ p > 1 /\ q > 0
      /\ e \in Int
  BY nFacts DEF IsPrime
<1>3. g \in {1, p, q, p * q}
  <2>1. g \in Nat /\ g > 0 /\ (p * q) % g = 0
    BY <1>1, <1>2
  <2>2. QED
    BY ONLY <2>1, IsPrime(p), IsPrime(q), DivisorsOfProduct
<1>4. g # 1 /\ g # q
  BY <1>1, <1>2
<1>5. g # p * q
  <2> SUFFICES ASSUME g = p * q PROVE FALSE
    OBVIOUS
  <2>1. e % n = 0
    BY <1>1
  <2>2. PICK f \in Int : e = n * f
    BY ONLY <1>2, <2>1, Multiple
  <2>3. e = q * (p * f) /\ p * f \in Int
    BY <1>2, <2>2
  <2>4. e % q = 0
    BY ONLY <1>2, <2>3, Multiple
  <2>5. QED
    BY <2>4
<1>6. QED
  BY <1>3, <1>4, <1>5 DEF g

\* Two different roots up to n/2 of one square give the two factors: one of
\* them divides the difference only, and the other one the sum only.
LEMMA RootsGiveFactors ==
  ASSUME NEW a \in 0..(n \div 2), NEW b \in 0..(n \div 2), a # b,
         (a * a) % n = (b * b) % n
  PROVE  \/ GCD[n + a - b] = P /\ GCD[a + b] = Q
         \/ GCD[n + a - b] = Q /\ GCD[a + b] = P
<1> DEFINE dif == a - b
           sum == a + b
<1>1. /\ P \in Nat /\ Q \in Nat /\ P > 0 /\ Q > 0 /\ P # Q
      /\ IsPrime(P) /\ IsPrime(Q)
  BY Primes
<1>2. n = P * Q /\ n = Q * P /\ n \in Nat /\ n > 0 /\ n \div 2 \in Nat /\ n = 2 * (n \div 2) + 1
  <2>1. P * Q = Q * P
    BY <1>1
  <2>2. QED
    BY <2>1, nFacts
<1>3. n % P = 0 /\ n % Q = 0 /\ P \in 1..n /\ Q \in 1..n
  BY FactorsDivide
<1>4. a \in Int /\ b \in Int /\ a * a \in Int /\ b * b \in Int
  BY <1>2
<1> HIDE DEF n
<1>5. /\ dif \in Int /\ sum \in Int /\ -n < dif /\ dif < n /\ -n < sum /\ sum < n
      /\ dif # 0 /\ sum # 0
  BY <1>2
<1>6. ASSUME NEW p, NEW q \in Int, IsPrime(p), n = p * q
      PROVE  dif % p = 0 \/ sum % p = 0
  <2>1. p \in Nat /\ p > 0
    BY <1>6 DEF IsPrime
  <2> DEFINE sa == a * a
             sb == b * b
             e == sa - sb
  <2>a. sa \in Int /\ sb \in Int /\ sa % n = sb % n
    BY <1>4
  <2> HIDE DEF sa, sb
  <2>2. e \in Int /\ e % n = 0
    <3>1. e % n = 0
      BY ONLY <1>2, <2>a, EqualResidues
    <3>2. QED
      BY <2>a, <3>1
  <2> HIDE DEF e
  <2>3. PICK f \in Int : e = n * f
    BY ONLY <1>2, <2>2, Multiple
  <2>4. e = p * (q * f) /\ q * f \in Int
    BY <1>6, <2>1, <2>3
  <2>5. e % p = 0
    BY ONLY <2>1, <2>2, <2>4, Multiple
  <2>6. (a * a) % p = (b * b) % p
    <3>1. sa % p = sb % p
      BY <2>a, <2>1, <2>5, EqualResidues DEF e
    <3>2. QED
      BY <3>1 DEF sa, sb
  <2>7. QED
    BY <1>4, <1>6, <2>6, RootsOfSquare
<1>7. /\ dif % P = 0 \/ sum % P = 0
      /\ dif % Q = 0 \/ sum % Q = 0
  <2>1. P \in Int /\ Q \in Int
    BY <1>1
  <2> HIDE DEF dif, sum
  <2>2. dif % P = 0 \/ sum % P = 0
    BY ONLY <1>1, <1>2, <2>1, <1>6
  <2>3. dif % Q = 0 \/ sum % Q = 0
    BY ONLY <1>1, <1>2, <2>1, <1>6
  <2>4. QED
    BY <2>2, <2>3
<1>8. ~(dif % P = 0 /\ dif % Q = 0) /\ ~(sum % P = 0 /\ sum % Q = 0)
  BY <1>5, FactorsDivide
<1> HIDE DEF dif, sum
<1>9. n + dif \in 0..(2 * n) /\ sum \in 0..(2 * n) /\ n + dif \in Int /\ n \in Int
  <2>1. sum >= 0
    BY <1>2 DEF sum
  <2>2. QED
    BY <1>2, <1>5, <2>1
<1>10. ASSUME NEW p \in Nat, p > 0, n % p = 0
       PROVE  (n + dif) % p = 0 <=> dif % p = 0
  <2>1. dif % p = 0 => (n + dif) % p = 0
    BY <1>5, <1>9, <1>10, MultiplesAdd
  <2> DEFINE e == n + dif
  <2>2. e \in Int /\ e - n = dif
    BY <1>5, <1>9
  <2> HIDE DEF e
  <2>3. e % p = 0 => (e - n) % p = 0
    BY <1>9, <1>10, <2>2, MultiplesAdd
  <2>4. QED
    BY <2>1, <2>2, <2>3 DEF e
<1>11. CASE dif % P = 0
  <2>1. dif % Q # 0 /\ sum % Q = 0 /\ sum % P # 0
    BY <1>7, <1>8, <1>11
  <2>2. (n + dif) % P = 0 /\ (n + dif) % Q # 0
    BY <1>1, <1>3, <1>10, <1>11, <2>1
  <2>3. GCD[n + dif] = P
    BY <1>1, <1>2, <1>3, <1>9, <2>2, GCDOfOne
  <2>4. GCD[sum] = Q
    BY <1>1, <1>2, <1>3, <1>9, <2>1, GCDOfOne
  <2>5. QED
    BY <1>2, <1>4, <2>3, <2>4 DEF dif, sum
<1>12. CASE dif % P # 0
  <2>1. dif % Q = 0 /\ sum % P = 0 /\ sum % Q # 0
    BY <1>7, <1>8, <1>12
  <2>2. (n + dif) % Q = 0 /\ (n + dif) % P # 0
    BY <1>1, <1>3, <1>10, <1>12, <2>1
  <2>3. GCD[n + dif] = Q
    BY <1>1, <1>2, <1>3, <1>9, <2>2, GCDOfOne
  <2>4. GCD[sum] = P
    BY <1>1, <1>2, <1>3, <1>9, <2>1, GCDOfOne
  <2>5. QED
    BY <1>2, <1>4, <2>3, <2>4 DEF dif, sum
<1>13. QED
  BY <1>11, <1>12

\* GCD(e, n) is 1 only if no factor divides e, and n if n divides e.
LEMMA GCDExtremes ==
  ASSUME NEW e \in 0..(2 * n)
  PROVE  /\ GCD[e] = 1 => e % P # 0 /\ e % Q # 0
         /\ e % n = 0 => GCD[e] = n
<1>1. /\ n % P = 0 /\ n % Q = 0 /\ n % n = 0 /\ P \in 1..n /\ Q \in 1..n
      /\ P > 2 /\ Q > 2 /\ n \in Nat /\ n > 0
  BY FactorsDivide, Primes, nFacts
<1> DEFINE g == GCD[e]
<1>2. g \in 1..n /\ \A t \in 1..n : e % t = 0 /\ n % t = 0 => t <= g
  BY GCDFacts
<1> HIDE DEF g, n
<1>3. n \in 1..n
  BY <1>1
<1>4. (e % P = 0 => P <= g) /\ (e % Q = 0 => Q <= g) /\ (e % n = 0 => n <= g)
  BY <1>1, <1>2, <1>3
<1>5. QED
  BY <1>1, <1>2, <1>4 DEF g

\* The roots an honest seller encrypted at an index give n only by giving the
\* factors, and they do so if x was prime to n.
LEMMA FactorsAtIndex ==
  ASSUME IInv, pc \in {"exchanged", "finished"}, NEW p \in Closed,
         ~Deviates("root", p[1], p[2])
  PROVE  LET f == Factors(p[1], p[2])
         IN  /\ IsFactorisation(f) => {f[1], f[2]} = {P, Q}
             /\ GCD[x[p[1]][p[2]]] = 1 => IsFactorisation(f)
<1> DEFINE round == p[1]
           i == p[2]
           a == r[1][round][i]
           b == r[2][round][i]
           f == Factors(round, i)
<1>1. /\ round \in Rounds /\ i \in Indices /\ HasRoots(round)
      /\ f = <<GCD[n + a - b], GCD[a + b]>>
  BY ClosedPlace, HonestDecrypts, ClosedRoots
<1>2. a \in 0..n /\ b \in 0..n
  BY <1>1, RootType DEF Sides
<1>3. n \in Nat /\ n > 8 /\ n \div 2 \in Nat /\ n = 2 * (n \div 2) + 1 /\ n = P * Q /\ n = Q * P
  <2>1. P * Q = Q * P
    BY Primes
  <2>2. QED
    BY <2>1, nFacts
<1> HIDE DEF round, i
<1>4. IsFactorisation(f) <=> GCD[n + a - b] * GCD[a + b] = n
  BY <1>1 DEF IsFactorisation
<1>5. f[1] = GCD[n + a - b] /\ f[2] = GCD[a + b]
  BY <1>1
<1>6. a = b => GCD[n + a - b] = n
  <2> SUFFICES ASSUME a = b PROVE GCD[n + a - b] = n
    OBVIOUS
  <2> HIDE DEF a, b, n
  <2>1. n + a - b = n /\ n \in 0..(2 * n)
    BY <1>2, <1>3
  <2>2. n % n = 0
    BY FactorsDivide
  <2>3. QED
    BY <2>1, <2>2, GCDExtremes
<1>7. a + b \in 0..(2 * n)
  <2> HIDE DEF a, b, n
  <2>1. QED
    BY <1>2, <1>3
<1>8. GCD[a + b] \in 1..n
  BY <1>7, GCDFacts
<1>9. QED
  <2>1. /\ a = r[1][round][i] /\ b = r[2][round][i]
        /\ a \in 0..(n \div 2) /\ b \in 0..(n \div 2)
        /\ (a * a) % n = y[round][i] /\ (b * b) % n = y[round][i]
    BY <1>1, RootType DEF Sides
  <2> HIDE DEF a, b, f
  <2>2. {a, b} = {s \in 0..(n \div 2) : (s * s) % n = y[round][i]}
    BY <1>1, <2>1 DEF IInv, Roots
  <2>3. /\ x[round][i] \in 0..(n \div 2)
        /\ (x[round][i] * x[round][i]) % n = y[round][i]
    BY <1>1, xType DEF IInv, Squares, Square
  <2>4. CASE a # b
    <3>1. \/ GCD[n + a - b] = P /\ GCD[a + b] = Q
          \/ GCD[n + a - b] = Q /\ GCD[a + b] = P
      BY <2>1, <2>4, RootsGiveFactors
    <3>2. IsFactorisation(f) /\ {f[1], f[2]} = {P, Q}
      BY <1>3, <1>4, <1>5, <3>1
    <3>3. QED
      BY <3>2 DEF f, round, i
  <2>5. CASE a = b
    <3>1. ASSUME NEW z \in 0..(n \div 2), (z * z) % n = y[round][i], z % P # 0, z % Q # 0
          PROVE  FALSE
      <4>1. PICK s \in 0..(n \div 2) : s # z /\ (s * s) % n = (z * z) % n
        BY <3>1, OtherRoot
      <4>2. s \in {a, b} /\ z \in {a, b}
        BY <2>2, <3>1, <4>1
      <4>3. QED
        BY <2>5, <4>1, <4>2
    <3>2. ~IsFactorisation(f)
      <4> SUFFICES ASSUME IsFactorisation(f) PROVE FALSE
        OBVIOUS
      <4> DEFINE g == GCD[a + b]
      <4>1. n * g = n /\ g \in Int
        BY <1>4, <1>6, <1>8, <2>5
      <4> HIDE DEF g, n
      <4>2. n * (g - 1) = 0
        BY <1>3, <4>1
      <4>3. g = 1
        BY <1>3, <4>1, <4>2
      <4>4. (a + b) % P # 0 /\ (a + b) % Q # 0
        BY <1>7, <4>3, GCDExtremes DEF g
      <4>5. a \in Int /\ P \in Nat /\ P > 0 /\ Q \in Nat /\ Q > 0
        BY <1>3, <2>1, Primes
      <4>6. a % P # 0 /\ a % Q # 0
        BY <2>5, <4>4, <4>5, MultiplesAdd
      <4>7. QED
        BY <2>1, <3>1, <4>6
    <3>3. GCD[x[round][i]] # 1
      <4> SUFFICES ASSUME GCD[x[round][i]] = 1 PROVE FALSE
        OBVIOUS
      <4>1. x[round][i] \in 0..(2 * n)
        BY <1>3, <2>3
      <4>2. x[round][i] % P # 0 /\ x[round][i] % Q # 0
        BY <4>1, GCDExtremes
      <4>3. QED
        BY <2>3, <3>1, <4>2
    <3>4. QED
      BY <3>2, <3>3 DEF f, round, i
  <2>6. QED
    BY <2>4, <2>5

\* The outcome of factorise, and where the errors come from.
Unchecked(kind) == lie.kind = kind /\ lie.index \notin Checked(lie.round)
Outcome ==
  /\ pc = "finished" => {result[1], result[2]} = {P, Q} \/ Unchecked("root")
  /\ pc # "thrown" => error = "none"
  /\ error = "Factorization failed!" =>
       \A p \in Closed : ~Deviates("root", p[1], p[2]) => GCD[x[p[1]][p[2]]] # 1

LEMMA OutcomeStep == IInv /\ Outcome /\ [Next]_vars => Outcome'
<1> SUFFICES ASSUME IInv, Outcome, [Next]_vars PROVE Outcome'
  OBVIOUS
<1> DEFINE Errors == {"none", "invalid indices size", "invalid commitment_indices value",
                      "xi > n/2", "xi is not a square root of yi",
                      "sha commitment open failed", "matching roots to values didn't work",
                      "verifyRoot failed", "InvalidCiphertext"}
<1>1. CASE UNCHANGED vars
  BY <1>1 DEF Outcome, Unchecked, Checked, Closed, Deviates, vars
<1>2. CASE /\ pc # "thrown" /\ pc' # "finished" /\ error' \in Errors
           /\ pc' # "thrown" => error' = error
  <2>1. error = "none"
    BY <1>2 DEF Outcome
  <2>2. QED
    BY <1>2, <2>1 DEF Outcome
<1>3. CASE genSquares \/ findRoots \/ commit
  <2>1. pc # "thrown" /\ pc' # "finished" /\ error' = error
    BY <1>3 DEF genSquares, findRoots, commit, Proceed
  <2>2. QED
    BY <1>2, <2>1 DEF Outcome
<1>4. CASE pickSubset
  <2>1. \A s : SubsetError(s) \in Errors
    BY DEF SubsetError
  <2>2. PICK s \in Subsets :
          IF SubsetError(s) = "none" THEN Proceed("acceptSubset") ELSE Throw(SubsetError(s))
    BY <1>4 DEF pickSubset
  <2>3. pc = "pickSubset" /\ error = "none"
    BY <1>4 DEF pickSubset, Outcome
  <2>4. pc' # "finished" /\ error' \in Errors /\ (pc' # "thrown" => error' = error)
    BY <2>1, <2>2, <2>3 DEF Proceed, Throw
  <2>5. QED
    BY <1>2, <2>3, <2>4
<1>5. CASE acceptSubset
  <2>1. \A e, v : ValueError(e, v) \in Errors
    BY DEF ValueError
  <2> DEFINE errorOf(e) == ValueError(indices[e], values[e])
             bad == {e \in DOMAIN indices : errorOf(e) # "none"}
  <2>2. pc = "acceptSubset" /\ error = "none"
    BY <1>5 DEF acceptSubset, Outcome
  <2>3. Throw(errorOf(Min(bad))) \/ Proceed("open")
    BY <1>5 DEF acceptSubset
  <2>4. errorOf(Min(bad)) \in Errors
    BY <2>1
  <2> HIDE DEF errorOf, bad
  <2>5. pc' # "finished" /\ error' \in Errors /\ (pc' # "thrown" => error' = error)
    BY <2>2, <2>3, <2>4 DEF Proceed, Throw
  <2>6. QED
    BY <1>2, <2>2, <2>5
<1>6. CASE openChosen
  <2>1. pc = "open" /\ error = "none"
    BY <1>6 DEF openChosen, Outcome
  <2>2. \/ Throw("sha commitment open failed") \/ Throw("matching roots to values didn't work")
        \/ Throw("verifyRoot failed") \/ Throw("InvalidCiphertext") \/ Proceed("open")
    BY <1>6 DEF openChosen
  <2>3. pc' # "finished" /\ error' \in Errors /\ (pc' # "thrown" => error' = error)
    BY <2>1, <2>2 DEF Proceed, Throw
  <2>4. QED
    BY <1>2, <2>1, <2>3
<1>7. CASE openRest
  <2>1. pc = "open" /\ error = "none"
    BY <1>7 DEF openRest, Outcome
  <2>2. Throw("sha commitment open failed") \/ Proceed("genSquares") \/ Proceed("exchanged")
    BY <1>7 DEF openRest
  <2>3. pc' # "finished" /\ error' \in Errors /\ (pc' # "thrown" => error' = error)
    BY <2>1, <2>2 DEF Proceed, Throw
  <2>4. QED
    BY <1>2, <2>1, <2>3
<1>8. CASE factorise
  <2>1. pc = "exchanged" /\ error = "none" /\ UNCHANGED <<lie, x, d, keys>>
    BY <1>8 DEF factorise, Outcome
  <2>2. CASE /\ pc' = "thrown"
             /\ \A p \in Closed : ~Deviates("root", p[1], p[2]) =>
                  ~IsFactorisation(Factors(p[1], p[2]))
    <3>1. \A p \in Closed : ~Deviates("root", p[1], p[2]) => GCD[x[p[1]][p[2]]] # 1
      BY <2>1, <2>2, FactorsAtIndex
    <3>2. Closed' = Closed
      BY <2>1 DEF Closed
    <3>3. \A p \in Closed' : ~Deviates("root", p[1], p[2])' => GCD[x'[p[1]][p[2]]] # 1
      BY <2>1, <3>1, <3>2 DEF Deviates
    <3>4. QED
      BY <2>2, <3>3 DEF Outcome
  <2>3. CASE pc' = "thrown" /\ error' = "InvalidCiphertext"
    BY <2>3 DEF Outcome
  <2>4. CASE /\ pc' = "finished" /\ error' = error
             /\ \E p \in Closed : /\ IsFactorisation(Factors(p[1], p[2]))
                                  /\ result' = Factors(p[1], p[2])
    <3>1. PICK p \in Closed : /\ IsFactorisation(Factors(p[1], p[2]))
                              /\ result' = Factors(p[1], p[2])
      BY <2>4
    <3>2. CASE ~Deviates("root", p[1], p[2])
      <4>1. {result'[1], result'[2]} = {P, Q}
        BY <2>1, <3>1, <3>2, FactorsAtIndex
      <4>2. QED
        BY <2>1, <2>4, <4>1 DEF Outcome
    <3>3. CASE Deviates("root", p[1], p[2])
      <4>1. keys[p[1]][p[2]].m = {}
        BY <2>1, ClosedPlace
      <4>2. Unchecked("root")'
        BY <2>1, <3>3, <4>1 DEF Unchecked, Checked, Deviates
      <4>3. QED
        BY <2>1, <2>4, <4>2 DEF Outcome
    <3>4. QED
      BY <3>2, <3>3
  <2>5. QED
    BY <1>8, <2>2, <2>3, <2>4, factoriseResult
<1>9. QED
  BY <1>1, <1>3, <1>4, <1>5, <1>6, <1>7, <1>8 DEF Next

LEMMA OutcomeAlways == Spec => []Outcome
<1>1. Init => Outcome
  BY DEF Init, Outcome
<1>2. QED
  BY <1>1, OutcomeStep, Invariance, PTL DEF Spec

\* What factorise returns are the seller's primes, unless the seller encrypted
\* something else than a root at an index that was not checked.
THEOREM OnlyTheFactors ==
  Spec => [](pc = "finished" =>
               \/ {result[1], result[2]} = {P, Q}
               \/ lie.kind = "root" /\ lie.index \notin Checked(lie.round))
<1>1. Outcome => (pc = "finished" =>
                    \/ {result[1], result[2]} = {P, Q}
                    \/ lie.kind = "root" /\ lie.index \notin Checked(lie.round))
  BY DEF Outcome, Unchecked
<1>2. QED
  BY <1>1, OutcomeAlways, PTL

\* A lie that a check of exec looks at stops the sale before the payment: what
\* gets through is a message or a root on a side that stayed closed, the buyer's
\* own root, or something else than a root at an index that was not checked,
\* which alone can make factorise return other numbers than the primes.
THEOREM LiesAreCaught == Spec => []LieIsCaught
<1>1. IInv /\ Outcome => LieIsCaught
  <2> SUFFICES ASSUME IInv, Outcome PROVE LieIsCaught
    OBVIOUS
  <2>1. pc = "finished" /\ {result[1], result[2]} # {P, Q} =>
          lie.kind = "root" /\ lie.index \notin Checked(lie.round)
    BY DEF Outcome, Unchecked
  <2>2. QED
    BY <2>1, LieAtExchange DEF LieIsCaught
<1>2. QED
  BY <1>1, OutcomeAlways, Invariance, PTL

\* If the seller encrypts roots, factorise fails only if no draw that was left
\* closed was prime to n.
THEOREM Factorisation ==
  ASSUME "root" \notin LieKinds
  PROVE  Spec => []FactoriseOutcome
<1>1. IInv /\ Outcome => FactoriseOutcome
  <2> SUFFICES ASSUME IInv, Outcome PROVE FactoriseOutcome
    OBVIOUS
  <2>1. lie.kind # "root"
    BY DEF IInv, TypeOK
  <2>2. QED
    BY <2>1 DEF Outcome, Unchecked, Deviates, FactoriseOutcome
<1>2. QED
  BY <1>1, OutcomeAlways, Invariance, PTL

=============================================================================
