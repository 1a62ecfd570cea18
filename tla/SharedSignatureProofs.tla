------------------------ MODULE SharedSignatureProofs -----------------------
(***************************************************************************)
(* Theorems about SharedSignature, for every group order, every curve      *)
(* (xcoord) and every Paillier modulus, and about the encryption it        *)
(* computes with, Paillier, for every pair of primes.                      *)
(***************************************************************************)
EXTENDS SignatureScheme, Residues, TLAPS

-----------------------------------------------------------------------------
(* Arithmetic modulo n.                                                    *)

\* n in the forms the lemmas of Residues ask for.
LEMMA nPositive == n \in Nat /\ n > 0 /\ n > 2 /\ n - 1 \in Nat
BY nAssumption

LEMMA ScalarType == \A a \in Scalars : a \in Int /\ a \in 0..(n - 1) /\ a # 0
BY nPositive DEF Scalars

LEMMA InvType ==
  ASSUME NEW a \in Scalars
  PROVE  Inv(a) \in Scalars /\ (a * Inv(a)) % n = 1
<1>1. \E w \in Scalars : (a * w) % n = 1
  BY PrimeAssumption
<1>2. QED
  BY <1>1 DEF Inv

\* A factor a and its inverse can be taken out of a product.
LEMMA Cancel ==
  ASSUME NEW a \in Scalars, NEW b \in Int
  PROVE  ((a * Inv(a)) * b) % n = b % n
<1>1. Inv(a) \in Int /\ a \in Int /\ (a * Inv(a)) % n = 1
  BY InvType, ScalarType
<1>2. a * Inv(a) \in Int
  BY <1>1
<1>3. (((a * Inv(a)) % n) * b) % n = ((a * Inv(a)) * b) % n
  BY <1>2, nPositive, ModTimes
<1>4. QED
  BY <1>1, <1>3

\* The point that verify computes, w being the inverse of s.
Point(Q, z, rr, w) == (((z * w) % n) + ((rr * w) % n) * Q) % n

\* The same without the inner reductions.
LEMMA PointForm ==
  \A Q, z, rr, w \in Int : Point(Q, z, rr, w) = (w * (z + rr * Q)) % n
<1> TAKE Q, z, rr, w \in Int
<1> DEFINE A == z * w
           B == ((rr * w) % n) * Q
           C == (rr * w) * Q
<1>1. A \in Int /\ C \in Int /\ rr * w \in Int
  OBVIOUS
<1>2. (rr * w) % n \in Int
  BY <1>1, nPositive, DivMod
<1>3. B \in Int
  BY <1>2
<1>4. B % n = C % n
  BY <1>1, nPositive, ModTimes
<1>6. w * (z + rr * Q) = C + A
  OBVIOUS
<1> HIDE DEF A, B, C
<1>5. ((A % n) + B) % n = (A + B) % n
  BY <1>1, <1>3, nPositive, ModPlus
<1>7. ((B % n) + A) % n = (B + A) % n /\ ((C % n) + A) % n = (C + A) % n
  BY <1>1, <1>3, nPositive, ModPlus
<1>8. A + B = B + A
  BY <1>1, <1>3
<1>9. ((A % n) + B) % n = (w * (z + rr * Q)) % n
  BY <1>4, <1>5, <1>6, <1>7, <1>8
<1>10. QED
  BY <1>9 DEF A, B, Point

\* verify is sound: what it accepts satisfies the signer's equation.
LEMMA VerifySound ==
  ASSUME NEW Q \in 0..(n - 1), NEW z \in Nat, NEW rr \in Int, NEW ss \in Int,
         verify(Q, z, rr, ss)
  PROVE  IsSignature(Q, z, rr, ss)
<1>a. rr \in 1..(n - 1) /\ ss \in Scalars
  BY nPositive DEF verify, Scalars
<1>b. PICK w \in Scalars : w = Inv(ss)
  BY <1>a, InvType
<1> DEFINE P == Point(Q, z, rr, w)
           e == z + rr * Q
<1>1. x(P) = rr
  BY <1>b DEF verify, Point
<1>2. w \in Int /\ ss \in Int /\ Q \in Int /\ z \in Int /\ e \in Int
  <2>1. Q \in Int /\ z \in Int
    BY nPositive
  <2>2. e \in Int
    BY <2>1
  <2>3. w \in Int
    BY ScalarType
  <2>4. QED
    BY <2>1, <2>2, <2>3
<1>3. P = (w * e) % n
  BY <1>2, PointForm
<1> HIDE DEF P, e
<1>10. ((ss * w) * e) % n = e % n
  BY <1>a, <1>b, <1>2, Cancel
<1>4. w * e \in Int
  BY <1>2
<1>5. P \in 0..(n - 1)
  BY <1>3, <1>4, nPositive, DivMod
<1>6. P \in Scalars /\ xcoord[P] = rr
  BY <1>a, <1>1, <1>5, nPositive DEF x, Scalars
<1>7. rr % n = rr
  BY <1>a, nPositive, ModSmall
<1>8. (ss * P) % n = e % n
  <2>1. (((w * e) % n) * ss) % n = ((w * e) * ss) % n
    BY <1>2, <1>4, nPositive, ModTimes
  <2>2. (w * e) * ss = (ss * w) * e
    BY <1>2
  <2>3. ((w * e) % n) * ss = ss * P
    BY <1>2, <1>3, <1>5
  <2>4. QED
    BY <1>10, <2>1, <2>2, <2>3
<1>9. QED
  BY <1>6, <1>7, <1>8 DEF IsSignature, e

\* verify is complete: it accepts what satisfies the signer's equation for a
\* point whose x coordinate is rr itself, not only rr modulo n.
LEMMA VerifyComplete ==
  ASSUME NEW Q \in 1..(n - 1), NEW z \in Nat, NEW rr \in 1..(n - 1),
         NEW ss \in Scalars, NEW k \in Scalars,
         xcoord[k] = rr, (ss * k) % n = (z + rr * Q) % n
  PROVE  verify(Q, z, rr, ss)
<1>a. PICK w \in Scalars : w = Inv(ss)
  BY InvType
<1> DEFINE P == Point(Q, z, rr, w)
           e == z + rr * Q
<1>1. Q \in Int /\ z \in Int /\ rr \in Int /\ w \in Int /\ ss \in Int /\ k \in Int
  BY nPositive, ScalarType
<1>2. P = (w * e) % n
  BY <1>1, PointForm
<1>3. e \in Int
  BY <1>1
<1>4. (ss * k) % n = e % n
  OBVIOUS
<1> HIDE DEF P, e
<1>5. ((e % n) * w) % n = (e * w) % n
  BY <1>1, <1>3, nPositive, ModTimes
<1>6. (((ss * k) % n) * w) % n = ((ss * k) * w) % n
  <2>1. ss * k \in Int
    BY <1>1
  <2>2. QED
    BY <1>1, <2>1, nPositive, ModTimes
<1>7. (ss * k) * w = (ss * w) * k /\ e * w = w * e
  BY <1>1, <1>3
<1>8. ((ss * w) * k) % n = k % n
  BY <1>a, <1>1, Cancel
<1>9. k % n = k
  BY nPositive, ScalarType, ModSmall
<1>10. P = k
  BY <1>2, <1>4, <1>5, <1>6, <1>7, <1>8, <1>9
<1>11. x(P) = rr
  BY <1>10, ScalarType DEF x
<1>12. Q # 0 /\ rr > 0 /\ rr < n /\ ss > 0 /\ ss < n
  BY nPositive DEF Scalars
<1>13. QED
  BY <1>a, <1>11, <1>12 DEF verify, P, Point

\* The other form of a signature, n - s, is one for the opposite point.
LEMMA Opposite ==
  ASSUME NEW a \in Scalars, NEW b \in Scalars
  PROVE  /\ n - a \in Scalars
         /\ ((n - a) * (n - b)) % n = (a * b) % n
<1>1. a \in Int /\ b \in Int /\ n \in Int
  BY ScalarType, nPositive
<1>2. (n - a) * (n - b) = a * b + n * (n - a - b)
  BY <1>1
<1>3. (a * b + n * (n - a - b)) % n = (a * b) % n
  <2>1. a * b \in Int /\ n - a - b \in Int
    BY <1>1
  <2>2. QED
    BY <2>1, nPositive, ModShift
<1>4. QED
  BY <1>2, <1>3, nPositive DEF Scalars

\* The product of two scalars is not 0 modulo n.
LEMMA ProductOfScalars ==
  ASSUME NEW a \in Scalars, NEW b \in Scalars
  PROVE  (a * b) % n \in 1..(n - 1)
<1>1. a \in Int /\ b \in Int /\ a # 0 /\ a * b \in Int
  BY ScalarType
<1>2. (a * b) % n \in 0..(n - 1)
  BY <1>1, nPositive, DivMod
<1>3. ASSUME (a * b) % n = 0 PROVE FALSE
  <2>1. PICK w \in Scalars : w = Inv(b)
    BY InvType
  <2>2. w \in Int
    BY ScalarType
  <2>3. (((a * b) % n) * w) % n = ((a * b) * w) % n
    BY <1>1, <2>2, nPositive, ModTimes
  <2>4. (a * b) * w = (b * w) * a
    BY <1>1, <2>2
  <2>5. ((b * w) * a) % n = a % n
    BY <1>1, <2>1, Cancel
  <2>6. a % n = a /\ 0 % n = 0
    BY nPositive, ScalarType, ModSmall
  <2>7. ((a * b) % n) * w = 0
    BY <1>3, <2>2
  <2>8. QED
    BY <1>1, <2>3, <2>4, <2>5, <2>6, <2>7
<1>4. QED
  BY <1>2, <1>3, nPositive

\* The key may be reduced or not in the signer's equation.
LEMMA KeyForm ==
  ASSUME NEW d1 \in Int, NEW d2 \in Int, NEW z \in Int, NEW rr \in Int
  PROVE  (z + rr * d1 * d2) % n = (z + rr * ((d1 * d2) % n)) % n
<1> DEFINE q == (d1 * d2) % n
           f == (d1 * d2) * rr
<1>1. d1 * d2 \in Int /\ f \in Int /\ z + rr * d1 * d2 = f + z
  OBVIOUS
<1>2. q \in Int
  BY <1>1, nPositive, DivMod
<1>3. (q * rr) % n = f % n
  BY <1>1, nPositive, ModTimes
<1>4. q * rr \in Int /\ z + rr * q = q * rr + z
  BY <1>2
<1> HIDE DEF q, f
<1>5. (((q * rr) % n) + z) % n = (q * rr + z) % n /\ ((f % n) + z) % n = (f + z) % n
  BY <1>1, <1>4, nPositive, ModPlus
<1>6. QED
  BY <1>1, <1>3, <1>4, <1>5 DEF q

\* What S computes from B's ciphertext satisfies the signer's equation, for
\* the nonce kb * ks and the key ds * db, if the plaintext did not wrap.
LEMMA SignEquation ==
  ASSUME NEW a \in Scalars, NEW b \in Scalars, NEW d1 \in Scalars,
         NEW d2 \in Scalars, NEW z \in Nat, NEW rr \in 0..(n - 1), NEW v \in Nat,
         NEW c \in Int, c = Plain1(a, z) + Factor(a, rr, d2) * d1 + v * n
  PROVE  (((Inv(b) * (c % n)) % n) * ((a * b) % n)) % n
           = (z + rr * ((d1 * d2) % n)) % n
<1>1. PICK ia \in Scalars : ia = Inv(a)
  BY InvType
<1>2. PICK ib \in Scalars : ib = Inv(b)
  BY InvType
<1>3. /\ a \in Int /\ b \in Int /\ d1 \in Int /\ d2 \in Int /\ z \in Int
      /\ rr \in Int /\ v \in Int /\ ia \in Int /\ ib \in Int
  BY ScalarType, nPositive
<1> DEFINE e == z + (rr * d2) * d1
           c0 == c % n
           K == (a * b) % n
           s0 == (ib * c0) % n
<1>4. e \in Int /\ c0 \in Int /\ c0 \in 0..(n - 1)
  BY <1>3, nPositive, DivMod
<1>5. c0 = (ia * e) % n
  <2>1. (ia * z) % n = (z * ia) % n
    BY <1>3
  <2>2. (((ia * rr) % n) * d2) % n = ((rr * d2) * ia) % n
    <3>1. ia * rr \in Int /\ (ia * rr) * d2 = (rr * d2) * ia
      BY <1>3
    <3>2. QED
      BY <1>3, <3>1, nPositive, ModTimes
  <2>3. c = (((z * ia) % n) + (((rr * d2) * ia) % n) * d1) + n * v
    <3>1. Plain1(a, z) = (z * ia) % n /\ Factor(a, rr, d2) = ((rr * d2) * ia) % n
      BY <1>1, <2>1, <2>2 DEF Plain1, Factor
    <3>2. v * n = n * v
      BY <1>3, nPositive
    <3>3. QED
      BY <3>1, <3>2
  <2>4. ((z * ia) % n) + (((rr * d2) * ia) % n) * d1 \in Int
    <3>1. z * ia \in Int /\ (rr * d2) * ia \in Int
      BY <1>3
    <3>2. (z * ia) % n \in Int /\ ((rr * d2) * ia) % n \in Int
      BY <3>1, nPositive, DivMod
    <3>3. QED
      BY <1>3, <3>2
  <2>5. c0 = Point(d1, z, rr * d2, ia)
    <3> DEFINE g == ((z * ia) % n) + (((rr * d2) * ia) % n) * d1
    <3>1. g \in Int /\ c = g + n * v
      BY <2>3, <2>4
    <3> HIDE DEF g
    <3>2. (g + n * v) % n = g % n
      BY <1>3, <3>1, nPositive, ModShift
    <3>3. QED
      BY <3>1, <3>2 DEF g, Point
  <2>6. rr * d2 \in Int
    BY <1>3
  <2>7. Point(d1, z, rr * d2, ia) = (ia * (z + (rr * d2) * d1)) % n
    BY <1>3, <2>6, PointForm
  <2>8. QED
    BY <2>5, <2>7
<1>6. e % n = (z + rr * ((d1 * d2) % n)) % n
  <2>1. e = z + rr * d1 * d2
    BY <1>3
  <2>2. QED
    BY <1>3, <2>1, KeyForm
<1> HIDE DEF e, c0
<1>7. (s0 * K) % n = e % n
  <2>1. ib * c0 \in Int /\ a * b \in Int
    BY <1>3, <1>4
  <2>2. K \in Int
    BY <2>1, nPositive, DivMod
  <2>3. (s0 * K) % n = ((ib * c0) * K) % n
    BY <2>1, <2>2, nPositive, ModTimes
  <2>4. (ib * c0) * K = K * (ib * c0)
    BY <2>1, <2>2
  <2>5. (K * (ib * c0)) % n = ((a * b) * (ib * c0)) % n
    BY <2>1, nPositive, ModTimes
  <2>6. (a * b) * (ib * c0) = (b * ib) * (a * c0) /\ a * c0 \in Int
    BY <1>3, <1>4
  <2>7. ((b * ib) * (a * c0)) % n = (a * c0) % n
    BY <1>2, <2>6, Cancel
  <2>8. (((ia * e) % n) * a) % n = ((ia * e) * a) % n
    <3>1. ia * e \in Int
      BY <1>3, <1>4
    <3>2. QED
      BY <1>3, <3>1, nPositive, ModTimes
  <2>9. a * c0 = ((ia * e) % n) * a
    BY <1>3, <1>4, <1>5
  <2>10. (ia * e) * a = (a * ia) * e
    BY <1>3, <1>4
  <2>11. ((a * ia) * e) % n = e % n
    BY <1>1, <1>4, Cancel
  <2>12. QED
    BY <2>3, <2>4, <2>5, <2>6, <2>7, <2>8, <2>9, <2>10, <2>11
<1>8. QED
  BY <1>2, <1>6, <1>7 DEF c0

\* The number that is encrypted is below any modulus that B accepts.
LEMMA PlaintextBound ==
  ASSUME NEW a \in 0..(n - 1), NEW t \in 0..(n - 1), NEW d \in 0..(n - 1),
         NEW v \in 0..(n * n - 1)
  PROVE  a + t * d + v * n \in 0..(2 * n * n * n * n)
<1>1. /\ a \in Int /\ t \in Int /\ d \in Int /\ v \in Int /\ n \in Int
      /\ 0 <= a /\ a <= n /\ 0 <= t /\ t <= n /\ 0 <= d /\ d <= n
      /\ 0 <= v /\ v <= n * n - 1 /\ n >= 1
  BY nPositive
<1>2. 0 <= t * d /\ t * d <= n * n
  <2>1. 0 <= t * d /\ t * d <= n * d
    BY <1>1
  <2>2. n * d <= n * n
    BY <1>1
  <2>3. QED
    BY <1>1, <2>1, <2>2
<1>3. 0 <= v * n /\ v * n <= (n * n - 1) * n
  BY <1>1
<1>4. (n * n - 1) * n = n * n * n - n
  BY <1>1
<1>5. n * n <= n * n * n * n /\ n * n * n <= n * n * n * n
  <2>1. 1 <= n * n
    BY <1>1
  <2>2. n * n * n >= n * n
    BY <1>1, <2>1
  <2>3. n * n * n * n >= n * n * n
    BY <1>1, <2>1, <2>2
  <2>4. QED
    BY <1>1, <2>2, <2>3
<1>6. QED
  BY <1>1, <1>2, <1>3, <1>4, <1>5

-----------------------------------------------------------------------------
(* The inductive invariant.                                                *)

Computed == {"finish_sig", "signed", "opened"}
Nonced == Computed \cup {"cont_sig"}
Keyed == Nonced \cup {"set_data", "start_sig"}

\* B has accepted the modulus.
Modulus == pc \in Keyed \cup {"init"} => N > 2 * n * n * n * n

\* Both parties have the same key.
Shared ==
  pc \in Keyed => /\ ds \in Scalars /\ db \in Scalars
                  /\ Q_s = (ds * db) % n /\ Q_b = Q_s

\* Both were given the same data unless the seller was forgotten.
GivenData == pc \in Nonced \cup {"start_sig"} => data_s = data_b \/ data_s = NoData

\* The nonce, and the half of the signature that follows from it.
Nonce ==
  /\ pc \in Nonced => ks \in Scalars
  /\ pc \in Computed => /\ kb \in Scalars /\ data_b.len = DigestSize
                        /\ r_b = rOf((kb * ks) % n) /\ r_b # 0

\* What S found out before the run counts as signed.
Accepted ==
  pc = "signed" /\ ~cheated => /\ data_s = data_b
                               /\ verify(Q_s, data_b.z, r, s)
                               /\ s <= n - s

Inner == Modulus /\ Shared /\ GivenData /\ Nonce /\ NoWrap /\ Accepted
IInv == TypeOK /\ Inner /\ HonestOutcome /\ OpenIsExact

LEMMA xType == \A P \in 0..(n - 1) : x(P) \in Nat
BY xcoordAssumption, nPositive DEF x, Scalars

LEMMA rOfType == \A P \in 0..(n - 1) : rOf(P) \in 0..(n - 1)
<1> TAKE P \in 0..(n - 1)
<1>1. x(P) \in Int
  BY xType
<1>2. QED
  BY <1>1, nPositive, DivMod DEF rOf

LEMMA ProductType == \A a, b \in Scalars : (a * b) % n \in 0..(n - 1)
<1> TAKE a, b \in Scalars
<1>1. a * b \in Int
  BY ScalarType
<1>2. QED
  BY <1>1, nPositive, DivMod

LEMMA PlainTypes ==
  ASSUME NEW k \in Scalars, NEW z \in Nat, NEW rr \in 0..(n - 1), NEW d \in Scalars
  PROVE  Plain1(k, z) \in 0..(n - 1) /\ Factor(k, rr, d) \in 0..(n - 1)
<1>1. Inv(k) \in Int /\ d \in Int /\ rr \in Int /\ z \in Int
  BY InvType, ScalarType, nPositive
<1>2. Inv(k) * z \in Int /\ Inv(k) * rr \in Int
  BY <1>1
<1>3. (Inv(k) * rr) % n \in Int
  BY <1>2, nPositive, DivMod
<1>4. ((Inv(k) * rr) % n) * d \in Int
  BY <1>1, <1>3
<1>5. QED
  BY <1>2, <1>4, nPositive, DivMod DEF Plain1, Factor

LEMMA IInvInit == Init => IInv
<1> SUFFICES ASSUME Init PROVE IInv
  OBVIOUS
<1>1. 0 \in 0..(n - 1) /\ 0 \in 0..n /\ 0 \in 0..(n * n - 1)
  <2>1. n * n >= 1
    BY nPositive
  <2>2. QED
    BY <2>1, nPositive
<1>2. N \in Moduli /\ 0 \in 0..(N - 1)
  BY ModuliAssumption DEF Init
<1>3. NoData \in Message
  BY DEF NoData, Message
<1>4. TypeOK
  BY <1>1, <1>2, <1>3 DEF Init, TypeOK, Errors
<1>5. Inner
  BY DEF Init, Inner, Modulus, Shared, GivenData, Nonce, NoWrap, Accepted, Keyed,
     Nonced, Computed
<1>6. QED
  BY <1>4, <1>5 DEF Init, IInv, HonestOutcome, OpenIsExact

LEMMA BctorStep == IInv /\ Bctor => IInv'
<1> SUFFICES ASSUME IInv, Bctor PROVE IInv'
  OBVIOUS
<1>1. \/ /\ N <= 2 * n * n * n * n /\ pc' = "thrown"
         /\ error' = "too short paillier"
      \/ /\ N > 2 * n * n * n * n /\ pc' = "init" /\ error' = error
  BY DEF Bctor, Throw, Continue
<1>2. UNCHANGED <<N, ds, db, Q_s, Q_b, data_s, data_b, ks, kb, u, r_b, cb, r, s,
                  cheated, open_verified>>
  BY DEF Bctor
<1>3. TypeOK'
  BY <1>1, <1>2 DEF IInv, TypeOK, Errors
<1>4. Inner'
  BY <1>1, <1>2 DEF Inner, Modulus, Shared, GivenData, Nonce, NoWrap, Accepted,
     Keyed, Nonced, Computed
<1>5. HonestOutcome' /\ OpenIsExact'
  BY <1>1, <1>2 DEF HonestOutcome, OpenIsExact
<1>6. QED
  BY <1>3, <1>4, <1>5 DEF IInv

LEMMA initStep == IInv /\ init => IInv'
<1> SUFFICES ASSUME IInv, init PROVE IInv'
  OBVIOUS
<1>1. ds' \in Scalars /\ db' \in Scalars /\ pc = "init"
  BY DEF init
<1>2. ds' % n = ds' /\ db' % n = db'
  BY <1>1, ScalarType, nPositive, ModSmall
<1>3. Q_s' = (ds' * db') % n /\ Q_b' = (db' * ds') % n
  BY <1>2 DEF init
<1>4. ds' * db' = db' * ds'
  BY <1>1, ScalarType
<1>5. Q_s' = Q_b'
  BY <1>3, <1>4
<1>6. pc' = "set_data" /\ error' = error
  BY <1>5 DEF init, Continue
<1>7. UNCHANGED <<N, data_s, data_b, ks, kb, u, r_b, cb, r, s, cheated,
                  open_verified>>
  BY DEF init
<1>8. TypeOK'
  <2>1. Q_s' \in 0..(n - 1) /\ ds' \in 0..(n - 1) /\ db' \in 0..(n - 1)
    BY <1>1, <1>3, ProductType, ScalarType
  <2>2. QED
    BY <1>5, <1>6, <1>7, <2>1 DEF IInv, TypeOK
<1>9. Inner'
  BY <1>1, <1>3, <1>5, <1>6, <1>7 DEF IInv, Inner, Modulus, Shared, GivenData,
     Nonce, NoWrap, Accepted, Keyed, Nonced, Computed
<1>10. HonestOutcome' /\ OpenIsExact'
  BY <1>6 DEF HonestOutcome, OpenIsExact
<1>11. QED
  BY <1>8, <1>9, <1>10 DEF IInv

LEMMA set_dataStep == IInv /\ set_data => IInv'
<1> SUFFICES ASSUME IInv, set_data PROVE IInv'
  OBVIOUS
<1>1. /\ pc = "set_data" /\ pc' = "start_sig" /\ error' = error
      /\ data_b' \in Data /\ data_s' \in {data_b', NoData}
  BY DEF set_data, Continue
<1>2. UNCHANGED <<N, ds, db, Q_s, Q_b, ks, kb, u, r_b, cb, r, s, cheated,
                  open_verified>>
  BY DEF set_data
<1>3. TypeOK'
  <2>1. NoData \in Message /\ data_b' \in Message
    BY <1>1, DataAssumption DEF NoData, Message
  <2>2. QED
    BY <1>1, <1>2, <2>1 DEF IInv, TypeOK
<1>4. Inner'
  BY <1>1, <1>2 DEF IInv, Inner, Modulus, Shared, GivenData,
     Nonce, NoWrap, Accepted, Keyed, Nonced, Computed
<1>5. HonestOutcome' /\ OpenIsExact'
  BY <1>1 DEF HonestOutcome, OpenIsExact
<1>6. QED
  BY <1>3, <1>4, <1>5 DEF IInv

LEMMA start_sigStep == IInv /\ start_sig => IInv'
<1> SUFFICES ASSUME IInv, start_sig PROVE IInv'
  OBVIOUS
<1>1. /\ pc = "start_sig" /\ pc' = "cont_sig" /\ error' = error
      /\ ks' \in Scalars /\ ks' \in 0..(n - 1)
  BY ScalarType DEF start_sig, Continue
<1>2. UNCHANGED <<N, ds, db, Q_s, Q_b, data_s, data_b, kb, u, r_b, cb, r, s,
                  cheated, open_verified>>
  BY DEF start_sig
<1>3. TypeOK'
  BY <1>1, <1>2 DEF IInv, TypeOK
<1>4. Inner'
  BY <1>1, <1>2 DEF IInv, Inner, Modulus, Shared, GivenData,
     Nonce, NoWrap, Accepted, Keyed, Nonced, Computed
<1>5. HonestOutcome' /\ OpenIsExact'
  BY <1>1 DEF HonestOutcome, OpenIsExact
<1>6. QED
  BY <1>3, <1>4, <1>5 DEF IInv

LEMMA cont_sigStep == IInv /\ cont_sig => IInv'
<1> SUFFICES ASSUME IInv, cont_sig PROVE IInv'
  OBVIOUS
<1> DEFINE K == (kb' * ks) % n
<1>1. /\ pc = "cont_sig" /\ kb' \in Scalars /\ r_b' = rOf(K)
      /\ UNCHANGED <<N, ds, db, Q_s, Q_b, data_s, data_b, ks, r, s, cheated,
                     open_verified>>
  BY DEF cont_sig
<1>2. /\ ks \in Scalars /\ ds \in Scalars /\ db \in Scalars
      /\ N > 2 * n * n * n * n /\ TypeOK /\ data_b \in Message
      /\ (data_s = data_b \/ data_s = NoData)
      /\ Q_s = (ds * db) % n /\ Q_b = Q_s
  BY <1>1 DEF IInv, TypeOK, Inner, Modulus, Shared, GivenData, Nonce, Keyed, Nonced
<1>3. K \in 0..(n - 1) /\ r_b' \in 0..(n - 1) /\ kb' \in 0..(n - 1)
  BY <1>1, <1>2, ProductType, rOfType, ScalarType
<1>4. CASE r_b' = 0
  <2>1. pc' = "thrown" /\ error' = "r == 0" /\ UNCHANGED <<u, cb>>
    BY <1>4 DEF cont_sig, Throw
  <2>2. TypeOK'
    BY <1>1, <1>2, <1>3, <2>1 DEF TypeOK, Errors
  <2>3. Inner'
    BY <2>1 DEF Inner, Modulus, Shared, GivenData, Nonce, NoWrap, Accepted, Keyed,
       Nonced, Computed
  <2>4. HonestOutcome' /\ OpenIsExact'
    BY <1>1, <1>4, <2>1 DEF HonestOutcome, OpenIsExact, rOf
  <2>5. QED
    BY <2>2, <2>3, <2>4 DEF IInv
<1>5. CASE r_b' # 0 /\ data_b.len # DigestSize
  <2>1. pc' = "thrown" /\ error' = "m_len != sha digest size" /\ UNCHANGED <<u, cb>>
    BY <1>5 DEF cont_sig, Throw
  <2>2. TypeOK'
    BY <1>1, <1>2, <1>3, <2>1 DEF TypeOK, Errors
  <2>3. Inner'
    BY <2>1 DEF Inner, Modulus, Shared, GivenData, Nonce, NoWrap, Accepted, Keyed,
       Nonced, Computed
  <2>4. HonestOutcome' /\ OpenIsExact'
    BY <1>1, <1>5, <2>1 DEF HonestOutcome, OpenIsExact
  <2>5. QED
    BY <2>2, <2>3, <2>4 DEF IInv
<1>6. CASE r_b' # 0 /\ data_b.len = DigestSize
  <2> DEFINE plain == Plain1(kb', data_b.z) + Factor(kb', r_b', db) * ds + u' * n
  <2>1. /\ u' \in 0..(n * n - 1) /\ cb' = plain % N
        /\ pc' = "finish_sig" /\ error' = error
    BY <1>6 DEF cont_sig, Continue
  <2>2. plain \in 0..(2 * n * n * n * n)
    <3>1. Plain1(kb', data_b.z) \in 0..(n - 1) /\ Factor(kb', r_b', db) \in 0..(n - 1)
      BY <1>1, <1>2, <1>3, PlainTypes DEF Message
    <3>2. ds \in 0..(n - 1)
      BY <1>2, ScalarType
    <3>3. QED
      BY <2>1, <3>1, <3>2, PlaintextBound
  <2> HIDE DEF plain
  <2>3. N \in Nat /\ N > 0 /\ plain \in 0..(N - 1)
    <3>1. N \in Nat /\ N > 0
      BY <1>2, ModuliAssumption DEF TypeOK
    <3>2. 2 * n * n * n * n \in Int
      BY nPositive
    <3>3. QED
      BY <1>2, <2>2, <3>1, <3>2
  <2>4. cb' = plain
    BY <2>1, <2>3, ModSmall
  <2>5. TypeOK'
    BY <1>1, <1>2, <1>3, <2>1, <2>3, <2>4 DEF TypeOK
  <2>6. NoWrap'
    BY <1>1, <2>4 DEF NoWrap, plain
  <2>7. Inner'
    BY <1>1, <1>2, <1>6, <2>1, <2>6 DEF Inner, Modulus, Shared, GivenData, Nonce,
       Accepted, Keyed, Nonced, Computed
  <2>8. HonestOutcome' /\ OpenIsExact'
    BY <2>1 DEF HonestOutcome, OpenIsExact
  <2>9. QED
    BY <2>5, <2>7, <2>8 DEF IInv
<1>7. QED
  BY <1>4, <1>5, <1>6

\* What finish_sig starts from.
LEMMA BeforeFinish ==
  ASSUME IInv, pc = "finish_sig"
  PROVE  LET K == (kb * ks) % n
             Q == (ds * db) % n
             s0 == (Inv(ks) * (cb % n)) % n
         IN /\ K \in Scalars /\ x(K) \in Nat /\ r_b = x(K) % n /\ r_b \in 1..(n - 1)
            /\ Q_s = Q /\ Q \in 1..(n - 1)
            /\ s0 \in 0..(n - 1)
            /\ (s0 * K) % n = (data_b.z + r_b * Q) % n
            /\ data_b.z \in Nat
<1> DEFINE K == (kb * ks) % n
           Q == (ds * db) % n
           s0 == (Inv(ks) * (cb % n)) % n
<1>1. /\ kb \in Scalars /\ ks \in Scalars /\ ds \in Scalars /\ db \in Scalars
      /\ r_b = rOf(K) /\ r_b # 0 /\ Q_s = Q
      /\ cb = Plain1(kb, data_b.z) + Factor(kb, r_b, db) * ds + u * n
  BY DEF IInv, Inner, Shared, Nonce, NoWrap, Keyed, Nonced, Computed
<1>2. data_b \in Message /\ u \in Nat /\ N \in Nat /\ cb \in Int
  BY ModuliAssumption, nPositive DEF IInv, TypeOK
<1>3. data_b.z \in Nat
  BY <1>2 DEF Message
<1>4. K \in 0..(n - 1) /\ K \in Scalars
  BY <1>1, ProductType, ProductOfScalars DEF Scalars
<1>5. r_b \in 0..(n - 1) /\ r_b \in 1..(n - 1)
  BY <1>1, <1>4, rOfType, nPositive
<1>6. Q \in 1..(n - 1)
  BY <1>1, ProductOfScalars
<1>7. s0 \in 0..(n - 1)
  <2>1. cb % n \in Int /\ Inv(ks) \in Int
    BY <1>1, <1>2, nPositive, DivMod, InvType, ScalarType
  <2>2. Inv(ks) * (cb % n) \in Int
    BY <2>1
  <2>3. QED
    BY <2>2, nPositive, DivMod
<1>8. (s0 * K) % n = (data_b.z + r_b * Q) % n
  BY <1>1, <1>2, <1>3, <1>5, SignEquation
<1>9. x(K) \in Nat
  BY <1>4, xType
<1>10. r_b = x(K) % n
  BY <1>1 DEF rOf
<1>11. QED
  BY <1>1, <1>3, <1>4, <1>5, <1>6, <1>7, <1>8, <1>9, <1>10

\* Both forms of the signature are accepted if the x coordinate needs no
\* reduction.
LEMMA LowSVerifies ==
  ASSUME NEW Q \in 1..(n - 1), NEW z \in Nat, NEW rr \in 1..(n - 1),
         NEW ss \in Scalars, NEW k \in Scalars,
         xcoord[k] = rr, (ss * k) % n = (z + rr * Q) % n
  PROVE  verify(Q, z, rr, LowS(ss))
<1>1. verify(Q, z, rr, ss)
  BY VerifyComplete
<1>2. n - ss \in Scalars /\ n - k \in Scalars
      /\ ((n - ss) * (n - k)) % n = (ss * k) % n
  BY Opposite
<1>3. xcoord[n - k] = rr
  BY xcoordAssumption
<1>4. verify(Q, z, rr, n - ss)
  BY <1>2, <1>3, VerifyComplete
<1>5. QED
  BY <1>1, <1>4 DEF LowS

LEMMA LowSForm ==
  ASSUME NEW a \in Scalars
  PROVE  LowS(a) \in Scalars /\ LowS(a) <= n - LowS(a)
<1>1. a \in Int /\ a >= 1 /\ a <= n - 1 /\ n \in Int
  BY nPositive DEF Scalars
<1>2. QED
  BY <1>1 DEF LowS, Scalars

LEMMA finish_sigStep == IInv /\ finish_sig => IInv'
<1> SUFFICES ASSUME IInv, finish_sig PROVE IInv'
  OBVIOUS
<1> DEFINE K == (kb * ks) % n
           Q == (ds * db) % n
           s0 == (Inv(ks) * (cb % n)) % n
<1>1. /\ pc = "finish_sig" /\ r' = r_b
      /\ UNCHANGED <<N, ds, db, Q_s, Q_b, data_s, data_b, ks, kb, u, r_b, cb,
                     cheated, open_verified>>
  BY DEF finish_sig
<1>2. /\ K \in Scalars /\ x(K) \in Nat /\ r_b = x(K) % n /\ r_b \in 1..(n - 1)
      /\ Q_s = Q /\ Q \in 1..(n - 1)
      /\ s0 \in 0..(n - 1)
      /\ (s0 * K) % n = (data_b.z + r_b * Q) % n
      /\ data_b.z \in Nat
  BY <1>1, BeforeFinish
<1>3. /\ TypeOK /\ Inner /\ data_b.len = DigestSize
      /\ (data_s = data_b \/ data_s = NoData)
      /\ ds \in Int /\ db \in Int
  BY <1>1, ScalarType
     DEF IInv, Inner, GivenData, Nonce, Shared, Keyed, Nonced, Computed
<1>4. r' \in 0..n
  BY <1>1, <1>2, nPositive
<1>5. CASE s0 = 0
  <2>1. s' = 0 /\ pc' = "thrown" /\ error' = "ERR s==0 restart protocol"
    BY <1>5 DEF finish_sig, Throw
  <2>2. TypeOK'
    <3>a. 0 \in 0..n
      BY nPositive
    <3>1. s' \in 0..n
      BY <2>1, <3>a
    <3>2. QED
      BY <1>1, <1>3, <1>4, <2>1, <3>1 DEF TypeOK, Errors
  <2>3. (data_b.z + r_b * ds * db) % n = 0
    <3>1. s0 * K = 0
      BY <1>2, <1>5, ScalarType
    <3>2. 0 % n = 0
      BY nPositive, ModSmall
    <3>3. data_b.z \in Int /\ r_b \in Int
      BY <1>2, nPositive
    <3>4. (data_b.z + r_b * ds * db) % n = (data_b.z + r_b * Q) % n
      BY <1>3, <3>3, KeyForm
    <3>5. QED
      BY <1>2, <3>1, <3>2, <3>4
  <2>4. HonestOutcome' /\ OpenIsExact'
    BY <1>1, <2>1, <2>3 DEF HonestOutcome, OpenIsExact
  <2>5. Inner'
    BY <2>1 DEF Inner, Modulus, Shared, GivenData, Nonce, NoWrap, Accepted, Keyed,
       Nonced, Computed
  <2>6. QED
    BY <2>2, <2>4, <2>5 DEF IInv
<1>6. CASE s0 # 0
  <2>1. s0 \in Scalars /\ s' = LowS(s0)
    <3>1. s' = LowS(s0)
      BY <1>6 DEF finish_sig
    <3> HIDE DEF s0, K, Q
    <3>2. s0 \in Scalars
      BY <1>2, <1>6, nPositive DEF Scalars
    <3>3. QED
      BY <3>1, <3>2
  <2>2. s' \in 0..n /\ s' <= n - s'
    BY <2>1, LowSForm, ScalarType, nPositive
  <2>3. CASE data_s.len # DigestSize
    <3>1. pc' = "thrown" /\ error' = DataError(data_s)
      BY <1>6, <2>3 DEF finish_sig, Throw
    <3>2. TypeOK'
      BY <1>1, <1>3, <1>4, <2>2, <3>1 DEF TypeOK, Errors, DataError
    <3>3. HonestOutcome' /\ OpenIsExact'
      BY <1>1, <1>3, <2>3, <3>1 DEF HonestOutcome, OpenIsExact
    <3>4. Inner'
      BY <3>1 DEF Inner, Modulus, Shared, GivenData, Nonce, NoWrap, Accepted, Keyed,
         Nonced, Computed
    <3>5. QED
      BY <3>2, <3>3, <3>4 DEF IInv
  <2>4. CASE data_s.len = DigestSize
    <3>1. data_s = data_b
      BY <1>3, <2>4 DEF NoData, DigestSize
    <3>2. CASE verify(Q_s, data_s.z, r', s')
      <4>1. pc' = "signed" /\ error' = error
        BY <1>6, <2>4, <3>2 DEF finish_sig, Continue
      <4>2. TypeOK'
        BY <1>1, <1>3, <1>4, <2>2, <4>1 DEF TypeOK
      <4>3. Accepted'
        BY <1>1, <2>2, <3>1, <3>2 DEF Accepted, verify, x, Inv
      <4>4. Inner'
        BY <1>1, <1>3, <4>1, <4>3 DEF Inner, Modulus, Shared, GivenData, Nonce,
           NoWrap, Keyed, Nonced, Computed
      <4>5. HonestOutcome' /\ OpenIsExact'
        BY <4>1 DEF HonestOutcome, OpenIsExact
      <4>6. QED
        BY <4>2, <4>4, <4>5 DEF IInv
    <3>3. CASE ~verify(Q_s, data_s.z, r', s')
      <4>1. pc' = "thrown" /\ error' = "Invalid signature generated!"
        BY <1>6, <2>4, <3>3 DEF finish_sig, Throw
      <4>2. TypeOK'
        BY <1>1, <1>3, <1>4, <2>2, <4>1 DEF TypeOK, Errors
      <4>3. x(K) >= n
        <5>1. SUFFICES ASSUME x(K) < n PROVE FALSE
          BY <1>2, nPositive
        <5>2. x(K) \in 0..(n - 1)
          BY <1>2, <5>1, nPositive
        <5>3. x(K) % n = x(K)
          BY <5>2, nPositive, ModSmall
        <5>4. x(K) = xcoord[K]
          BY <1>2, ScalarType DEF x
        <5>5. xcoord[K] = r_b
          BY <1>2, <5>3, <5>4
        <5> HIDE DEF K, Q, s0
        <5>6. verify(Q, data_b.z, r_b, LowS(s0))
          BY <1>2, <2>1, <5>5, LowSVerifies
        <5>7. QED
          BY <1>1, <1>2, <2>1, <3>1, <3>3, <5>6
      <4>4. HonestOutcome' /\ OpenIsExact'
        <5>1. x((kb' * ks') % n) = x(K)
          BY <1>1
        <5>2. QED
          BY <4>1, <4>3, <5>1 DEF HonestOutcome, OpenIsExact, x
      <4>5. Inner'
        BY <4>1 DEF Inner, Modulus, Shared, GivenData, Nonce, NoWrap, Accepted,
           Keyed, Nonced, Computed
      <4>6. QED
        BY <4>2, <4>4, <4>5 DEF IInv
    <3>4. QED
      BY <3>2, <3>3
  <2>5. QED
    BY <2>3, <2>4
<1>7. QED
  BY <1>5, <1>6

LEMMA cheatStep == IInv /\ cheat => IInv'
<1> SUFFICES ASSUME IInv, cheat PROVE IInv'
  OBVIOUS
<1>1. /\ pc = "signed" /\ r' \in 1..n /\ s' \in 1..n /\ cheated'
      /\ UNCHANGED <<pc, error, N, ds, db, Q_s, Q_b, data_s, data_b, ks, kb, u, r_b,
                     cb, open_verified>>
  BY DEF cheat
<1>2. TypeOK'
  BY <1>1, nPositive DEF IInv, TypeOK, cheat
<1>3. Inner'
  BY <1>1 DEF IInv, Inner, Modulus, Shared, GivenData, Nonce, NoWrap, Accepted,
     Keyed, Nonced, Computed
<1>4. HonestOutcome' /\ OpenIsExact'
  BY <1>1 DEF HonestOutcome, OpenIsExact
<1>5. QED
  BY <1>2, <1>3, <1>4 DEF IInv

LEMMA openStep == IInv /\ open => IInv'
<1> SUFFICES ASSUME IInv, open PROVE IInv'
  OBVIOUS
<1>1. /\ pc = "signed" /\ pc' = "opened" /\ error' = error
      /\ open_verified' = verify(Q_b, data_b.z, r, s)
      /\ UNCHANGED <<N, ds, db, Q_s, Q_b, data_s, data_b, ks, kb, u, r_b, cb, r, s,
                     cheated>>
  BY DEF open, Continue
<1>2. TypeOK'
  <2>1. open_verified' \in BOOLEAN
    BY <1>1 DEF verify
  <2>2. QED
    BY <1>1, <2>1 DEF IInv, TypeOK
<1>3. Inner'
  BY <1>1 DEF IInv, Inner, Modulus, Shared, GivenData, Nonce, NoWrap, Accepted,
     Keyed, Nonced, Computed
<1>4. HonestOutcome'
  BY <1>1 DEF HonestOutcome
<1>5. OpenIsExact'
  <2>1. /\ Q_b = (ds * db) % n /\ Q_b = Q_s /\ Q_b \in 0..(n - 1)
        /\ data_b \in Message /\ r \in 0..n /\ s \in 0..n
    BY <1>1 DEF IInv, Inner, Shared, TypeOK, Keyed, Nonced, Computed
  <2>2. r \in Int /\ s \in Int /\ data_b.z \in Nat
    BY <2>1, nPositive DEF Message
  <2>3. verify(Q_b, data_b.z, r, s) => IsSignature((ds * db) % n, data_b.z, r, s)
    BY <2>1, <2>2, VerifySound
  <2>4. ~cheated => verify(Q_b, data_b.z, r, s)
    BY <1>1, <2>1 DEF IInv, Inner, Accepted
  <2>5. QED
    BY <1>1, <2>3, <2>4 DEF OpenIsExact, IsSignature
<1>6. QED
  BY <1>2, <1>3, <1>4, <1>5 DEF IInv

LEMMA IInvStep == IInv /\ [Next]_vars => IInv'
<1> SUFFICES ASSUME IInv, [Next]_vars PROVE IInv'
  OBVIOUS
<1>1. CASE Next
  BY <1>1, BctorStep, initStep, set_dataStep, start_sigStep, cont_sigStep,
     finish_sigStep, cheatStep, openStep DEF Next
<1>2. CASE UNCHANGED vars
  <2>1. TypeOK'
    BY <1>2 DEF vars, IInv, TypeOK
  <2>2. Inner'
    BY <1>2 DEF vars, IInv, Inner, Modulus, Shared, GivenData, Nonce, NoWrap,
       Accepted, Keyed, Nonced, Computed
  <2>3. HonestOutcome' /\ OpenIsExact'
    BY <1>2 DEF vars, IInv, HonestOutcome, OpenIsExact
  <2>4. QED
    BY <2>1, <2>2, <2>3 DEF IInv
<1>3. QED
  BY <1>1, <1>2

-----------------------------------------------------------------------------
(* The theorems.                                                           *)

\* SharedSignature keeps the invariant in every reachable state.
THEOREM Invariance == Spec => []IInv
BY IInvInit, IInvStep, PTL DEF Spec

\* Every variable keeps its type, for every group and modulus.
THEOREM TypeCorrect == Spec => []TypeOK
<1>1. IInv => TypeOK
  BY DEF IInv
<1>2. QED
  BY <1>1, Invariance, PTL

\* The plaintext of cont_sig never wraps modulo the Paillier modulus: B's
\* check in her constructor is enough for every group order.
THEOREM PlaintextNeverWraps == Spec => []NoWrap
<1>1. IInv => NoWrap
  BY DEF IInv, Inner
<1>2. QED
  BY <1>1, Invariance, PTL

\* A signature that finish_sig lets through satisfies the equation of ECDSA
\* under the shared key and is in its lower form.
THEOREM SignatureSound == Spec => []SignatureIsValid
<1>1. IInv => SignatureIsValid
  <2> SUFFICES ASSUME IInv, pc = "signed", ~cheated
               PROVE  IsSignature((ds * db) % n, data_b.z, r, s) /\ s <= n - s
    BY DEF SignatureIsValid
  <2>1. /\ Q_s = (ds * db) % n /\ Q_s \in 0..(n - 1)
        /\ data_b \in Message /\ r \in 0..n /\ s \in 0..n
        /\ verify(Q_s, data_b.z, r, s) /\ s <= n - s
    BY DEF IInv, Inner, Shared, Accepted, TypeOK, Keyed, Nonced, Computed
  <2>2. r \in Int /\ s \in Int /\ data_b.z \in Nat
    BY <2>1, nPositive DEF Message
  <2>3. QED
    BY <2>1, <2>2, VerifySound
<1>2. QED
  BY <1>1, Invariance, PTL

\* An honest run ends in a signature or for one of the four reasons.
THEOREM HonestCompleteness == Spec => []HonestOutcome
<1>1. IInv => HonestOutcome
  BY DEF IInv
<1>2. QED
  BY <1>1, Invariance, PTL

\* open accepts exactly signatures under the shared key from a seller that
\* may show anything, and never refuses an honest one.
THEOREM OpeningExact == Spec => []OpenIsExact
<1>1. IInv => OpenIsExact
  BY DEF IInv
<1>2. QED
  BY <1>1, Invariance, PTL

-----------------------------------------------------------------------------
(* Paillier: powers and products modulo the square of M.                   *)

\* Multiples of M only count modulo M, once they are looked at modulo M * M.
LEMMA MultipleInSquare ==
  ASSUME NEW M \in Nat, M > 0, NEW a \in Int
  PROVE  (1 + (a % M) * M) % (M * M) = (1 + a * M) % (M * M)
<1> DEFINE k == a \div M
           m == a % M
           S == M * M
<1>1. k \in Int /\ m \in Int /\ a = M * k + m
  BY DivMod
<1>2. S \in Nat /\ S > 0
  OBVIOUS
<1> HIDE DEF k, m
<1>3. 1 + a * M = (1 + m * M) + S * k
  BY <1>1
<1>4. 1 + m * M \in Int
  BY <1>1
<1> HIDE DEF S
<1>5. ((1 + m * M) + S * k) % S = (1 + m * M) % S
  BY <1>1, <1>2, <1>4, ModShift
<1>6. QED
  BY <1>3, <1>5 DEF S, m

\* Two numbers that are 1 modulo M are multiplied by adding.
LEMMA TimesOnePlus ==
  ASSUME NEW M \in Nat, M > 0, NEW a \in Int, NEW b \in Int
  PROVE  ((1 + a * M) * (1 + b * M)) % (M * M) = (1 + (a + b) * M) % (M * M)
<1> DEFINE S == M * M
           num == 1 + (a + b) * M
           k == a * b
<1>1. S \in Nat /\ S > 0 /\ num \in Int /\ k \in Int
  OBVIOUS
<1>2. (1 + a * M) * (1 + b * M) = num + S * k
  OBVIOUS
<1> HIDE DEF S, num, k
<1>3. (num + S * k) % S = num % S
  BY <1>1, ModShift
<1>4. QED
  BY <1>2, <1>3 DEF S, num

\* ... and raised to powers by multiplying.
LEMMA PowerOfOnePlus ==
  ASSUME NEW M \in Nat, M > 0, NEW a \in Int, NEW t \in Nat
  PROVE  ExpMod(1 + a * M, t, M * M) = (1 + (a * t) * M) % (M * M)
<1> DEFINE S == M * M
           num == 1 + a * M
           T == {i \in Nat : ExpMod(num, i, S) = (1 + (a * i) * M) % S}
<1>1. S \in Nat /\ S > 0 /\ num \in Int
  OBVIOUS
<1>2. 0 \in T
  <2>1. ExpMod(num, 0, S) = 1 % S
    BY <1>1, ExpModZero
  <2>2. 1 + (a * 0) * M = 1
    OBVIOUS
  <2>3. QED
    BY <2>1, <2>2
<1>3. ASSUME NEW i \in Nat, i \in T PROVE i + 1 \in T
  <2> DEFINE z == 1 + (a * i) * M
             e == ExpMod(num, i, S)
  <2>1. ExpMod(num, i + 1, S) = (e * num) % S
    BY <1>1, ExpModNext
  <2>2. e = z % S /\ e \in Int /\ z \in Int
    BY <1>1, <1>3, ExpModType
  <2>3. (e * num) % S = (z * num) % S
    <3> HIDE DEF e, z, num, S
    <3>1. ((z % S) * num) % S = (z * num) % S
      BY <1>1, <2>2, ModTimes
    <3>2. QED
      BY <2>2, <3>1
  <2>4. (z * num) % S = (1 + (a * i + a) * M) % S
    <3> DEFINE b == a * i
    <3>1. b \in Int
      OBVIOUS
    <3> HIDE DEF b
    <3>2. ((1 + b * M) * (1 + a * M)) % (M * M) = (1 + (b + a) * M) % (M * M)
      BY <3>1, TimesOnePlus
    <3>3. QED
      BY <3>2 DEF b
  <2>5. a * i + a = a * (i + 1)
    OBVIOUS
  <2>6. i + 1 \in Nat
    OBVIOUS
  <2>7. QED
    BY <2>1, <2>3, <2>4, <2>5, <2>6
<1>4. \A i \in Nat : i \in T
  <2> HIDE DEF T
  <2>1. QED
    BY <1>2, <1>3, SetInduction
<1>5. t \in T
  BY <1>4
<1>6. QED
  BY <1>5

\* A ciphertext of m modulo M, blinded by rho.
Cipher(m, rho, M) == ((1 + m * M) * ExpMod(rho, M, M * M)) % (M * M)

LEMMA CipherType ==
  ASSUME NEW M \in Nat, M > 0, NEW m \in Int, NEW rho \in Int
  PROVE  Cipher(m, rho, M) \in 0..(M * M - 1)
<1> DEFINE S == M * M
           num == (1 + m * M) * ExpMod(rho, M, S)
<1>1. S \in Nat /\ S > 0
  OBVIOUS
<1>2. num \in Int
  BY <1>1, ExpModType
<1> HIDE DEF S, num
<1>3. num % S \in 0..(S - 1)
  BY <1>1, <1>2, DivMod
<1>4. QED
  BY <1>3 DEF S, num, Cipher

\* A ciphertext only depends on the residue of its plaintext.
LEMMA CipherReduced ==
  ASSUME NEW M \in Nat, M > 0, NEW m \in Int, NEW rho \in Int
  PROVE  /\ m % M \in 0..(M - 1)
         /\ Cipher(m % M, rho, M) = Cipher(m, rho, M)
         /\ Cipher(m, rho, M) = (((1 + m * M) % (M * M)) * ExpMod(rho, M, M * M)) % (M * M)
<1> DEFINE S == M * M
           w == m % M
           num == 1 + w * M
           z == 1 + m * M
           e == ExpMod(rho, M, S)
<1>1. S \in Nat /\ S > 0 /\ w \in 0..(M - 1)
  BY DivMod
<1>2. w \in Int /\ num \in Int /\ z \in Int /\ e \in Int
  BY <1>1, ExpModType
<1>3. num % S = z % S
  BY MultipleInSquare
<1> HIDE DEF S, w, num, z, e
<1>4. ((num % S) * e) % S = (num * e) % S
  BY <1>1, <1>2, ModTimes
<1>5. ((z % S) * e) % S = (z * e) % S
  BY <1>1, <1>2, ModTimes
<1>6. QED
  BY <1>1, <1>3, <1>4, <1>5 DEF Cipher, S, w, num, z, e

\* The product of two ciphertexts.
Product(num, z, M) == (num * z) % (M * M)

\* The product of two ciphertexts is one of the sum.
LEMMA CipherTimes ==
  ASSUME NEW M \in Nat, M > 0, NEW a \in Int, NEW b \in Int, NEW rho \in Int, NEW t \in Int
  PROVE  Product(Cipher(a, rho, M), Cipher(b, t, M), M) = Cipher((a + b) % M, rho * t, M)
<1> DEFINE S == M * M
           num == 1 + a * M
           z == 1 + b * M
           res == a + b
           d == ExpMod(rho, M, S)
           e == ExpMod(t, M, S)
           f == ExpMod(rho * t, M, S)
<1>1. S \in Nat /\ S > 0 /\ num \in Int /\ z \in Int /\ res \in Int /\ rho * t \in Int
  OBVIOUS
<1>2. d \in Int /\ e \in Int /\ f \in Int
  BY <1>1, ExpModType
<1>3. (num * z) % S = (1 + res * M) % S
  BY TimesOnePlus
<1>4. (d * e) % S = f
  BY <1>1, ExpModProduct
<1>5. Cipher(res % M, rho * t, M) = (((1 + res * M) % S) * f) % S
  <2> DEFINE rt == rho * t
  <2>1. rt \in Int
    OBVIOUS
  <2> HIDE DEF rt, res
  <2>2. Cipher(res % M, rt, M) = Cipher(res, rt, M)
    BY ONLY M \in Nat, M > 0, <1>1, <2>1, CipherReduced
  <2>3. Cipher(res, rt, M) = (((1 + res * M) % (M * M)) * ExpMod(rt, M, M * M)) % (M * M)
    BY ONLY M \in Nat, M > 0, <1>1, <2>1, CipherReduced
  <2>4. QED
    BY <2>2, <2>3 DEF rt
<1>6. Cipher(a, rho, M) = (num * d) % S /\ Cipher(b, t, M) = (z * e) % S
  BY DEF Cipher
<1> HIDE DEF S, num, z, res, d, e, f
<1>7. (((num * d) % S) * ((z * e) % S)) % S = (((num * z) % S) * ((d * e) % S)) % S
  <2> DEFINE xd == num * d
             ze == z * e
             xz == num * z
             de == d * e
  <2>1. xd \in Int /\ ze \in Int /\ xz \in Int /\ de \in Int /\ xd * ze = xz * de
    BY <1>1, <1>2
  <2> HIDE DEF xd, ze, xz, de
  <2>2. ((xd % S) * (ze % S)) % S = (xd * ze) % S
    BY <1>1, <2>1, ModBoth
  <2>3. ((xz % S) * (de % S)) % S = (xz * de) % S
    BY <1>1, <2>1, ModBoth
  <2>4. QED
    BY <2>1, <2>2, <2>3 DEF xd, ze, xz, de
<1>8. (Cipher(a, rho, M) * Cipher(b, t, M)) % S = Cipher(res % M, rho * t, M)
  BY <1>3, <1>4, <1>5, <1>6, <1>7
<1>9. QED
  BY <1>8 DEF S, res, Product

\* A power of a ciphertext is one of a multiple.
LEMMA CipherPower ==
  ASSUME NEW M \in Nat, M > 0, NEW a \in Int, NEW rho \in Int, NEW t \in Nat
  PROVE  ExpMod(Cipher(a, rho, M), t, M * M) = Cipher((a * t) % M, ExpMod(rho, t, M * M), M)
<1> DEFINE S == M * M
           num == 1 + a * M
           res == a * t
           d == ExpMod(rho, M, S)
           w == ExpMod(rho, t, S)
           e == ExpMod(w, M, S)
<1>1. S \in Nat /\ S > 0 /\ num \in Int /\ res \in Int
  OBVIOUS
<1>2. d \in Int /\ w \in Int
  BY <1>1, ExpModType
<1>3. e \in Int
  <2> HIDE DEF w
  <2>1. QED
    BY <1>1, <1>2, ExpModType
<1>4. ExpMod(num, t, S) = (1 + res * M) % S
  BY PowerOfOnePlus
<1>5. ExpMod(d, t, S) = e
  <2>1. ExpMod(ExpMod(rho, M, S), t, S) = ExpMod(rho, M * t, S)
    <3> HIDE DEF S
    <3>1. QED
      BY <1>1, ExpModPower
  <2>2. ExpMod(ExpMod(rho, t, S), M, S) = ExpMod(rho, t * M, S)
    <3> HIDE DEF S
    <3>1. QED
      BY <1>1, ExpModPower
  <2>3. M * t = t * M
    OBVIOUS
  <2>4. QED
    BY <2>1, <2>2, <2>3
<1>6. Cipher(res % M, w, M) = (((1 + res * M) % S) * e) % S
  <2> HIDE DEF w, res
  <2>1. Cipher(res % M, w, M) = Cipher(res, w, M)
    BY ONLY M \in Nat, M > 0, <1>1, <1>2, CipherReduced
  <2>2. Cipher(res, w, M) = (((1 + res * M) % (M * M)) * ExpMod(w, M, M * M)) % (M * M)
    BY ONLY M \in Nat, M > 0, <1>1, <1>2, CipherReduced
  <2>3. QED
    BY <2>1, <2>2
<1>7. Cipher(a, rho, M) = (num * d) % S
  BY DEF Cipher
<1> HIDE DEF S, num, res, d, e, w
<1>8. ExpMod((num * d) % S, t, S) = ExpMod(num * d, t, S)
  <2> DEFINE xd == num * d
             m == xd % S
  <2>1. xd \in Int
    BY <1>1, <1>2
  <2> HIDE DEF xd
  <2>2. m \in Int /\ m % S = xd % S
    BY <1>1, <2>1, DivMod, ModMod
  <2> HIDE DEF m
  <2>3. ExpMod(m, t, S) = ExpMod(xd, t, S)
    BY <1>1, <2>1, <2>2, ExpModBase
  <2>4. QED
    BY <2>3 DEF m, xd
<1>9. ExpMod(num * d, t, S) = (ExpMod(num, t, S) * ExpMod(d, t, S)) % S
  BY <1>1, <1>2, ExpModProduct
<1>10. ExpMod(Cipher(a, rho, M), t, S) = Cipher(res % M, w, M)
  BY <1>4, <1>5, <1>6, <1>7, <1>8, <1>9
<1>11. QED
  BY <1>10 DEF S, res, w

\* What enc computes.
LEMMA EncIsCipher ==
  ASSUME NEW M \in Nat, M > 0, NEW m \in Nat, NEW rho \in Int
  PROVE  (ExpMod(M + 1, m, M * M) * ExpMod(rho, M, M * M)) % (M * M) = Cipher(m, rho, M)
<1> DEFINE a == 1
<1>0. a \in Int
  OBVIOUS
<1> HIDE DEF a
<1>1. ExpMod(1 + a * M, m, M * M) = (1 + (a * m) * M) % (M * M)
  BY <1>0, PowerOfOnePlus
<1>2. 1 + a * M = M + 1 /\ a * m = m /\ m \in Int
  BY DEF a
<1>3. Cipher(m, rho, M) = (((1 + m * M) % (M * M)) * ExpMod(rho, M, M * M)) % (M * M)
  BY <1>2, CipherReduced
<1>4. QED
  BY <1>1, <1>2, <1>3

\* The primes of a key pair divide a ciphertext exactly if they divide what blinds it.
LEMMA CipherDivisible ==
  ASSUME NEW p, NEW q, IsPrime(p), IsPrime(q), NEW m \in Int, NEW rho \in Int
  PROVE  /\ Cipher(m, rho, p * q) % p = 0 <=> rho % p = 0
         /\ Cipher(m, rho, p * q) % q = 0 <=> rho % q = 0
<1> DEFINE M == p * q
           S == M * M
           e == ExpMod(rho, M, S)
           num == 1 + m * M
<1>1. p \in Nat /\ q \in Nat /\ p > 1 /\ q > 1 /\ p > 0 /\ q > 0
  BY DEF IsPrime
<1>2. M \in Nat /\ M > 0
  BY <1>1
<1>3. S \in Nat /\ S > 0 /\ num \in Int
  <2> HIDE DEF M
  <2>1. QED
    BY <1>2
<1>4. e \in Int
  <2> HIDE DEF M, S
  <2>1. QED
    BY <1>2, <1>3, ExpModType
<1>5. ASSUME NEW d, IsPrime(d), NEW k \in Nat, M = d * k
      PROVE  ((num * e) % S) % d = 0 <=> rho % d = 0
  <2>1. d \in Nat /\ d > 1 /\ d > 0
    BY <1>5 DEF IsPrime
  <2>2. k * M \in Nat /\ S = d * (k * M)
    <3>1. S = M * M
      OBVIOUS
    <3> HIDE DEF M
    <3>2. M * M = (d * k) * M /\ (d * k) * M = d * (k * M)
      BY <1>2, <1>5, <2>1
    <3>3. QED
      BY <1>2, <3>1, <3>2
  <2>3. e % d = ExpMod(rho, M, d)
    <3> DEFINE f == k * M
    <3>1. f \in Nat /\ S = d * f
      BY <2>2
    <3> HIDE DEF f, M, S
    <3>2. QED
      BY <1>2, <1>3, <2>1, <3>1, ExpModDivisor
  <2>4. num % d = 1
    <3>1. num = d * (k * m) + 1
      <4>1. num = 1 + m * M
        OBVIOUS
      <4> HIDE DEF M
      <4>2. m * M = m * (d * k) /\ m * (d * k) = d * (k * m)
        BY <1>5, <2>1
      <4>3. QED
        BY <2>1, <4>1, <4>2
    <3> DEFINE h == k * m
    <3>2. h \in Int /\ 1 \in 0..(d - 1) /\ num = d * h + 1
      BY <2>1, <3>1
    <3> HIDE DEF h, num
    <3>3. QED
      BY <1>3, <2>1, <3>2, ModUnique
  <2>5. ((num * e) % S) % d = e % d
    <3> DEFINE f == k * M
               xe == num * e
    <3>1. f \in Nat /\ S = d * f /\ xe \in Int
      BY <1>3, <1>4, <2>2
    <3>2. (num * e) % d = ((num % d) * e) % d
      <4> HIDE DEF num, e
      <4>1. QED
        BY <1>3, <1>4, <2>1, ModTimes
    <3>3. (xe % S) % d = xe % d
      <4> HIDE DEF f, S, xe
      <4>1. QED
        BY <1>3, <2>1, <3>1, ModDivisor
    <3>4. 1 * e = e
      BY <1>4
    <3> HIDE DEF f, S, num, e
    <3>5. QED
      BY <2>4, <3>2, <3>3, <3>4
  <2>6. ASSUME rho % d = 0 PROVE ExpMod(rho, M, d) = 0
    <3> HIDE DEF M
    <3>1. QED
      BY <1>2, <2>1, <2>6, ExpModOfZero
  <2>7. ASSUME rho % d # 0 PROVE ExpMod(rho, M, d) # 0
    <3> HIDE DEF M
    <3>1. QED
      BY <1>2, <1>5, <2>7, PrimeDividesPower
  <2>8. QED
    BY <2>3, <2>5, <2>6, <2>7
<1>6. Cipher(m, rho, M) = (num * e) % S
  BY DEF Cipher
<1>7. M = p * q /\ M = q * p
  BY <1>1
<1>8. Cipher(m, rho, M) % p = 0 <=> rho % p = 0
  <2> HIDE DEF M, S, num, e
  <2>1. QED
    BY <1>1, <1>5, <1>6, <1>7
<1>9. Cipher(m, rho, M) % q = 0 <=> rho % q = 0
  <2> HIDE DEF M, S, num, e
  <2>1. QED
    BY <1>1, <1>5, <1>6, <1>7
<1>10. QED
  BY <1>8, <1>9

\* Raising to the order of the group takes the blinding away.
LEMMA Unblinded ==
  ASSUME NEW p, NEW q, IsPrime(p), IsPrime(q), p # q,
         NEW rho \in Int, rho % p # 0, rho % q # 0
  PROVE  ExpMod(ExpMod(rho, (p - 1) * (q - 1), (p * q) * (p * q)), p * q, (p * q) * (p * q)) = 1
<1> DEFINE M == p * q
           S == M * M
           h == (p - 1) * (q - 1)
           w == ExpMod(rho, h, S)
<1>1. p \in Nat /\ q \in Nat /\ p > 1 /\ q > 1 /\ p - 1 \in Nat /\ q - 1 \in Nat
  BY DEF IsPrime
<1>2. M \in Nat /\ M > 1
  BY <1>1
<1>3. S \in Nat /\ S > 0 /\ S > 1
  <2> HIDE DEF M
  <2>1. S > 1
    BY <1>2
  <2>2. QED
    BY <1>2, <2>1
<1>4. h \in Nat
  <2> DEFINE p1 == p - 1
             q1 == q - 1
  <2>1. p1 \in Nat /\ q1 \in Nat
    BY <1>1
  <2> HIDE DEF p1, q1
  <2>2. p1 * q1 \in Nat
    BY <2>1
  <2>3. QED
    BY <2>2 DEF p1, q1
<1>5. ExpMod(rho, h, M) = 1
  <2>1. ExpMod(rho, h * 1 + 0, M) = ExpMod(rho, 0, M)
    <3>1. 1 \in Nat /\ 0 \in Nat
      OBVIOUS
    <3>2. QED
      BY <3>1, EulerPeriod
  <2>2. h * 1 + 0 = h
    BY <1>4
  <2>3. ExpMod(rho, 0, M) = 1 % M /\ 1 % M = 1
    <3> HIDE DEF M
    <3>1. 1 \in 0..(M - 1) /\ M > 0
      BY <1>2
    <3>2. QED
      BY <1>2, <3>1, ExpModZero, ModSmall
  <2>4. QED
    BY <2>1, <2>2, <2>3
<1> HIDE DEF h
<1>6. w \in Int /\ w % M = 1
  <2> HIDE DEF S
  <2>1. w \in Int
    BY <1>3, <1>4, ExpModType
  <2>2. S = M * M
    BY DEF S
  <2> HIDE DEF M
  <2>3. ExpMod(rho, h, S) % M = ExpMod(rho, h, M)
    BY <1>2, <1>3, <1>4, <2>2, ExpModDivisor
  <2>4. QED
    BY <1>5, <2>1, <2>3
<1> HIDE DEF w
<1>7. PICK j \in Int : w = 1 + j * M
  <2> HIDE DEF M, S
  <2> DEFINE k == w \div M
  <2>1. k \in Int /\ w = M * k + (w % M)
    BY <1>2, <1>6, DivMod
  <2>2. w = 1 + k * M
    BY <1>2, <1>6, <2>1
  <2>3. QED
    BY <2>1, <2>2
<1>8. ExpMod(1 + j * M, M, M * M) = (1 + (j * M) * M) % (M * M)
  <2>1. M > 0
    BY <1>2
  <2> HIDE DEF M
  <2>2. QED
    BY <1>2, <2>1, PowerOfOnePlus
<1>9. (1 + (j * M) * M) % S = 1
  <2>1. 1 + (j * M) * M = S * j + 1
    <3> HIDE DEF M
    <3>1. QED
      BY <1>2
  <2> DEFINE z == 1 + (j * M) * M
  <2>2. z \in Int
    <3> HIDE DEF M
    <3>1. QED
      BY <1>2
  <2>3. z = S * j + 1
    BY <2>1
  <2> HIDE DEF z, S
  <2>4. 1 \in 0..(S - 1)
    BY <1>3
  <2>5. z % S = 1
    BY <1>3, <2>2, <2>3, <2>4, ModUnique
  <2>6. QED
    BY <2>5 DEF z
<1>10. ExpMod(w, M, S) = 1
  BY <1>7, <1>8, <1>9
<1>11. QED
  BY <1>10 DEF w, h

\* Neither prime divides the other one less 1, so the owner's u exists.
LEMMA OrderInvertible ==
  ASSUME NEW p, NEW q, IsPrime(p), IsPrime(q), p # q, (p - 1) % q # 0, (q - 1) % p # 0
  PROVE  LET h == (p - 1) * (q - 1)
         IN  /\ h \in Nat /\ InverseMod(h, p * q) \in Int
             /\ (h * InverseMod(h, p * q)) % (p * q) = 1
<1> DEFINE M == p * q
           h == (p - 1) * (q - 1)
           p1 == p - 1
           q1 == q - 1
<1>1. p \in Nat /\ q \in Nat /\ p > 1 /\ q > 1 /\ p > 0 /\ q > 0 /\ p1 \in Nat /\ q1 \in Nat
      /\ p1 > 0 /\ q1 > 0 /\ p1 \in 0..(p - 1) /\ q1 \in 0..(q - 1)
  BY DEF IsPrime
<1>2. M \in Nat /\ M > 1 /\ M > 0
  BY <1>1
<1>3. h = p1 * q1 /\ p1 % q # 0 /\ q1 % p # 0
  OBVIOUS
<1>4. p1 % p = p1 /\ q1 % q = q1
  BY <1>1, ModSmall
<1> HIDE DEF p1, q1, h
<1>5. h \in Nat /\ h > 0 /\ h - 1 \in Nat
  <2>1. p1 * q1 > 0 /\ p1 * q1 \in Nat
    BY <1>1
  <2>2. QED
    BY <1>3, <2>1
<1>6. h % p # 0 /\ h % q # 0
  <2>1. p1 \in Int /\ q1 \in Int /\ p1 % p # 0 /\ q1 % q # 0
    BY <1>1, <1>4
  <2>2. (p1 * q1) % p # 0
    BY <1>3, <2>1, Euclid
  <2>3. (p1 * q1) % q # 0
    BY <1>3, <2>1, Euclid
  <2>4. QED
    BY <1>3, <2>2, <2>3
<1>7. ExpMod(h, h, M) = 1
  <2>1. ExpMod(h, ((p - 1) * (q - 1)) * 1 + 0, p * q) = ExpMod(h, 0, p * q)
    <3>1. 1 \in Nat /\ 0 \in Nat /\ h \in Int
      BY <1>5
    <3>2. QED
      BY <1>6, <3>1, EulerPeriod
  <2>2. ((p - 1) * (q - 1)) * 1 + 0 = h
    BY <1>5 DEF h
  <2>3. ExpMod(h, 0, M) = 1 % M /\ 1 % M = 1
    <3> HIDE DEF M
    <3>1. 1 \in 0..(M - 1) /\ h \in Int
      BY <1>2, <1>5
    <3>2. QED
      BY <1>2, <3>1, ExpModZero, ModSmall
  <2>4. QED
    BY <2>1, <2>2, <2>3
<1> DEFINE w == ExpMod(h, h - 1, M)
<1> HIDE DEF M
<1>8. (w * h) % M = 1 /\ w \in 0..(M - 1) /\ w \in Int
  <2> DEFINE k == h - 1
  <2>1. k \in Nat /\ k + 1 = h /\ h \in Int
    BY <1>5
  <2> HIDE DEF k
  <2>2. ExpMod(h, k + 1, M) = (ExpMod(h, k, M) * h) % M
    BY <1>2, <2>1, ExpModNext
  <2>3. ExpMod(h, k, M) \in 0..(M - 1) /\ ExpMod(h, k, M) \in Int
    BY <1>2, <2>1, ExpModType
  <2>4. QED
    BY <1>7, <2>1, <2>2, <2>3 DEF k
<1> HIDE DEF w
<1>9. w # 0
  <2>1. 0 * h = 0 /\ 0 % M = 0
    BY <1>2, <1>5
  <2>2. QED
    BY <1>8, <2>1
<1>10. w \in 1..(M - 1) /\ h * w = w * h
  BY <1>2, <1>5, <1>8, <1>9
<1>11. \E v \in 1..(M - 1) : (h * v) % M = 1
  BY <1>8, <1>10
<1>12. InverseMod(h, M) \in 1..(M - 1) /\ (h * InverseMod(h, M)) % M = 1
  BY <1>11 DEF InverseMod
<1>13. QED
  BY <1>2, <1>5, <1>12 DEF h, M

\* What dec computes from a ciphertext it does not refuse.
LEMMA Decrypts ==
  ASSUME NEW p, NEW q, IsPrime(p), IsPrime(q), p # q, (p - 1) % q # 0, (q - 1) % p # 0,
         NEW m \in 0..(p * q - 1), NEW rho \in Int, rho % p # 0, rho % q # 0
  PROVE  LET h == (p - 1) * (q - 1)
             num == ExpMod(Cipher(m, rho, p * q), h, (p * q) * (p * q))
         IN  (((num - 1) \div (p * q)) * InverseMod(h, p * q)) % (p * q) = m
<1> DEFINE M == p * q
           S == M * M
           h == (p - 1) * (q - 1)
           inv == InverseMod(h, M)
           w == ExpMod(rho, h, S)
           res == (m * h) % M
           num == ExpMod(Cipher(m, rho, M), h, S)
<1>1. p \in Nat /\ q \in Nat /\ p > 1 /\ q > 1
  BY DEF IsPrime
<1>2. M \in Nat /\ M > 0 /\ m \in 0..(M - 1) /\ m \in Int
  BY <1>1
<1>3. h \in Nat /\ inv \in Int /\ (h * inv) % M = 1
  BY OrderInvertible
<1>4. ExpMod(w, M, S) = 1
  BY Unblinded
<1> HIDE DEF M, h, inv
<1>5. S \in Nat /\ S > 0
  BY <1>2
<1>6. num = Cipher(res, w, M)
  BY <1>2, <1>3, CipherPower
<1>7. res \in 0..(M - 1) /\ res \in Int
  <2> DEFINE mh == m * h
  <2>1. mh \in Int
    BY <1>2, <1>3
  <2> HIDE DEF mh
  <2>2. mh % M \in 0..(M - 1)
    BY <1>2, <2>1, DivMod
  <2>3. QED
    BY <1>2, <2>2 DEF mh
<1>8. Cipher(res, w, M) = ((1 + res * M) * 1) % S
  BY <1>4 DEF Cipher
<1> HIDE DEF res, w, num
<1>9. 1 + res * M \in 0..(S - 1) /\ (1 + res * M) * 1 = 1 + res * M /\ 1 + res * M \in Int
  <2>1. res * M \in Nat /\ res * M <= (M - 1) * M
    BY <1>2, <1>7
  <2>2. CASE M = 1
    <3>1. p * q > 1
      BY <1>1
    <3>2. QED
      BY <2>2, <3>1 DEF M
  <2>3. CASE M > 1
    <3>1. (M - 1) * M + 1 <= M * M - 1
      BY <1>2, <2>3
    <3>2. QED
      BY <1>2, <1>7, <2>1, <3>1
  <2>4. QED
    BY <1>2, <2>2, <2>3
<1>10. num = 1 + res * M
  <2> DEFINE z == 1 + res * M
  <2>1. z \in 0..(S - 1) /\ num = z % S
    BY <1>6, <1>8, <1>9
  <2> HIDE DEF z, S
  <2>2. z % S = z
    BY <1>5, <2>1, ModSmall
  <2>3. QED
    BY <2>1, <2>2 DEF z
<1>11. (num - 1) \div M = res
  <2> DEFINE z == num - 1
             k == z \div M
  <2>1. z \in Int /\ z = M * res
    BY <1>2, <1>7, <1>10
  <2> HIDE DEF z
  <2>2. k \in Int /\ z % M \in 0..(M - 1) /\ z = M * k + (z % M)
    BY <1>2, <2>1, DivMod
  <2>3. z % M = 0
    BY <1>2, <1>7, <2>1, Multiple
  <2> HIDE DEF k
  <2>4. M * res = M * k
    BY <1>2, <2>1, <2>2, <2>3
  <2>5. res = k
    BY <1>2, <1>7, <2>2, <2>4
  <2>6. QED
    BY <2>5 DEF k, z
<1>12. (res * inv) % M = m
  <2> DEFINE mh == m * h
             hu == h * inv
  <2>1. mh \in Int /\ hu \in Int /\ mh * inv = hu * m /\ 1 * m = m
    BY <1>2, <1>3
  <2>2. res = mh % M /\ hu % M = 1
    BY <1>3 DEF res
  <2> HIDE DEF mh, hu
  <2>3. ((mh % M) * inv) % M = (mh * inv) % M
    BY <1>2, <1>3, <2>1, ModTimes
  <2>4. ((hu % M) * m) % M = (hu * m) % M
    BY <1>2, <2>1, ModTimes
  <2>5. m % M = m
    BY <1>2, ModSmall
  <2>6. QED
    BY <2>1, <2>2, <2>3, <2>4, <2>5
<1>13. (((num - 1) \div M) * inv) % M = m
  BY <1>11, <1>12
<1>14. QED
  BY <1>13 DEF num, inv, h, M

\* c is a ciphertext of m, and what blinds it has the residue b.
IsCipher(c, m, b, M) ==
  /\ m \in 0..(M - 1) /\ b \in Int
  /\ \E rho \in Int : rho % M = b % M /\ c = Cipher(m, rho, M)

\* Another encryption, blinded by t, is multiplied to a ciphertext.
LEMMA CipherAdded ==
  ASSUME NEW M \in Nat, M > 1, NEW c, NEW a, NEW b, IsCipher(c, a, b, M),
         NEW m \in Nat, NEW t \in Int,
         NEW d, d = (c * ((ExpMod(M + 1, m, M * M) * ExpMod(t, M, M * M)) % (M * M))) % (M * M)
  PROVE  IsCipher(d, (a + m) % M, (b * t) % M, M)
<1>1. M > 0 /\ a \in Int /\ a \in 0..(M - 1) /\ b \in Int /\ m \in Int /\ a + m \in Int
  BY DEF IsCipher
<1>2. PICK rho \in Int : rho % M = b % M /\ c = Cipher(a, rho, M)
  BY DEF IsCipher
<1>3. (ExpMod(M + 1, m, M * M) * ExpMod(t, M, M * M)) % (M * M) = Cipher(m, t, M)
  BY <1>1, EncIsCipher
<1>4. d = Product(Cipher(a, rho, M), Cipher(m, t, M), M)
  BY <1>2, <1>3 DEF Product
<1>5. d = Cipher((a + m) % M, rho * t, M)
  <2>1. Product(Cipher(a, rho, M), Cipher(m, t, M), M) = Cipher((a + m) % M, rho * t, M)
    <3>1. M \in Nat /\ M > 0 /\ a \in Int /\ m \in Int /\ rho \in Int /\ t \in Int
      BY <1>1, <1>2
    <3>2. QED
      BY ONLY <3>1, CipherTimes, Zenon
  <2>2. QED
    BY <1>4, <2>1
<1> DEFINE rt == rho * t
           bt == b * t
<1>6. rt \in Int /\ bt \in Int
  BY <1>1
<1>7. rt % M = bt % M
  <2>1. ((rho % M) * t) % M = (rho * t) % M
    BY <1>1, ModTimes
  <2>2. ((b % M) * t) % M = (b * t) % M
    BY <1>1, ModTimes
  <2>3. QED
    BY <1>2, <2>1, <2>2
<1>8. (a + m) % M \in 0..(M - 1)
  BY <1>1, DivMod
<1> HIDE DEF rt, bt
<1>9. bt % M \in Int /\ (bt % M) % M = bt % M
  BY <1>1, <1>6, DivMod, ModMod
<1>10. QED
  BY <1>5, <1>6, <1>7, <1>8, <1>9 DEF IsCipher, rt, bt

\* A ciphertext is raised to a power.
LEMMA CipherScaled ==
  ASSUME NEW M \in Nat, M > 1, NEW c, NEW a, NEW b, IsCipher(c, a, b, M), NEW t \in Nat
  PROVE  IsCipher(ExpMod(c, t, M * M), (a * t) % M, ExpMod(b, t, M), M)
<1>1. M > 0 /\ a \in Int /\ b \in Int
  BY DEF IsCipher
<1>2. PICK rho \in Int : rho % M = b % M /\ c = Cipher(a, rho, M)
  BY DEF IsCipher
<1> DEFINE S == M * M
           w == ExpMod(rho, t, S)
           at == a * t
<1>3. S \in Nat /\ S > 0 /\ S = M * M /\ at \in Int
  BY <1>1
<1>4. ExpMod(c, t, S) = Cipher(at % M, w, M)
  BY <1>1, <1>2, CipherPower
<1> HIDE DEF S, at
<1>5. w \in Int /\ w % M = ExpMod(rho, t, M)
  BY <1>1, <1>3, ExpModType, ExpModDivisor
<1> HIDE DEF w
<1>6. ExpMod(rho, t, M) = ExpMod(b, t, M)
  BY <1>1, <1>2, ExpModBase
<1>7. ExpMod(b, t, M) \in Int /\ ExpMod(b, t, M) % M = ExpMod(b, t, M)
  BY <1>1, ExpModType, ExpModReduced
<1>8. at % M \in 0..(M - 1)
  BY <1>1, <1>3, DivMod
<1>9. IsCipher(ExpMod(c, t, S), at % M, ExpMod(b, t, M), M)
  BY <1>4, <1>5, <1>6, <1>7, <1>8 DEF IsCipher
<1>10. QED
  BY <1>9 DEF S, at

-----------------------------------------------------------------------------
(* Paillier: the computation on ciphertexts.                               *)

\* A pair of primes the constructor can have drawn.
IsKeyPair(p, q) ==
  IsPrime(p) /\ IsPrime(q) /\ p # q /\ (p - 1) % q # 0 /\ (q - 1) % p # 0

\* The object has no modulus, or that of a key pair.
PaillierKey == (pl_p = 0 /\ pl_q = 0) \/ IsKeyPair(pl_p, pl_q)

\* The ciphertext is one of the sum or multiple meant.
PaillierContent ==
  pl_p # 0 => IsCipher(pl_c, pl_plain, pl_blind, pl_p * pl_q)

\* What the control says about the outcome.
PaillierControl ==
  /\ pl_pc = "new" => pl_error = "none"
  /\ pl_p = 0 => /\ pl_pc # "decrypted"
                 /\ pl_error \notin {"c <= 0 || c >= n2", "c % p == 0 || c % q == 0"}

PaillierInv ==
  PaillierKey /\ PaillierContent /\ PaillierControl
    /\ PL!Homomorphic /\ PL!RefusedOnlyForBlinding

\* The moduli of a key pair.
LEMMA KeyPairModulus ==
  ASSUME NEW p, NEW q, IsKeyPair(p, q)
  PROVE  /\ p \in Nat /\ q \in Nat /\ p > 1 /\ q > 1 /\ p > 0 /\ q > 0
         /\ p * q \in Nat /\ p * q > 1 /\ p * q > 0
         /\ (p * q) * (p * q) \in Nat /\ (p * q) * (p * q) > 1
<1>1. p \in Nat /\ q \in Nat /\ p > 1 /\ q > 1 /\ p > 0 /\ q > 0
  BY DEF IsKeyPair, IsPrime
<1> DEFINE M == p * q
<1>2. M \in Nat /\ M > 1 /\ M > 0
  BY <1>1
<1> HIDE DEF M
<1>3. M * M \in Nat /\ M * M > 1
  BY <1>2
<1>4. QED
  BY <1>1, <1>2, <1>3 DEF M

\* What blinds a ciphertext shares its factors with the residue kept of it.
LEMMA SameFactors ==
  ASSUME NEW p, NEW q, IsKeyPair(p, q), NEW a \in Int, NEW b \in Int, a % (p * q) = b % (p * q)
  PROVE  a % p = b % p /\ a % q = b % q
<1> DEFINE M == p * q
<1>1. p \in Nat /\ q \in Nat /\ p > 0 /\ q > 0 /\ M \in Nat /\ M > 0 /\ M = p * q /\ M = q * p
      /\ a % M = b % M
  BY KeyPairModulus
<1> HIDE DEF M
<1>2. (a % M) % p = a % p /\ (b % M) % p = b % p
  BY <1>1, ModDivisor
<1>3. (a % M) % q = a % q /\ (b % M) % q = b % q
  BY <1>1, ModDivisor
<1>4. QED
  BY <1>1, <1>2, <1>3

LEMMA PaillierInit == PL!Init => PaillierInv
<1> SUFFICES ASSUME PL!Init PROVE PaillierInv
  OBVIOUS
<1>1. /\ pl_pc = "new" /\ pl_error = "none" /\ pl_c = 1 /\ pl_plain = 0 /\ pl_blind = 1
      /\ \/ pl_p = 0 /\ pl_q = 0
         \/ \E k \in KeyPairs : pl_p = k[1] /\ pl_q = k[2]
  BY DEF PL!Init
<1>2. PaillierKey
  <2>1. ASSUME NEW k \in KeyPairs, pl_p = k[1], pl_q = k[2] PROVE IsKeyPair(pl_p, pl_q)
    <3>1. /\ \A num \in {k[1], k[2]} : num \in Nat /\ num > 1 /\ \A t \in 2..(num - 1) : num % t # 0
          /\ k[1] # k[2] /\ (k[1] - 1) % k[2] # 0 /\ (k[2] - 1) % k[1] # 0
      BY PaillierAssumption DEF PL!ConstantsOK
    <3>2. IsPrime(pl_p) /\ IsPrime(pl_q)
      BY <2>1, <3>1 DEF IsPrime
    <3>3. QED
      BY <2>1, <3>1, <3>2 DEF IsKeyPair
  <2>2. QED
    BY <1>1, <2>1 DEF PaillierKey
<1>3. PaillierContent
  <2> SUFFICES ASSUME pl_p # 0 PROVE PaillierContent
    BY DEF PaillierContent
  <2> DEFINE M == pl_p * pl_q
             S == M * M
  <2>1. M \in Nat /\ M > 1 /\ M > 0 /\ S \in Nat /\ S > 1 /\ S > 0
    BY <1>2, KeyPairModulus DEF PaillierKey
  <2> HIDE DEF M, S
  <2>2. 1 \in Int /\ 1 \in 0..(S - 1)
    BY <2>1
  <2>3. 1 % S = 1 /\ ExpMod(1, M, S) = 1 % S
    BY <2>1, <2>2, ModSmall, ExpModOfOne
  <2>4. (1 + 0 * M) * 1 = 1
    BY <2>1
  <2>5. Cipher(0, 1, M) = 1
    BY <2>3, <2>4 DEF Cipher, S
  <2>6. 0 \in 0..(M - 1)
    BY <2>1
  <2>7. QED
    BY <1>1, <2>2, <2>5, <2>6 DEF PaillierContent, IsCipher, M
<1>4. QED
  BY <1>1, <1>2, <1>3 DEF PaillierInv, PaillierControl, PL!Homomorphic, PL!RefusedOnlyForBlinding

\* Paillier's powers and inverses are those of Modular.
LEMMA SameModular ==
  /\ \A a, b, c : PL!ExpMod(a, b, c) = ExpMod(a, b, c)
  /\ \A a, c : PL!InverseMod(a, c) = InverseMod(a, c)
<1>1. ASSUME NEW a, NEW b, NEW c PROVE PL!ExpMod(a, b, c) = ExpMod(a, b, c)
  BY DEF PL!ExpMod, ExpMod
<1>2. ASSUME NEW a, NEW c PROVE PL!InverseMod(a, c) = InverseMod(a, c)
  BY DEF PL!InverseMod, InverseMod
<1>3. QED
  BY <1>1, <1>2

LEMMA PaillierAdd == PaillierInv /\ PL!add => PaillierInv'
<1> SUFFICES ASSUME PaillierInv, PL!add PROVE PaillierInv'
  OBVIOUS
<1> DEFINE M == pl_p * pl_q
           S == M * M
<1>1. pl_pc = "new" /\ pl_error = "none" /\ pl_p' = pl_p /\ pl_q' = pl_q
  BY DEF PL!add, PaillierInv, PaillierControl
<1>2. PL!N = M /\ PL!n2 = S
  BY DEF PL!N, PL!n2
<1>3. PaillierKey'
  BY <1>1 DEF PaillierInv, PaillierKey
<1>4. PICK m \in {0, 1, M - 1, M} :
        \/ M = 0 /\ PL!Throw("not initialized") /\ UNCHANGED <<pl_c, pl_plain, pl_blind, pl_ops>>
        \/ /\ M # 0 /\ m >= M
           /\ PL!Throw("m >= N || m < 0 ")
           /\ UNCHANGED <<pl_c, pl_plain, pl_blind, pl_ops>>
        \/ /\ M # 0 /\ m < M
           /\ \E rho \in 1..M : /\ pl_c' = PL!times(pl_c, PL!enc(m, rho))
                               /\ pl_blind' = (pl_blind * rho) % M
           /\ pl_plain' = (pl_plain + m) % M
           /\ pl_ops' = pl_ops + 1
           /\ UNCHANGED <<pl_pc, pl_error>>
  BY <1>2 DEF PL!add
<1>5. \/ pl_pc' = "new" /\ pl_error' = "none" /\ pl_p # 0
      \/ pl_pc' = "thrown" /\ pl_error' \in {"not initialized", "m >= N || m < 0 "}
  <2>1. CASE PL!Throw("not initialized") \/ PL!Throw("m >= N || m < 0 ")
    BY <2>1 DEF PL!Throw
  <2>2. CASE M # 0 /\ UNCHANGED <<pl_pc, pl_error>>
    <3>1. pl_p # 0
      BY <2>2 DEF PaillierInv, PaillierKey, IsKeyPair, IsPrime
    <3>2. QED
      BY <1>1, <2>2, <3>1
  <2>3. QED
    BY <1>4, <2>1, <2>2
<1>6. PaillierControl'
  BY <1>1, <1>5 DEF PaillierControl
<1>7. PL!Homomorphic' /\ PL!RefusedOnlyForBlinding'
  BY <1>5 DEF PL!Homomorphic, PL!RefusedOnlyForBlinding
<1>8. PaillierContent'
  <2> SUFFICES ASSUME pl_p # 0 PROVE PaillierContent'
    BY <1>1 DEF PaillierContent
  <2>1. CASE UNCHANGED <<pl_c, pl_plain, pl_blind>>
    BY <1>1, <2>1 DEF PaillierInv, PaillierContent
  <2>2. ASSUME m < M, NEW t \in 1..M,
               pl_c' = PL!times(pl_c, PL!enc(m, t)), pl_blind' = (pl_blind * t) % M,
               pl_plain' = (pl_plain + m) % M
        PROVE  PaillierContent'
    <3>1. M \in Nat /\ M > 1 /\ M > 0 /\ IsCipher(pl_c, pl_plain, pl_blind, M)
      BY KeyPairModulus DEF PaillierInv, PaillierKey, PaillierContent
    <3>2. pl_c' = (pl_c * ((ExpMod(M + 1, m, M * M) * ExpMod(t, M, M * M)) % (M * M))) % (M * M)
      <4>1. PL!g = M + 1
        BY <1>2 DEF PL!g
      <4>2. PL!enc(m, t) = (ExpMod(M + 1, m, S) * ExpMod(t, M, S)) % S
        BY ONLY <1>2, <4>1, SameModular DEF PL!enc
      <4>3. \A a, b : PL!times(a, b) = (a * b) % S
        BY ONLY <1>2 DEF PL!times
      <4> HIDE DEF M
      <4>4. QED
        BY <2>2, <4>2, <4>3
    <3> HIDE DEF M
    <3>3. m \in Nat /\ t \in Int
      BY <2>2, <3>1
    <3>4. IsCipher(pl_c', pl_plain', pl_blind', M)
      BY ONLY <2>2, <3>1, <3>2, <3>3, CipherAdded
    <3>5. M' = M
      BY <1>1 DEF M
    <3>6. QED
      BY <3>4, <3>5 DEF PaillierContent, M
  <2>3. QED
    BY <1>4, <2>1, <2>2
<1>9. QED
  BY <1>3, <1>6, <1>7, <1>8 DEF PaillierInv

LEMMA PaillierScale == PaillierInv /\ PL!scale => PaillierInv'
<1> SUFFICES ASSUME PaillierInv, PL!scale PROVE PaillierInv'
  OBVIOUS
<1> DEFINE M == pl_p * pl_q
<1>1. /\ pl_pc = "new" /\ pl_error = "none" /\ pl_p' = pl_p /\ pl_q' = pl_q
      /\ pl_pc' = "new" /\ pl_error' = "none" /\ PL!N # 0
  BY DEF PL!scale, PaillierInv, PaillierControl
<1>2. PL!N = M /\ PL!n2 = M * M
  BY DEF PL!N, PL!n2
<1>3. PaillierKey'
  BY <1>1 DEF PaillierInv, PaillierKey
<1>4. pl_p # 0 /\ IsKeyPair(pl_p, pl_q)
  BY <1>1, <1>2 DEF PaillierInv, PaillierKey, IsKeyPair, IsPrime
<1>5. PaillierControl'
  BY <1>1, <1>4 DEF PaillierControl
<1>6. PL!Homomorphic' /\ PL!RefusedOnlyForBlinding'
  BY <1>1 DEF PL!Homomorphic, PL!RefusedOnlyForBlinding
<1>7. PaillierContent'
  <2>1. PICK t \in Powers : /\ pl_c' = ExpMod(pl_c, t, M * M)
                            /\ pl_plain' = (pl_plain * t) % M
                            /\ pl_blind' = ExpMod(pl_blind, t, M)
    BY <1>2, SameModular DEF PL!scale
  <2>2. t \in Nat
    BY PaillierAssumption DEF PL!ConstantsOK
  <2>3. M \in Nat /\ M > 1 /\ IsCipher(pl_c, pl_plain, pl_blind, M)
    BY <1>4, KeyPairModulus DEF PaillierInv, PaillierContent
  <2>4. M' = M
    BY <1>1
  <2> HIDE DEF M
  <2>5. IsCipher(pl_c', pl_plain', pl_blind', M)
    BY ONLY <2>1, <2>2, <2>3, CipherScaled
  <2>6. QED
    BY <2>4, <2>5 DEF PaillierContent, M
<1>8. QED
  BY <1>3, <1>5, <1>6, <1>7 DEF PaillierInv

\* A ciphertext has a factor of the modulus exactly if what blinds it has.
LEMMA CipherRefused ==
  ASSUME NEW p, NEW q, IsKeyPair(p, q), NEW c, NEW a, NEW b, IsCipher(c, a, b, p * q)
  PROVE  /\ c \in 0..((p * q) * (p * q) - 1)
         /\ c % p = 0 <=> b % p = 0
         /\ c % q = 0 <=> b % q = 0
<1> DEFINE M == p * q
<1>1. /\ p \in Nat /\ q \in Nat /\ M \in Nat /\ M > 0
      /\ IsPrime(p) /\ IsPrime(q) /\ a \in Int /\ b \in Int
  BY KeyPairModulus DEF IsKeyPair, IsCipher
<1>2. PICK rho \in Int : rho % M = b % M /\ c = Cipher(a, rho, M)
  BY DEF IsCipher
<1>3. c \in 0..(M * M - 1)
  <2> HIDE DEF M
  <2>1. QED
    BY <1>1, <1>2, CipherType
<1>4. rho % p = b % p /\ rho % q = b % q
  <2>1. IsKeyPair(p, q) /\ rho \in Int /\ b \in Int /\ rho % (p * q) = b % (p * q)
    BY <1>1, <1>2
  <2> HIDE DEF M
  <2>2. QED
    BY ONLY <2>1, SameFactors
<1>5. /\ Cipher(a, rho, p * q) % p = 0 <=> rho % p = 0
      /\ Cipher(a, rho, p * q) % q = 0 <=> rho % q = 0
  <2>1. IsPrime(p) /\ IsPrime(q) /\ rho \in Int /\ a \in Int
    BY <1>1, <1>2
  <2>2. QED
    BY ONLY <2>1, CipherDivisible, Zenon
<1>6. QED
  BY <1>2, <1>3, <1>4, <1>5

\* ... and otherwise dec gives back what is in it.
LEMMA CipherDecrypted ==
  ASSUME NEW p, NEW q, IsKeyPair(p, q), NEW c, NEW a, NEW b, IsCipher(c, a, b, p * q),
         b % p # 0, b % q # 0,
         NEW h, h = (p - 1) * (q - 1)
  PROVE  (((ExpMod(c, h, (p * q) * (p * q)) - 1) \div (p * q)) * InverseMod(h, p * q)) % (p * q) = a
<1>1. IsPrime(p) /\ IsPrime(q) /\ p # q /\ (p - 1) % q # 0 /\ (q - 1) % p # 0
  BY DEF IsKeyPair
<1>2. a \in 0..(p * q - 1) /\ b \in Int
  BY DEF IsCipher
<1>3. PICK rho \in Int : rho % (p * q) = b % (p * q) /\ c = Cipher(a, rho, p * q)
  BY DEF IsCipher
<1>4. rho % p # 0 /\ rho % q # 0
  BY <1>2, <1>3, SameFactors
<1>5. (((ExpMod(Cipher(a, rho, p * q), (p - 1) * (q - 1), (p * q) * (p * q)) - 1) \div (p * q))
         * InverseMod((p - 1) * (q - 1), p * q)) % (p * q) = a
  BY ONLY <1>1, <1>2, <1>3, <1>4, Decrypts, Zenon
<1>6. QED
  BY <1>3, <1>5

LEMMA PaillierDec == PaillierInv /\ PL!dec => PaillierInv'
<1> SUFFICES ASSUME PaillierInv, PL!dec PROVE PaillierInv'
  OBVIOUS
<1> DEFINE M == pl_p * pl_q
<1>1. /\ pl_pc = "new" /\ pl_error = "none"
      /\ pl_p' = pl_p /\ pl_q' = pl_q /\ pl_c' = pl_c /\ pl_plain' = pl_plain
      /\ pl_blind' = pl_blind
  BY DEF PL!dec, PaillierInv, PaillierControl
<1>2. PL!N = M /\ PL!n2 = M * M
  BY DEF PL!N, PL!n2
<1>3. PaillierKey' /\ PaillierContent'
  BY <1>1 DEF PaillierInv, PaillierKey, PaillierContent
<1>4. PICK client \in BOOLEAN :
        \/ /\ PL!DecError(client) = "none"
           /\ pl_value' = (PL!L(PL!ExpMod(pl_c, PL!y, PL!n2)) * PL!u) % PL!N
           /\ pl_pc' = "decrypted" /\ UNCHANGED pl_error
        \/ /\ PL!DecError(client) # "none"
           /\ PL!Throw(PL!DecError(client)) /\ UNCHANGED pl_value
  BY DEF PL!dec
<1> DEFINE e == PL!DecError(client)
<1>5. CASE pl_p = 0
  <2>1. M = 0
    BY <1>5 DEF PaillierInv, PaillierKey, IsKeyPair, IsPrime
  <2>2. e = "not initialized"
    BY <1>2, <2>1 DEF PL!DecError
  <2>3. pl_pc' = "thrown" /\ pl_error' = "not initialized"
    BY <1>4, <2>2 DEF PL!Throw
  <2>4. QED
    BY <1>3, <2>3
       DEF PaillierInv, PaillierControl, PL!Homomorphic, PL!RefusedOnlyForBlinding
<1>6. CASE pl_p # 0
  <2>1. IsKeyPair(pl_p, pl_q) /\ IsCipher(pl_c, pl_plain, pl_blind, M)
    BY <1>6 DEF PaillierInv, PaillierKey, PaillierContent
  <2>2. /\ pl_c \in 0..(M * M - 1)
        /\ pl_c % pl_p = 0 <=> pl_blind % pl_p = 0
        /\ pl_c % pl_q = 0 <=> pl_blind % pl_q = 0
    BY ONLY <2>1, CipherRefused
  <2>3. pl_p \in Nat /\ pl_p > 0 /\ M \in Nat /\ M # 0 /\ M * M \in Nat
    BY <2>1, KeyPairModulus
  <2>4. CASE e = "none"
    <3>1. /\ pl_value' = (PL!L(PL!ExpMod(pl_c, PL!y, PL!n2)) * PL!u) % PL!N
          /\ pl_pc' = "decrypted" /\ pl_error' = "none"
      BY <1>1, <1>4, <2>4
    <3>2. pl_c % pl_p # 0 /\ pl_c % pl_q # 0
      BY <2>4 DEF PL!DecError
    <3>3. pl_blind % pl_p # 0 /\ pl_blind % pl_q # 0
      BY <2>2, <3>2
    <3> DEFINE h == (pl_p - 1) * (pl_q - 1)
    <3>4. pl_value' = (((ExpMod(pl_c, h, M * M) - 1) \div M) * InverseMod(h, M)) % M
      <4>1. PL!y = h
        BY DEF PL!y
      <4>2. PL!u = InverseMod(h, M)
        BY ONLY <1>2, <4>1, SameModular DEF PL!u
      <4>3. PL!ExpMod(pl_c, PL!y, PL!n2) = ExpMod(pl_c, h, M * M)
        BY ONLY <1>2, <4>1, SameModular
      <4>4. \A num : PL!L(num) = (num - 1) \div M
        BY ONLY <1>2 DEF PL!L
      <4> HIDE DEF M, h
      <4>5. QED
        BY ONLY <1>2, <3>1, <4>2, <4>3, <4>4
    <3>5. h = (pl_p - 1) * (pl_q - 1)
      OBVIOUS
    <3> HIDE DEF h
    <3>6. (((ExpMod(pl_c, h, M * M) - 1) \div M) * InverseMod(h, M)) % M = pl_plain
      BY ONLY <2>1, <3>3, <3>5, CipherDecrypted
    <3>7. pl_value' = pl_plain'
      BY <1>1, <3>4, <3>6
    <3>8. QED
      BY <1>1, <1>3, <1>6, <3>1, <3>3, <3>7
         DEF PaillierInv, PaillierControl, PL!Homomorphic, PL!RefusedOnlyForBlinding
  <2>5. CASE e # "none"
    <3>1. pl_pc' = "thrown" /\ pl_error' = e
      BY <1>4, <2>5 DEF PL!Throw
    <3>2. ASSUME e \in {"c <= 0 || c >= n2", "c % p == 0 || c % q == 0"}
          PROVE  pl_c <= 0 \/ pl_c >= M * M \/ pl_c % pl_p = 0 \/ pl_c % pl_q = 0
      BY <1>2, <3>2 DEF PL!DecError
    <3>3. ASSUME pl_c <= 0 \/ pl_c >= M * M PROVE pl_c % pl_p = 0
      <4>1. pl_c = 0
        BY <2>2, <2>3, <3>3
      <4>2. QED
        BY <2>3, <4>1
    <3>4. e \in {"c <= 0 || c >= n2", "c % p == 0 || c % q == 0"}
            => pl_blind % pl_p = 0 \/ pl_blind % pl_q = 0
      BY <2>2, <3>2, <3>3
    <3>5. QED
      BY <1>1, <1>3, <1>6, <3>1, <3>4
         DEF PaillierInv, PaillierControl, PL!Homomorphic, PL!RefusedOnlyForBlinding
  <2>6. QED
    BY <2>4, <2>5
<1>7. QED
  BY <1>5, <1>6

\* paillier.cpp: the inductive invariant of computing on ciphertexts, for every
\* pair of primes the constructor can draw: the number kept is a ciphertext of the
\* plaintext meant, blinded by a number with the factors of those drawn.
THEOREM PaillierInvariance == PL!Spec => []PaillierInv
<1>1. PL!Init => PaillierInv
  BY PaillierInit
<1>2. PaillierInv /\ [PL!Next]_PL!vars => PaillierInv'
  <2> SUFFICES ASSUME PaillierInv, [PL!Next]_PL!vars PROVE PaillierInv'
    OBVIOUS
  <2>1. CASE PL!add
    BY <2>1, PaillierAdd
  <2>2. CASE PL!scale
    BY <2>2, PaillierScale
  <2>3. CASE PL!dec
    BY <2>3, PaillierDec
  <2>4. CASE UNCHANGED PL!vars
    BY <2>4 DEF PaillierInv, PaillierKey, PaillierContent, PaillierControl, PL!Homomorphic,
                PL!RefusedOnlyForBlinding, PL!vars
  <2>5. QED
    BY <2>1, <2>2, <2>3, <2>4 DEF PL!Next
<1>3. QED
  BY <1>1, <1>2, PTL DEF PL!Spec

\* paillier.cpp: whatever encryptions are multiplied and whatever powers taken, a
\* ciphertext that the owner decrypts gives the sum or multiple of the plaintexts.
THEOREM PaillierHomomorphic == PL!Spec => []Homomorphic
<1>1. PaillierInv => Homomorphic
  BY DEF PaillierInv, Homomorphic
<1>2. QED
  BY <1>1, PaillierInvariance, PTL

\* paillier.cpp: the owner's dec refuses a ciphertext exactly if a number drawn to
\* blind it shares a factor with the modulus.
THEOREM PaillierRefusal == PL!Spec => []RefusedOnlyForBlinding
<1>1. PaillierInv => RefusedOnlyForBlinding
  BY DEF PaillierInv, RefusedOnlyForBlinding
<1>2. QED
  BY <1>1, PaillierInvariance, PTL

=============================================================================
