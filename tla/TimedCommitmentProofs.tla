----------------------- MODULE TimedCommitmentProofs -----------------------
(***************************************************************************)
(* Theorems about TimedCommitment, for all primes, secrets, values of K    *)
(* and sizes of the seed, and whatever a committer sends for p.            *)
(***************************************************************************)
EXTENDS TimedCommitment, Residues, SequenceTheorems, TLAPS

-----------------------------------------------------------------------------
(* An integer comes back from its bytes.                                   *)

\* f is the function that Shifted computes up to k.
ShiftsUpTo(f, i, k) == f = [j \in 0..k |-> IF j = 0 THEN i ELSE f[j - 1] \div 256]

LEMMA ShiftsExist ==
  ASSUME NEW i \in Nat
  PROVE  \A k \in Nat : \E f : ShiftsUpTo(f, i, k)
<1> DEFINE S == {k \in Nat : \E f : ShiftsUpTo(f, i, k)}
<1>1. 0 \in S
  <2> DEFINE f == [j \in 0..0 |-> i]
  <2>1. ShiftsUpTo(f, i, 0)
    BY DEF ShiftsUpTo
  <2>2. QED
    BY <2>1
<1>2. ASSUME NEW k \in Nat, k \in S PROVE k + 1 \in S
  <2>1. PICK f : ShiftsUpTo(f, i, k)
    BY <1>2
  <2> DEFINE h == [j \in 0..(k + 1) |-> IF j <= k THEN f[j] ELSE f[k] \div 256]
             H(j) == IF j = 0 THEN i ELSE h[j - 1] \div 256
  <2>2. ASSUME NEW j \in 0..(k + 1) PROVE h[j] = H(j)
    <3>1. CASE j = 0
      BY <2>1, <3>1 DEF ShiftsUpTo
    <3>2. CASE j # 0 /\ j <= k
      <4>1. f[j] = f[j - 1] \div 256
        BY <2>1, <3>2 DEF ShiftsUpTo
      <4>2. h[j] = f[j] /\ h[j - 1] = f[j - 1]
        BY <3>2
      <4>3. QED
        BY <3>2, <4>1, <4>2
    <3>3. CASE j = k + 1
      <4>1. h[j] = f[k] \div 256 /\ h[j - 1] = f[k] /\ j # 0
        BY <3>3
      <4>2. QED
        BY <4>1
    <3>4. QED
      BY <3>1, <3>2, <3>3
  <2>3. h = [j \in 0..(k + 1) |-> H(j)]
    <3>1. h = [j \in 0..(k + 1) |-> h[j]]
      OBVIOUS
    <3> HIDE DEF h, H
    <3>2. QED
      BY <2>2, <3>1
  <2>4. ShiftsUpTo(h, i, k + 1)
    <3> HIDE DEF h
    <3>1. QED
      BY <2>3 DEF ShiftsUpTo
  <2>5. QED
    BY <2>4
<1>3. \A k \in Nat : k \in S
  <2> HIDE DEF S
  <2>1. QED
    BY <1>1, <1>2, SetInduction
<1>4. QED
  BY <1>3

LEMMA ShiftedFunction ==
  ASSUME NEW i \in Nat, NEW k \in Nat
  PROVE  \E f : ShiftsUpTo(f, i, k) /\ Shifted(i, k) = f[k]
<1> DEFINE f == CHOOSE g : ShiftsUpTo(g, i, k)
<1>1. ShiftsUpTo(f, i, k)
  BY ShiftsExist
<1>2. Shifted(i, k) = f[k]
  BY DEF Shifted, ShiftsUpTo
<1>3. QED
  BY <1>1, <1>2

LEMMA ShiftsAgree ==
  ASSUME NEW i \in Nat, NEW b \in Nat, NEW d \in Nat, b <= d,
         NEW f, NEW h, ShiftsUpTo(f, i, b), ShiftsUpTo(h, i, d)
  PROVE  f[b] = h[b]
<1> DEFINE S == {j \in Nat : j <= b => f[j] = h[j]}
<1>1. 0 \in S
  BY DEF ShiftsUpTo
<1>2. ASSUME NEW j \in Nat, j \in S PROVE j + 1 \in S
  <2> SUFFICES ASSUME j + 1 <= b PROVE f[j + 1] = h[j + 1]
    OBVIOUS
  <2>1. f[j] = h[j]
    BY <1>2
  <2>2. j + 1 \in 0..b /\ j + 1 \in 0..d /\ j + 1 # 0 /\ (j + 1) - 1 = j
    OBVIOUS
  <2>3. f[j + 1] = f[j] \div 256 /\ h[j + 1] = h[j] \div 256
    BY <2>2 DEF ShiftsUpTo
  <2>4. QED
    BY <2>1, <2>3
<1>3. \A j \in Nat : j \in S
  <2> HIDE DEF S
  <2>1. QED
    BY <1>1, <1>2, SetInduction
<1>4. QED
  BY <1>3

LEMMA ShiftedZero == ASSUME NEW i \in Nat PROVE Shifted(i, 0) = i
<1>1. PICK f : ShiftsUpTo(f, i, 0) /\ Shifted(i, 0) = f[0]
  BY ShiftedFunction
<1>2. QED
  BY <1>1 DEF ShiftsUpTo

LEMMA ShiftedNext ==
  ASSUME NEW i \in Nat, NEW k \in Nat
  PROVE  Shifted(i, k + 1) = Shifted(i, k) \div 256
<1>1. PICK f : ShiftsUpTo(f, i, k) /\ Shifted(i, k) = f[k]
  BY ShiftedFunction
<1>2. k + 1 \in Nat /\ k <= k + 1
  OBVIOUS
<1>3. PICK h : ShiftsUpTo(h, i, k + 1) /\ Shifted(i, k + 1) = h[k + 1]
  BY <1>2, ShiftedFunction
<1>4. f[k] = h[k]
  BY <1>1, <1>2, <1>3, ShiftsAgree
<1>5. h[k + 1] = h[k] \div 256
  <2>1. k + 1 \in 0..(k + 1) /\ k + 1 # 0 /\ (k + 1) - 1 = k
    OBVIOUS
  <2>2. QED
    BY <1>3, <2>1 DEF ShiftsUpTo
<1>6. QED
  BY <1>1, <1>3, <1>4, <1>5

\* Every byte taken away makes a positive number smaller.
LEMMA ShiftedBound ==
  ASSUME NEW i \in Nat
  PROVE  \A k \in Nat : Shifted(i, k) \in Nat /\ (Shifted(i, k) = 0 \/ Shifted(i, k) + k <= i)
<1> DEFINE S == {k \in Nat : Shifted(i, k) \in Nat /\ (Shifted(i, k) = 0 \/ Shifted(i, k) + k <= i)}
<1>1. 0 \in S
  BY ShiftedZero
<1>2. ASSUME NEW k \in Nat, k \in S PROVE k + 1 \in S
  <2> DEFINE x == Shifted(i, k)
  <2>1. x \in Nat /\ (x = 0 \/ x + k <= i)
    BY <1>2
  <2>2. Shifted(i, k + 1) = x \div 256
    BY ShiftedNext
  <2> HIDE DEF x
  <2>3. x \div 256 \in Nat /\ (x = 0 => x \div 256 = 0) /\ (x > 0 => x \div 256 < x)
    BY <2>1
  <2>4. x \div 256 = 0 \/ (x \div 256) + (k + 1) <= i
    BY <2>1, <2>3
  <2>5. QED
    BY <2>2, <2>3, <2>4
<1>3. \A k \in Nat : k \in S
  <2> HIDE DEF S
  <2>1. QED
    BY <1>1, <1>2, SetInduction
<1>4. QED
  BY <1>3

\* MinEncodedSize has a value, and it leaves no bytes behind.
LEMMA SizeFits ==
  ASSUME NEW i \in Nat
  PROVE  /\ MinEncodedSize(i) \in Nat /\ MinEncodedSize(i) > 0
         /\ Shifted(i, MinEncodedSize(i)) = 0
<1> DEFINE Fits(k) == Shifted(i, k) = 0
           B == {k \in Nat : k > 0 /\ Fits(k)}
<1>1. i + 1 \in B
  <2>1. i + 1 \in Nat /\ i + 1 > 0
    OBVIOUS
  <2>2. Shifted(i, i + 1) \in Nat /\ (Shifted(i, i + 1) = 0 \/ Shifted(i, i + 1) + (i + 1) <= i)
    BY <2>1, ShiftedBound
  <2>3. QED
    BY <2>1, <2>2
<1>2. PICK m \in B : \A k \in B : m <= k
  <2>1. B \subseteq Nat /\ B # {}
    BY <1>1
  <2> HIDE DEF B
  <2>2. QED
    BY <2>1, LeastElement
<1>3. m \in 1..(i + 1) /\ Shifted(i, m) = 0
  BY <1>1, <1>2
<1>4. m > 1 => Shifted(i, m - 1) # 0
  <2> SUFFICES ASSUME m > 1, Shifted(i, m - 1) = 0 PROVE FALSE
    OBVIOUS
  <2>1. m - 1 \in B
    BY <1>3
  <2>2. m <= m - 1
    BY <1>2, <2>1
  <2>3. QED
    BY <1>3, <2>2
<1> HIDE DEF B, Fits
<1>5. MinEncodedSize(i) \in 1..(i + 1) /\ Shifted(i, MinEncodedSize(i)) = 0
  BY <1>3, <1>4 DEF MinEncodedSize
<1>6. QED
  BY <1>5

LEMMA EncodeForm ==
  ASSUME NEW i \in Nat
  PROVE  /\ Encode(i) \in [1..MinEncodedSize(i) -> 0..255]
         /\ Encode(i) \in Seq(0..255) /\ Len(Encode(i)) = MinEncodedSize(i)
         /\ \A k \in 1..MinEncodedSize(i) : Encode(i)[k] = Shifted(i, MinEncodedSize(i) - k) % 256
<1> DEFINE size == MinEncodedSize(i)
<1>1. size \in Nat /\ size > 0
  BY SizeFits
<1>2. Encode(i) = [k \in 1..size |-> Shifted(i, size - k) % 256]
  BY DEF Encode
<1> HIDE DEF size
<1>3. ASSUME NEW k \in 1..size PROVE Shifted(i, size - k) % 256 \in 0..255
  <2>1. size - k \in Nat
    BY <1>1
  <2>2. Shifted(i, size - k) \in Nat
    BY <2>1, ShiftedBound
  <2>3. QED
    BY <2>2
<1>4. Encode(i) \in [1..size -> 0..255]
  BY <1>2, <1>3
<1>5. Encode(i) \in Seq(0..255)
  BY <1>1, <1>4, SeqDef
<1>6. Len(Encode(i)) = size
  BY <1>1, <1>4, <1>5, LenProperties
<1>7. QED
  BY <1>2, <1>4, <1>5, <1>6 DEF size

\* Reading the bytes from the first on gives what is left without those to come.
LEMMA DecodeEncode == ASSUME NEW i \in Nat PROVE Decode(Encode(i)) = i
<1> DEFINE size == MinEncodedSize(i)
           bytes == Encode(i)
           Values(f) == f = [k \in 0..Len(bytes) |-> IF k = 0 THEN 0 ELSE 256 * f[k - 1] + bytes[k]]
           left == [k \in 0..size |-> Shifted(i, size - k)]
<1>1. size \in Nat /\ size > 0 /\ Shifted(i, size) = 0 /\ Len(bytes) = size
  BY SizeFits, EncodeForm
<1>2. \A k \in 1..size : bytes[k] = Shifted(i, size - k) % 256
  BY EncodeForm
<1> HIDE DEF size, bytes
<1>3. ASSUME NEW k \in 1..size
      PROVE  Shifted(i, size - k) = 256 * Shifted(i, size - (k - 1)) + bytes[k]
  <2> DEFINE d == size - k
             x == Shifted(i, d)
  <2>1. d \in Nat /\ d + 1 = size - (k - 1)
    BY <1>1
  <2>2. bytes[k] = x % 256
    BY <1>2
  <2> HIDE DEF d
  <2>3. Shifted(i, d + 1) = x \div 256 /\ x \in Nat
    BY <2>1, ShiftedNext, ShiftedBound
  <2> HIDE DEF x
  <2>4. x = 256 * (x \div 256) + (x % 256)
    <3>1. x \in Int /\ 256 \in Nat /\ 256 > 0
      BY <2>3
    <3>2. QED
      BY <3>1, DivMod
  <2>5. QED
    BY <2>1, <2>2, <2>3, <2>4 DEF x, d
<1>4. Values(left)
  <2> DEFINE G(k) == IF k = 0 THEN 0 ELSE 256 * left[k - 1] + bytes[k]
  <2>1. ASSUME NEW k \in 0..size PROVE left[k] = G(k)
    <3>1. CASE k = 0
      <4>1. size - 0 = size /\ 0 \in 0..size
        BY <1>1
      <4>2. QED
        BY <1>1, <3>1, <4>1
    <3>2. CASE k # 0
      <4>1. k \in 1..size /\ k - 1 \in 0..size
        BY <1>1, <3>2
      <4>2. left[k] = Shifted(i, size - k) /\ left[k - 1] = Shifted(i, size - (k - 1))
        BY <4>1
      <4>3. QED
        BY <1>3, <3>2, <4>1, <4>2
    <3>3. QED
      BY <3>1, <3>2
  <2>2. left = [k \in 0..size |-> left[k]]
    OBVIOUS
  <2>3. left = [k \in 0..size |-> G(k)]
    <3> HIDE DEF left, G
    <3>1. QED
      BY <2>1, <2>2
  <2> HIDE DEF left
  <2>4. QED
    BY <1>1, <2>3
<1> DEFINE value == CHOOSE f : Values(f)
<1>5. Values(value)
  BY <1>4
<1>6. Decode(bytes) = value[size]
  BY <1>1 DEF Decode
<1> DEFINE S == {k \in Nat : k <= size => value[k] = Shifted(i, size - k)}
<1> HIDE DEF value, left
<1>7. 0 \in S
  <2>1. 0 \in 0..size /\ size - 0 = size
    BY <1>1
  <2>2. value[0] = 0
    BY <1>1, <1>5, <2>1
  <2>3. QED
    BY <1>1, <2>1, <2>2
<1>8. ASSUME NEW k \in Nat, k \in S PROVE k + 1 \in S
  <2> SUFFICES ASSUME k + 1 <= size PROVE value[k + 1] = Shifted(i, size - (k + 1))
    OBVIOUS
  <2>1. k + 1 \in 1..size /\ k + 1 \in 0..size /\ k + 1 # 0 /\ (k + 1) - 1 = k
    BY <1>1
  <2>2. value[k] = Shifted(i, size - k)
    BY <1>1, <1>8
  <2>3. value[k + 1] = 256 * value[k] + bytes[k + 1]
    BY <1>1, <1>5, <2>1
  <2>4. Shifted(i, size - (k + 1)) = 256 * Shifted(i, size - ((k + 1) - 1)) + bytes[k + 1]
    BY <1>3, <2>1
  <2>5. QED
    BY <2>1, <2>2, <2>3, <2>4
<1>9. \A k \in Nat : k \in S
  <2> HIDE DEF S
  <2>1. QED
    BY <1>7, <1>8, SetInduction
<1>10. value[size] = Shifted(i, size - size) /\ size - size = 0
  BY <1>1, <1>9
<1>11. QED
  BY <1>6, <1>10, ShiftedZero DEF bytes

-----------------------------------------------------------------------------
(* Bytes come back from their bits.                                        *)

\* Eight bits are the byte.
LEMMA ByteOfBits ==
  ASSUME NEW x \in 0..255
  PROVE  x = (x % 2) + 2 * ((x \div 2) % 2) + 4 * ((x \div 4) % 2) + 8 * ((x \div 8) % 2)
             + 16 * ((x \div 16) % 2) + 32 * ((x \div 32) % 2) + 64 * ((x \div 64) % 2)
             + 128 * ((x \div 128) % 2)
OBVIOUS

LEMMA Weights ==
  /\ 2^0 = 1 /\ 2^1 = 2 /\ 2^2 = 4 /\ 2^3 = 8
  /\ 2^4 = 16 /\ 2^5 = 32 /\ 2^6 = 64 /\ 2^7 = 128
OBVIOUS

LEMMA to_bitsForm ==
  ASSUME NEW bytes \in Seq(0..255)
  PROVE  /\ to_bits(bytes) \in [1..(8 * Len(bytes)) -> {0, 1}]
         /\ \A k \in 1..Len(bytes), j \in 0..7 :
              to_bits(bytes)[8 * k - 7 + j] = (bytes[k] \div 2^j) % 2
<1> DEFINE len == Len(bytes)
           bit(t) == (bytes[(t - 1) \div 8 + 1] \div 2^((t - 1) % 8)) % 2
<1>1. len \in Nat /\ \A k \in 1..len : bytes[k] \in 0..255
  BY LenProperties, ElementOfSeq
<1>2. to_bits(bytes) = [t \in 1..(8 * len) |-> bit(t)]
  BY DEF to_bits
<1>3. ASSUME NEW t \in 1..(8 * len) PROVE bit(t) \in {0, 1}
  <2> DEFINE k == (t - 1) \div 8 + 1
             j == (t - 1) % 8
             x == bytes[k]
  <2>1. k \in 1..len /\ j \in 0..7
    BY <1>1
  <2>2. x \in 0..255
    BY <1>1, <2>1
  <2> HIDE DEF k, j, x
  <2>3. j = 0 \/ j = 1 \/ j = 2 \/ j = 3 \/ j = 4 \/ j = 5 \/ j = 6 \/ j = 7
    BY <2>1
  <2>4. 2^j \in {1, 2, 4, 8, 16, 32, 64, 128}
    <3>1. CASE j = 0
      BY <3>1, Weights
    <3>2. CASE j = 1
      BY <3>2, Weights
    <3>3. CASE j = 2
      BY <3>3, Weights
    <3>4. CASE j = 3
      BY <3>4, Weights
    <3>5. CASE j = 4
      BY <3>5, Weights
    <3>6. CASE j = 5
      BY <3>6, Weights
    <3>7. CASE j = 6
      BY <3>7, Weights
    <3>8. CASE j = 7
      BY <3>8, Weights
    <3>9. QED
      BY <2>3, <3>1, <3>2, <3>3, <3>4, <3>5, <3>6, <3>7, <3>8
  <2>5. PICK w \in Nat : w > 0 /\ 2^j = w
    <3>1. \A w \in {1, 2, 4, 8, 16, 32, 64, 128} : w \in Nat /\ w > 0
      OBVIOUS
    <3>2. QED
      BY <2>4, <3>1, Zenon
  <2>6. (x \div w) \in Int
    BY <2>2, <2>5
  <2>7. (x \div w) % 2 \in {0, 1}
    BY <2>6
  <2>8. QED
    BY <2>5, <2>7 DEF k, j, x
<1>4. ASSUME NEW k \in 1..len, NEW j \in 0..7
      PROVE  to_bits(bytes)[8 * k - 7 + j] = (bytes[k] \div 2^j) % 2
  <2> DEFINE t == 8 * k - 7 + j
  <2>1. t \in 1..(8 * len) /\ (t - 1) \div 8 + 1 = k /\ (t - 1) % 8 = j
    BY <1>1
  <2> HIDE DEF t
  <2>2. to_bits(bytes)[t] = bit(t)
    BY <1>2, <2>1
  <2>3. bit(t) = (bytes[k] \div 2^j) % 2
    BY <2>1
  <2>4. QED
    BY <2>2, <2>3 DEF t
<1> HIDE DEF bit
<1>5. QED
  BY <1>2, <1>3, <1>4

LEMMA FromToBits ==
  ASSUME NEW bytes \in Seq(0..255)
  PROVE  from_bits(to_bits(bytes)) = bytes
<1> DEFINE len == Len(bytes)
           bits == to_bits(bytes)
<1>1. len \in Nat /\ \A k \in 1..len : bytes[k] \in 0..255
  BY LenProperties, ElementOfSeq
<1>2. /\ bits \in [1..(8 * len) -> {0, 1}]
      /\ \A k \in 1..len, j \in 0..7 : bits[8 * k - 7 + j] = (bytes[k] \div 2^j) % 2
  BY to_bitsForm
<1> HIDE DEF bits
<1>3. Len(bits) = 8 * len
  <2> DEFINE m == 8 * len
  <2>1. m \in Nat /\ bits \in [1..m -> {0, 1}]
    BY <1>1, <1>2
  <2> HIDE DEF m
  <2>2. bits \in Seq({0, 1})
    BY <2>1, SeqDef
  <2>3. Len(bits) = m
    BY <2>1, <2>2, LenProperties
  <2>4. QED
    BY <2>3 DEF m
<1>4. (8 * len) \div 8 = len
  BY <1>1
<1>5. ASSUME NEW k \in 1..len
      PROVE  bits[8 * k - 7] + 2 * bits[8 * k - 6] + 4 * bits[8 * k - 5] + 8 * bits[8 * k - 4]
             + 16 * bits[8 * k - 3] + 32 * bits[8 * k - 2] + 64 * bits[8 * k - 1]
             + 128 * bits[8 * k] = bytes[k]
  <2> DEFINE x == bytes[k]
  <2>1. x \in 0..255
    BY <1>1
  <2>2. \A j \in 0..7 : bits[8 * k - 7 + j] = (x \div 2^j) % 2
    BY <1>2
  <2>3. /\ 8 * k - 7 + 0 = 8 * k - 7 /\ 8 * k - 7 + 1 = 8 * k - 6 /\ 8 * k - 7 + 2 = 8 * k - 5
        /\ 8 * k - 7 + 3 = 8 * k - 4 /\ 8 * k - 7 + 4 = 8 * k - 3 /\ 8 * k - 7 + 5 = 8 * k - 2
        /\ 8 * k - 7 + 6 = 8 * k - 1 /\ 8 * k - 7 + 7 = 8 * k
    OBVIOUS
  <2> HIDE DEF x
  <2>4. /\ bits[8 * k - 7 + 0] = (x \div 1) % 2 /\ bits[8 * k - 7 + 1] = (x \div 2) % 2
        /\ bits[8 * k - 7 + 2] = (x \div 4) % 2 /\ bits[8 * k - 7 + 3] = (x \div 8) % 2
    BY <2>2, Weights
  <2>5. /\ bits[8 * k - 7 + 4] = (x \div 16) % 2 /\ bits[8 * k - 7 + 5] = (x \div 32) % 2
        /\ bits[8 * k - 7 + 6] = (x \div 64) % 2 /\ bits[8 * k - 7 + 7] = (x \div 128) % 2
    BY <2>2, Weights
  <2>6. x \div 1 = x
    BY <2>1
  <2>7. /\ bits[8 * k - 7] = x % 2 /\ bits[8 * k - 6] = (x \div 2) % 2
        /\ bits[8 * k - 5] = (x \div 4) % 2 /\ bits[8 * k - 4] = (x \div 8) % 2
    BY <2>3, <2>4, <2>6
  <2>8. /\ bits[8 * k - 3] = (x \div 16) % 2 /\ bits[8 * k - 2] = (x \div 32) % 2
        /\ bits[8 * k - 1] = (x \div 64) % 2 /\ bits[8 * k] = (x \div 128) % 2
    BY <2>3, <2>5
  <2>9. bits[8 * k - 7] + 2 * bits[8 * k - 6] + 4 * bits[8 * k - 5] + 8 * bits[8 * k - 4]
        + 16 * bits[8 * k - 3] + 32 * bits[8 * k - 2] + 64 * bits[8 * k - 1]
        + 128 * bits[8 * k] = x
    BY ONLY <2>1, <2>7, <2>8, ByteOfBits, Zenon
  <2>10. QED
    BY <2>9 DEF x
<1>6. from_bits(bits) = [k \in 1..len |-> bytes[k]]
  BY <1>3, <1>4, <1>5 DEF from_bits
<1>7. bytes = [k \in 1..len |-> bytes[k]]
  OBVIOUS
<1>8. QED
  BY <1>6, <1>7 DEF bits

\* A share of a key survives its way through bytes and bits.
LEMMA RoundTrip ==
  ASSUME NEW i \in Nat
  PROVE  /\ bits_to_integer(integer_to_bits(i)) = i
         /\ integer_to_bits(i) \in [1..(8 * MinEncodedSize(i)) -> {0, 1}]
<1>1. Encode(i) \in Seq(0..255) /\ Len(Encode(i)) = MinEncodedSize(i)
  BY EncodeForm
<1>2. from_bits(to_bits(Encode(i))) = Encode(i)
  BY <1>1, FromToBits
<1>3. to_bits(Encode(i)) \in [1..(8 * MinEncodedSize(i)) -> {0, 1}]
  BY <1>1, to_bitsForm
<1>4. QED
  BY <1>2, <1>3, DecodeEncode DEF bits_to_integer, integer_to_bits

-----------------------------------------------------------------------------
(* The stream cancels itself.                                              *)

LEMMA StreamType ==
  ASSUME ConstantsOK, NEW key \in Nat, NEW size \in Nat
  PROVE  Stream(key, size) \in [1..size -> {0, 1}]
<1> SUFFICES ASSUME NEW k \in 1..size
             PROVE  ((key % SeedSize) \div 2^((k - 1) % 4)) % 2 \in {0, 1}
  BY DEF Stream
<1>1. SeedSize \in Nat /\ SeedSize > 0
  BY DEF ConstantsOK
<1> DEFINE j == (k - 1) % 4
           x == key % SeedSize
<1>2. j = 0 \/ j = 1 \/ j = 2 \/ j = 3
  OBVIOUS
<1>3. x \in Int
  BY <1>1, DivMod
<1> HIDE DEF j, x
<1>4. PICK w \in Nat : w > 0 /\ 2^j = w
  <2>1. CASE j = 0
    BY <2>1, Weights
  <2>2. CASE j = 1
    BY <2>2, Weights
  <2>3. CASE j = 2
    BY <2>3, Weights
  <2>4. CASE j = 3
    BY <2>4, Weights
  <2>5. QED
    BY <1>2, <2>1, <2>2, <2>3, <2>4
<1>5. x \div w \in Int
  BY <1>3, <1>4, DivMod
<1>6. (x \div w) % 2 \in {0, 1}
  BY <1>5
<1>7. QED
  BY <1>4, <1>6 DEF j, x

LEMMA LenOfBits ==
  ASSUME NEW size \in Nat, NEW m \in [1..size -> {0, 1}]
  PROVE  Len(m) = size
<1>1. m \in Seq({0, 1})
  BY SeqDef
<1>2. QED
  BY <1>1, LenProperties

LEMMA XorType ==
  ASSUME ConstantsOK, NEW key \in Nat, NEW size \in Nat, NEW m \in [1..size -> {0, 1}]
  PROVE  /\ prng_xor(key, m) = [k \in 1..size |-> (m[k] + Stream(key, size)[k]) % 2]
         /\ prng_xor(key, m) \in [1..size -> {0, 1}]
<1>1. Len(m) = size
  BY LenOfBits
<1> DEFINE t == Stream(key, size)
<1>2. t \in [1..size -> {0, 1}]
  BY StreamType
<1>3. prng_xor(key, m) = [k \in 1..size |-> (m[k] + t[k]) % 2]
  BY <1>1 DEF prng_xor
<1> HIDE DEF t
<1>4. \A k \in 1..size : (m[k] + t[k]) % 2 \in {0, 1}
  <2> SUFFICES ASSUME NEW k \in 1..size PROVE (m[k] + t[k]) % 2 \in {0, 1}
    OBVIOUS
  <2>1. m[k] \in {0, 1} /\ t[k] \in {0, 1}
    BY <1>2
  <2>2. QED
    BY <2>1
<1>5. QED
  BY <1>3, <1>4 DEF t

LEMMA XorTwice ==
  ASSUME ConstantsOK, NEW key \in Nat, NEW size \in Nat, NEW m \in [1..size -> {0, 1}]
  PROVE  prng_xor(key, prng_xor(key, m)) = m
<1> DEFINE t == Stream(key, size)
           c == prng_xor(key, m)
<1>1. t \in [1..size -> {0, 1}]
  BY StreamType
<1>2. c = [k \in 1..size |-> (m[k] + t[k]) % 2] /\ c \in [1..size -> {0, 1}]
  BY XorType
<1> HIDE DEF c
<1>3. prng_xor(key, c) = [k \in 1..size |-> (c[k] + t[k]) % 2]
  BY <1>2, XorType
<1> HIDE DEF t
<1>4. ASSUME NEW k \in 1..size PROVE (c[k] + t[k]) % 2 = m[k]
  <2>1. c[k] = (m[k] + t[k]) % 2 /\ m[k] \in {0, 1} /\ t[k] \in {0, 1}
    BY <1>1, <1>2
  <2>2. QED
    BY <2>1
<1>5. QED
  BY <1>3, <1>4 DEF c

-----------------------------------------------------------------------------
(* What the squarings compute.                                             *)

\* The only odd divisor is 1: the number is a power of two.
PowerOfTwo(e) == e \in Nat /\ e > 0 /\ \A m \in Nat : m % 2 = 1 /\ e % m = 0 => m = 1

LEMMA TwoIsPrime == IsPrime(2)
BY DEF IsPrime

LEMMA OneIsPower == PowerOfTwo(1)
<1> SUFFICES ASSUME NEW m \in Nat, m % 2 = 1, 1 % m = 0 PROVE m = 1
  BY DEF PowerOfTwo
<1>1. m > 0
  <2>1. m # 0
    OBVIOUS
  <2>2. QED
    BY <2>1
<1>2. m > 1 => 1 % m = 1
  <2>1. m > 1 => 1 \in 0..(m - 1)
    OBVIOUS
  <2>2. QED
    BY <1>1, <2>1, ModSmall
<1>3. QED
  BY <1>1, <1>2

LEMMA DoublePower == ASSUME NEW e, PowerOfTwo(e) PROVE PowerOfTwo(2 * e)
<1>1. e \in Nat /\ e > 0 /\ 2 * e \in Nat /\ 2 * e > 0
  BY DEF PowerOfTwo
<1> SUFFICES ASSUME NEW m \in Nat, m % 2 = 1, (2 * e) % m = 0 PROVE m = 1
  BY <1>1 DEF PowerOfTwo
<1>2. m > 0
  OBVIOUS
<1> DEFINE d == 2 * e
<1>3. PICK k \in Int : d = m * k
  <2>1. d \in Int /\ d % m = 0
    BY <1>1
  <2> HIDE DEF d
  <2>2. QED
    BY <1>2, <2>1, Multiple
<1>4. (m * k) % 2 = 0
  <2>1. (2 * e) % 2 = 0
    BY <1>1
  <2>2. QED
    BY <1>3, <2>1
<1>5. k % 2 = 0
  <2>1. m \in Int /\ m % 2 # 0
    OBVIOUS
  <2>2. QED
    BY <1>4, <2>1, TwoIsPrime, Euclid
<1>6. PICK h \in Int : k = 2 * h
  BY <1>5
<1>7. e = m * h
  <2>1. m * (2 * h) = 2 * (m * h) /\ m * h \in Int
    OBVIOUS
  <2>2. 2 * e = 2 * (m * h)
    BY <1>3, <1>6, <2>1
  <2> DEFINE x == m * h
  <2> HIDE DEF x
  <2>3. x \in Int /\ 2 * e = 2 * x
    BY <2>1, <2>2 DEF x
  <2>4. e = x
    BY <1>1, <2>3
  <2>5. QED
    BY <2>4 DEF x
<1>8. e % m = 0
  BY <1>1, <1>2, <1>7, Multiple
<1>9. QED
  BY <1>8 DEF PowerOfTwo

\* Primes that are 3 modulo 4 give a phi with an odd divisor other than 1, unless
\* both are 3: a power of two is no multiple of it.
LEMMA PhiDividesNoPower ==
  ASSUME NEW a, NEW b, IsPrime(a), IsPrime(b), a # b, gen_prime(a), gen_prime(b),
         NEW e, PowerOfTwo(e)
  PROVE  e % ((a - 1) * (b - 1)) # 0
<1>1. a \in Nat /\ b \in Nat /\ a > 1 /\ b > 1 /\ a % 4 = 3 /\ b % 4 = 3
  BY DEF IsPrime, gen_prime
<1>2. PICK s \in Nat : a - 1 = 2 * s /\ s % 2 = 1
  <2> DEFINE s == (a - 1) \div 2
  <2>1. s \in Nat /\ a - 1 = 2 * s /\ s % 2 = 1
    BY <1>1
  <2>2. QED
    BY <2>1
<1>3. PICK t \in Nat : b - 1 = 2 * t /\ t % 2 = 1
  <2> DEFINE t == (b - 1) \div 2
  <2>1. t \in Nat /\ b - 1 = 2 * t /\ t % 2 = 1
    BY <1>1
  <2>2. QED
    BY <2>1
<1> DEFINE phi == (a - 1) * (b - 1)
<1>4. phi = s * (4 * t) /\ phi = t * (4 * s) /\ phi \in Nat /\ s > 0 /\ t > 0 /\ phi > 0
  <2>1. s > 0 /\ t > 0
    BY <1>1, <1>2, <1>3
  <2>2. phi = (2 * s) * (2 * t)
    BY <1>2, <1>3
  <2>3. (2 * s) * (2 * t) = s * (4 * t) /\ (2 * s) * (2 * t) = t * (4 * s)
        /\ (2 * s) * (2 * t) \in Nat /\ (2 * s) * (2 * t) > 0
    BY <2>1
  <2>4. QED
    BY <2>1, <2>2, <2>3
<1> HIDE DEF phi
<1> SUFFICES ASSUME e % phi = 0 PROVE FALSE
  BY DEF phi
<1>5. e \in Int
  BY DEF PowerOfTwo
<1>6. PICK k \in Int : e = phi * k
  BY <1>4, <1>5, Multiple
<1>7. e % s = 0 /\ e % t = 0
  <2> DEFINE ks == (4 * t) * k
             kt == (4 * s) * k
  <2>1. ks \in Int /\ kt \in Int /\ e = s * ks /\ e = t * kt
    <3>1. (s * (4 * t)) * k = s * ((4 * t) * k) /\ (t * (4 * s)) * k = t * ((4 * s) * k)
      OBVIOUS
    <3>2. QED
      BY <1>4, <1>6, <3>1
  <2> HIDE DEF ks, kt
  <2>2. QED
    BY <1>4, <1>5, <2>1, Multiple
<1>8. s = 1 /\ t = 1
  BY <1>2, <1>3, <1>7 DEF PowerOfTwo
<1>9. QED
  BY <1>1, <1>2, <1>3, <1>8

\* open and commit reduce the exponent 2^(2^K) modulo phi, force_open does not:
\* the power is the same, also of an h that shares a factor with n.
LEMMA ReducedExponent ==
  ASSUME NEW a, NEW b, IsPrime(a), IsPrime(b), a # b, gen_prime(a), gen_prime(b),
         NEW e, PowerOfTwo(e), NEW h \in Int
  PROVE  ExpMod(h, e % ((a - 1) * (b - 1)), a * b) = ExpMod(h, e, a * b)
<1>1. a \in Nat /\ b \in Nat /\ a > 1 /\ b > 1 /\ e \in Nat /\ e > 0
  BY DEF IsPrime, PowerOfTwo
<1> DEFINE phi == (a - 1) * (b - 1)
           s == e % phi
           k == e \div phi
<1>2. phi \in Nat /\ phi > 0
  BY <1>1
<1>3. s # 0
  BY PhiDividesNoPower
<1>4. k \in Int /\ s \in 0..(phi - 1) /\ e = phi * k + s
  <2> HIDE DEF phi
  <2>1. e \in Int
    BY <1>1
  <2>2. QED
    BY <1>2, <2>1, DivMod
<1>5. k \in Nat
  <2> HIDE DEF phi, s, k
  <2>1. CASE k < 0
    <3>1. k <= -1 /\ phi * k <= -phi
      BY <1>2, <1>4, <2>1
    <3>2. QED
      BY <1>1, <1>2, <1>4, <3>1
  <2>2. QED
    BY <1>4, <2>1
<1>6. s \in Nat /\ s > 0
  BY <1>2, <1>3, <1>4
<1> HIDE DEF s, k
<1>7. ExpMod(h, ((a - 1) * (b - 1)) * k + s, a * b) = ExpMod(h, s, a * b)
  BY <1>5, <1>6, EulerPeriod
<1>8. QED
  BY <1>4, <1>7 DEF s

\* u after j squarings.
Chain(v, j, h, n, phi) ==
  \E e \in Nat : PowerOfTwo(e) /\ ExpMod(2, j, phi) = e % phi /\ v = ExpMod(h, e, n)

LEMMA ChainStart ==
  ASSUME NEW n \in Nat, n > 0, NEW phi \in Nat, phi > 0, NEW h \in 0..(n - 1)
  PROVE  Chain(h, 0, h, n, phi)
<1>1. ExpMod(2, 0, phi) = 1 % phi
  BY ExpModZero
<1>2. h = ExpMod(h, 1, n)
  <2>1. h \in Int
    OBVIOUS
  <2>2. ExpMod(h, 1, n) = h % n
    BY <2>1, ExpModOne
  <2>3. h % n = h
    BY ModSmall
  <2>4. QED
    BY <2>2, <2>3
<1>3. QED
  BY <1>1, <1>2, OneIsPower DEF Chain

LEMMA ChainStep ==
  ASSUME NEW n \in Nat, n > 0, NEW phi \in Nat, phi > 0, NEW h \in Int, NEW j \in Nat,
         NEW v, Chain(v, j, h, n, phi)
  PROVE  Chain((v * v) % n, j + 1, h, n, phi)
<1>1. PICK e \in Nat : PowerOfTwo(e) /\ ExpMod(2, j, phi) = e % phi /\ v = ExpMod(h, e, n)
  BY DEF Chain
<1>2. PowerOfTwo(2 * e) /\ 2 * e \in Nat /\ e + e = 2 * e
  BY <1>1, DoublePower
<1>3. ExpMod(h, 2 * e, n) = (v * v) % n
  <2>1. ExpMod(h, e + e, n) = (ExpMod(h, e, n) * ExpMod(h, e, n)) % n
    BY ExpModPlus
  <2>2. QED
    BY <1>1, <1>2, <2>1
<1>4. ExpMod(2, j + 1, phi) = (2 * e) % phi
  <2>1. ExpMod(2, j + 1, phi) = ((e % phi) * 2) % phi
    <3>1. 2 \in Int
      OBVIOUS
    <3>2. ExpMod(2, j + 1, phi) = (ExpMod(2, j, phi) * 2) % phi
      BY <3>1, ExpModNext
    <3>3. QED
      BY <1>1, <3>2
  <2>2. ((e % phi) * 2) % phi = (e * 2) % phi
    <3>1. e \in Int /\ 2 \in Int
      OBVIOUS
    <3>2. QED
      BY <3>1, ModTimes
  <2>3. e * 2 = 2 * e
    OBVIOUS
  <2>4. QED
    BY <2>1, <2>2, <2>3
<1>5. QED
  BY <1>2, <1>3, <1>4 DEF Chain

\* After all squarings u is the key that create_timed_key computed from phi.
LEMMA ChainEnd ==
  ASSUME NEW a, NEW b, IsPrime(a), IsPrime(b), a # b, gen_prime(a), gen_prime(b),
         NEW h \in Int, NEW K, NEW v, Chain(v, 2^K, h, a * b, (a - 1) * (b - 1))
  PROVE  v = create_timed_key(a * b, (a - 1) * (b - 1), h, K)
<1> DEFINE phi == (a - 1) * (b - 1)
           n == a * b
<1>1. PICK e \in Nat : PowerOfTwo(e) /\ ExpMod(2, 2^K, phi) = e % phi /\ v = ExpMod(h, e, n)
  BY DEF Chain
<1>2. ExpMod(h, e % phi, n) = ExpMod(h, e, n)
  BY <1>1, ReducedExponent
<1> HIDE DEF phi, n
<1>3. create_timed_key(n, phi, h, K) = v
  BY <1>1, <1>2 DEF create_timed_key
<1>4. QED
  BY <1>3 DEF phi, n

-----------------------------------------------------------------------------
(* The inductive invariant.                                                *)

Phi == (p - 1) * (q - 1)

\* The key with which commit encrypts, and open decrypts.
TimedKey == create_timed_key(p * q, Phi, com.h, com.K)

\* The committer's primes passed gen_prime.
GoodPrimes ==
  pc \in {"ready", "committed"} =>
    p \in Primes /\ q \in Primes /\ gen_prime(p) /\ gen_prime(q)

\* Before there is a commitment the receiver does nothing.
NothingReceived ==
  pc # "committed" =>
    times = -1 /\ forced = None /\ opened = None /\ open_error = "none" /\ claim = 0

Locked ==
  pc = "committed" =>
    /\ com.n = p * q /\ com.h \in 2..(p * q - 1) /\ com.K \in Ks /\ secret \in Secrets
    /\ com.S = prng_xor(TimedKey, integer_to_bits(secret))

\* u has been squared once for every step that times went down.
Squared ==
  pc = "committed" /\ times # -1 =>
    /\ times \in Int /\ 2^com.K - times \in Nat
    /\ Chain(u, 2^com.K - times, com.h, p * q, Phi)

ForceOpened == forced # None => times = 0 /\ forced = prng_xor(u, com.S)

\* Of the positive numbers open has only accepted a factor, and p is one.
OpenedWithFactor ==
  pc = "committed" =>
    /\ opened # None /\ claim > 0 => opened = prng_xor(TimedKey, com.S)
    /\ claim = p => open_error = "none"

TInv == GoodPrimes /\ NothingReceived /\ Locked /\ Squared /\ ForceOpened /\ OpenedWithFactor

LEMMA PrimeFacts ==
  ASSUME ConstantsOK, NEW a \in Primes, NEW b \in Primes, gen_prime(a), gen_prime(b)
  PROVE  /\ IsPrime(a) /\ IsPrime(b) /\ a \in Nat /\ b \in Nat /\ a > 2 /\ b > 2
         /\ a * b \in Nat /\ a * b > 0 /\ a * b # a
         /\ (a - 1) * (b - 1) \in Nat /\ (a - 1) * (b - 1) > 0
<1>1. IsPrime(a) /\ IsPrime(b)
  BY DEF ConstantsOK, IsPrime
<1>2. a \in Nat /\ b \in Nat /\ a > 2 /\ b > 2
  BY <1>1 DEF IsPrime, gen_prime
<1>3. a * b \in Nat /\ a * b > 0 /\ a * b # a
  <2>1. a * b >= a * 3
    BY <1>2
  <2>2. QED
    BY <1>2, <2>1
<1>4. (a - 1) * (b - 1) \in Nat /\ (a - 1) * (b - 1) > 0
  BY <1>2
<1>5. QED
  BY <1>1, <1>2, <1>3, <1>4

LEMMA TInvInit == Init => TInv
BY DEF Init, TInv, GoodPrimes, NothingReceived, Locked, Squared, ForceOpened, OpenedWithFactor

LEMMA CommiterStep == TInv /\ Commiter => TInv'
<1> SUFFICES ASSUME TInv, Commiter PROVE TInv'
  OBVIOUS
<1>1. pc = "new" /\ UNCHANGED <<secret, com, claim, opened, open_error, times, u, forced>>
  BY DEF Commiter
<1>2. \/ pc' = "thrown"
      \/ pc' = "ready" /\ p' \in Primes /\ q' \in Primes /\ gen_prime(p') /\ gen_prime(q')
  BY DEF Commiter
<1>3. QED
  BY <1>1, <1>2
     DEF TInv, GoodPrimes, NothingReceived, Locked, Squared, ForceOpened, OpenedWithFactor

LEMMA commitStep == ASSUME ConstantsOK PROVE TInv /\ commit => TInv'
<1> SUFFICES ASSUME TInv, commit PROVE TInv'
  OBVIOUS
<1>1. /\ pc = "ready" /\ pc' = "committed"
      /\ UNCHANGED <<p, q, claim, opened, open_error, times, u, forced>>
  BY DEF commit
<1>2. PICK K \in Ks, i \in Secrets, h \in 2..(p * q - 1) :
        /\ secret' = i
        /\ com' = [K |-> K, n |-> p * q, h |-> h,
                   S |-> prng_xor(create_timed_key(p * q, (p - 1) * (q - 1), h, K),
                                  integer_to_bits(i))]
  BY DEF commit
<1>3. /\ com'.K = K /\ com'.n = p * q /\ com'.h = h
      /\ com'.S = prng_xor(create_timed_key(p * q, (p - 1) * (q - 1), h, K), integer_to_bits(i))
  BY <1>2
<1>4. TimedKey' = create_timed_key(p * q, (p - 1) * (q - 1), h, K)
  BY <1>1, <1>3 DEF TimedKey, Phi, create_timed_key
<1>5. Locked'
  BY <1>1, <1>2, <1>3, <1>4 DEF Locked
<1>6. times = -1 /\ forced = None /\ opened = None /\ open_error = "none"
  BY <1>1 DEF TInv, NothingReceived
<1>7. GoodPrimes' /\ NothingReceived' /\ Squared' /\ ForceOpened' /\ OpenedWithFactor'
  BY <1>1, <1>6
     DEF TInv, GoodPrimes, NothingReceived, Squared, ForceOpened, OpenedWithFactor
<1>8. QED
  BY <1>5, <1>7 DEF TInv

\* A positive factor that open accepts is one of the primes, and gives the same phi.
LEMMA AcceptedFactor ==
  ASSUME ConstantsOK, TInv, pc = "committed", NEW x \in Claims \cup {p}, x > 0,
         OpenError(x) = "none"
  PROVE  create_timed_key(com.n, (x - 1) * (Quotient(x) - 1), com.h, com.K) = TimedKey
<1>1. p \in Primes /\ q \in Primes /\ gen_prime(p) /\ gen_prime(q) /\ com.n = p * q
  BY DEF TInv, GoodPrimes, Locked
<1>2. /\ IsPrime(p) /\ IsPrime(q) /\ p \in Nat /\ q \in Nat /\ p > 0 /\ q > 0
  BY <1>1, PrimeFacts
<1>a. x \in Int
  BY <1>2 DEF ConstantsOK
<1>3. x \in Nat /\ ~(x < 0)
  BY <1>a
<1>4. x # 0 /\ x # 1 /\ x # p * q /\ (p * q) % x = 0
  BY <1>1, <1>3 DEF OpenError, Remainder
<1>5. x \in {p, q}
  <2>1. x > 0
    BY <1>3, <1>4
  <2>2. QED
    BY <1>2, <1>3, <1>4, <2>1, DivisorsOfProduct
<1>6. (p * q) \div p = q /\ (p * q) \div q = p
  <2>1. ASSUME NEW a \in Nat, a > 0, NEW b \in Nat PROVE (a * b) \div a = b
    <3> DEFINE m == a * b
               d == m \div a
               s == m % a
    <3>1. m \in Int /\ m = a * b
      OBVIOUS
    <3>a. m % a = 0
      BY <2>1, <3>1, Multiple
    <3>2. d \in Int /\ m = a * d + s /\ s = 0
      <4> HIDE DEF m
      <4>1. QED
        BY <2>1, <3>1, <3>a, DivMod
    <3> HIDE DEF d, s
    <3>3. a * (b - d) = 0 /\ b - d \in Int
      BY <3>2
    <3>4. b - d = 0
      <4>1. -a < a * (b - d) /\ a * (b - d) < a
        BY <2>1, <3>3
      <4> DEFINE z == b - d
      <4>2. z \in Int /\ -a < a * z /\ a * z < a
        BY <3>3, <4>1
      <4> HIDE DEF z
      <4>3. z = 0
        BY <2>1, <4>2, NoSmallMultiple
      <4>4. QED
        BY <4>3 DEF z
    <3>5. d = b
      BY <3>2, <3>4
    <3>6. QED
      BY <3>5 DEF d
  <2>2. p * q = q * p
    BY <1>2
  <2>3. QED
    BY <1>2, <2>1, <2>2
<1>b. Quotient(x) = com.n \div x
  BY <1>3 DEF Quotient
<1>7. (x - 1) * (Quotient(x) - 1) = Phi
  <2>1. CASE x = p
    BY <1>1, <1>6, <1>b, <2>1 DEF Phi
  <2>2. CASE x = q
    <3>1. (q - 1) * (p - 1) = (p - 1) * (q - 1)
      BY <1>2
    <3>2. QED
      BY <1>1, <1>6, <1>b, <2>2, <3>1 DEF Phi
  <2>3. QED
    BY <1>5, <2>1, <2>2
<1>8. QED
  BY <1>1, <1>7 DEF TimedKey

LEMMA open_commitmentStep == ASSUME ConstantsOK PROVE TInv /\ open_commitment => TInv'
<1> SUFFICES ASSUME TInv, open_commitment PROVE TInv'
  OBVIOUS
<1>1. pc = "committed" /\ UNCHANGED <<pc, p, q, secret, com, times, u, forced>>
  BY DEF open_commitment
<1>2. PICK x \in Claims \cup {p} :
        /\ claim' = x /\ open_error' = OpenError(x)
        /\ opened' = IF OpenError(x) # "none" THEN None
                     ELSE prng_xor(create_timed_key(com.n, (x - 1) * (Quotient(x) - 1),
                                                    com.h, com.K), com.S)
  BY DEF open_commitment
<1>3. opened' # None /\ claim' > 0 => opened' = prng_xor(TimedKey, com.S)
  <2> SUFFICES ASSUME opened' # None, claim' > 0 PROVE opened' = prng_xor(TimedKey, com.S)
    OBVIOUS
  <2>1. OpenError(x) = "none" /\ x > 0
    BY <1>2
  <2>2. create_timed_key(com.n, (x - 1) * (Quotient(x) - 1), com.h, com.K) = TimedKey
    BY <1>1, <2>1, AcceptedFactor
  <2>3. QED
    BY <1>2, <2>1, <2>2
<1>4. claim' = p => open_error' = "none"
  <2>1. p \in Primes /\ q \in Primes /\ gen_prime(p) /\ gen_prime(q) /\ com.n = p * q
    BY <1>1 DEF TInv, GoodPrimes, Locked
  <2>2. p \in Nat /\ q \in Nat /\ p > 2 /\ p * q \in Nat /\ p * q # p
    BY <2>1, PrimeFacts
  <2>3. p # 0 /\ p # 1 /\ p # com.n
    BY <2>1, <2>2
  <2>4. com.n % p = 0
    <3> DEFINE m == p * q
    <3>1. m \in Int /\ p > 0 /\ q \in Int /\ m = p * q
      BY <2>2
    <3> HIDE DEF m
    <3>2. m % p = 0
      BY <2>2, <3>1, Multiple
    <3>3. QED
      BY <2>1, <3>2 DEF m
  <2>5. OpenError(p) = "none"
    BY <2>2, <2>3, <2>4 DEF OpenError, Remainder
  <2>6. QED
    BY <1>2, <2>5
<1>5. TimedKey' = TimedKey /\ Phi' = Phi
  BY <1>1 DEF TimedKey, Phi, create_timed_key
<1>6. OpenedWithFactor'
  BY <1>1, <1>3, <1>4, <1>5 DEF OpenedWithFactor
<1>7. GoodPrimes' /\ NothingReceived' /\ Locked' /\ Squared' /\ ForceOpened'
  BY <1>1, <1>5 DEF TInv, GoodPrimes, NothingReceived, Locked, Squared, ForceOpened
<1>8. QED
  BY <1>6, <1>7 DEF TInv

LEMMA force_openStep == ASSUME ConstantsOK PROVE TInv /\ force_open => TInv'
<1> SUFFICES ASSUME TInv, force_open PROVE TInv'
  OBVIOUS
<1>1. /\ UNCHANGED <<pc, p, q, secret, com, claim, opened, open_error>>
      /\ pc = "committed"
  <2>1. UNCHANGED <<pc, p, q, secret, com, claim, opened, open_error>>
    BY DEF force_open, force_open_start, force_open_square, force_open_end
  <2>2. pc = "committed"
    <3>1. times = -1 => pc = "committed"
      BY DEF force_open, force_open_start, force_open_square, force_open_end
    <3>2. QED
      BY <3>1 DEF TInv, NothingReceived
  <2>3. QED
    BY <2>1, <2>2
<1>2. /\ p \in Primes /\ q \in Primes /\ gen_prime(p) /\ gen_prime(q)
      /\ com.n = p * q /\ com.h \in 2..(p * q - 1)
  BY <1>1 DEF TInv, GoodPrimes, Locked
<1>3. p * q \in Nat /\ p * q > 0 /\ Phi \in Nat /\ Phi > 0
  BY <1>2, PrimeFacts DEF Phi
<1>4. com.h \in 0..(p * q - 1) /\ com.h \in Int
  BY <1>2, <1>3
<1>5. TimedKey' = TimedKey /\ Phi' = Phi
  BY <1>1 DEF TimedKey, Phi, create_timed_key
<1>6. GoodPrimes' /\ NothingReceived' /\ Locked' /\ OpenedWithFactor'
  BY <1>1, <1>5 DEF TInv, GoodPrimes, NothingReceived, Locked, OpenedWithFactor
<1> DEFINE n == p * q
           h == com.h
           limit == 2^com.K
<1>7. limit \in Int
  <2>1. com.K \in Nat
    BY <1>1 DEF TInv, Locked, ConstantsOK
  <2>2. QED
    BY <2>1
<1>8. limit' = limit /\ n' = n /\ h' = h
  BY <1>1
<1> HIDE DEF n, limit, h
<1>9. CASE force_open_start
  <2>1. times = -1 /\ times' = limit /\ u' = h /\ forced' = forced
    BY <1>9 DEF force_open_start, limit, h
  <2>2. forced = None
    <3>1. -1 # 0
      OBVIOUS
    <3>2. QED
      BY <2>1, <3>1 DEF TInv, ForceOpened
  <2>3. Chain(h, 0, h, n, Phi)
    BY <1>3, <1>4, ChainStart DEF n, h
  <2>4. limit - limit = 0
    BY <1>7
  <2>5. Squared'
    <3>1. times' \in Int /\ limit - times' \in Nat /\ Chain(u', limit - times', h, n, Phi)
      BY <1>7, <2>1, <2>3, <2>4
    <3>2. (2^com.K)' = limit /\ (com.h)' = h /\ (p * q)' = n
      BY <1>1 DEF limit, h, n
    <3>3. QED
      BY <1>5, <3>1, <3>2 DEF Squared
  <2>6. ForceOpened'
    BY <2>1, <2>2 DEF ForceOpened
  <2>7. QED
    BY <1>6, <2>5, <2>6 DEF TInv
<1>10. CASE force_open_square
  <2>1. times > 0 /\ times' = times - 1 /\ u' = (u * u) % n /\ forced' = forced
    BY <1>2, <1>10 DEF force_open_square, n
  <2>2. times # -1
    BY <1>10 DEF force_open_square
  <2>3. times \in Int /\ limit - times \in Nat /\ Chain(u, limit - times, h, n, Phi)
    BY <1>1, <2>2 DEF TInv, Squared, limit, h, n
  <2>4. forced = None
    <3>1. times # 0
      BY <2>1, <2>3
    <3>2. QED
      BY <3>1 DEF TInv, ForceOpened
  <2> DEFINE j == limit - times
  <2>5. j \in Nat /\ Chain(u, j, h, n, Phi)
    BY <2>3
  <2>6. limit - times' = j + 1 /\ times' \in Int
    BY <1>7, <2>1, <2>3
  <2> HIDE DEF j
  <2>7. Chain((u * u) % n, j + 1, h, n, Phi)
    BY <1>3, <1>4, <2>5, ChainStep DEF n, h
  <2>8. Squared'
    <3>1. times' \in Int /\ limit - times' \in Nat /\ Chain(u', limit - times', h, n, Phi)
      BY <2>1, <2>5, <2>6, <2>7
    <3>2. (2^com.K)' = limit /\ (com.h)' = h /\ (p * q)' = n
      BY <1>1 DEF limit, h, n
    <3>3. QED
      BY <1>5, <3>1, <3>2 DEF Squared
  <2>9. ForceOpened'
    BY <2>1, <2>4 DEF ForceOpened
  <2>10. QED
    BY <1>6, <2>8, <2>9 DEF TInv
<1>11. CASE force_open_end
  <2>1. times = 0 /\ forced' = prng_xor(u, com.S) /\ UNCHANGED <<times, u>>
    BY <1>11 DEF force_open_end
  <2>2. Squared'
    BY <1>1, <1>5, <2>1 DEF TInv, Squared
  <2>3. ForceOpened'
    BY <1>1, <2>1 DEF ForceOpened
  <2>4. QED
    BY <1>6, <2>2, <2>3 DEF TInv
<1>12. QED
  BY <1>9, <1>10, <1>11 DEF force_open

LEMMA TStutter == TInv /\ UNCHANGED vars => TInv'
<1> SUFFICES ASSUME TInv, UNCHANGED vars PROVE TInv'
  OBVIOUS
<1>1. UNCHANGED <<pc, p, q, secret, com, claim, opened, open_error, times, u, forced>>
  BY DEF vars
<1>2. TimedKey' = TimedKey /\ Phi' = Phi
  BY <1>1 DEF TimedKey, Phi, create_timed_key
<1>3. QED
  BY <1>1, <1>2
     DEF TInv, GoodPrimes, NothingReceived, Locked, Squared, ForceOpened, OpenedWithFactor

-----------------------------------------------------------------------------
(* The theorems.                                                           *)

\* The invariant holds in every run: u follows the chain of squares, and the
\* lock and whatever is opened were encrypted with the key computed from phi.
THEOREM LockInvariance == ASSUME ConstantsOK PROVE Spec => []TInv
<1>1. TInv /\ [Next]_vars => TInv'
  BY CommiterStep, commitStep, open_commitmentStep, force_openStep, TStutter DEF Next
<1>2. QED
  BY <1>1, TInvInit, PTL DEF Spec

\* What force_open ends with is the committer's key: 2^K squarings modulo n do
\* what the exponent reduced modulo phi does.
LEMMA ForcedKey ==
  ASSUME ConstantsOK, TInv, forced # None, p # q
  PROVE  pc = "committed" /\ u = TimedKey /\ u \in Nat /\ forced = prng_xor(TimedKey, com.S)
<1>1. pc = "committed" /\ times = 0 /\ forced = prng_xor(u, com.S)
  BY DEF TInv, NothingReceived, ForceOpened
<1>2. /\ p \in Primes /\ q \in Primes /\ gen_prime(p) /\ gen_prime(q)
      /\ com.h \in 2..(p * q - 1)
  BY <1>1 DEF TInv, GoodPrimes, Locked
<1>3. IsPrime(p) /\ IsPrime(q) /\ p * q \in Nat /\ p * q > 0
  BY <1>2, PrimeFacts
<1>4. com.h \in Int
  BY <1>2
<1> DEFINE limit == 2^com.K
<1>5. limit \in Int
  <2>1. com.K \in Nat
    BY <1>1 DEF TInv, Locked, ConstantsOK
  <2>2. QED
    BY <2>1
<1>6. Chain(u, limit - 0, com.h, p * q, Phi)
  <2>1. times # -1
    BY <1>1
  <2>2. QED
    BY <1>1, <2>1 DEF TInv, Squared
<1>7. limit - 0 = limit
  <2> HIDE DEF limit
  <2>1. QED
    BY <1>5
<1>8. Chain(u, 2^com.K, com.h, p * q, (p - 1) * (q - 1))
  BY <1>6, <1>7 DEF Phi
<1>9. u = TimedKey
  BY <1>2, <1>3, <1>4, <1>8, ChainEnd DEF TimedKey, Phi
<1>10. u \in Nat
  <2>1. PICK e \in Nat : u = ExpMod(com.h, e, p * q)
    BY <1>8 DEF Chain
  <2> DEFINE m == p * q
  <2> HIDE DEF m
  <2>2. m \in Nat /\ m > 0 /\ u = ExpMod(com.h, e, m)
    BY <1>3, <2>1 DEF m
  <2>3. u \in 0..(m - 1)
    BY <1>4, <2>2, ExpModType
  <2>4. QED
    BY <2>2, <2>3
<1>11. QED
  BY <1>1, <1>9, <1>10

\* What force_open finds after its squarings is the integer that was locked, for
\* every pair of different primes that gen_prime accepts, every secret and every
\* h, also one that shares a factor with n.
THEOREM LockKeepsSecret == ASSUME ConstantsOK PROVE Spec => []LockHoldsSecret
<1>1. TInv => LockHoldsSecret
  <2> SUFFICES ASSUME TInv, forced # None, p # q PROVE bits_to_integer(forced) = secret
    BY DEF LockHoldsSecret
  <2>1. pc = "committed" /\ u = TimedKey /\ u \in Nat /\ forced = prng_xor(TimedKey, com.S)
    BY ForcedKey
  <2>2. secret \in Nat /\ com.S = prng_xor(TimedKey, integer_to_bits(secret))
    BY <2>1 DEF TInv, Locked, ConstantsOK
  <2>3. MinEncodedSize(secret) \in Nat
    BY <2>2, SizeFits
  <2> DEFINE size == 8 * MinEncodedSize(secret)
             bits == integer_to_bits(secret)
  <2>4. size \in Nat
    BY <2>3
  <2>5. bits \in [1..size -> {0, 1}] /\ bits_to_integer(bits) = secret
    BY <2>2, RoundTrip
  <2>6. TimedKey \in Nat
    BY <2>1
  <2> HIDE DEF size, bits
  <2>7. prng_xor(TimedKey, prng_xor(TimedKey, bits)) = bits
    BY <2>4, <2>5, <2>6, XorTwice
  <2>8. forced = bits
    BY <2>1, <2>2, <2>7 DEF bits
  <2>9. QED
    BY <2>5, <2>8
<1>2. QED
  BY <1>1, LockInvariance, PTL

\* Receiver::open and force_open agree: whatever positive number is sent for p, open
\* either refuses it or shows what the squarings would have found; and p is accepted.
THEOREM OpenAndForceAgree == ASSUME ConstantsOK PROVE Spec => []OpenAgreesWithForce
<1>1. TInv => OpenAgreesWithForce
  <2> SUFFICES ASSUME TInv, p # q
               PROVE  /\ opened # None /\ forced # None /\ claim > 0 => opened = forced
                      /\ claim = p => open_error = "none"
    BY DEF OpenAgreesWithForce
  <2>1. ASSUME opened # None, forced # None, claim > 0 PROVE opened = forced
    <3>1. pc = "committed" /\ forced = prng_xor(TimedKey, com.S)
      BY <2>1, ForcedKey
    <3>2. QED
      BY <2>1, <3>1 DEF TInv, OpenedWithFactor
  <2>2. claim = p => open_error = "none"
    BY DEF TInv, NothingReceived, OpenedWithFactor
  <2>3. QED
    BY <2>1, <2>2
<1>2. QED
  BY <1>1, LockInvariance, PTL

=============================================================================
