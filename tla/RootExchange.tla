---------------------------- MODULE RootExchange ----------------------------
(***************************************************************************)
(* The second phase of SellInformationProtocol::exec: for each of the R    *)
(* signatures kept by the cut and choose the buyer sends L squares modulo  *)
(* n, the seller commits to two encrypted roots of each, the buyer has     *)
(* half of them checked against the root she started from, and the other   *)
(* half is left for factorise() to decrypt once the signatures are known.  *)
(*                                                                         *)
(* The numbers are real and small (P and Q are the seller's primes).  A    *)
(* ciphertext is the record of its key and plaintext; the key of index i   *)
(* of round j, a hash of signature j and i, is the pair <<j, i>>; a vector *)
(* of bytes is the set of the one thing it encodes, {} if it is empty; and *)
(* a SHA commitment is the message it was computed from.                   *)
(***************************************************************************)
EXTENDS Integers, FiniteSets, Sequences, FiniteSetsExt, Modular

CONSTANTS
  P, Q,   \* the factors the seller sells
  R,      \* rounds: the instances kept by the cut and choose
  L,      \* squares in a round
  Draws,  \* what the buyer's generator can draw from 0 to n/2
  Subsets,      \* the arrays of indices the buyer can send
  OtherValues,  \* values she can send in the place of her own root
  LieKinds,     \* what the seller can do wrong at one index of one round
  Plaintexts    \* numbers he can encrypt in the place of a root

n == P * Q
Rounds == 0..(R - 1)
Indices == 0..(L - 1)

IsOddPrime(p) == p > 2 /\ \A t \in 2..(p - 1) : p % t # 0
ASSUME PrimesAssumption ==
  P \in Nat /\ Q \in Nat /\ P # Q /\ IsOddPrime(P) /\ IsOddPrime(Q)
ASSUME RoundsAssumption == R \in Nat \ {0}
ASSUME IndicesAssumption == L \in Nat \ {0} /\ L % 2 = 0
ASSUME DrawsAssumption == Draws \subseteq 0..(n \div 2)
ASSUME SubsetsAssumption == Subsets \subseteq [1..(L \div 2) -> Nat]
ASSUME OtherValuesAssumption == OtherValues \subseteq Int
ASSUME LieKindsAssumption == LieKinds \subseteq {"none", "root", "message", "key"}
ASSUME PlaintextsAssumption == Plaintexts \subseteq Nat  \* an Integer of bytes

Sides == {1, 2}  \* 1 for r1, c1 and d1; 2 for r2, c2 and d2

VARIABLES
  lie,        \* the seller's deviation, if any, and where it is
  pc,         \* where exec is, "finished" after factorise, or "thrown"
  j,          \* the round
  k,          \* the loop over the checked indices
  x,          \* Buyer::x
  y,          \* Seller::y
  r,          \* Seller::r1 and r2: r[1][j][i] and r[2][j][i]
  d,          \* Buyer::d1 and d2: the digest com, which stands for the
              \* message m of Seller::d1 and d2 too, and the opened message m
  keys,       \* Buyer::single_buyers[j].keys_commits[i]: com and m
  indices,    \* the indices of the round's subset, as sent
  values,     \* the values sent with them
  commitment_indices,  \* what acceptSubset returned
  result,     \* Buyer::p and q
  error       \* the exception thrown

vars == <<lie, pc, j, k, x, y, r, d, keys, indices, values,
          commitment_indices, result, error>>

Table(S) == [Rounds -> [Indices -> S]]
Filled(v) == [round \in Rounds |-> [i \in Indices |-> v]]
Key(round, i) == <<round, i>>
OtherKey == <<R, 0>>  \* a key that no index of a round has

\* common/aes.cpp.  dec finds nothing, and throws, where the key is another one.
enc(key, msg) == {[key |-> k0, msg |-> msg] : k0 \in key}
dec(key, c) == {c0.msg : c0 \in {c0 \in c : c0.key \in key}}

\* What a seller can commit to in the place of an encrypted root: another number,
\* bytes that do not decrypt, or no bytes.
Forged(round, i) ==
  {{}, enc({OtherKey}, 0)} \cup {enc({Key(round, i)}, msg) : msg \in Plaintexts}

\* The seller may deviate at one index of one round, on the sides that are the
\* domain of lie.c:
\*   "root"     he commits to lie.c[side] in the place of an encrypted root
\*   "message"  he opens the commitment to something else
\*   "key"      he opens the commitment to the key to something else
\* The commitments to the keys were made in SignatureKeyProtocol::exec.
Init ==
  /\ \E kind \in LieKinds, round \in Rounds, index \in Indices,
        sides \in (SUBSET Sides) \ {{}} :
       /\ kind = "none" => round = 0 /\ index = 0
       /\ kind \in {"none", "key"} => sides = Sides
       /\ \E c \in [sides -> IF kind = "root" THEN Forged(round, index) ELSE {{}}] :
            lie = [kind |-> kind, round |-> round, index |-> index, c |-> c]
  /\ pc = "genSquares"
  /\ j = 0
  /\ k = 1
  /\ x = Filled(0)
  /\ y = Filled(0)
  /\ r = [side \in Sides |-> Filled(0)]
  /\ d = [side \in Sides |-> Filled([com |-> {}, m |-> {}])]
  /\ keys = [round \in Rounds |-> [i \in Indices |-> [com |-> {Key(round, i)}, m |-> {}]]]
  /\ indices = <<>>
  /\ values = <<>>
  /\ commitment_indices = <<>>
  /\ result = <<0, 0>>
  /\ error = "none"

-----------------------------------------------------------------------------
(* common/square_root.cpp *)

\* Crypto++: the remainder of a division by a positive number is not negative.
ModularSquareRoot(a, p) == CHOOSE s \in 0..(p - 1) : (s * s) % p = a % p
CRT(xp, p, xq, q, u) == p * ((u * (xq - xp)) % q) + xp

\* std::sort of an array of four.
Orders == {o \in [1..4 -> 1..4] : \A e, f \in 1..4 : o[e] = o[f] => e = f}
sort(s) ==
  LET order == CHOOSE o \in Orders : \A e, f \in 1..4 : e < f => s[o[e]] <= s[o[f]]
  IN  [e \in 1..4 |-> s[order[e]]]

square_root(a, sign_x, sign_y) ==
  LET xp == ModularSquareRoot(a, P)
      xq == ModularSquareRoot(a, Q)
      root == CRT(IF sign_x = -1 THEN P - xp ELSE xp, P,
                  IF sign_y = -1 THEN Q - xq ELSE xq, Q,
                  InverseMod(P, Q))
  IN  IF (root * root) % n # a THEN -1 ELSE root

four_roots(a) == <<square_root(a, -1, -1), square_root(a, 1, -1),
                   square_root(a, -1, 1), square_root(a, 1, 1)>>
all_square_roots_Unsorted(a) == four_roots(a)
all_square_roots(a) == sort(four_roots(a))

-----------------------------------------------------------------------------
(* sha_commitment.cpp *)

Lies(kind, i) == lie.kind = kind /\ lie.round = j /\ lie.index = i
LiesOn(kind, side, i) == Lies(kind, i) /\ side \in DOMAIN lie.c

\* ShaCommitment::exec: the buyer gets the digest of the message.
Committed(commitment, m) == [commitment EXCEPT !.com = m]

\* ShaCommitment::open: the message the seller sends for a commitment is the
\* one committed to unless he lies ({} stands for another one); it is stored
\* before the digests are compared.
Sent(lied, commitment) == IF lied THEN {} ELSE commitment.com
Stored(lied, commitment) == [commitment EXCEPT !.m = Sent(lied, commitment)]
OpenFails(lied, commitment) == commitment.com # Sent(lied, commitment)

Proceed(next) ==
  /\ pc' = next
  /\ UNCHANGED error
Throw(what) ==
  /\ pc' = "thrown"
  /\ error' = what

-----------------------------------------------------------------------------
(* One round *)

Square_Unreduced(draw) == draw * draw
Square(draw) == (draw * draw) % n

\* genSquares, getSquares and acceptSquares.
genSquares ==
  /\ pc = "genSquares"
  /\ \E draw \in [Indices -> Draws] :
       /\ x' = [x EXCEPT ![j] = draw]
       /\ y' = [y EXCEPT ![j] = [i \in Indices |-> Square(draw[i])]]
  /\ Proceed("findRoots")
  /\ UNCHANGED <<lie, j, k, r, d, keys, indices, values,
                 commitment_indices, result>>

\* The two smallest roots, swapped where GenerateBit() returns 1.
findRoots ==
  /\ pc = "findRoots"
  /\ LET roots == [i \in Indices |-> all_square_roots(y[j][i])]
     IN  \E swapped \in SUBSET Indices :
           r' = [side \in Sides |-> [r[side] EXCEPT ![j] =
                   [i \in Indices |-> roots[i][IF i \in swapped THEN 3 - side ELSE side]]]]
  /\ Proceed("commit")
  /\ UNCHANGED <<lie, j, k, x, y, d, keys, indices, values,
                 commitment_indices, result>>

\* encryptRoots, setupCommit and the loop that commits to the ciphertexts.
commit ==
  /\ pc = "commit"
  /\ LET c(side, i) == IF LiesOn("root", side, i) THEN lie.c[side]
                       ELSE enc({Key(j, i)}, r[side][j][i])
     IN  d' = [side \in Sides |-> [d[side] EXCEPT ![j] =
                 [i \in Indices |-> Committed(d[side][j][i], c(side, i))]]]
  /\ Proceed("pickSubset")
  /\ UNCHANGED <<lie, j, k, x, y, r, keys, indices, values, commitment_indices, result>>

\* The checks of exec on the set of the indices sent.
SubsetError_SizeUnchecked(s) ==
  IF \E a \in DOMAIN s : s[a] >= L THEN "invalid commitment_indices value" ELSE "none"
SubsetError(s) ==
  IF Cardinality({s[a] : a \in DOMAIN s}) # L \div 2 THEN "invalid indices size"
  ELSE IF \E a \in DOMAIN s : s[a] >= L THEN "invalid commitment_indices value" ELSE "none"

\* pickSubset, getSubsetIndices and getSubsetValues, and the checks.
pickSubset ==
  /\ pc = "pickSubset"
  /\ \E s \in Subsets :
       /\ indices' = s
       /\ values' \in {v \in [DOMAIN s -> {x[j][i] : i \in Indices} \cup OtherValues] :
                         \A a \in DOMAIN s :
                            \/ v[a] \in OtherValues
                            \/ s[a] \in Indices /\ v[a] = x[j][s[a]]}
       /\ IF SubsetError(s) = "none" THEN Proceed("acceptSubset") ELSE Throw(SubsetError(s))
  /\ UNCHANGED <<lie, j, k, x, y, r, d, keys, commitment_indices, result>>

\* The loop of acceptSubset throws at the first value that is not acceptable.
ValueError_HalfRefused(ind, val) ==
  CASE val >= n \div 2 -> "xi > n/2"
    [] val < n \div 2 /\ (val * val) % n # y[j][ind] -> "xi is not a square root of yi"
    [] OTHER -> "none"
ValueError(ind, val) ==
  CASE val > n \div 2 -> "xi > n/2"
    [] val <= n \div 2 /\ (val * val) % n # y[j][ind] -> "xi is not a square root of yi"
    [] OTHER -> "none"

\* The commitment to open for a value: d2 where both roots are equal.
MatchingSide(ind, val) ==
  CASE val = r[2][j][ind] -> 2
    [] val # r[2][j][ind] /\ val = r[1][j][ind] -> 1
    [] OTHER -> 5

acceptSubset ==
  /\ pc = "acceptSubset"
  /\ LET errorOf(a) == ValueError(indices[a], values[a])
         bad == {a \in DOMAIN indices : errorOf(a) # "none"}
     IN  IF bad # {}
         THEN Throw(errorOf(Min(bad))) /\ UNCHANGED <<commitment_indices, k>>
         ELSE /\ commitment_indices' =
                   [a \in DOMAIN indices |-> MatchingSide(indices[a], values[a])]
              /\ k' = 1
              /\ Proceed("open")
  /\ UNCHANGED <<lie, j, x, y, r, d, keys, indices, values, result>>

\* The buyer compares the decrypted root with the one she started from.
verifyRoot_Skipped(ind, key, c) == TRUE
verifyRoot(ind, key, c) == dec(key, c) = {x[j][ind]}

\* One iteration of the loop over the subset: the key is opened, then the
\* commitment that acceptSubset named, then verifyRoot.
openChosen ==
  /\ pc = "open" /\ k <= L \div 2
  /\ LET ind == indices[k]
         side == commitment_indices[k]
         keyFails == OpenFails(Lies("key", ind), keys[j][ind])
         lied == LiesOn("message", side, ind)
     IN  /\ keys' = [keys EXCEPT ![j][ind] = Stored(Lies("key", ind), @)]
         /\ IF keyFails \/ side \notin Sides
            THEN /\ Throw(IF keyFails THEN "sha commitment open failed"
                          ELSE "matching roots to values didn't work")
                 /\ UNCHANGED <<k, d>>
            ELSE /\ d' = [d EXCEPT ![side][j][ind] = Stored(lied, @)]
                 /\ IF OpenFails(lied, d[side][j][ind])
                    THEN Throw("sha commitment open failed") /\ UNCHANGED k
                    ELSE IF ~verifyRoot(ind, keys'[j][ind].m, d'[side][j][ind].m)
                    THEN Throw(IF dec(keys'[j][ind].m, d'[side][j][ind].m) = {}
                               THEN "InvalidCiphertext" ELSE "verifyRoot failed")
                         /\ UNCHANGED k
                    ELSE k' = k + 1 /\ Proceed("open")
  /\ UNCHANGED <<lie, j, x, y, r, indices, values, commitment_indices, result>>

\* The indices whose two commitments are opened and whose key is not.
Rest_All == Indices
Rest == Indices \ {indices[a] : a \in DOMAIN indices}

\* The loop over the other indices, at the end of a round, d1 before d2.  An open
\* that fails leaves the commitments after it closed.
openRest ==
  /\ pc = "open" /\ k > L \div 2
  /\ LET lied(side, i) == LiesOn("message", side, i)
         bad == {p \in Rest \X Sides : OpenFails(lied(p[2], p[1]), d[p[2]][j][p[1]])}
         reached(side) ==
           {i \in Rest : \A p \in bad : i < p[1] \/ (i = p[1] /\ side <= p[2])}
     IN  /\ d' = [side \in Sides |-> [d[side] EXCEPT ![j] =
                    [i \in Indices |-> IF i \in reached(side)
                                       THEN Stored(lied(side, i), d[side][j][i])
                                       ELSE d[side][j][i]]]]
         /\ IF bad # {}
            THEN Throw("sha commitment open failed") /\ UNCHANGED j
            ELSE IF j < R - 1
            THEN j' = j + 1 /\ Proceed("genSquares")
            ELSE j' = j /\ Proceed("exchanged")
  /\ UNCHANGED <<lie, k, x, y, r, keys, indices, values, commitment_indices, result>>

-----------------------------------------------------------------------------
(* Buyer::factorise *)

\* GCD(a, n) of Crypto++, which is Euclid's algorithm from n and a: a negative
\* divisor of n comes out as it is.
GCD == [a \in Int |-> IF a < 0 /\ n % (-a) = 0 THEN a
                      ELSE Max({t \in 1..n : a % t = 0 /\ n % t = 0})]

\* The indices whose two commitments are open, which factorise does not skip.
Closed == {p \in Rounds \X Indices : \A side \in Sides : d[side][p[1]][p[2]].m # {}}

\* Those of them with bytes that do not decrypt with the key computed by genKeys.
Undecryptable ==
  {p \in Closed : \E side \in Sides : dec({Key(p[1], p[2])}, d[side][p[1]][p[2]].m) = {}}

\* What the roots of one index give.
Factors(round, i) ==
  LET root(side) == CHOOSE s \in dec({Key(round, i)}, d[side][round][i].m) : TRUE
  IN  <<GCD[n + root(1) - root(2)], GCD[root(1) + root(2)]>>

IsFactorisation_Divides(f) == n % f[1] = 0 /\ n % f[2] = 0
IsFactorisation(f) == f[1] * f[2] = n

\* The buyer has paid and has read the signatures from T2 (Settlement).  The
\* first index, by rounds, that does not decrypt or whose roots give n is the last
\* that she looks at.
factorise ==
  /\ pc = "exchanged"
  /\ LET winners == {p \in Closed \ Undecryptable : IsFactorisation(Factors(p[1], p[2]))}
         stops == winners \cup Undecryptable
         first == CHOOSE p \in stops :
                    \A o \in stops : p[1] * L + p[2] <= o[1] * L + o[2]
     IN  IF stops = {}
         THEN Throw("Factorization failed!") /\ UNCHANGED result
         ELSE IF first \in Undecryptable
         THEN Throw("InvalidCiphertext") /\ UNCHANGED result
         ELSE result' = Factors(first[1], first[2]) /\ Proceed("finished")
  /\ UNCHANGED <<lie, j, k, x, y, r, d, keys, indices, values,
                 commitment_indices>>

Next ==
  \/ genSquares \/ findRoots \/ commit \/ pickSubset \/ acceptSubset
  \/ openChosen \/ openRest \/ factorise

Spec == Init /\ [][Next]_vars
FairSpec == Spec /\ WF_vars(Next)

-----------------------------------------------------------------------------
(* Properties *)

Ciphertext ==
  {{}} \cup {enc({key}, m) : key \in (Rounds \X Indices) \cup {OtherKey},
                             m \in ((-1)..n) \cup Plaintexts}
KeyBytes == {{}} \cup {{key} : key \in Rounds \X Indices}

\* The variables have the types of the members they stand for.
TypeOK ==
  /\ lie.kind \in LieKinds /\ lie.round \in Rounds /\ lie.index \in Indices
  /\ DOMAIN lie.c \in (SUBSET Sides) \ {{}}
  /\ \A side \in DOMAIN lie.c :
       lie.c[side] \in IF lie.kind = "root" THEN Forged(lie.round, lie.index) ELSE {{}}
  /\ pc \in {"genSquares", "findRoots", "commit", "pickSubset", "acceptSubset", "open",
             "exchanged", "finished", "thrown"}
  /\ j \in Rounds /\ k \in 1..(L \div 2 + 1)
  /\ x \in Table(Draws \cup {0}) /\ y \in Table(0..(n - 1))
  /\ r \in [Sides -> Table((-1)..n)]
  /\ d \in [Sides -> Table([com : Ciphertext, m : Ciphertext])]
  /\ keys \in Table([com : KeyBytes, m : KeyBytes])
  /\ indices \in Subsets \cup {<<>>}
  /\ DOMAIN values = DOMAIN indices /\ DOMAIN commitment_indices \subseteq DOMAIN indices
  /\ \A a \in DOMAIN commitment_indices : commitment_indices[a] \in Sides \cup {5}
  /\ result \in {<<0, 0>>} \cup ((1..n) \X (1..n))

\* The roots the buyer can decrypt before the signatures are known.
Decryptable(round, i) ==
  UNION {dec(keys[round][i].m, d[side][round][i].m) : side \in Sides}

Checked(round) == {i \in Indices : keys[round][i].m # {}}

\* Whatever indices and values the buyer sends, at no index does exec let her
\* decrypt two roots, or a root that she did not hold herself: two different
\* roots of one square would give her the factors before she pays.  (A seller
\* who encrypts something else gives it to her, but it is no root.)
OneRootPerIndex ==
  \A round \in Rounds, i \in Indices :
    /\ Cardinality(Decryptable(round, i)) <= 1
    /\ lie.kind # "root" => Decryptable(round, i) \subseteq {x[round][i]} \cup OtherValues

\* When the rounds are over, and the buyer goes on to pay, half of the indices
\* of every round were checked against her root with one commitment left
\* closed, and all the others have both commitments open for factorise().
ExchangeIsHalfOpen ==
  pc = "exchanged" =>
    \A round \in Rounds :
      /\ Cardinality(Checked(round)) = L \div 2
      /\ \A i \in Checked(round) :
           /\ <<round, i>> \notin Closed
           /\ Decryptable(round, i) = {x[round][i]}
      /\ \A i \in Indices \ Checked(round), side \in Sides :
           d[side][round][i].m = d[side][round][i].com

\* What the seller did wrong when the rounds are over and the buyer goes on to
\* pay: he opened a key wrongly only at an index that was not checked, that is
\* nowhere; he opened a message wrongly only on the side of a checked index that
\* stayed closed; and what he committed to in the place of a root is, if it was
\* opened at a checked index, the buyer's own root.  So exec throws at a lie that
\* its checks look at.  The rest gets through, and may stop factorise() or lead
\* it to 1 and n in the place of the primes, but only from an index that was not
\* checked.
LieIsCaught ==
  LET checked == lie.index \in Checked(lie.round)
      opened(side) == d[side][lie.round][lie.index].m
  IN  /\ pc \in {"exchanged", "finished"} =>
           CASE lie.kind = "none" -> TRUE
             [] lie.kind = "key" -> ~checked
             [] lie.kind = "message" -> checked /\ \A side \in DOMAIN lie.c : opened(side) = {}
             [] lie.kind = "root" -> checked =>
                  \A side \in DOMAIN lie.c : opened(side) # {} =>
                    opened(side) = enc({Key(lie.round, lie.index)}, x[lie.round][lie.index])
      /\ pc = "finished" /\ {result[1], result[2]} # {P, Q} => lie.kind = "root" /\ ~checked

\* The two roots findRoots keeps are all the roots up to n/2, so the one the
\* buyer drew is among them and r1 + r2 or r1 - r2 shares a factor with n.
RootsComplete ==
  pc \notin {"genSquares", "findRoots"} =>
    \A i \in Indices :
      {r[1][j][i], r[2][j][i]} = {s \in 0..(n \div 2) : (s * s) % n = y[j][i]}

\* With two honest parties factorise() finds the seller's primes, and it throws
\* "Factorization failed!" only if no draw left closed was prime to n.
FactoriseOutcome ==
  /\ pc = "finished" => {result[1], result[2]} = {P, Q}
  /\ error = "Factorization failed!" => \A p \in Closed : GCD[x[p[1]][p[2]]] # 1

\* With two honest parties no check of the exchange throws: exec gets to the
\* payment, whatever the draws, the swaps and the subsets.
HonestExchangeCompletes == <>(pc = "exchanged")
=============================================================================
