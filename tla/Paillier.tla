------------------------------ MODULE Paillier ------------------------------
(***************************************************************************)
(* shared_signature/paillier.cpp with real, small primes: encryptions are  *)
(* multiplied and raised to powers as cont_sig does with c1, cs and the    *)
(* encryption of u * n, and the owner of the primes decrypts the result.   *)
(***************************************************************************)
EXTENDS Integers, Modular

CONSTANTS
  KeyPairs,  \* the pairs of primes the constructor can draw
  Powers,    \* the exponents a ciphertext is raised to
  MaxOps     \* how many encryptions and powers one ciphertext is made of

\* What the constants must be.  The constructor draws both primes with the same
\* number of bits; then, unless they are equal, neither divides the other one
\* less 1.
ConstantsOK ==
  /\ \A k \in KeyPairs :
       /\ \A x \in {k[1], k[2]} : x \in Nat /\ x > 1 /\ \A t \in 2..(x - 1) : x % t # 0
       /\ k[1] # k[2]
       /\ (k[1] - 1) % k[2] # 0 /\ (k[2] - 1) % k[1] # 0
  /\ Powers \subseteq Nat
  /\ MaxOps \in Nat

VARIABLES
  pc, error,
  p, q,     \* the owner's primes, 0 before a constructor with arguments ran
  c,        \* the ciphertext
  plain,    \* what it should decrypt to
  blind,    \* the product, modulo N, of the numbers that blind it
  ops,      \* how many operations made it
  value     \* what dec returned

vars == <<pc, error, p, q, c, plain, blind, ops, value>>

N == p * q
n2 == N * N
g == N + 1
y == (p - 1) * (q - 1)
u == InverseMod(y, N)

\* Paillier() leaves the modulus N, the code's n, at 0.
Init ==
  /\ pc = "new" /\ error = "none"
  /\ \/ p = 0 /\ q = 0
     \/ \E k \in KeyPairs : p = k[1] /\ q = k[2]
  /\ c = 1 /\ plain = 0 /\ blind = 1 /\ ops = 0 /\ value = -1

Throw(what) == pc' = "thrown" /\ error' = what

\* a_times_b_mod_c modulo n2
times(a, b) == (a * b) % n2

enc_BlindNotRaised(m, r) == (ExpMod(g, m, n2) * r) % n2

enc(m, r) == (ExpMod(g, m, n2) * ExpMod(r, N, n2)) % n2

\* Another encryption is multiplied to the ciphertext.  The blinding number is
\* anything from 1 to N.
add ==
  /\ pc = "new" /\ ops < MaxOps
  /\ \E m \in {0, 1, N - 1, N} :
       \/ N = 0 /\ Throw("not initialized") /\ UNCHANGED <<c, plain, blind, ops>>
       \/ /\ N # 0 /\ m >= N
          /\ Throw("m >= N || m < 0 ")
          /\ UNCHANGED <<c, plain, blind, ops>>
       \/ /\ N # 0 /\ m < N
          /\ \E r \in 1..N : c' = times(c, enc(m, r)) /\ blind' = (blind * r) % N
          /\ plain' = (plain + m) % N
          /\ ops' = ops + 1
          /\ UNCHANGED <<pc, error>>
  /\ UNCHANGED <<p, q, value>>

\* The ciphertext is raised to a power.
scale ==
  /\ pc = "new" /\ N # 0 /\ ops < MaxOps
  /\ \E t \in Powers :
       /\ c' = ExpMod(c, t, n2)
       /\ plain' = (plain * t) % N
       /\ blind' = ExpMod(blind, t, N)
  /\ ops' = ops + 1
  /\ UNCHANGED <<pc, error, p, q, value>>

L(x) == (x - 1) \div N

\* What dec refuses; the client is the holder of N and g only.
DecError_OneRefused(client) ==
  IF N = 0 THEN "not initialized"
  ELSE IF client THEN "client can not decrypt data"
  ELSE IF c <= 1 \/ c >= n2 THEN "c <= 0 || c >= n2"
  ELSE IF c % p = 0 \/ c % q = 0 THEN "c % p == 0 || c % q == 0"
  ELSE "none"

DecError(client) ==
  IF N = 0 THEN "not initialized"
  ELSE IF client THEN "client can not decrypt data"
  ELSE IF c <= 0 \/ c >= n2 THEN "c <= 0 || c >= n2"
  ELSE IF c % p = 0 \/ c % q = 0 THEN "c % p == 0 || c % q == 0"
  ELSE "none"

dec ==
  /\ pc = "new"
  /\ \E client \in BOOLEAN :
       \/ /\ DecError(client) = "none"
          /\ value' = (L(ExpMod(c, y, n2)) * u) % N
          /\ pc' = "decrypted" /\ UNCHANGED error
       \/ /\ DecError(client) # "none"
          /\ Throw(DecError(client)) /\ UNCHANGED value
  /\ UNCHANGED <<p, q, c, plain, blind, ops>>

Next == add \/ scale \/ dec

Spec == Init /\ [][Next]_vars

-----------------------------------------------------------------------------
(* Properties.                                                             *)

\* What SharedSignature takes for granted: products of ciphertexts are sums of
\* plaintexts and powers are multiples, modulo N.
Homomorphic == pc = "decrypted" => value = plain

\* enc does not check its blinding number (its comment asks whether it should):
\* the owner's dec refuses a ciphertext exactly if one of the numbers drawn
\* shares a factor with N, and for no other reason.
RefusedOnlyForBlinding ==
  /\ error \in {"c <= 0 || c >= n2", "c % p == 0 || c % q == 0"} =>
       blind % p = 0 \/ blind % q = 0
  /\ pc = "decrypted" => blind % p # 0 /\ blind % q # 0

=============================================================================
