-------------------------- MODULE TimedCommitment --------------------------
(***************************************************************************)
(* timed_commitment/timed_commitment.cpp and the conversions of            *)
(* bit_utils.cpp around it: the seller locks an integer, his share of a    *)
(* signing key; the buyer opens the lock with a factor of n, or without it *)
(* by 2^K squarings.  The numbers are real and small.                      *)
(***************************************************************************)
EXTENDS Integers, Sequences, Modular

CONSTANTS
  Primes,    \* what PrimeAndGenerator can return
  Ks,        \* the values of K
  Secrets,   \* the integers that are locked
  SeedSize,  \* the number of values the 48 bytes of the seed can take
  Claims     \* what a committer may send for p when it opens, besides p

\* What the constants must be.
ConstantsOK ==
  /\ \A x \in Primes : x \in Nat /\ x > 1 /\ \A t \in 2..(x - 1) : x % t # 0
  /\ Ks \subseteq Nat
  /\ Secrets \subseteq Nat
  /\ SeedSize \in Nat \ {0}
  /\ Claims \subseteq Int

None == <<>>    \* no bits: nothing opened yet

VARIABLES
  pc,         \* "new", "ready", "committed", "thrown"
  p, q,       \* Commiter's primes
  secret,     \* the integer locked
  com,        \* the commitment the receiver accepted
  claim,      \* the factor the receiver was given, 0 for none
  opened,     \* what Receiver::open returned
  open_error, \* the exception of Receiver::open
  times, u,   \* the variables of force_open's loop; times is -1 before it
  forced      \* what Receiver::force_open returned

vars == <<pc, p, q, secret, com, claim, opened, open_error, times, u, forced>>

NoCommitment == [K |-> 0, n |-> 0, h |-> 0, S |-> None]

Init ==
  /\ pc = "new" /\ p = 0 /\ q = 0
  /\ secret = 0 /\ com = NoCommitment
  /\ claim = 0 /\ opened = None /\ open_error = "none"
  /\ times = -1 /\ u = 0 /\ forced = None

-----------------------------------------------------------------------------
(* Conversions.                                                            *)

\* What is left of an integer without its last k bytes.
Shifted(i, k) ==
  LET rest[j \in 0..k] == IF j = 0 THEN i ELSE rest[j - 1] \div 256
  IN rest[k]

\* Integer::MinEncodedSize: at least one byte, also for zero.
MinEncodedSize(i) ==
  CHOOSE k \in 1..(i + 1) : Shifted(i, k) = 0 /\ (k > 1 => Shifted(i, k - 1) # 0)

\* Integer::Encode: the most significant byte first.
Encode(i) ==
  LET size == MinEncodedSize(i)
  IN [k \in 1..size |-> Shifted(i, size - k) % 256]

\* to_bits: the least significant bit of a byte first.
to_bits(bytes) ==
  [k \in 1..(8 * Len(bytes)) |-> (bytes[(k - 1) \div 8 + 1] \div 2^((k - 1) % 8)) % 2]

integer_to_bits(i) == to_bits(Encode(i))

from_bits(bits) ==
  [k \in 1..(Len(bits) \div 8) |->
     bits[8 * k - 7] + 2 * bits[8 * k - 6] + 4 * bits[8 * k - 5] + 8 * bits[8 * k - 4]
     + 16 * bits[8 * k - 3] + 32 * bits[8 * k - 2] + 64 * bits[8 * k - 1] + 128 * bits[8 * k]]

\* Integer(bytes, size): the most significant byte first.
Decode(bytes) ==
  LET value[k \in 0..Len(bytes)] == IF k = 0 THEN 0 ELSE 256 * value[k - 1] + bytes[k]
  IN value[Len(bytes)]

bits_to_integer(bits) == Decode(from_bits(bits))

\* The bits of AES in OFB mode.  The stream depends on the first 48 bytes of
\* the key only, and is here the bits of that seed over and over.
Stream(key, size) ==
  [k \in 1..size |-> ((key % SeedSize) \div 2^((k - 1) % 4)) % 2]

prng_xor(key, m) ==
  LET t == Stream(key, Len(m))
  IN [k \in 1..Len(m) |-> (m[k] + t[k]) % 2]

-----------------------------------------------------------------------------
(* The timed key.                                                          *)

\* 2^(2^K) is reduced modulo phi before h is raised to it.
create_timed_key(n, phi, h, K) == ExpMod(h, ExpMod(2, 2^K, phi), n)

\* Commiter(): two independent draws; gen_prime refuses a prime that is not 3
\* modulo 4.
gen_prime(x) == x % 4 = 3

Commiter ==
  /\ pc = "new"
  /\ \E a, b \in Primes :
       \/ ~(gen_prime(a) /\ gen_prime(b)) /\ pc' = "thrown" /\ UNCHANGED <<p, q>>
       \/ gen_prime(a) /\ gen_prime(b) /\ pc' = "ready" /\ p' = a /\ q' = b
  /\ UNCHANGED <<secret, com, claim, opened, open_error, times, u, forced>>

\* commit: h is any number from 2 to n - 1, units and others.
commit ==
  /\ pc = "ready"
  /\ \E K \in Ks, i \in Secrets, h \in 2..(p * q - 1) :
       /\ secret' = i
       /\ com' = [K |-> K, n |-> p * q, h |-> h,
                  S |-> prng_xor(create_timed_key(p * q, (p - 1) * (q - 1), h, K),
                                 integer_to_bits(i))]
  /\ pc' = "committed"
  /\ UNCHANGED <<p, q, claim, opened, open_error, times, u, forced>>

\* Integer::Divide of n by x: the remainder is that of the magnitudes, and the
\* quotient has x's sign.
Remainder(x) == com.n % (IF x < 0 THEN -x ELSE x)
Quotient(x) == IF x < 0 THEN -(com.n \div (-x)) ELSE com.n \div x

\* What Receiver::open throws for a factor; phi = 0 is a division by zero in
\* CryptoPP.  A negative divisor of n is not refused.
OpenError_AnyNumber(x) ==
  IF x \in {0, 1} \/ Quotient(x) \in {0, 1} THEN "division by zero" ELSE "none"

OpenError(x) ==
  IF x = 0 \/ x = 1 \/ x = com.n THEN "division by zero"
  ELSE IF Remainder(x) # 0 THEN "p does not divide n"
  ELSE "none"

open_commitment ==
  /\ pc = "committed" /\ opened = None /\ open_error = "none"
  /\ \E x \in Claims \cup {p} :
       /\ claim' = x
       /\ open_error' = OpenError(x)
       /\ opened' = IF OpenError(x) # "none" THEN None
                    ELSE prng_xor(create_timed_key(com.n, (x - 1) * (Quotient(x) - 1),
                                                   com.h, com.K), com.S)
  /\ UNCHANGED <<pc, p, q, secret, com, times, u, forced>>

\* force_open, one step per squaring.
force_open_start ==
  /\ pc = "committed" /\ times = -1
  /\ times' = 2^com.K
  /\ u' = com.h
  /\ UNCHANGED <<pc, p, q, secret, com, claim, opened, open_error, forced>>

force_open_square_NotCounted ==
  /\ times > 0
  /\ u' = (u * u) % com.n
  /\ UNCHANGED <<pc, p, q, secret, com, claim, opened, open_error, times, forced>>

force_open_square ==
  /\ times > 0
  /\ times' = times - 1
  /\ u' = (u * u) % com.n
  /\ UNCHANGED <<pc, p, q, secret, com, claim, opened, open_error, forced>>

force_open_end_Early ==
  /\ times \in {0, 1} /\ forced = None
  /\ forced' = prng_xor(u, com.S)
  /\ UNCHANGED <<pc, p, q, secret, com, claim, opened, open_error, times, u>>

force_open_end ==
  /\ times = 0 /\ forced = None
  /\ forced' = prng_xor(u, com.S)
  /\ UNCHANGED <<pc, p, q, secret, com, claim, opened, open_error, times, u>>

force_open == force_open_start \/ force_open_square \/ force_open_end

Next == Commiter \/ commit \/ open_commitment \/ force_open

Spec == Init /\ [][Next]_vars

\* The buyer's thread goes on with its squarings.
FairSpec == Spec /\ WF_vars(force_open)

-----------------------------------------------------------------------------
(* Properties.                                                             *)

\* The lock holds the share: what force_open finds after its squarings, turned
\* back into an integer as solve_time_lock does, is what the seller locked,
\* for every h, also one that shares a factor with n.  (Equal primes would
\* break it: phi is then not the order of the group.)
LockHoldsSecret ==
  forced # None /\ p # q => bits_to_integer(forced) = secret

\* open never shows anything but what force_open would find, whatever positive
\* number the committer sends for p; and it does not refuse p itself.  (With a
\* negative divisor of n, -1 say, phi is wrong and so may be what open shows.)
OpenAgreesWithForce ==
  p # q =>
    /\ opened # None /\ forced # None /\ claim > 0 => opened = forced
    /\ claim = p => open_error = "none"

\* A lock can always be broken in the end.
LockOpens == (pc = "committed") ~> (forced # None)

=============================================================================
