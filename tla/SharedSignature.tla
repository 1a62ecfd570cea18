-------------------------- MODULE SharedSignature --------------------------
(***************************************************************************)
(* shared_signature/shared_sig.cpp: seller S and buyer B share an ECDSA    *)
(* key ds * db and sign a message together.  A point of the curve is       *)
(* represented by its logarithm to the base G, so Multiply(k, P) is a      *)
(* product modulo n and the identity is 0.  A Paillier ciphertext is       *)
(* represented by its plaintext: a product of ciphertexts is a sum modulo  *)
(* N and a power is a product modulo N.                                    *)
(***************************************************************************)
EXTENDS Integers

CONSTANTS
  n,         \* the order of G, a prime
  xcoord,    \* the x coordinates of the points 1 to n - 1
  Moduli,    \* the Paillier moduli a seller may come with
  Data,      \* what set_data may be given: a length and the number it encodes
  Forgetful  \* TRUE if the caller may leave the seller's data unset

DigestSize == 32
Message == [len : Nat, z : Nat]
NoData == [len |-> 0, z |-> 0]
Scalars == 1..(n - 1)

ASSUME nAssumption == n \in Nat /\ n > 2
\* n is prime, so every scalar has an inverse.
ASSUME PrimeAssumption == \A a \in Scalars : \E w \in Scalars : (a * w) % n = 1
ASSUME xcoordAssumption == /\ xcoord \in [Scalars -> Nat]
                           /\ \A k \in Scalars : xcoord[k] = xcoord[n - k]
ASSUME ModuliAssumption == Moduli \subseteq Nat \ {0}
ASSUME DataAssumption == Data \subseteq Message
ASSUME ForgetfulAssumption == Forgetful \in BOOLEAN

VARIABLES
  pc,             \* the call that comes next
  error,          \* the exception thrown
  N,              \* the Paillier modulus
  ds, db,         \* the shares of the secret key
  Q_s, Q_b,       \* the public key as S and B computed it
  data_s, data_b, \* what each party believes is signed
  ks, kb,         \* the shares of the nonce
  u,              \* the local variable of cont_sig that hides the result
  r_b, cb,        \* what B sends
  r, s,           \* S's signature
  cheated,        \* S::cheat has been called
  open_verified

vars == <<pc, error, N, ds, db, Q_s, Q_b, data_s, data_b, ks, kb, u, r_b, cb,
          r, s, cheated, open_verified>>

Init ==
  /\ pc = "ctor" /\ error = "none"
  /\ N \in Moduli
  /\ ds = 0 /\ db = 0 /\ Q_s = 0 /\ Q_b = 0
  /\ data_s = NoData /\ data_b = NoData
  /\ ks = 0 /\ kb = 0 /\ u = 0 /\ r_b = 0 /\ cb = 0
  /\ r = 0 /\ s = 0
  /\ cheated = FALSE /\ open_verified = FALSE

-----------------------------------------------------------------------------

Throw(what) == pc' = "thrown" /\ error' = what
Continue(next) == pc' = next /\ UNCHANGED error

\* Integer::InverseMod.
Inv(a) == CHOOSE w \in Scalars : (a * w) % n = 1

\* The x coordinate of a point; CryptoPP's identity has x = 0.
x(P) == IF P = 0 THEN 0 ELSE xcoord[P]

\* S() only logs a modulus that is too short, B() throws.
Bctor_Unchecked ==
  /\ pc = "ctor" /\ Continue("init")
  /\ UNCHANGED <<N, ds, db, Q_s, Q_b, data_s, data_b, ks, kb, u, r_b, cb, r, s,
                 cheated, open_verified>>

Bctor ==
  /\ pc = "ctor"
  /\ \/ N <= 2 * n * n * n * n /\ Throw("too short paillier")
     \/ N > 2 * n * n * n * n /\ Continue("init")
  /\ UNCHANGED <<N, ds, db, Q_s, Q_b, data_s, data_b, ks, kb, u, r_b, cb, r, s,
                 cheated, open_verified>>

\* SharedSignature::init with the four functions it calls.
init ==
  /\ pc = "init"
  /\ ds' \in Scalars /\ db' \in Scalars
  /\ Q_s' = (ds' * (db' % n)) % n
  /\ Q_b' = (db' * (ds' % n)) % n
  /\ IF Q_s' = Q_b' THEN Continue("set_data") ELSE Throw("Mismatching Q")
  /\ UNCHANGED <<N, data_s, data_b, ks, kb, u, r_b, cb, r, s, cheated,
                 open_verified>>

\* The caller gives both the same data, or forgets the seller.
set_data ==
  /\ pc = "set_data"
  /\ data_b' \in Data
  /\ \/ data_s' = data_b'
     \/ Forgetful /\ data_s' = NoData
  /\ Continue("start_sig")
  /\ UNCHANGED <<N, ds, db, Q_s, Q_b, ks, kb, u, r_b, cb, r, s, cheated,
                 open_verified>>

\* cs is the encryption of ds.
start_sig ==
  /\ pc = "start_sig"
  /\ ks' \in Scalars
  /\ Continue("cont_sig")
  /\ UNCHANGED <<N, ds, db, Q_s, Q_b, data_s, data_b, kb, u, r_b, cb, r, s,
                 cheated, open_verified>>

\* The plaintexts of c1 and of the power that is multiplied to it.
Plain1(k, z) == (Inv(k) * z) % n

Factor_NoShare(k, rr, d) == (Inv(k) * rr) % n

Factor(k, rr, d) == (((Inv(k) * rr) % n) * d) % n

\* The half of the signature that the point K of the nonce gives.
rOf_Unreduced(K) == x(K)

rOf(K) == x(K) % n

cont_sig ==
  /\ pc = "cont_sig"
  /\ kb' \in Scalars
  /\ r_b' = rOf((kb' * ks) % n)
  /\ \/ r_b' = 0 /\ Throw("r == 0") /\ UNCHANGED <<u, cb>>
     \/ /\ r_b' # 0 /\ data_b.len # DigestSize
        /\ Throw("m_len != sha digest size")
        /\ UNCHANGED <<u, cb>>
     \/ /\ r_b' # 0 /\ data_b.len = DigestSize
        /\ u' \in 0..(n * n - 1)
        /\ cb' = (Plain1(kb', data_b.z) + Factor(kb', r_b', db) * ds + u' * n) % N
        /\ Continue("finish_sig")
  /\ UNCHANGED <<N, ds, db, Q_s, Q_b, data_s, data_b, ks, r, s, cheated,
                 open_verified>>

\* verify with the digest z; the comparison at the end does not reduce x.
verify_AnyR(Q, z, rr, ss) ==
  /\ Q # 0
  /\ ss > 0 /\ ss < n
  /\ x((((z * Inv(ss)) % n) + ((rr * Inv(ss)) % n) * Q) % n) = rr

verify(Q, z, rr, ss) ==
  /\ Q # 0
  /\ rr > 0 /\ rr < n
  /\ ss > 0 /\ ss < n
  /\ x((((z * Inv(ss)) % n) + ((rr * Inv(ss)) % n) * Q) % n) = rr

\* The lower of s and n - s.
LowS_Skipped(a) == a

LowS(a) == IF a > n - a THEN n - a ELSE a

\* S::get_data_length refuses no data, hash_m_to_int what is not a digest.
DataError(d) == IF d.len = 0 THEN "Data is empty!" ELSE "m_len != sha digest size"

finish_sig ==
  /\ pc = "finish_sig"
  /\ r' = r_b
  /\ LET s0 == (Inv(ks) * (cb % n)) % n
     IN \/ s0 = 0 /\ s' = 0 /\ Throw("ERR s==0 restart protocol")
        \/ /\ s0 # 0
           /\ s' = LowS(s0)
           /\ \/ data_s.len # DigestSize /\ Throw(DataError(data_s))
              \/ /\ data_s.len = DigestSize
                 /\ \/ verify(Q_s, data_s.z, r', s') /\ Continue("signed")
                    \/ /\ ~verify(Q_s, data_s.z, r', s')
                       /\ Throw("Invalid signature generated!")
  /\ UNCHANGED <<N, ds, db, Q_s, Q_b, data_s, data_b, ks, kb, u, r_b, cb,
                 cheated, open_verified>>

\* S::cheat, for tests: any r and s from 1 to n.
cheat ==
  /\ pc = "signed" /\ ~cheated
  /\ r' \in 1..n /\ s' \in 1..n
  /\ cheated' = TRUE
  /\ UNCHANGED <<pc, error, N, ds, db, Q_s, Q_b, data_s, data_b, ks, kb, u, r_b,
                 cb, open_verified>>

\* SharedSignature::open: B verifies what S shows her.
open ==
  /\ pc = "signed"
  /\ open_verified' = verify(Q_b, data_b.z, r, s)
  /\ Continue("opened")
  /\ UNCHANGED <<N, ds, db, Q_s, Q_b, data_s, data_b, ks, kb, u, r_b, cb, r, s,
                 cheated>>

Next == Bctor \/ init \/ set_data \/ start_sig \/ cont_sig \/ finish_sig
        \/ cheat \/ open

Spec == Init /\ [][Next]_vars

-----------------------------------------------------------------------------
(* Properties.                                                             *)

Errors == {"none", "too short paillier", "Mismatching Q", "r == 0",
           "m_len != sha digest size", "ERR s==0 restart protocol",
           "Data is empty!", "Invalid signature generated!"}

\* Every variable keeps its type: shares are scalars or not drawn yet, the
\* ciphertext is below the modulus.
TypeOK ==
  /\ pc \in {"ctor", "init", "set_data", "start_sig", "cont_sig", "finish_sig",
             "signed", "opened", "thrown"}
  /\ error \in Errors
  /\ N \in Moduli
  /\ ds \in 0..(n - 1) /\ db \in 0..(n - 1)
  /\ Q_s \in 0..(n - 1) /\ Q_b \in 0..(n - 1)
  /\ data_s \in Message /\ data_b \in Message
  /\ ks \in 0..(n - 1) /\ kb \in 0..(n - 1)
  /\ u \in 0..(n * n - 1)
  /\ r_b \in 0..(n - 1) /\ cb \in 0..(N - 1)
  /\ r \in 0..n /\ s \in 0..n
  /\ cheated \in BOOLEAN /\ open_verified \in BOOLEAN

\* What S decrypts is the number B put together, not that number modulo N: a
\* wrap would change its residue modulo n, and with it the signature.  The
\* buyer's check of the modulus is what rules it out (the seller only logs).
NoWrap ==
  pc \in {"finish_sig", "signed", "opened"} =>
    cb = Plain1(kb, data_b.z) + Factor(kb, r_b, db) * ds + u * n

\* ECDSA by the equation of the signer: for some nonce k that gives rr,
\* ss * k = z + rr * d.
IsSignature(d, z, rr, ss) ==
  \E k \in Scalars : /\ xcoord[k] % n = rr
                     /\ (ss * k) % n = (z + rr * d) % n

\* A signature S accepts is one under the product of the two shares, for the
\* number both parties hashed, and it is the lower of the two forms: the
\* chain shows the same bytes as the keys were derived from.
SignatureIsValid ==
  pc = "signed" /\ ~cheated =>
    /\ IsSignature((ds * db) % n, data_b.z, r, s)
    /\ s <= n - s

\* With the digest in both parties' hands an honest run ends in a signature,
\* or in an exception whose cause is one of: the short modulus, a nonce with
\* r = 0, a digest with z + r * d = 0, or (line 62 compares x with r without
\* reducing it) an x coordinate that is not below n.
HonestOutcome ==
  LET K == (kb * ks) % n
  IN pc = "thrown" /\ (data_s = data_b) /\ data_b.len \in {0, DigestSize} =>
       \/ error = "too short paillier" /\ N <= 2 * n * n * n * n
       \/ error = "r == 0" /\ x(K) % n = 0
       \/ error = "m_len != sha digest size" /\ data_b.len = 0
       \/ /\ error = "ERR s==0 restart protocol"
          /\ (data_b.z + r_b * ds * db) % n = 0
       \/ error = "Invalid signature generated!" /\ x(K) >= n

\* open accepts only signatures under the shared key, also from a seller that
\* shows other numbers than the ones he computed, and never refuses an honest
\* seller.
OpenIsExact ==
  pc = "opened" =>
    /\ open_verified => IsSignature((ds * db) % n, data_b.z, r, s)
    /\ ~cheated => open_verified

=============================================================================
