---------------------------- MODULE SignatureKey ----------------------------
(***************************************************************************)
(* main/signature_key.cpp: one instance of the protocol that the cut and   *)
(* choose audits.  The parties sign the hash of T2, the seller locks his   *)
(* share ds and commits to L keys derived from the signature and to the    *)
(* signature itself; open shows all of it to the buyer.                    *)
(*                                                                         *)
(* A digest is represented by the message it was computed from, a key by   *)
(* the signature and the index it was derived from.  The seller may        *)
(* deviate in any of the ways in Deviations:                               *)
(*   "lock"     the timed commitment does not hold ds                      *)
(*   "derive"   keys and signature_commit come from another signature      *)
(*   "key"      one message committed to is not the derived one: another   *)
(*              key, or bytes of another number than a key has             *)
(*   "reveal"   one commitment is opened to something else                 *)
(*   "factor"   the number sent for p is not a factor of n                 *)
(*   "show"     r and s shown at the end are not a signature (S::cheat)    *)
(***************************************************************************)
EXTENDS Integers

CONSTANTS
  L,          \* the number of keys
  Deviations  \* the deviations considered

Kinds == {"lock", "derive", "key", "reveal", "factor", "show"}
Indices == 0..(L - 1)

ASSUME LAssumption == L \in Nat \ {0}
ASSUME DeviationsAssumption == Deviations \subseteq Kinds

VARIABLES
  dev,            \* the seller's deviations
  where,          \* the index at which "key" and "reveal" happen, L for
                  \* signature_commit
  T2_hash,        \* the buyer's hash both parties point to, maybe still empty
  pc, i, error,
  sig,            \* the signature S holds
  lock,           \* what the timed commitment holds
  keys_m,         \* seller: keys_commits[i].m, and signature_commit.m at L
  com,            \* buyer: the digests received
  m,              \* buyer: the messages opened
  sig_verified,   \* shared_signature_b.open_verified
  open_verified   \* SingleBuyer's

vars == <<dev, where, T2_hash, pc, i, error, sig, lock, keys_m, com, m,
          sig_verified, open_verified>>

Signatures == {"none", "signature", "another"}
\* Messages of commitments: <<s, k, size>> is key k of signature s, <<s, L, size>>
\* stands for s itself.  A message is a vector of any length: the whole key, the
\* first bytes of it, the key with more behind it, or no byte at all.
Sizes == {"whole", "part", "more", "empty"}
Messages == (Signatures \cup {"junk"}) \X (0..L) \X Sizes
Empty == [k \in 0..L |-> <<"none", k, "empty">>]

Init ==
  /\ dev \in SUBSET Deviations
  /\ where \in 0..L
  /\ T2_hash \in {"", "hash"}
  /\ pc = "exec" /\ i = 0 /\ error = "none"
  /\ sig = "none" /\ lock = "none"
  /\ keys_m = Empty /\ com = Empty /\ m = Empty
  /\ sig_verified = FALSE /\ open_verified = FALSE

-----------------------------------------------------------------------------

Throw(what) == pc' = "thrown" /\ error' = what
Continue(next) == pc' = next /\ UNCHANGED error

\* exec up to line 100: SharedSignature::exec gives a signature or throws; an
\* empty hash is refused by hash_m_to_int.  The result of cryptopp_test is
\* ignored.
sign ==
  /\ pc = "exec"
  /\ \/ T2_hash = "" /\ Throw("m_len != sha digest size") /\ UNCHANGED sig
     \/ T2_hash # "" /\ Throw("signing failed") /\ UNCHANGED sig
     \/ T2_hash # "" /\ Continue("commit") /\ sig' = "signature"
  /\ UNCHANGED <<dev, where, T2_hash, i, lock, keys_m, com, m, sig_verified,
                 open_verified>>

\* genKeys: hashes of the signature and the index.
genKeys_OneMore(s) == [k \in 0..(L + 1) |-> <<s, k, "whole">>]

genKeys(s) == [k \in 0..L |-> <<s, k, "whole">>]

\* What a deviating seller may put in place of message k; a signature of another
\* length is another signature.
AnyMessage(k) ==
  ({"signature", "another", "junk"} \X {k}
     \X (IF k = L THEN {"whole"} ELSE {"whole", "part", "more"}))
  \cup {<<"none", k, "empty">>}

\* What the seller may set up in genKeysAndSetupCommits.
SellerMessages ==
  LET derived == genKeys(IF "derive" \in dev THEN "another" ELSE sig)
  IN IF "key" \in dev THEN {[derived EXCEPT ![where] = msg] : msg \in AnyMessage(where)}
     ELSE {derived}

\* The rest of exec: the timed commitment, the keys, and L + 1 SHA commitments.
commit ==
  /\ pc = "commit"
  /\ lock' = IF "lock" \in dev THEN "other" ELSE "ds"
  /\ keys_m' \in SellerMessages
  /\ com' = keys_m'
  /\ i' = 0
  /\ Continue("open_signature")
  /\ UNCHANGED <<dev, where, T2_hash, sig, m, sig_verified, open_verified>>

\* SharedSignature::open.
open_signature ==
  /\ pc = "open_signature"
  /\ sig_verified' = ("show" \notin dev)
  /\ Continue("open_lock")
  /\ UNCHANGED <<dev, where, T2_hash, i, sig, lock, keys_m, com, m, open_verified>>

\* open_commitment: the value that Receiver::open returns is not used.
open_lock ==
  /\ pc = "open_lock"
  /\ \/ "factor" \in dev /\ Throw("p does not divide n")
     \/ "factor" \notin dev /\ Continue("open_keys")
  /\ UNCHANGED <<dev, where, T2_hash, i, sig, lock, keys_m, com, m, sig_verified,
                 open_verified>>

\* What the seller may send for commitment i.
Revealed == IF "reveal" \in dev /\ i = where THEN AnyMessage(i) ELSE {keys_m[i]}

\* ShaCommitment::open of key i, and of the signature when i is L.
open_keys_Unchecked ==
  /\ pc = "open_keys"
  /\ \E msg \in Revealed : m' = [m EXCEPT ![i] = msg]
  /\ i' = i + 1
  /\ Continue(IF i = L THEN "verifyKeys" ELSE "open_keys")
  /\ UNCHANGED <<dev, where, T2_hash, sig, lock, keys_m, com, sig_verified,
                 open_verified>>

open_keys ==
  /\ pc = "open_keys"
  /\ \E msg \in Revealed : m' = [m EXCEPT ![i] = msg]
  /\ \/ /\ m'[i] # com[i]
        /\ Throw("sha commitment open failed") /\ UNCHANGED i
     \/ /\ m'[i] = com[i]
        /\ i' = i + 1
        /\ Continue(IF i = L THEN "verifyKeys" ELSE "open_keys")
  /\ UNCHANGED <<dev, where, T2_hash, sig, lock, keys_m, com, sig_verified,
                 open_verified>>

\* std::equal over the length of the opened message: no bytes and the first bytes
\* of the key are equal to it, and the bytes of a longer message are compared with
\* what lies behind the key, which is as it happens to be (goes_on).
EqualBytes(msg, key, goes_on) ==
  \/ msg[3] = "empty"
  \/ msg[1] = key[1] /\ msg[2] = key[2] /\ (msg[3] = "more" => goes_on)

\* The keys are derived again, from the message in the buyer's signature_commit.
KeysAreValid(behind) ==
  LET exp_keys == genKeys(m[L][1])
  IN \A k \in Indices : EqualBytes(m[k], exp_keys[k], k \in behind)

verifyKeys_ResultKept ==
  /\ pc = "verifyKeys"
  /\ \E behind \in SUBSET Indices :
       \/ ~KeysAreValid(behind) /\ Throw("Invalid key")
       \/ KeysAreValid(behind) /\ Continue("opened")
  /\ UNCHANGED <<dev, where, T2_hash, i, sig, lock, keys_m, com, m, sig_verified,
                 open_verified>>

verifyKeys ==
  /\ pc = "verifyKeys"
  /\ \E behind \in SUBSET Indices :
       \/ ~KeysAreValid(behind) /\ Throw("Invalid key") /\ UNCHANGED open_verified
       \/ KeysAreValid(behind) /\ Continue("opened") /\ open_verified' = sig_verified
  /\ UNCHANGED <<dev, where, T2_hash, i, sig, lock, keys_m, com, m, sig_verified>>

Next == sign \/ commit \/ open_signature \/ open_lock \/ open_keys \/ verifyKeys

Spec == Init /\ [][Next]_vars

\* exec and open are function calls.
FairSpec == Spec /\ WF_vars(Next)

-----------------------------------------------------------------------------
(* Properties.                                                             *)

\* Every variable keeps its type.
TypeOK ==
  /\ dev \subseteq Deviations /\ where \in 0..L /\ T2_hash \in {"", "hash"}
  /\ pc \in {"exec", "commit", "open_signature", "open_lock", "open_keys",
             "verifyKeys", "opened", "thrown"}
  /\ i \in 0..(L + 1)
  /\ error \in {"none", "m_len != sha digest size", "signing failed",
                "p does not divide n", "sha commitment open failed", "Invalid key"}
  /\ sig \in Signatures /\ lock \in {"none", "ds", "other"}
  /\ {keys_m, com, m} \subseteq [0..L -> Messages]
  /\ sig_verified \in BOOLEAN /\ open_verified \in BOOLEAN

\* When open_verified is set, a signature was shown and every digest the buyer
\* received in exec, before the choice, of a message as long as a key is of the key
\* that follows from the signature she received a digest of: neither a message
\* changed after exec nor a key that was wrong from the start gets through.  A
\* message of another length is the beginning of that key, or the key and more,
\* and an empty one is anything: std::equal does not compare lengths.
VerifiedMeansConsistent ==
  open_verified =>
    /\ "show" \notin dev
    /\ \A k \in Indices : com[k][3] # "empty" => com[k] = <<com[L][1], k, com[k][3]>>

\* An honest seller with a hash to sign is always verified, unless the signing
\* itself threw.
HonestIsVerified ==
  (pc = "commit" /\ dev = {}) ~> (pc = "opened" /\ open_verified)

\* README: "Verifier can verify that prover didn't cheat in any of opened
\* executions", for what the timed commitment holds.
LockIsAudited == open_verified => lock = "ds"

=============================================================================
