------------------------- MODULE SignatureKeyProofs -------------------------
(***************************************************************************)
(* Theorems about SignatureKey, for every number of keys and every set of  *)
(* deviations of the seller, and about the lock it uses.                   *)
(***************************************************************************)
EXTENDS LockedShare, TLAPS

\* What the loop of open has established when it stands at i: the messages
\* opened so far are the ones the digests were computed from.
OpenedSoFar ==
  /\ pc = "open_keys" => i \in 0..L /\ \A k \in 0..(i - 1) : m[k] = com[k]
  /\ pc = "verifyKeys" => \A k \in 0..L : m[k] = com[k]

\* open starts its loop at the first key.
LoopStart == pc \in {"open_signature", "open_lock"} => i = 0

\* The result for the shared signature depends on what the seller showed.
Shown ==
  /\ pc \in {"open_lock", "open_keys", "verifyKeys"} =>
       sig_verified = ("show" \notin dev)
  /\ pc # "opened" => ~open_verified

IInv == TypeOK /\ OpenedSoFar /\ LoopStart /\ Shown /\ VerifiedMeansConsistent

-----------------------------------------------------------------------------

LEMMA LPositive == L \in Nat /\ L > 0
BY LAssumption

LEMMA IInvInit == Init => IInv
<1> SUFFICES ASSUME Init PROVE IInv
  OBVIOUS
<1>1. Empty \in [0..L -> Messages]
  BY DEF Empty, Messages, Signatures, Sizes
<1>2. 0 \in 0..(L + 1)
  BY LAssumption
<1>3. TypeOK
  BY <1>1, <1>2, DeviationsAssumption DEF Init, TypeOK, Signatures
<1>4. QED
  BY <1>3 DEF Init, IInv, OpenedSoFar, LoopStart, Shown, VerifiedMeansConsistent

LEMMA signStep == IInv /\ sign => IInv'
<1> SUFFICES ASSUME IInv, sign PROVE IInv'
  OBVIOUS
<1> USE DEF sign, Throw, Continue
<1>1. TypeOK'
  BY DEF IInv, TypeOK, Signatures
<1>2. QED
  BY <1>1 DEF IInv, OpenedSoFar, LoopStart, Shown, VerifiedMeansConsistent

\* What a deviating seller puts in place of a message is a message.
LEMMA AnyMessageType == \A k \in 0..L : AnyMessage(k) \subseteq Messages
BY DEF AnyMessage, Messages, Signatures, Sizes

\* The messages the seller sets up are messages.
LEMMA SellerMessagesType == ASSUME TypeOK PROVE SellerMessages \subseteq [0..L -> Messages]
<1>1. \A s \in Signatures : genKeys(s) \in [0..L -> Messages]
  BY DEF genKeys, Messages, Sizes
<1>2. sig \in Signatures /\ "another" \in Signatures /\ where \in 0..L
  BY DEF TypeOK, Signatures
<1>3. AnyMessage(where) \subseteq Messages
  BY <1>2, AnyMessageType
<1>4. QED
  BY <1>1, <1>2, <1>3 DEF SellerMessages

LEMMA commitStep == IInv /\ commit => IInv'
<1> SUFFICES ASSUME IInv, commit PROVE IInv'
  OBVIOUS
<1> USE DEF commit, Continue
<1>1. SellerMessages \subseteq [0..L -> Messages] /\ 0 \in 0..(L + 1)
  BY SellerMessagesType, LPositive DEF IInv
<1>2. TypeOK'
  BY <1>1 DEF IInv, TypeOK
<1>3. QED
  BY <1>2 DEF IInv, OpenedSoFar, LoopStart, Shown, VerifiedMeansConsistent

LEMMA open_signatureStep == IInv /\ open_signature => IInv'
<1> SUFFICES ASSUME IInv, open_signature PROVE IInv'
  OBVIOUS
<1> USE DEF open_signature, Continue
<1>1. TypeOK'
  BY DEF IInv, TypeOK
<1>2. QED
  BY <1>1 DEF IInv, OpenedSoFar, LoopStart, Shown, VerifiedMeansConsistent

LEMMA open_lockStep == IInv /\ open_lock => IInv'
<1> SUFFICES ASSUME IInv, open_lock PROVE IInv'
  OBVIOUS
<1> USE DEF open_lock, Throw, Continue
<1>1. TypeOK'
  BY DEF IInv, TypeOK
<1>2. OpenedSoFar'
  <2>1. i' = 0 /\ pc' # "verifyKeys"
    BY DEF IInv, LoopStart
  <2>2. 0 \in 0..L /\ 0..(0 - 1) = {}
    <3> HIDE DEF open_lock, Throw, Continue
    <3> QED
      BY LPositive
  <2>3. QED
    BY <2>1, <2>2 DEF OpenedSoFar
<1>3. QED
  BY <1>1, <1>2 DEF IInv, LoopStart, Shown, VerifiedMeansConsistent

LEMMA open_keysStep == IInv /\ open_keys => IInv'
<1> SUFFICES ASSUME IInv, open_keys PROVE IInv'
  OBVIOUS
<1>a. UNCHANGED <<dev, where, T2_hash, sig, lock, keys_m, com, sig_verified,
                  open_verified>>
  BY DEF open_keys
<1>b. \/ m'[i] # com[i] /\ pc' = "thrown" /\ i' = i
         /\ error' = "sha commitment open failed"
      \/ m'[i] = com[i] /\ i' = i + 1 /\ error' = error
         /\ pc' = IF i = L THEN "verifyKeys" ELSE "open_keys"
  BY DEF open_keys, Throw, Continue
<1>c. PICK msg \in Revealed : m' = [m EXCEPT ![i] = msg]
  BY DEF open_keys
<1>d. TypeOK /\ pc = "open_keys"
  BY DEF IInv, open_keys
<1>1. i \in 0..L /\ \A k \in 0..(i - 1) : m[k] = com[k]
  BY <1>d DEF IInv, OpenedSoFar
<1>3. m \in [0..L -> Messages] /\ keys_m \in [0..L -> Messages]
  BY <1>d DEF TypeOK
<1>4. msg \in Messages
  <2>1. keys_m[i] \in Messages
    BY <1>1, <1>3
  <2>2. AnyMessage(i) \subseteq Messages
    BY <1>1, AnyMessageType
  <2>3. QED
    BY <1>c, <2>1, <2>2 DEF Revealed
<1>5. m' \in [0..L -> Messages]
  BY <1>1, <1>c, <1>3, <1>4
<1>6. TypeOK'
  <2>1. i' \in {i, i + 1}
    BY <1>b
  <2>2. i' \in 0..(L + 1)
    BY <1>1, <2>1, LPositive
  <2>3. QED
    BY <1>a, <1>b, <1>d, <1>5, <2>2 DEF TypeOK
<1>7. \A k \in 0..L : k # i => m'[k] = m[k]
  BY <1>c, <1>3
<1>8. OpenedSoFar'
  <2>1. CASE m'[i] # com[i]
    BY <1>b, <2>1 DEF OpenedSoFar
  <2>2. CASE m'[i] = com[i]
    <3>1. com' = com /\ i' = i + 1
      BY <1>a, <1>b, <2>2
    <3>2. \A k \in 0..i : m'[k] = com'[k]
      <4>1. \A k \in 0..i : k # i => k \in 0..L /\ k \in 0..(i - 1)
        BY <1>1, LPositive
      <4>2. QED
        BY <1>1, <1>7, <2>2, <3>1, <4>1
    <3>3. CASE i = L
      BY <1>b, <2>2, <3>2, <3>3 DEF OpenedSoFar
    <3>4. CASE i # L
      <4>1. i' \in 0..L /\ i' - 1 = i
        BY <1>1, <3>1, <3>4, LPositive
      <4>2. pc' = "open_keys"
        BY <1>b, <2>2, <3>4
      <4>3. QED
        BY <3>2, <4>1, <4>2 DEF OpenedSoFar
    <3>5. QED
      BY <3>3, <3>4
  <2>3. QED
    BY <2>1, <2>2
<1>9. QED
  BY <1>a, <1>b, <1>d, <1>6, <1>8
     DEF IInv, LoopStart, Shown, VerifiedMeansConsistent

LEMMA verifyKeysStep == IInv /\ verifyKeys => IInv'
<1> SUFFICES ASSUME IInv, verifyKeys PROVE IInv'
  OBVIOUS
<1>a. UNCHANGED <<dev, where, T2_hash, i, sig, lock, keys_m, com, m, sig_verified>>
  BY DEF verifyKeys
<1>b. PICK behind \in SUBSET Indices :
        \/ ~KeysAreValid(behind) /\ pc' = "thrown" /\ error' = "Invalid key"
           /\ open_verified' = open_verified
        \/ KeysAreValid(behind) /\ pc' = "opened" /\ error' = error
           /\ open_verified' = sig_verified
  BY DEF verifyKeys, Throw, Continue
<1>d. TypeOK /\ pc = "verifyKeys"
  BY DEF IInv, verifyKeys
<1>1. TypeOK'
  BY <1>a, <1>b, <1>d DEF TypeOK
<1>2. \A k \in 0..L : m[k] = com[k]
  BY <1>d DEF IInv, OpenedSoFar
<1>3. ~open_verified /\ sig_verified = ("show" \notin dev)
  BY <1>d DEF IInv, Shown
<1>4. VerifiedMeansConsistent'
  <2>1. CASE ~KeysAreValid(behind)
    BY <1>b, <1>3, <2>1 DEF VerifiedMeansConsistent
  <2>2. CASE KeysAreValid(behind)
    <3>1. Indices \subseteq 0..L /\ L \in 0..L
      BY LPositive DEF Indices
    <3>a. \A k \in Indices : EqualBytes(m[k], genKeys(m[L][1])[k], k \in behind)
      BY <2>2 DEF KeysAreValid
    <3>b. \A k \in Indices : genKeys(m[L][1])[k] = <<m[L][1], k, "whole">>
      BY <3>1 DEF genKeys
    <3>2. \A k \in Indices : m[k][3] # "empty" => m[k][1] = m[L][1] /\ m[k][2] = k
      BY <3>a, <3>b DEF EqualBytes
    <3>c. \A k \in Indices : m[k] = <<m[k][1], m[k][2], m[k][3]>>
      <4>1. m \in [0..L -> Messages]
        BY <1>d DEF TypeOK
      <4>2. \A msg \in Messages : msg = <<msg[1], msg[2], msg[3]>>
        BY DEF Messages
      <4>3. QED
        BY <3>1, <4>1, <4>2
    <3>3. \A k \in Indices : com[k][3] # "empty" => com[k] = <<com[L][1], k, com[k][3]>>
      BY <1>2, <3>1, <3>2, <3>c
    <3>4. open_verified' => "show" \notin dev
      BY <1>b, <1>3, <2>2
    <3>5. QED
      BY <1>a, <3>3, <3>4 DEF VerifiedMeansConsistent
  <2>3. QED
    BY <2>1, <2>2
<1>5. \/ pc' = "thrown" /\ ~open_verified'
      \/ pc' = "opened"
  BY <1>b, <1>3
<1>6. OpenedSoFar' /\ LoopStart' /\ Shown'
  BY <1>5 DEF OpenedSoFar, LoopStart, Shown
<1>7. QED
  BY <1>1, <1>4, <1>6 DEF IInv

LEMMA IInvStep == IInv /\ [Next]_vars => IInv'
<1> SUFFICES ASSUME IInv, [Next]_vars PROVE IInv'
  OBVIOUS
<1>1. CASE Next
  BY <1>1, signStep, commitStep, open_signatureStep, open_lockStep, open_keysStep,
     verifyKeysStep DEF Next
<1>2. CASE UNCHANGED vars
  <2>1. TypeOK'
    BY <1>2 DEF vars, IInv, TypeOK
  <2>2. OpenedSoFar' /\ LoopStart'
    BY <1>2 DEF vars, IInv, OpenedSoFar, LoopStart
  <2>3. Shown' /\ VerifiedMeansConsistent'
    BY <1>2 DEF vars, IInv, Shown, VerifiedMeansConsistent
  <2>4. QED
    BY <2>1, <2>2, <2>3 DEF IInv
<1>3. QED
  BY <1>1, <1>2

-----------------------------------------------------------------------------
(* The theorems.                                                           *)

\* exec and open of SignatureKeyProtocol keep the invariant of open's loop.
THEOREM Invariance == Spec => []IInv
BY IInvInit, IInvStep, PTL DEF Spec

\* Every variable of the protocol keeps its type.
THEOREM TypeCorrect == Spec => []TypeOK
<1>1. IInv => TypeOK
  BY DEF IInv
<1>2. QED
  BY <1>1, Invariance, PTL

\* open_verified is set only if a signature was shown and every digest of exec of a
\* message as long as a key is of the key that follows from the signature committed
\* to, whatever the seller does: ShaCommitment::open and verifyKeys together leave
\* no gap but the length, which verifyKeys does not compare.
THEOREM SoundOpening == Spec => []VerifiedMeansConsistent
<1>1. IInv => VerifiedMeansConsistent
  BY DEF IInv
<1>2. QED
  BY <1>1, Invariance, PTL

-----------------------------------------------------------------------------
(* The lock that holds the share: the theorems of TimedCommitmentProofs.   *)

TCP == INSTANCE TimedCommitmentProofs
         WITH pc <- tc_pc, p <- tc_p, q <- tc_q, secret <- tc_secret, com <- tc_com,
              claim <- tc_claim, opened <- tc_opened, open_error <- tc_open_error,
              times <- tc_times, u <- tc_u, forced <- tc_forced

\* The two instances of TimedCommitment, the second through its proofs, are one.
LEMMA SameLock == TCP!ConstantsOK /\ (TC!Spec <=> TCP!Spec)
<1>1. TCP!ConstantsOK
  BY TimedCommitmentAssumption DEF TC!ConstantsOK, TCP!ConstantsOK
<1>2. TC!Init <=> TCP!Init
  BY DEF TC!Init, TCP!Init, TC!None, TCP!None, TC!NoCommitment, TCP!NoCommitment
<1>3. TC!Next <=> TCP!Next
  BY DEF TC!None, TCP!None, TC!NoCommitment, TCP!NoCommitment, TC!Shifted, TCP!Shifted,
         TC!MinEncodedSize, TCP!MinEncodedSize, TC!Encode, TCP!Encode, TC!to_bits,
         TCP!to_bits, TC!integer_to_bits, TCP!integer_to_bits, TC!from_bits, TCP!from_bits,
         TC!Decode, TCP!Decode, TC!bits_to_integer, TCP!bits_to_integer, TC!Stream,
         TCP!Stream, TC!prng_xor, TCP!prng_xor, TC!create_timed_key, TCP!create_timed_key,
         TC!gen_prime, TCP!gen_prime, TC!Commiter, TCP!Commiter, TC!commit, TCP!commit,
         TC!Remainder, TCP!Remainder, TC!Quotient, TCP!Quotient,
         TC!OpenError, TCP!OpenError, TC!open_commitment, TCP!open_commitment,
         TC!force_open_start, TCP!force_open_start, TC!force_open_square,
         TCP!force_open_square, TC!force_open_end, TCP!force_open_end, TC!force_open,
         TCP!force_open, TC!Next, TCP!Next, TC!ExpMod, TCP!ExpMod
<1>4. [TC!Next]_TC!vars <=> [TCP!Next]_TCP!vars
  BY <1>3 DEF TC!vars, TCP!vars
<1>5. QED
  BY <1>1, <1>2, <1>4, PTL DEF TC!Spec, TCP!Spec

\* timed_commitment.cpp: what force_open finds after its squarings is the integer
\* that was locked, for every pair of different primes that gen_prime accepts, every
\* secret and every h, also one that shares a factor with n.
THEOREM ShareComesBack == TC!Spec => []LockHoldsSecret
<1>1. TCP!Spec => []TCP!LockHoldsSecret
  BY SameLock, TCP!LockKeepsSecret
<1>2. TCP!LockHoldsSecret => LockHoldsSecret
  BY DEF LockHoldsSecret, TC!LockHoldsSecret, TCP!LockHoldsSecret, TC!bits_to_integer, TCP!bits_to_integer,
         TC!from_bits, TCP!from_bits, TC!Decode, TCP!Decode, TC!None, TCP!None
<1>3. QED
  BY <1>1, <1>2, SameLock, PTL

\* timed_commitment.cpp: whatever positive number is sent for p, open refuses it or
\* shows what the squarings would have found; and p is accepted.
THEOREM OpeningIsForcing == TC!Spec => []OpenAgreesWithForce
<1>1. TCP!Spec => []TCP!OpenAgreesWithForce
  BY SameLock, TCP!OpenAndForceAgree
<1>2. TCP!OpenAgreesWithForce => OpenAgreesWithForce
  BY DEF OpenAgreesWithForce, TC!OpenAgreesWithForce, TCP!OpenAgreesWithForce, TC!None, TCP!None
<1>3. QED
  BY <1>1, <1>2, SameLock, PTL

=============================================================================
