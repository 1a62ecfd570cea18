----------------------- MODULE SellInformationProofs -----------------------
(***************************************************************************)
(* Theorems about SellInformation, for every number of instances, of kept  *)
(* instances, price, fee and limit of the wallet and of the network.       *)
(***************************************************************************)
EXTENDS SellInformation, FiniteSetTheorems, SequenceTheorems, TLAPS

-----------------------------------------------------------------------------
(* The inductive invariant.                                                *)

\* exec, by how far it has come.
Settling == {"settle", "taught", "refunded", "redeem failed"}
FromAccept == {"accept_T1"} \cup Settling
FromVerify == {"verifyT2Signature"} \cup FromAccept
FromKeep == {"keep"} \cup FromVerify
FromCut == {"cut_and_choose"} \cup FromKeep
FromT2 == {"createT2"} \cup FromCut
FromSend == {"createSend"} \cup FromT2
FromPick == {"pickR"} \cup FromSend

SellerCopy == [Q : Instances \cup {-1}, commiter : {0}, sig : Sigs, com : 0..T]
BuyerCopy == [Q : Instances \cup {-1}, com : 0..T]

Price == buyer_terms.price

\* What T2 commits to.
AgreedTx == [value |-> Price - Fee, dst |-> SellerAddress, script |-> original_script]

\* init has compared the terms.
Agreed == pc \in {"share"} \cup FromPick => seller_terms = buyer_terms

\* Every instance has its own shared key.
SharedKeys ==
  pc \in FromPick => \A i \in Instances : prover_v[i].Q = i /\ verifier_v[i].Q = i

\* The buyer's copies are those of the chosen instances, in their order.
Picked ==
  pc \in FromSend =>
    /\ r \in [1..R -> Instances] /\ \A a, b \in 1..R : a < b => r[a] < r[b]
    /\ single_buyers \in [1..R -> BuyerCopy]
    /\ \A k \in 1..R : single_buyers[k].Q = r[k]

\* T1 pays the price to the script of the chosen keys.
SentT1 ==
  pc \in FromT2 =>
    /\ Price < Half /\ MinSend <= Price /\ Price <= Funds
    /\ original_script = OriginalScript(r)
    /\ T1_output_script = P2SH(original_script)
    /\ T1 \in PaymentOutputs(Price, T1_output_script)

BuiltT2 ==
  pc \in FromCut =>
    /\ Fee <= Price
    /\ T2_hash = AgreedTx /\ T2 = [hash |-> AgreedTx, sigs |-> <<>>]

\* The cut and choose has left a signature of T2 and new commitments.
CutDone ==
  pc \in FromKeep =>
    \A i \in Instances : /\ prover_v[i].sig = [key |-> i, hash |-> T2_hash]
                         /\ prover_v[i].com = i + 1 /\ verifier_v[i].com = i + 1

KeptCopies ==
  pc \in FromVerify =>
    /\ single_sellers \in [1..R -> SellerCopy]
    /\ \A k \in 1..R : single_sellers[k] = prover_v[r[k]] /\ single_buyers[k] = verifier_v[r[k]]
    /\ s_T2.hash = T2_hash

SellerSigs == [k \in 1..R |-> single_sellers[k].sig]

SignedT2 ==
  /\ pc = "verifyT2Signature" => s_T2 = T2
  /\ pc \in FromAccept => s_T2 = [hash |-> T2_hash, sigs |-> SellerSigs]
Taught == pc = "taught" => signatures = SellerSigs

SInv == /\ TypeOK /\ Agreed /\ SharedKeys /\ Picked /\ SentT1 /\ BuiltT2 /\ CutDone
        /\ KeptCopies /\ SignedT2 /\ Taught

-----------------------------------------------------------------------------
(* The constants, and the scripts.                                         *)

LEMMA Constants ==
  ASSUME TypeOK
  PROVE  /\ T \in Nat /\ R \in 1..T /\ R \in Nat /\ R > 0
         /\ Half \in Nat /\ Funds \in Nat /\ MinSend \in Nat /\ Fee \in Nat
         /\ Half > 0 /\ Funds > 0 /\ MinSend > 0 /\ Fee > 0
         /\ Price \in 0..(2 * Half - 1)
         /\ \A i \in Instances : i \in Int /\ i # BuyerKey /\ i # ChangeKey /\ i \in Keys
         /\ BuyerKey \in Keys /\ ChangeKey \in Keys /\ SellerAddress \in Keys
<1>0. R \in Rs
  BY DEF TypeOK
<1>1. /\ T \in Nat /\ R \in 1..T /\ R \in Nat /\ R > 0
      /\ Half \in Nat /\ Funds \in Nat /\ MinSend \in Nat /\ Fee \in Nat
      /\ Half > 0 /\ Funds > 0 /\ MinSend > 0 /\ Fee > 0
  BY <1>0, TAssumption, AmountsAssumption
<1>2. Price \in 0..(2 * Half - 1)
  BY TermsAssumption DEF TypeOK, Price
<1>3. QED
  BY <1>1, <1>2 DEF Instances, BuyerKey, ChangeKey, SellerAddress, Keys

\* A function from 1..m is a sequence of m elements.
LEMMA FunctionIsSeq ==
  ASSUME NEW m \in Nat, NEW S, NEW s \in [1..m -> S]
  PROVE  s \in Seq(S) /\ Len(s) = m
<1>1. s \in Seq(S)
  BY SeqDef
<1>2. QED
  BY <1>1, LenProperties

\* What a script of R chosen keys looks like.
LEMMA ScriptForm ==
  ASSUME TypeOK, NEW q \in [1..R -> Instances]
  PROVE  LET s == P2SH(OriginalScript(q))
         IN  /\ s.m = R /\ s.keys = MultiSigKeys(q)
             /\ OriginalScript(q).m = R /\ OriginalScript(q).keys = MultiSigKeys(q)
             /\ R = 1 => s = P2PKH(q[1]) /\ OriginalScript(q) = P2PKH(q[1])
             /\ R # 1 => s.type = "p2sh"
             /\ s \in Scripts /\ OriginalScript(q) \in Scripts
<1>1. /\ R \in Nat /\ R > 0 /\ T \in Nat
      /\ \A i \in Instances : i \in Keys
      /\ BuyerKey \in Keys
  BY Constants
<1>2. MultiSigKeys(q) \in [1..(2 * R - 1) -> Keys] /\ 2 * R - 1 \in Nat
  BY <1>1 DEF MultiSigKeys
<1>3. MultiSigKeys(q) \in Seq(Keys)
  <2> HIDE DEF MultiSigKeys
  <2>1. QED
    BY <1>2, FunctionIsSeq
<1>4. CASE R = 1
  <2>1. MultiSigKeys(q) = <<q[1]>>
    BY <1>4 DEF MultiSigKeys
  <2>2. QED
    BY <1>1, <1>3, <1>4, <2>1 DEF OriginalScript, P2SH, P2PKH, Scripts
<1>5. CASE R # 1
  <2> HIDE DEF MultiSigKeys
  <2>1. OriginalScript(q) = [type |-> "multisig", m |-> R, keys |-> MultiSigKeys(q)]
    BY <1>5 DEF OriginalScript
  <2>2. P2SH(OriginalScript(q)) = [type |-> "p2sh", m |-> R, keys |-> MultiSigKeys(q)]
    BY <1>5, <2>1 DEF P2SH
  <2>3. R \in 0..R
    BY <1>1
  <2>4. QED
    BY <1>3, <1>5, <2>1, <2>2, <2>3 DEF Scripts
<1>6. QED
  BY <1>4, <1>5

\* getOutput finds the payment in T1, whatever the place of the change.
LEMMA OutputFound ==
  ASSUME SInv, pc \in FromT2, NEW k \in 1..R
  PROVE  /\ T1[getOutput(T1, r[k])] = [value |-> Price, script |-> T1_output_script]
<1> DEFINE pay == [value |-> Price, script |-> T1_output_script]
           change == [value |-> Funds - Price, script |-> P2PKH(ChangeKey)]
           matches(o) == IF R = 1 THEN o.script = P2PKH(r[k]) ELSE o.script.type # "p2pkh"
<1>1. /\ r \in [1..R -> Instances] /\ original_script = OriginalScript(r)
      /\ T1_output_script = P2SH(original_script)
      /\ T1 = <<pay>> \/ T1 = <<pay, change>> \/ T1 = <<change, pay>>
  BY DEF SInv, Picked, SentT1, PaymentOutputs, FromSend
<1>a. TypeOK
  BY DEF SInv
<1>2. matches(pay)
  <2>1. R = 1 => k = 1
    OBVIOUS
  <2>2. QED
    BY <1>a, <1>1, <2>1, ScriptForm
<1>3. ~matches(change)
  <2>1. r[k] # ChangeKey
    BY <1>a, <1>1, Constants
  <2>2. P2PKH(r[k]).keys[1] = r[k] /\ P2PKH(ChangeKey).keys[1] = ChangeKey
        /\ P2PKH(ChangeKey).type = "p2pkh"
    BY DEF P2PKH
  <2>3. QED
    BY <2>1, <2>2
<1> DEFINE I == {i \in 1..Len(T1) : matches(T1[i])}
<1>4. getOutput(T1, r[k]) = IF I # {} THEN Min(I) ELSE 0
  BY DEF getOutput, SelectInSeq
<1> HIDE DEF pay, change, matches
<1>5. PICK p \in 1..2 : I = {p} /\ T1[p] = pay
  <2>1. CASE T1 = <<pay>>
    <3>1. 1..Len(T1) = {1} /\ T1[1] = pay
      BY <2>1
    <3>2. I = {1}
      BY <1>2, <3>1
    <3>3. QED
      BY <3>1, <3>2
  <2>2. CASE T1 = <<pay, change>>
    <3>1. 1..Len(T1) = {1, 2} /\ T1[1] = pay /\ T1[2] = change
      BY <2>2
    <3>2. I = {1}
      BY <1>2, <1>3, <3>1
    <3>3. QED
      BY <3>1, <3>2
  <2>3. CASE T1 = <<change, pay>>
    <3>1. 1..Len(T1) = {1, 2} /\ T1[1] = change /\ T1[2] = pay
      BY <2>3
    <3>2. I = {2}
      BY <1>2, <1>3, <3>1
    <3>3. QED
      BY <3>1, <3>2
  <2>4. QED
    BY <1>1, <2>1, <2>2, <2>3
<1> HIDE DEF I
<1>6. Min(I) = p
  BY <1>5 DEF Min
<1>7. QED
  BY <1>4, <1>5, <1>6 DEF pay

-----------------------------------------------------------------------------
(* The invariant is inductive.                                             *)

\* After a throw only the types are left to show.
LEMMA ThrownStep ==
  ASSUME TypeOK', pc' = "thrown"
  PROVE  SInv'
<1>1. /\ pc' \notin FromPick /\ pc' \notin FromSend /\ pc' \notin FromT2 /\ pc' \notin FromCut
      /\ pc' \notin FromKeep /\ pc' \notin FromVerify /\ pc' \notin FromAccept
      /\ pc' # "share" /\ pc' # "verifyT2Signature" /\ pc' # "taught"
  BY DEF FromPick, FromSend, FromT2, FromCut, FromKeep, FromVerify, FromAccept, Settling
<1>2. Agreed' /\ SharedKeys' /\ Picked' /\ SentT1' /\ BuiltT2'
  BY <1>1 DEF Agreed, SharedKeys, Picked, SentT1, BuiltT2
<1>3. CutDone' /\ KeptCopies' /\ SignedT2' /\ Taught'
  BY <1>1 DEF CutDone, KeptCopies, SignedT2, Taught
<1>4. QED
  BY <1>2, <1>3 DEF SInv

\* What is there before anything has been built.
LEMMA NothingYet ==
  ASSUME R \in Rs
  PROVE  /\ NoScript \in Scripts /\ NoHash \in Hashes /\ NoSig \in Sigs
         /\ NoTx.hash \in Hashes /\ NoTx.sigs \in Seq(Sigs)
         /\ <<>> \in Seq(Sigs) /\ <<>> \in Seq(Instances) /\ Len(<<>>) = 0
         /\ <<>> \in Seq([value : 0..Funds, script : Scripts])
<1>1. R \in Nat /\ Half \in Nat
  BY TAssumption, AmountsAssumption
<1>2. NoScript \in Scripts
  BY <1>1, EmptySeq DEF NoScript, Scripts
<1>3. NoHash \in Hashes
  BY <1>1, <1>2 DEF NoHash, Hashes
<1>4. NoSig \in Sigs
  BY <1>3 DEF NoSig, Sigs
<1>5. /\ <<>> \in Seq(Sigs) /\ <<>> \in Seq(Instances) /\ Len(<<>>) = 0
      /\ <<>> \in Seq([value : 0..Funds, script : Scripts])
  BY EmptySeq
<1>6. NoTx.hash = NoHash /\ NoTx.sigs = <<>>
  BY DEF NoTx
<1>7. QED
  BY <1>2, <1>3, <1>4, <1>5, <1>6

LEMMA SInvInit == Init => SInv
<1> SUFFICES ASSUME Init PROVE SInv
  OBVIOUS
<1>1. pc = "init" /\ R \in Rs
  BY DEF Init
<1>2. TypeOK
  <2>1. prover_v \in [Instances -> SellerCopy] /\ verifier_v \in [Instances -> BuyerCopy]
    <3>1. T \in Nat
      BY TAssumption
    <3>2. NewSeller \in SellerCopy /\ NewBuyer \in BuyerCopy
      BY <1>1, <3>1, NothingYet DEF NewSeller, NewBuyer, SellerCopy, BuyerCopy
    <3>3. QED
      BY <3>2 DEF Init
  <2>2. /\ r = <<>> /\ single_sellers = <<>> /\ single_buyers = <<>> /\ revealed = {}
        /\ T1 = <<>> /\ T1_output_script = NoScript /\ original_script = NoScript
        /\ T2 = NoTx /\ T2_hash = NoHash /\ s_T2 = NoTx
        /\ signatures = <<>> /\ refund = NoTx
        /\ {seller_terms, buyer_terms} \subseteq Terms
    BY DEF Init
  <2>3. QED
    BY <1>1, <2>1, <2>2, NothingYet DEF TypeOK, SellerCopy, BuyerCopy
<1>3. /\ pc \notin FromPick /\ pc \notin FromSend /\ pc \notin FromT2 /\ pc \notin FromCut
      /\ pc \notin FromKeep /\ pc \notin FromVerify /\ pc \notin FromAccept
      /\ pc # "share" /\ pc # "verifyT2Signature" /\ pc # "taught"
  BY <1>1 DEF FromPick, FromSend, FromT2, FromCut, FromKeep, FromVerify, FromAccept, Settling
<1>4. Agreed /\ SharedKeys /\ Picked /\ SentT1 /\ BuiltT2
  BY <1>3 DEF Agreed, SharedKeys, Picked, SentT1, BuiltT2
<1>5. CutDone /\ KeptCopies /\ SignedT2 /\ Taught
  BY <1>3 DEF CutDone, KeptCopies, SignedT2, Taught
<1>6. QED
  BY <1>2, <1>4, <1>5 DEF SInv

LEMMA initStep == SInv /\ init => SInv'
<1> SUFFICES ASSUME SInv, init PROVE SInv'
  OBVIOUS
<1>1. UNCHANGED <<terms, offchain, txs, s_T2, outcome>>
  BY DEF init
<1>2. (pc' = "share" /\ seller_terms = buyer_terms) \/ pc' = "thrown"
  BY DEF init, Throw, Continue
<1>3. TypeOK'
  BY <1>1, <1>2 DEF SInv, TypeOK, terms, offchain, txs, outcome, Scripts, Hashes, Sigs
<1>4. CASE pc' = "share" /\ seller_terms = buyer_terms
  <2>1. Agreed'
    BY <1>1, <1>4 DEF Agreed, terms
  <2>2. /\ pc' \notin FromPick /\ pc' \notin FromSend /\ pc' \notin FromT2 /\ pc' \notin FromCut
        /\ pc' \notin FromKeep /\ pc' \notin FromVerify /\ pc' \notin FromAccept
        /\ pc' # "verifyT2Signature" /\ pc' # "taught"
    BY <1>4 DEF FromPick, FromSend, FromT2, FromCut, FromKeep, FromVerify, FromAccept, Settling
  <2>3. SharedKeys' /\ Picked' /\ SentT1' /\ BuiltT2'
    BY <2>2 DEF SharedKeys, Picked, SentT1, BuiltT2
  <2>4. CutDone' /\ KeptCopies' /\ SignedT2' /\ Taught'
    BY <2>2 DEF CutDone, KeptCopies, SignedT2, Taught
  <2>5. QED
    BY <1>3, <2>1, <2>3, <2>4 DEF SInv
<1>5. QED
  BY <1>2, <1>3, <1>4, ThrownStep

LEMMA shareStep == SInv /\ share => SInv'
<1> SUFFICES ASSUME SInv, share PROVE SInv'
  OBVIOUS
<1>1. /\ pc = "share" /\ pc' = "pickR"
      /\ UNCHANGED <<terms, r, single_sellers, single_buyers, revealed, txs, s_T2, outcome>>
      /\ prover_v' = [i \in Instances |-> [prover_v[i] EXCEPT !.Q = i]]
      /\ verifier_v' = [i \in Instances |-> [verifier_v[i] EXCEPT !.Q = i]]
  BY DEF share, Continue
<1>2. prover_v \in [Instances -> SellerCopy] /\ verifier_v \in [Instances -> BuyerCopy]
  BY DEF SInv, TypeOK, SellerCopy, BuyerCopy
<1>3. ASSUME NEW i \in Instances
      PROVE  /\ [prover_v[i] EXCEPT !.Q = i] \in SellerCopy
             /\ [prover_v[i] EXCEPT !.Q = i].Q = i
             /\ [verifier_v[i] EXCEPT !.Q = i] \in BuyerCopy
             /\ [verifier_v[i] EXCEPT !.Q = i].Q = i
  <2> DEFINE a == prover_v[i]
             b == verifier_v[i]
  <2>1. a \in SellerCopy /\ b \in BuyerCopy
    BY <1>2
  <2> HIDE DEF a, b
  <2>2. QED
    BY <2>1 DEF SellerCopy, BuyerCopy, a, b
<1>4. /\ prover_v' \in [Instances -> SellerCopy] /\ verifier_v' \in [Instances -> BuyerCopy]
      /\ \A i \in Instances : prover_v'[i].Q = i /\ verifier_v'[i].Q = i
  BY <1>1, <1>3
<1>5. TypeOK'
  BY <1>1, <1>4 DEF SInv, TypeOK, terms, txs, outcome, Scripts, Hashes, Sigs, SellerCopy, BuyerCopy
<1>6. Agreed' /\ SharedKeys'
  BY <1>1, <1>4 DEF SInv, Agreed, SharedKeys, terms
<1>7. /\ pc' \notin FromSend /\ pc' \notin FromT2 /\ pc' \notin FromCut
      /\ pc' \notin FromKeep /\ pc' \notin FromVerify /\ pc' \notin FromAccept
      /\ pc' # "verifyT2Signature" /\ pc' # "taught"
  BY <1>1 DEF FromSend, FromT2, FromCut, FromKeep, FromVerify, FromAccept, Settling
<1>8. Picked' /\ SentT1' /\ BuiltT2' /\ CutDone' /\ KeptCopies' /\ SignedT2' /\ Taught'
  BY <1>7 DEF Picked, SentT1, BuiltT2, CutDone, KeptCopies, SignedT2, Taught
<1>9. QED
  BY <1>5, <1>6, <1>8 DEF SInv

LEMMA pickRStep == SInv /\ pickR => SInv'
<1> SUFFICES ASSUME SInv, pickR PROVE SInv'
  OBVIOUS
<1>1. /\ pc = "pickR" /\ pc' = "createSend"
      /\ UNCHANGED <<terms, prover_v, verifier_v, single_sellers, revealed, txs, s_T2, outcome>>
      /\ r' \in [1..R -> Instances] /\ \A a, b \in 1..R : a < b => r'[a] < r'[b]
      /\ single_buyers' = [k \in 1..R |-> verifier_v[r'[k]]]
  BY DEF pickR, Continue
<1>2. R \in Nat /\ R > 0 /\ R' = R
  BY <1>1, Constants DEF SInv, terms
<1>3. verifier_v \in [Instances -> BuyerCopy] /\ \A i \in Instances : verifier_v[i].Q = i
  BY <1>1 DEF SInv, TypeOK, BuyerCopy, SharedKeys, FromPick
<1>4. single_buyers' \in [1..R -> BuyerCopy] /\ \A k \in 1..R : single_buyers'[k].Q = r'[k]
  BY <1>1, <1>3
<1>5. r' \in Seq(Instances) /\ Len(r') = R /\ Len(single_buyers') = R
  BY <1>1, <1>2, <1>4, FunctionIsSeq
<1>6. TypeOK'
  BY <1>1, <1>2, <1>5 DEF SInv, TypeOK, terms, txs, outcome, Scripts, Hashes, Sigs
<1>7. Agreed' /\ SharedKeys'
  BY <1>1 DEF SInv, Agreed, SharedKeys, terms, FromPick, FromSend
<1>8. Picked'
  BY <1>1, <1>2, <1>4 DEF Picked, BuyerCopy
<1>9. /\ pc' \notin FromT2 /\ pc' \notin FromCut
      /\ pc' \notin FromKeep /\ pc' \notin FromVerify /\ pc' \notin FromAccept
      /\ pc' # "verifyT2Signature" /\ pc' # "taught"
  BY <1>1 DEF FromT2, FromCut, FromKeep, FromVerify, FromAccept, Settling
<1>10. SentT1' /\ BuiltT2' /\ CutDone' /\ KeptCopies' /\ SignedT2' /\ Taught'
  BY <1>9 DEF SentT1, BuiltT2, CutDone, KeptCopies, SignedT2, Taught
<1>11. QED
  BY <1>6, <1>7, <1>8, <1>10 DEF SInv

LEMMA createSendStep == SInv /\ createSend => SInv'
<1> SUFFICES ASSUME SInv, createSend PROVE SInv'
  OBVIOUS
<1> DEFINE value == ToI32(Price)
<1>1. pc = "createSend" /\ UNCHANGED <<terms, offchain, s_T2, outcome>>
  BY DEF createSend
<1>2. \/ pc' = "thrown" /\ UNCHANGED txs
      \/ /\ pc' = "createT2" /\ CanSend(value)
         /\ original_script' = OriginalScript(Qs(single_buyers))
         /\ T1_output_script' = P2SH(original_script')
         /\ T1' \in PaymentOutputs(value, T1_output_script')
         /\ UNCHANGED <<T2, T2_hash>>
  BY DEF createSend, Throw, Continue, Price
<1>3. CASE pc' = "thrown" /\ UNCHANGED txs
  <2>1. TypeOK'
    BY <1>1, <1>3 DEF SInv, TypeOK, terms, offchain, txs, outcome, Scripts, Hashes, Sigs
  <2>2. QED
    BY <1>3, <2>1, ThrownStep
<1>4. CASE /\ pc' = "createT2" /\ CanSend(value)
           /\ original_script' = OriginalScript(Qs(single_buyers))
           /\ T1_output_script' = P2SH(original_script')
           /\ T1' \in PaymentOutputs(value, T1_output_script')
           /\ UNCHANGED <<T2, T2_hash>>
  <2>a. TypeOK
    BY DEF SInv
  <2>1. /\ R \in Nat /\ R > 0 /\ R' = R /\ Price' = Price /\ Price \in 0..(2 * Half - 1)
        /\ Half \in Nat /\ Funds \in Nat /\ MinSend \in Nat /\ MinSend > 0
        /\ ChangeKey \in Keys
    BY <1>1, <2>a, Constants DEF terms, Price
  <2>2. value = Price /\ Price < Half /\ MinSend <= Price /\ Price <= Funds
    <3>1. MinSend <= value /\ value <= Funds
      BY <1>4, <2>1 DEF CanSend, ToI32
    <3>2. Price < Half
      BY <2>1, <3>1 DEF ToI32
    <3>3. QED
      BY <2>1, <3>1, <3>2 DEF ToI32
  <2> HIDE DEF value
  <2>3. /\ r \in [1..R -> Instances] /\ \A a, b \in 1..R : a < b => r[a] < r[b]
        /\ single_buyers \in [1..R -> BuyerCopy]
        /\ \A k \in 1..R : single_buyers[k].Q = r[k]
    BY <1>1 DEF SInv, Picked, FromSend
  <2>4. Qs(single_buyers) = r
    <3>1. Len(single_buyers) = R
      BY <2>1, <2>3, FunctionIsSeq
    <3>2. QED
      BY <2>3, <3>1 DEF Qs
  <2>5. original_script' = OriginalScript(r) /\ T1_output_script' = P2SH(original_script')
    BY <1>4, <2>4
  <2>6. original_script' \in Scripts /\ T1_output_script' \in Scripts
    BY <2>3, <2>5, <2>a, ScriptForm
  <2> DEFINE pay == [value |-> Price, script |-> T1_output_script']
             change == [value |-> Funds - Price, script |-> P2PKH(ChangeKey)]
             Outputs == [value : 0..Funds, script : Scripts]
  <2>7. T1' = <<pay>> \/ T1' = <<pay, change>> \/ T1' = <<change, pay>>
    BY <1>4, <2>2 DEF PaymentOutputs
  <2>8. P2PKH(ChangeKey) \in Scripts
    <3>1. <<ChangeKey>> \in Seq(Keys) /\ 1 \in 0..R
      BY <2>1
    <3>2. QED
      BY <3>1 DEF P2PKH, Scripts
  <2>9. pay \in Outputs /\ change \in Outputs
    <3>1. Price \in 0..Funds /\ Funds - Price \in 0..Funds
      BY <2>1, <2>2
    <3>2. QED
      BY <2>6, <2>8, <3>1
  <2> HIDE DEF pay, change, Outputs
  <2>10. T1' \in Seq(Outputs)
    <3>1. <<pay>> \in Seq(Outputs)
      BY <2>9
    <3>2. <<pay, change>> \in Seq(Outputs)
      BY <2>9
    <3>3. <<change, pay>> \in Seq(Outputs)
      BY <2>9
    <3>4. QED
      BY <2>7, <3>1, <3>2, <3>3
  <2>11. Scripts' = Scripts /\ Hashes' = Hashes /\ Sigs' = Sigs
    BY <2>1 DEF Scripts, Hashes, Sigs
  <2>12. TypeOK'
    BY <1>1, <1>4, <2>6, <2>10, <2>11 DEF SInv, TypeOK, terms, offchain, outcome, Outputs
  <2>13. Agreed' /\ SharedKeys' /\ Picked'
    <3>1. pc \in FromPick /\ pc \in FromSend
      BY <1>1 DEF FromPick, FromSend
    <3>2. Agreed' /\ SharedKeys'
      BY <1>1, <3>1 DEF SInv, Agreed, SharedKeys, terms, offchain
    <3>3. Picked'
      BY <1>1, <2>1, <2>3 DEF Picked, offchain, BuyerCopy
    <3>4. QED
      BY <3>2, <3>3
  <2>14. SentT1'
    <3>1. r' = r
      BY <1>1 DEF offchain
    <3>2. OriginalScript(r)' = OriginalScript(r) /\ P2SH(original_script)' = P2SH(original_script')
      BY <2>1, <3>1 DEF OriginalScript, P2SH, MultiSigKeys, P2PKH
    <3>3. T1' \in PaymentOutputs(Price, T1_output_script)'
      BY <1>4, <2>1, <2>2 DEF PaymentOutputs
    <3>4. QED
      BY <2>1, <2>2, <2>5, <3>2, <3>3 DEF SentT1
  <2>15. /\ pc' \notin FromCut /\ pc' \notin FromKeep /\ pc' \notin FromVerify
         /\ pc' \notin FromAccept /\ pc' # "verifyT2Signature" /\ pc' # "taught"
    BY <1>4 DEF FromCut, FromKeep, FromVerify, FromAccept, Settling
  <2>16. BuiltT2' /\ CutDone' /\ KeptCopies' /\ SignedT2' /\ Taught'
    BY <2>15 DEF BuiltT2, CutDone, KeptCopies, SignedT2, Taught
  <2>17. QED
    BY <2>12, <2>13, <2>14, <2>16 DEF SInv
<1>5. QED
  BY <1>2, <1>3, <1>4

\* createT2: the transaction to the seller is worth the price less the fee.
LEMMA createT2Step == SInv /\ createT2 => SInv'
<1> SUFFICES ASSUME SInv, createT2 PROVE SInv'
  OBVIOUS
<1> DEFINE o == T1[getOutput(T1, single_buyers[1].Q)]
           tx == [value |-> o.value - Fee, dst |-> SellerAddress, script |-> original_script]
<1>1. /\ pc = "createT2"
      /\ UNCHANGED <<terms, offchain, T1, T1_output_script, original_script, s_T2, outcome>>
  BY DEF createT2
<1>2. \/ pc' = "thrown" /\ UNCHANGED <<T2, T2_hash>>
      \/ /\ pc' = "cut_and_choose" /\ o.value >= Fee
         /\ T2' = [hash |-> tx, sigs |-> <<>>] /\ T2_hash' = tx
  BY DEF createT2, Throw, Continue
<1>a. TypeOK
  BY DEF SInv
<1>b. Scripts' = Scripts /\ Hashes' = Hashes /\ Sigs' = Sigs
  BY <1>1 DEF Scripts, Hashes, Sigs, terms
<1>3. CASE pc' = "thrown" /\ UNCHANGED <<T2, T2_hash>>
  <2>1. TypeOK'
    BY <1>1, <1>3, <1>a, <1>b DEF TypeOK, terms, offchain, outcome
  <2>2. QED
    BY <1>3, <2>1, ThrownStep
<1>4. CASE /\ pc' = "cut_and_choose" /\ o.value >= Fee
           /\ T2' = [hash |-> tx, sigs |-> <<>>] /\ T2_hash' = tx
  <2>1. pc \in FromT2 /\ pc \in FromSend /\ pc \in FromPick
    BY <1>1 DEF FromPick, FromSend, FromT2
  <2>2. R \in Nat /\ R > 0 /\ 1 \in 1..R
    BY <1>a, Constants
  <2>3. single_buyers[1].Q = r[1]
    BY <2>1, <2>2 DEF SInv, Picked
  <2>4. o = [value |-> Price, script |-> T1_output_script]
    BY <2>1, <2>2, <2>3, OutputFound
  <2>5. o.value = Price
    BY <2>4
  <2>6. tx = AgreedTx /\ Fee <= Price
    <3>1. Price \in Int /\ Fee \in Int
      BY <1>a, Constants
    <3> HIDE DEF o
    <3>2. QED
      BY <1>4, <2>5, <3>1 DEF AgreedTx
  <2> HIDE DEF o, tx
  <2>7. AgreedTx' = AgreedTx
    BY <1>1 DEF AgreedTx, Price, terms
  <2>8. AgreedTx \in Hashes
    <3>1. Price - Fee \in -1..(2 * Half) /\ SellerAddress \in Keys
      BY <1>a, <2>6, Constants
    <3>2. original_script \in Scripts
      BY <1>a DEF TypeOK
    <3>3. QED
      BY <3>1, <3>2 DEF AgreedTx, Hashes
  <2>9. T2'.hash = AgreedTx /\ T2'.sigs = <<>> /\ <<>> \in Seq(Sigs) /\ T2_hash' = AgreedTx
    BY <1>4, <2>6
  <2>10. TypeOK'
    BY <1>1, <1>4, <1>a, <1>b, <2>8, <2>9 DEF TypeOK, terms, offchain, outcome
  <2>11. Agreed' /\ SharedKeys' /\ Picked'
    <3>1. Agreed' /\ SharedKeys'
      BY <1>1, <2>1 DEF SInv, Agreed, SharedKeys, terms, offchain
    <3>2. Picked'
      BY <1>1, <2>1 DEF SInv, Picked, offchain, terms, BuyerCopy
    <3>3. QED
      BY <3>1, <3>2
  <2>12. SentT1'
    <3>1. OriginalScript(r)' = OriginalScript(r) /\ P2SH(original_script)' = P2SH(original_script)
      BY <1>1 DEF OriginalScript, P2SH, MultiSigKeys, P2PKH, terms, offchain
    <3>2. QED
      BY <1>1, <2>1, <3>1 DEF SInv, SentT1, PaymentOutputs, Price, terms
  <2>13. BuiltT2'
    <3>1. Price' = Price
      BY <1>1 DEF Price, terms
    <3>2. QED
      BY <1>4, <2>6, <2>7, <3>1 DEF BuiltT2
  <2>14. /\ pc' \notin FromKeep /\ pc' \notin FromVerify
         /\ pc' \notin FromAccept /\ pc' # "verifyT2Signature" /\ pc' # "taught"
    BY <1>4 DEF FromKeep, FromVerify, FromAccept, Settling
  <2>15. CutDone' /\ KeptCopies' /\ SignedT2' /\ Taught'
    BY <2>14 DEF CutDone, KeptCopies, SignedT2, Taught
  <2>16. QED
    BY <2>10, <2>11, <2>12, <2>13, <2>15 DEF SInv
<1>5. QED
  BY <1>2, <1>3, <1>4

\* From the cut and choose on, terms, transactions and choice stay as they are.
LEMMA BuiltStays ==
  ASSUME SInv, pc \in FromCut, pc' \in FromCut, UNCHANGED <<terms, txs, r>>,
         single_buyers' \in [1..R -> BuyerCopy],
         \A k \in 1..R : single_buyers'[k].Q = r[k]
  PROVE  Agreed' /\ Picked' /\ SentT1' /\ BuiltT2'
<1>1. /\ pc \in FromPick /\ pc \in FromSend /\ pc \in FromT2
      /\ pc' \in FromPick /\ pc' \in FromSend /\ pc' \in FromT2
  BY DEF FromPick, FromSend, FromT2
<1>2. Agreed'
  BY <1>1 DEF SInv, Agreed, terms
<1>3. Picked'
  BY <1>1 DEF SInv, Picked, terms, BuyerCopy
<1>4. SentT1'
  <2>1. OriginalScript(r)' = OriginalScript(r) /\ P2SH(original_script)' = P2SH(original_script)
    BY DEF OriginalScript, P2SH, MultiSigKeys, P2PKH, terms, txs
  <2>2. QED
    BY <1>1, <2>1 DEF SInv, SentT1, PaymentOutputs, Price, terms, txs
<1>5. BuiltT2'
  BY DEF SInv, BuiltT2, AgreedTx, Price, terms, txs
<1>6. QED
  BY <1>2, <1>3, <1>4, <1>5

LEMMA cut_and_chooseStep == SInv /\ cut_and_choose => SInv'
<1> SUFFICES ASSUME SInv, cut_and_choose PROVE SInv'
  OBVIOUS
<1>1. /\ pc = "cut_and_choose" /\ pc' \in {"keep", "thrown"}
      /\ UNCHANGED <<terms, r, single_sellers, single_buyers, txs, s_T2, outcome>>
      /\ prover_v' = [i \in Instances |->
           [prover_v[i] EXCEPT !.sig = [key |-> prover_v[i].Q, hash |-> T2_hash],
                               !.com = i + 1]]
      /\ verifier_v' = [i \in Instances |-> [verifier_v[i] EXCEPT !.com = i + 1]]
      /\ revealed' = {prover_v[i].commiter : i \in Instances \ ToSet(r)}
  BY DEF cut_and_choose, Continue, Throw
<1>a. TypeOK /\ pc \in FromPick /\ pc \in FromSend /\ pc \in FromCut
  BY <1>1 DEF SInv, FromPick, FromSend, FromT2, FromCut
<1>2. prover_v \in [Instances -> SellerCopy] /\ verifier_v \in [Instances -> BuyerCopy]
  BY <1>a DEF TypeOK, SellerCopy, BuyerCopy
<1>3. \A i \in Instances : prover_v[i].Q = i /\ verifier_v[i].Q = i
  BY <1>a DEF SInv, SharedKeys
<1>4. ASSUME NEW i \in Instances
      PROVE  /\ prover_v'[i] \in SellerCopy /\ verifier_v'[i] \in BuyerCopy
             /\ prover_v'[i].Q = i /\ prover_v'[i].com = i + 1
             /\ prover_v'[i].sig = [key |-> i, hash |-> T2_hash]
             /\ verifier_v'[i].Q = i /\ verifier_v'[i].com = i + 1
  <2> DEFINE a == prover_v[i]
             b == verifier_v[i]
             sig == [key |-> a.Q, hash |-> T2_hash]
  <2>1. a \in SellerCopy /\ b \in BuyerCopy /\ a.Q = i /\ b.Q = i
    BY <1>2, <1>3
  <2>2. /\ prover_v'[i] = [a EXCEPT !.sig = sig, !.com = i + 1]
        /\ verifier_v'[i] = [b EXCEPT !.com = i + 1]
    BY <1>1
  <2>3. i + 1 \in 0..T
    BY <1>a, Constants DEF Instances
  <2> HIDE DEF a, b
  <2>4. sig = [key |-> i, hash |-> T2_hash]
    BY <2>1
  <2>5. sig \in Sigs
    <3>1. i \in Keys /\ T2_hash \in Hashes
      BY <1>a, Constants DEF TypeOK
    <3>2. QED
      BY <2>4, <3>1 DEF Sigs
  <2> HIDE DEF sig
  <2>6. QED
    BY <2>1, <2>2, <2>3, <2>4, <2>5 DEF SellerCopy, BuyerCopy
<1>5. /\ prover_v' \in [Instances -> SellerCopy] /\ verifier_v' \in [Instances -> BuyerCopy]
  BY <1>1, <1>4
<1>6. revealed' \subseteq {0}
  <2>1. \A i \in Instances : prover_v[i].commiter = 0
    BY <1>2 DEF SellerCopy
  <2>2. QED
    BY <1>1, <2>1
<1>7. Scripts' = Scripts /\ Hashes' = Hashes /\ Sigs' = Sigs
  BY <1>1 DEF Scripts, Hashes, Sigs, terms
<1>8. TypeOK'
  BY <1>1, <1>5, <1>6, <1>7, <1>a DEF TypeOK, terms, txs, outcome, SellerCopy, BuyerCopy
<1>9. CASE pc' = "keep"
  <2>1. pc' \in FromCut /\ pc' \in FromKeep
    BY <1>9 DEF FromCut, FromKeep
  <2>2. Agreed' /\ Picked' /\ SentT1' /\ BuiltT2'
    <3>1. /\ single_buyers' \in [1..R -> BuyerCopy]
          /\ \A k \in 1..R : single_buyers'[k].Q = r[k]
      BY <1>1, <1>a DEF SInv, Picked
    <3>2. QED
      BY <1>1, <1>a, <2>1, <3>1, BuiltStays
  <2>3. SharedKeys'
    BY <1>4 DEF SharedKeys
  <2>4. CutDone'
    BY <1>1, <1>4 DEF CutDone, txs
  <2>5. /\ pc' \notin FromVerify /\ pc' \notin FromAccept
        /\ pc' # "verifyT2Signature" /\ pc' # "taught"
    BY <1>9 DEF FromVerify, FromAccept, Settling
  <2>6. KeptCopies' /\ SignedT2' /\ Taught'
    BY <2>5 DEF KeptCopies, SignedT2, Taught
  <2>7. QED
    BY <1>8, <2>2, <2>3, <2>4, <2>6 DEF SInv
<1>10. QED
  BY <1>1, <1>8, <1>9, ThrownStep

LEMMA keepStep == SInv /\ keep => SInv'
<1> SUFFICES ASSUME SInv, keep PROVE SInv'
  OBVIOUS
<1>1. /\ pc = "keep" /\ pc' = "verifyT2Signature"
      /\ single_sellers' = [k \in 1..R |-> prover_v[r[k]]]
      /\ single_buyers' = [k \in 1..R |-> verifier_v[r[k]]]
      /\ s_T2' = T2
      /\ UNCHANGED <<terms, prover_v, verifier_v, r, revealed, txs, outcome>>
  BY DEF keep, Continue
<1>a. /\ TypeOK /\ pc \in FromPick /\ pc \in FromSend /\ pc \in FromCut /\ pc \in FromKeep
      /\ pc' \in FromCut /\ pc' \in FromKeep
  BY <1>1 DEF SInv, FromPick, FromSend, FromT2, FromCut, FromKeep, FromVerify
<1>2. prover_v \in [Instances -> SellerCopy] /\ verifier_v \in [Instances -> BuyerCopy]
  BY <1>a DEF TypeOK, SellerCopy, BuyerCopy
<1>3. r \in [1..R -> Instances] /\ R \in Nat
  BY <1>a, Constants DEF SInv, Picked
<1>4. \A i \in Instances : prover_v[i].Q = i /\ verifier_v[i].Q = i
  BY <1>a DEF SInv, SharedKeys
<1>5. /\ single_sellers' \in [1..R -> SellerCopy] /\ single_buyers' \in [1..R -> BuyerCopy]
      /\ \A k \in 1..R : /\ single_sellers'[k] = prover_v[r[k]]
                         /\ single_buyers'[k] = verifier_v[r[k]]
                         /\ single_buyers'[k].Q = r[k]
  BY <1>1, <1>2, <1>3, <1>4
<1>6. Len(single_sellers') = R /\ Len(single_buyers') = R
  BY <1>3, <1>5, FunctionIsSeq
<1>7. /\ Scripts' = Scripts /\ Hashes' = Hashes /\ Sigs' = Sigs
      /\ SellerCopy' = SellerCopy /\ R' = R
  BY <1>1 DEF Scripts, Hashes, Sigs, terms, SellerCopy
<1>8. TypeOK'
  BY <1>1, <1>6, <1>7, <1>a DEF TypeOK, terms, txs, outcome
<1>9. Agreed' /\ Picked' /\ SentT1' /\ BuiltT2'
  BY <1>1, <1>5, <1>a, BuiltStays
<1>10. SharedKeys' /\ CutDone'
  BY <1>1, <1>a DEF SInv, SharedKeys, CutDone, txs
<1>11. T2.hash = T2_hash
  BY <1>a DEF SInv, BuiltT2
<1>12. KeptCopies'
  BY <1>1, <1>5, <1>7, <1>11 DEF KeptCopies, txs
<1>13. pc' \notin FromAccept /\ pc' # "taught"
  BY <1>1 DEF FromAccept, Settling
<1>14. SignedT2' /\ Taught'
  BY <1>1, <1>13 DEF SignedT2, Taught, txs
<1>15. QED
  BY <1>8, <1>9, <1>10, <1>12, <1>14 DEF SInv

\* After the copies are kept only s_T2, signatures and refund change.
LEMMA KeptStays ==
  ASSUME SInv, pc \in FromVerify, pc' \in FromVerify, UNCHANGED <<terms, offchain, txs>>,
         s_T2'.hash = T2_hash
  PROVE  Agreed' /\ SharedKeys' /\ Picked' /\ SentT1' /\ BuiltT2' /\ CutDone' /\ KeptCopies'
<1>1. /\ pc \in FromPick /\ pc \in FromSend /\ pc \in FromCut /\ pc \in FromKeep
      /\ pc' \in FromCut
  BY DEF FromPick, FromSend, FromT2, FromCut, FromKeep
<1>2. /\ single_buyers' \in [1..R -> BuyerCopy] /\ UNCHANGED <<terms, txs, r>>
      /\ \A k \in 1..R : single_buyers'[k].Q = r[k]
  BY <1>1 DEF SInv, Picked, offchain
<1>3. Agreed' /\ Picked' /\ SentT1' /\ BuiltT2'
  BY <1>1, <1>2, BuiltStays
<1>4. SharedKeys' /\ CutDone'
  BY <1>1 DEF SInv, SharedKeys, CutDone, offchain, txs
<1>5. SellerCopy' = SellerCopy
  BY DEF SellerCopy, Sigs, Hashes, Scripts, terms
<1>6. KeptCopies'
  BY <1>5 DEF SInv, KeptCopies, offchain, txs, terms
<1>7. QED
  BY <1>3, <1>4, <1>6

\* The signatures of the kept instances: of T2's hash, by the chosen keys.
LEMMA SellerSigsForm ==
  ASSUME SInv, pc \in FromVerify
  PROVE  /\ SellerSigs \in [1..R -> Sigs] /\ SellerSigs \in Seq(Sigs) /\ Len(SellerSigs) = R
         /\ \A k \in 1..R : SellerSigs[k] = [key |-> r[k], hash |-> T2_hash]
<1>1. pc \in FromKeep /\ pc \in FromSend
  BY DEF FromSend, FromT2, FromCut, FromKeep
<1>2. /\ single_sellers \in [1..R -> SellerCopy] /\ r \in [1..R -> Instances]
      /\ \A k \in 1..R : single_sellers[k] = prover_v[r[k]]
      /\ \A i \in Instances : prover_v[i].sig = [key |-> i, hash |-> T2_hash]
  BY <1>1 DEF SInv, KeptCopies, Picked, CutDone
<1>3. \A k \in 1..R : single_sellers[k].sig \in Sigs
  BY <1>2 DEF SellerCopy
<1>4. SellerSigs \in [1..R -> Sigs]
  BY <1>3 DEF SellerSigs
<1>5. R \in Nat
  BY Constants DEF SInv
<1>6. SellerSigs \in Seq(Sigs) /\ Len(SellerSigs) = R
  BY <1>4, <1>5, FunctionIsSeq
<1>7. \A k \in 1..R : SellerSigs[k] = [key |-> r[k], hash |-> T2_hash]
  BY <1>2 DEF SellerSigs
<1>8. QED
  BY <1>4, <1>6, <1>7

LEMMA verifyT2SignatureStep == SInv /\ verifyT2Signature => SInv'
<1> SUFFICES ASSUME SInv, verifyT2Signature PROVE SInv'
  OBVIOUS
<1> DEFINE tx == getSignedTransaction(s_T2, SellerSigs)
<1>1. pc = "verifyT2Signature" /\ UNCHANGED <<terms, offchain, txs, outcome>>
  BY DEF verifyT2Signature
<1>2. \/ pc' = "thrown" /\ s_T2' = s_T2
      \/ pc' = "accept_T1" /\ s_T2' = tx /\ tx # NoTx
  BY DEF verifyT2Signature, Throw, Continue, SellerSigs
<1>a. TypeOK /\ pc \in FromVerify /\ pc \in FromCut
  BY <1>1 DEF SInv, FromVerify, FromCut, FromKeep
<1>b. Scripts' = Scripts /\ Hashes' = Hashes /\ Sigs' = Sigs
  BY <1>1 DEF Scripts, Hashes, Sigs, terms
<1>3. CASE pc' = "thrown" /\ s_T2' = s_T2
  <2>1. TypeOK'
    BY <1>1, <1>3, <1>a, <1>b DEF TypeOK, terms, offchain, txs, outcome
  <2>2. QED
    BY <1>3, <2>1, ThrownStep
<1>4. CASE pc' = "accept_T1" /\ s_T2' = tx /\ tx # NoTx
  <2>1. tx = [s_T2 EXCEPT !.sigs = SellerSigs]
    BY <1>4 DEF getSignedTransaction
  <2>2. s_T2 = [hash |-> T2_hash, sigs |-> <<>>]
    BY <1>1, <1>a DEF SInv, SignedT2, BuiltT2
  <2>3. s_T2' = [hash |-> T2_hash, sigs |-> SellerSigs]
    BY <1>4, <2>1, <2>2
  <2>4. SellerSigs \in Seq(Sigs) /\ T2_hash \in Hashes
    BY <1>a, SellerSigsForm DEF TypeOK
  <2>5. s_T2'.hash = T2_hash /\ s_T2'.sigs = SellerSigs
    BY <2>3
  <2> HIDE DEF tx
  <2>6. TypeOK'
    BY <1>1, <1>4, <1>a, <1>b, <2>4, <2>5 DEF TypeOK, terms, offchain, txs, outcome
  <2>7. pc' \in FromVerify /\ pc' # "taught" /\ pc' # "verifyT2Signature"
    BY <1>4 DEF FromVerify, FromAccept
  <2>8. Agreed' /\ SharedKeys' /\ Picked' /\ SentT1' /\ BuiltT2' /\ CutDone' /\ KeptCopies'
    BY <1>1, <1>a, <2>5, <2>7, KeptStays
  <2>9. SignedT2' /\ Taught'
    <3>1. SellerSigs' = SellerSigs /\ T2_hash' = T2_hash
      BY <1>1 DEF SellerSigs, offchain, terms, txs
    <3>2. QED
      BY <2>3, <2>7, <3>1 DEF SignedT2, Taught
  <2>10. QED
    BY <2>6, <2>8, <2>9 DEF SInv
<1>5. QED
  BY <1>2, <1>3, <1>4

LEMMA accept_T1Step == SInv /\ accept_T1 => SInv'
<1> SUFFICES ASSUME SInv, accept_T1 PROVE SInv'
  OBVIOUS
<1>1. /\ pc = "accept_T1" /\ pc' \in {"settle", "thrown"}
      /\ UNCHANGED <<terms, offchain, txs, s_T2, outcome>>
  BY DEF accept_T1, Continue, Throw
<1>a. TypeOK /\ pc \in FromVerify /\ pc \in FromAccept
  BY <1>1 DEF SInv, FromVerify, FromAccept
<1>b. Scripts' = Scripts /\ Hashes' = Hashes /\ Sigs' = Sigs
  BY <1>1 DEF Scripts, Hashes, Sigs, terms
<1>2. TypeOK'
  BY <1>1, <1>a, <1>b DEF TypeOK, terms, offchain, txs, outcome
<1>3. CASE pc' = "settle"
  <2>1. pc' \in FromVerify /\ pc' # "taught" /\ pc' # "verifyT2Signature"
    BY <1>3 DEF FromVerify, FromAccept, Settling
  <2>2. s_T2' = [hash |-> T2_hash, sigs |-> SellerSigs]
    BY <1>1, <1>a DEF SInv, SignedT2
  <2>3. Agreed' /\ SharedKeys' /\ Picked' /\ SentT1' /\ BuiltT2' /\ CutDone' /\ KeptCopies'
    BY <1>1, <1>a, <2>1, <2>2, KeptStays
  <2>4. SignedT2' /\ Taught'
    <3>1. SellerSigs' = SellerSigs /\ T2_hash' = T2_hash
      BY <1>1 DEF SellerSigs, offchain, terms, txs
    <3>2. QED
      BY <2>1, <2>2, <3>1 DEF SignedT2, Taught
  <2>5. QED
    BY <1>2, <2>3, <2>4 DEF SInv
<1>4. QED
  BY <1>1, <1>2, <1>3, ThrownStep

LEMMA getSignaturesStep == SInv /\ getSignatures => SInv'
<1> SUFFICES ASSUME SInv, getSignatures PROVE SInv'
  OBVIOUS
<1>1. /\ pc = "settle" /\ pc' = "taught"
      /\ signatures' = [k \in 1..R |-> InputScript(s_T2)[Chunk(k)]]
      /\ UNCHANGED <<terms, offchain, txs, s_T2, refund>>
  BY DEF getSignatures, Continue
<1>a. TypeOK /\ pc \in FromVerify /\ pc \in FromAccept
  BY <1>1 DEF SInv, FromVerify, FromAccept, Settling
<1>b. Scripts' = Scripts /\ Hashes' = Hashes /\ Sigs' = Sigs
  BY <1>1 DEF Scripts, Hashes, Sigs, terms
<1>2. s_T2 = [hash |-> T2_hash, sigs |-> SellerSigs]
  BY <1>a DEF SInv, SignedT2
<1>3. SellerSigs \in [1..R -> Sigs] /\ SellerSigs \in Seq(Sigs) /\ Len(SellerSigs) = R
  BY <1>a, SellerSigsForm
<1>4. R \in Nat /\ R > 0 /\ NoSig \in Sigs
  <2>1. R \in Rs
    BY <1>a DEF TypeOK
  <2>2. QED
    BY <1>a, <2>1, Constants, NothingYet
<1>5. \A k \in 1..R : InputScript(s_T2)[Chunk(k)] = SellerSigs[k]
  <2> TAKE k \in 1..R
  <2> DEFINE s == SellerSigs
             e == <<NoSig>>
  <2>1. s_T2.sigs = s
    BY <1>2
  <2>2. s \in Seq(Sigs) /\ e \in Seq(Sigs) /\ Len(s) = R /\ Len(e) = 1 /\ e[1] = NoSig
    BY <1>3, <1>4
  <2> HIDE DEF s, e
  <2>3. CASE R = 1
    <3>1. InputScript(s_T2) = s \o e /\ Chunk(k) = k
      BY <2>1, <2>3 DEF InputScript, Chunk, e
    <3>2. (s \o e)[k] = s[k]
      BY <1>4, <2>2, ConcatProperties
    <3>3. QED
      BY <3>1, <3>2 DEF s
  <2>4. CASE R # 1
    <3>1. InputScript(s_T2) = e \o s /\ Chunk(k) = k + 1
      BY <2>1, <2>4 DEF InputScript, Chunk, e
    <3>2. k + 1 \in 1..(Len(e) + Len(s)) /\ ~(k + 1 <= Len(e)) /\ (k + 1) - Len(e) = k
      BY <1>4, <2>2
    <3>3. \A i \in 1..(Len(e) + Len(s)) :
            (e \o s)[i] = IF i <= Len(e) THEN e[i] ELSE s[i - Len(e)]
      BY <2>2, ConcatProperties
    <3>4. (e \o s)[k + 1] = s[(k + 1) - Len(e)]
      BY ONLY <3>2, <3>3
    <3>5. (e \o s)[k + 1] = s[k]
      BY ONLY <3>2, <3>4
    <3>6. QED
      BY <3>1, <3>5 DEF s
  <2>5. QED
    BY <2>3, <2>4
<1>6. signatures' = SellerSigs
  <2>1. signatures' = [k \in 1..R |-> SellerSigs[k]]
    BY <1>1, <1>5
  <2>2. QED
    BY <1>3, <2>1
<1>7. TypeOK'
  BY <1>1, <1>3, <1>6, <1>a, <1>b DEF TypeOK, terms, offchain, txs
<1>8. pc' \in FromVerify /\ pc' # "verifyT2Signature"
  BY <1>1 DEF FromVerify, FromAccept, Settling
<1>9. Agreed' /\ SharedKeys' /\ Picked' /\ SentT1' /\ BuiltT2' /\ CutDone' /\ KeptCopies'
  BY <1>1, <1>2, <1>8, <1>a, KeptStays
<1>10. SignedT2' /\ Taught'
  <2>1. SellerSigs' = SellerSigs /\ T2_hash' = T2_hash
    BY <1>1 DEF SellerSigs, offchain, terms, txs
  <2>2. QED
    BY <1>1, <1>2, <1>6, <1>8, <2>1 DEF SignedT2, Taught
<1>11. QED
  BY <1>7, <1>9, <1>10 DEF SInv

\* What redeemTransaction signs, and with which keys.
LEMMA RedeemForm ==
  ASSUME SInv, pc = "settle", NEW j \in 1..R,
         NEW hash, hash = [value |-> Price - Fee, dst |-> BuyerKey, script |-> original_script]
  PROVE  /\ T1[getOutput(T1, single_buyers[j].Q)] = [value |-> Price, script |-> T1_output_script]
         /\ hash \in Hashes
         /\ RedeemSignatures(j, hash) = [k \in 1..R |-> [key |-> IF k = 1 THEN r[j] ELSE BuyerKey,
                                                         hash |-> hash]]
         /\ RedeemSignatures(j, hash) \in Seq(Sigs)
         /\ R > 1 => original_script.keys[BuyerKeyChunk] = BuyerKey
<1>1. TypeOK /\ pc \in FromSend /\ pc \in FromT2 /\ pc \in FromCut
  BY DEF SInv, FromSend, FromT2, FromCut, FromKeep, FromVerify, FromAccept, Settling
<1>2. /\ T \in Nat /\ R \in Nat /\ R > 0 /\ Half \in Nat /\ Fee \in Nat /\ BuyerKey \in Keys
      /\ Price \in 0..(2 * Half - 1)
      /\ \A i \in Instances : i \in Keys
  BY <1>1, Constants
<1>3. /\ r \in [1..R -> Instances] /\ single_buyers[j].Q = r[j]
      /\ original_script = OriginalScript(r) /\ Fee <= Price
  BY <1>1 DEF SInv, Picked, SentT1, BuiltT2
<1>4. T1[getOutput(T1, single_buyers[j].Q)] = [value |-> Price, script |-> T1_output_script]
  BY <1>1, <1>3, OutputFound
<1>5. original_script.keys = MultiSigKeys(r) /\ original_script \in Scripts
  BY <1>1, <1>3, ScriptForm
<1>6. R > 1 => original_script.keys[BuyerKeyChunk] = BuyerKey
  <2> SUFFICES ASSUME R > 1 PROVE original_script.keys[BuyerKeyChunk] = BuyerKey
    OBVIOUS
  <2>1. 2 * R - 1 \in 1..(2 * R - 1) /\ ~(2 * R - 1 <= R)
    BY <1>2
  <2>2. QED
    BY <1>5, <2>1 DEF MultiSigKeys, BuyerKeyChunk
<1>7. hash \in Hashes
  <2>1. Price - Fee \in -1..(2 * Half)
    BY <1>2, <1>3
  <2>2. QED
    BY <1>2, <1>5, <2>1 DEF Hashes
<1> DEFINE Sig(k) == [key |-> IF k = 1 THEN r[j] ELSE BuyerKey, hash |-> hash]
           sigs == [k \in 1..R |-> Sig(k)]
<1>8. RedeemSignatures(j, hash) = sigs
  <2>1. \A k \in 1..R : k # 1 => R > 1
    BY <1>2
  <2>2. QED
    BY <1>3, <1>6, <2>1 DEF RedeemSignatures
<1>9. sigs \in [1..R -> Sigs]
  <2>1. \A k \in 1..R : Sig(k) \in Sigs
    BY <1>2, <1>3, <1>7 DEF Sigs
  <2> HIDE DEF Sig
  <2>2. QED
    BY <2>1
<1> HIDE DEF sigs
<1>10. sigs \in Seq(Sigs)
  BY <1>2, <1>9, FunctionIsSeq
<1>11. QED
  BY <1>4, <1>6, <1>7, <1>8, <1>10 DEF sigs

LEMMA redeemTransactionStep == SInv /\ redeemTransaction => SInv'
<1> SUFFICES ASSUME SInv, redeemTransaction PROVE SInv'
  OBVIOUS
<1>1. pc = "settle" /\ UNCHANGED <<terms, offchain, txs, s_T2, signatures>>
  BY DEF redeemTransaction
<1> DEFINE out(j) == T1[getOutput(T1, single_buyers[j].Q)]
           hash(j) == [value |-> out(j).value - Fee, dst |-> BuyerKey, script |-> original_script]
<1>2. /\ pc' \in {"refunded", "redeem failed"}
      /\ \/ refund' = refund
         \/ \E j \in 1..R : refund' = [hash |-> hash(j), sigs |-> RedeemSignatures(j, hash(j))]
  BY DEF redeemTransaction, Continue
<1>a. TypeOK /\ pc \in FromVerify /\ pc \in FromAccept
  BY <1>1 DEF SInv, FromVerify, FromAccept, Settling
<1>b. Scripts' = Scripts /\ Hashes' = Hashes /\ Sigs' = Sigs
  BY <1>1 DEF Scripts, Hashes, Sigs, terms
<1>3. refund'.hash \in Hashes /\ refund'.sigs \in Seq(Sigs)
  <2>1. CASE refund' = refund
    BY <1>a, <2>1 DEF TypeOK
  <2>2. CASE \E j \in 1..R : refund' = [hash |-> hash(j), sigs |-> RedeemSignatures(j, hash(j))]
    <3>1. PICK j \in 1..R : refund' = [hash |-> hash(j), sigs |-> RedeemSignatures(j, hash(j))]
      BY <2>2
    <3> DEFINE h == [value |-> Price - Fee, dst |-> BuyerKey, script |-> original_script]
    <3>2. out(j) = [value |-> Price, script |-> T1_output_script]
      BY <1>1, RedeemForm
    <3>3. out(j).value = Price
      BY <3>2
    <3>4. hash(j) = h
      BY <3>3
    <3> HIDE DEF h, hash
    <3>5. h \in Hashes /\ RedeemSignatures(j, h) \in Seq(Sigs)
      BY <1>1, RedeemForm DEF h
    <3>6. QED
      BY <3>1, <3>4, <3>5
  <2>3. QED
    BY <1>2, <2>1, <2>2
<1> HIDE DEF hash, out
<1>4. TypeOK'
  BY <1>1, <1>2, <1>3, <1>a, <1>b DEF TypeOK, terms, offchain, txs
<1>5. s_T2' = [hash |-> T2_hash, sigs |-> SellerSigs]
  BY <1>1, <1>a DEF SInv, SignedT2
<1>6. pc' \in FromVerify /\ pc' # "verifyT2Signature" /\ pc' # "taught"
  BY <1>2 DEF FromVerify, FromAccept, Settling
<1>7. Agreed' /\ SharedKeys' /\ Picked' /\ SentT1' /\ BuiltT2' /\ CutDone' /\ KeptCopies'
  BY <1>1, <1>5, <1>6, <1>a, KeptStays
<1>8. SignedT2' /\ Taught'
  <2>1. SellerSigs' = SellerSigs /\ T2_hash' = T2_hash
    BY <1>1 DEF SellerSigs, offchain, terms, txs
  <2>2. QED
    BY <1>5, <1>6, <2>1 DEF SignedT2, Taught
<1>9. QED
  BY <1>4, <1>7, <1>8 DEF SInv

\* Nothing in the invariant changes when no variable does.
LEMMA StutterStep == SInv /\ UNCHANGED vars => SInv'
<1> SUFFICES ASSUME SInv, UNCHANGED vars PROVE SInv'
  OBVIOUS
<1>1. UNCHANGED <<pc, terms, offchain, txs, s_T2, outcome>>
  BY DEF vars
<1>2. /\ UNCHANGED <<pc, R, seller_terms, buyer_terms, s_T2, signatures, refund>>
      /\ UNCHANGED <<prover_v, verifier_v, r, single_sellers, single_buyers, revealed>>
      /\ UNCHANGED <<T1, T1_output_script, original_script, T2, T2_hash>>
  BY <1>1 DEF terms, offchain, txs, outcome
<1>3. Scripts' = Scripts /\ Hashes' = Hashes /\ Sigs' = Sigs
  BY <1>2 DEF Scripts, Hashes, Sigs
<1>4. SellerCopy' = SellerCopy /\ Price' = Price /\ AgreedTx' = AgreedTx /\ SellerSigs' = SellerSigs
  BY <1>2, <1>3 DEF SellerCopy, Price, AgreedTx, SellerSigs
<1>5. TypeOK'
  BY <1>2, <1>3 DEF SInv, TypeOK
<1>6. Agreed' /\ SharedKeys' /\ CutDone' /\ Taught'
  BY <1>2, <1>4 DEF SInv, Agreed, SharedKeys, CutDone, Taught
<1>7. Picked'
  BY <1>2 DEF SInv, Picked
<1>8. BuiltT2' /\ SignedT2'
  BY <1>2, <1>4 DEF SInv, BuiltT2, SignedT2
<1>9. KeptCopies'
  BY <1>2, <1>4 DEF SInv, KeptCopies
<1>10. SentT1'
  BY <1>2, <1>4 DEF SInv, SentT1, OriginalScript, MultiSigKeys, P2SH, PaymentOutputs
<1>11. QED
  BY <1>5, <1>6, <1>7, <1>8, <1>9, <1>10 DEF SInv

-----------------------------------------------------------------------------
(* The theorems.                                                           *)

\* The invariant holds in every run of exec: whichever terms the parties came
\* with, and whichever step throws.
THEOREM Invariance == Spec => []SInv
<1>1. SInv /\ [Next]_vars => SInv'
  BY initStep, shareStep, pickRStep, createSendStep, createT2Step, cut_and_chooseStep, keepStep,
     verifyT2SignatureStep, accept_T1Step, getSignaturesStep, redeemTransactionStep, StutterStep
     DEF Next
<1>2. QED
  BY <1>1, SInvInit, PTL DEF Spec

\* Every variable of exec keeps its type: the R kept copies, the outputs, the
\* scripts and the signatures that the servers hand back.
THEOREM TypeCorrect == Spec => []TypeOK
<1>1. SInv => TypeOK
  BY DEF SInv
<1>2. QED
  BY <1>1, Invariance, PTL

\* The copies with which the parties go on after the second cut and choose are
\* those of the same instances, with the commitments it left.
THEOREM KeptFresh == Spec => []KeptAreFresh
<1>1. SInv => KeptAreFresh
  <2> SUFFICES ASSUME SInv, pc \in AfterKeep, NEW k \in 1..R
               PROVE  /\ single_buyers[k].com = single_sellers[k].com
                      /\ single_sellers[k].com = r[k] + 1
                      /\ single_buyers[k].Q = single_sellers[k].Q
    BY DEF KeptAreFresh
  <2>1. pc \in FromVerify /\ pc \in FromKeep /\ pc \in FromSend /\ pc \in FromPick
    BY DEF AfterKeep, FromPick, FromSend, FromT2, FromCut, FromKeep, FromVerify, FromAccept, Settling
  <2>2. r[k] \in Instances
    BY <2>1 DEF SInv, Picked
  <2>3. single_sellers[k] = prover_v[r[k]] /\ single_buyers[k] = verifier_v[r[k]]
    BY <2>1 DEF SInv, KeptCopies
  <2>4. QED
    BY <2>1, <2>2, <2>3 DEF SInv, CutDone, SharedKeys
<1>2. QED
  BY <1>1, Invariance, PTL

\* The price that was agreed is the value of an output of T1, and T2 carries it
\* less the fee to the seller.
THEOREM AmountsAgree == Spec => []AmountsAddUp
<1>1. SInv => AmountsAddUp
  <2> SUFFICES ASSUME SInv, pc \in AfterKeep
               PROVE  /\ \E k \in DOMAIN T1 :
                           T1[k] = [value |-> buyer_terms.price, script |-> T1_output_script]
                      /\ T2.hash = [value |-> buyer_terms.price - Fee, dst |-> SellerAddress,
                                    script |-> original_script]
                      /\ s_T2.hash = T2.hash
    BY DEF AmountsAddUp
  <2> DEFINE pay == [value |-> Price, script |-> T1_output_script]
             change == [value |-> Funds - Price, script |-> P2PKH(ChangeKey)]
  <2>1. pc \in FromVerify /\ pc \in FromT2 /\ pc \in FromCut
    BY DEF AfterKeep, FromT2, FromCut, FromKeep, FromVerify, FromAccept, Settling
  <2>2. T1 = <<pay>> \/ T1 = <<pay, change>> \/ T1 = <<change, pay>>
    BY <2>1 DEF SInv, SentT1, PaymentOutputs
  <2> HIDE DEF pay, change
  <2>3. \E k \in DOMAIN T1 : T1[k] = pay
    <3>1. CASE T1 = <<pay>>
      BY <3>1
    <3>2. CASE T1 = <<pay, change>>
      BY <3>2
    <3>3. CASE T1 = <<change, pay>>
      BY <3>3
    <3>4. QED
      BY <2>2, <3>1, <3>2, <3>3
  <2>4. T2.hash = AgreedTx /\ s_T2.hash = T2.hash
    BY <2>1 DEF SInv, BuiltT2, KeptCopies
  <2>5. QED
    BY <2>3, <2>4 DEF AgreedTx, Price, pay
<1>2. QED
  BY <1>1, Invariance, PTL

\* getSignatures reads from T2's input the signatures of the kept instances, each
\* in its place, for one kept instance as for many.
THEOREM ChainTeaches == Spec => []ChainTeachesSignatures
<1>1. SInv => ChainTeachesSignatures
  BY DEF SInv, Taught, SellerSigs, ChainTeachesSignatures
<1>2. QED
  BY <1>1, Invariance, PTL

-----------------------------------------------------------------------------
(* Who can spend the output of T1.                                         *)

\* The places of the script's keys that R signatures may be matched with.
KeyChoices == {f \in [1..R -> 1..(2 * R - 1)] : \A a, b \in 1..R : a < b => f[a] < f[b]}

LEMMA OutputScriptForm ==
  ASSUME SInv, pc \in FromT2
  PROVE  /\ r \in [1..R -> Instances]
         /\ T1_output_script.m = R /\ T1_output_script.keys = MultiSigKeys(r)
         /\ DOMAIN MultiSigKeys(r) = 1..(2 * R - 1)
<1>1. TypeOK /\ r \in [1..R -> Instances] /\ T1_output_script = P2SH(OriginalScript(r))
  BY DEF SInv, Picked, SentT1, FromSend
<1>2. QED
  BY <1>1, ScriptForm DEF MultiSigKeys

\* The places of the chosen keys are the first R, those of the buyer's the rest.
LEMMA KeyPlaces ==
  ASSUME SInv, pc \in FromT2
  PROVE  /\ \A k \in 1..R : k \in 1..(2 * R - 1) /\ MultiSigKeys(r)[k] = r[k]
         /\ \A k \in 1..(2 * R - 1) : k > R => MultiSigKeys(r)[k] = BuyerKey
<1>1. R \in Nat /\ R > 0
  BY Constants DEF SInv
<1>2. QED
  BY <1>1 DEF MultiSigKeys

\* A set of keys can spend T1 if R places of the script hold keys of the set.
LEMMA WhoCanSpend ==
  ASSUME SInv, pc \in FromT2, NEW K
  PROVE  CanSpend(K) <=> \E f \in KeyChoices : \A a \in 1..R : MultiSigKeys(r)[f[a]] \in K
<1> DEFINE keys == MultiSigKeys(r)
           hash == T2_hash
<1>1. /\ T1_output_script.m = R /\ T1_output_script.keys = keys
      /\ DOMAIN keys = 1..(2 * R - 1) /\ R \in Nat
  BY OutputScriptForm, Constants DEF SInv
<1> HIDE DEF keys, hash
<1>2. ASSUME NEW sigs
      PROVE  Spends(T1_output_script, hash, sigs) <=>
               /\ Len(sigs) = R
               /\ \E f \in KeyChoices :
                    \A a \in 1..R : sigs[a] = [key |-> keys[f[a]], hash |-> hash]
  BY <1>1 DEF Spends, KeyChoices
<1>3. ASSUME CanSpend(K)
      PROVE  \E f \in KeyChoices : \A a \in 1..R : keys[f[a]] \in K
  <2>1. PICK sigs \in [1..R -> [key : K, hash : {hash}]] : Spends(T1_output_script, hash, sigs)
    BY <1>1, <1>3 DEF CanSpend, hash
  <2>2. PICK f \in KeyChoices : \A a \in 1..R : sigs[a] = [key |-> keys[f[a]], hash |-> hash]
    BY <1>2, <2>1
  <2>3. ASSUME NEW a \in 1..R PROVE keys[f[a]] \in K
    <3>1. sigs[a].key \in K
      BY <2>1
    <3>2. QED
      BY <2>2, <3>1
  <2>4. QED
    BY <2>3
<1>4. ASSUME NEW f \in KeyChoices, \A a \in 1..R : keys[f[a]] \in K
      PROVE  CanSpend(K)
  <2> DEFINE sigs == [a \in 1..R |-> [key |-> keys[f[a]], hash |-> hash]]
  <2>1. sigs \in [1..R -> [key : K, hash : {hash}]]
    BY <1>4
  <2>2. \A a \in 1..R : sigs[a] = [key |-> keys[f[a]], hash |-> hash]
    OBVIOUS
  <2> HIDE DEF sigs
  <2>3. Len(sigs) = R
    BY <1>1, <2>1, FunctionIsSeq
  <2>4. Spends(T1_output_script, hash, sigs)
    BY <1>2, <2>2, <2>3
  <2>5. QED
    BY <1>1, <2>1, <2>4 DEF CanSpend, hash
<1>5. QED
  BY <1>3, <1>4 DEF keys

\* The choice of places with which the key of lock j redeems: its own, and then
\* every place of the buyer's key.
RedeemChoice(j) == [a \in 1..R |-> IF a = 1 THEN j ELSE R + a - 1]

LEMMA RedeemChoiceWorks ==
  ASSUME SInv, pc \in FromT2, NEW j \in 1..R
  PROVE  /\ RedeemChoice(j) \in KeyChoices
         /\ \A a \in 1..R : MultiSigKeys(r)[RedeemChoice(j)[a]] = IF a = 1 THEN r[j] ELSE BuyerKey
<1>1. R \in Nat /\ R > 0
  BY Constants DEF SInv
<1>2. RedeemChoice(j) \in [1..R -> 1..(2 * R - 1)]
  BY <1>1 DEF RedeemChoice
<1>3. \A a, b \in 1..R : a < b => RedeemChoice(j)[a] < RedeemChoice(j)[b]
  BY <1>1 DEF RedeemChoice
<1>4. ASSUME NEW a \in 1..R
      PROVE  MultiSigKeys(r)[RedeemChoice(j)[a]] = IF a = 1 THEN r[j] ELSE BuyerKey
  <2>1. CASE a = 1
    BY <2>1, KeyPlaces DEF RedeemChoice
  <2>2. CASE a # 1
    <3>1. RedeemChoice(j)[a] = R + a - 1
      BY <2>2 DEF RedeemChoice
    <3>2. R + a - 1 \in 1..(2 * R - 1) /\ R + a - 1 > R
      BY <1>1, <2>2
    <3>3. QED
      BY <2>2, <3>1, <3>2, KeyPlaces
  <2>3. QED
    BY <2>1, <2>2
<1>5. QED
  BY <1>2, <1>3, <1>4 DEF KeyChoices

\* The choice of the places of the chosen keys.
SellerChoice == [a \in 1..R |-> a]

LEMMA SellerChoiceWorks ==
  ASSUME SInv, pc \in FromT2
  PROVE  /\ SellerChoice \in KeyChoices
         /\ \A a \in 1..R : MultiSigKeys(r)[SellerChoice[a]] = r[a]
<1>1. R \in Nat /\ R > 0
  BY Constants DEF SInv
<1>2. QED
  BY <1>1, KeyPlaces DEF SellerChoice, KeyChoices

\* A choice takes R different places: a set that holds them all has R elements.
LEMMA ChoiceNeedsPlaces ==
  ASSUME R \in Nat, NEW f \in KeyChoices, NEW D, IsFiniteSet(D), \A a \in 1..R : f[a] \in D
  PROVE  R <= Cardinality(D)
<1>1. f \in [1..R -> D]
  BY DEF KeyChoices
<1>2. \A a, b \in 1..R : f[a] = f[b] => a = b
  <2> SUFFICES ASSUME NEW a \in 1..R, NEW b \in 1..R, f[a] = f[b], a # b PROVE FALSE
    OBVIOUS
  <2>1. f[a] \in Int /\ f[b] \in Int
    BY DEF KeyChoices
  <2>2. a < b \/ b < a
    OBVIOUS
  <2>3. QED
    BY <2>1, <2>2 DEF KeyChoices
<1>3. f \in Injection(1..R, D)
  BY <1>1, <1>2 DEF Injection, IsInjective
<1>4. Cardinality(1..R) <= Cardinality(D)
  BY <1>3, FS_Injection
<1>5. Cardinality(1..R) = R
  <2>1. 1 \in Int /\ R \in Int
    OBVIOUS
  <2>2. Cardinality(1..R) = IF 1 > R THEN 0 ELSE R - 1 + 1
    BY <2>1, FS_Interval
  <2>3. QED
    BY <2>2
<1>6. QED
  BY <1>4, <1>5

\* Who can spend T1: with the buyer's key, whoever has the shared key of one kept
\* instance and nobody without; and without her key only all R shared keys.
THEOREM Threshold == Spec => []SpendingThreshold
<1>1. SInv => SpendingThreshold
  <2> SUFFICES ASSUME SInv, pc \in AfterKeep, NEW S \in SUBSET ToSet(r)
               PROVE  /\ CanSpend(S \cup {BuyerKey}) <=> S # {}
                      /\ CanSpend(S) <=> S = ToSet(r)
    BY DEF SpendingThreshold
  <2>1. pc \in FromT2
    BY DEF AfterKeep, FromT2, FromCut, FromKeep, FromVerify, FromAccept, Settling
  <2>2. /\ R \in Nat /\ R > 0 /\ r \in [1..R -> Instances]
        /\ \A k \in 1..R : r[k] # BuyerKey
    BY <2>1, Constants, OutputScriptForm DEF SInv
  <2>3. ToSet(r) = {r[k] : k \in 1..R}
    BY <2>2 DEF ToSet
  <2>4. ASSUME NEW f \in KeyChoices, NEW a \in 1..R
        PROVE  /\ f[a] \in 1..(2 * R - 1)
               /\ f[a] <= R => MultiSigKeys(r)[f[a]] = r[f[a]]
               /\ f[a] > R => MultiSigKeys(r)[f[a]] = BuyerKey
    <3>1. f[a] \in 1..(2 * R - 1)
      BY DEF KeyChoices
    <3>2. f[a] <= R => f[a] \in 1..R
      BY <2>2, <3>1
    <3>3. QED
      BY <2>1, <3>1, <3>2, KeyPlaces
  <2>5. ASSUME S # {} PROVE CanSpend(S \cup {BuyerKey})
    <3>1. PICK j \in 1..R : r[j] \in S
      BY <2>3, <2>5
    <3>2. \A a \in 1..R : MultiSigKeys(r)[RedeemChoice(j)[a]] \in S \cup {BuyerKey}
      BY <2>1, <3>1, RedeemChoiceWorks
    <3>3. QED
      BY <2>1, <3>2, RedeemChoiceWorks, WhoCanSpend
  <2>6. ASSUME S = {}, CanSpend(S \cup {BuyerKey}) PROVE FALSE
    <3>1. PICK f \in KeyChoices : \A a \in 1..R : MultiSigKeys(r)[f[a]] \in {BuyerKey}
      BY <2>1, <2>6, WhoCanSpend
    <3>2. ASSUME NEW a \in 1..R PROVE f[a] \in (R + 1)..(2 * R - 1)
      <4>1. f[a] \in 1..(2 * R - 1) /\ (f[a] <= R => MultiSigKeys(r)[f[a]] = r[f[a]])
        BY <2>4
      <4>2. MultiSigKeys(r)[f[a]] = BuyerKey
        BY <3>1
      <4>3. ~(f[a] <= R)
        <5>1. f[a] <= R => f[a] \in 1..R
          BY <2>2, <4>1
        <5>2. QED
          BY <2>2, <4>1, <4>2, <5>1
      <4>4. QED
        BY <2>2, <4>1, <4>3
    <3>3. /\ IsFiniteSet((R + 1)..(2 * R - 1))
          /\ Cardinality((R + 1)..(2 * R - 1)) < R
      <4> DEFINE lo == R + 1
                 hi == 2 * R - 1
      <4>1. lo \in Int /\ hi \in Int /\ hi - lo + 1 < R
        BY <2>2
      <4> HIDE DEF lo, hi
      <4>2. IsFiniteSet(lo..hi) /\ Cardinality(lo..hi) = IF lo > hi THEN 0 ELSE hi - lo + 1
        BY <4>1, FS_Interval
      <4>3. Cardinality(lo..hi) < R
        BY <2>2, <4>1, <4>2
      <4>4. QED
        BY <4>2, <4>3 DEF lo, hi
    <3>4. R <= Cardinality((R + 1)..(2 * R - 1))
      BY <2>2, <3>2, <3>3, ChoiceNeedsPlaces
    <3>5. Cardinality((R + 1)..(2 * R - 1)) \in Nat
      BY <3>3, FS_CardinalityType
    <3>6. QED
      BY <2>2, <3>3, <3>4, <3>5
  <2>7. ASSUME S = ToSet(r) PROVE CanSpend(S)
    <3>1. \A a \in 1..R : MultiSigKeys(r)[SellerChoice[a]] \in S
      BY <2>1, <2>3, <2>7, SellerChoiceWorks
    <3>2. QED
      BY <2>1, <3>1, SellerChoiceWorks, WhoCanSpend
  <2>8. ASSUME CanSpend(S) PROVE S = ToSet(r)
    <3>1. PICK f \in KeyChoices : \A a \in 1..R : MultiSigKeys(r)[f[a]] \in S
      BY <2>1, <2>8, WhoCanSpend
    <3> DEFINE D == {k \in 1..R : r[k] \in S}
    <3>2. ASSUME NEW a \in 1..R PROVE f[a] \in D
      <4>1. MultiSigKeys(r)[f[a]] \in S /\ BuyerKey \notin S
        BY <2>2, <2>3, <3>1
      <4>2. /\ f[a] \in 1..(2 * R - 1)
            /\ f[a] <= R => MultiSigKeys(r)[f[a]] = r[f[a]]
            /\ f[a] > R => MultiSigKeys(r)[f[a]] = BuyerKey
        BY <2>4
      <4>3. f[a] \in 1..R
        BY <2>2, <4>1, <4>2
      <4>4. QED
        BY <4>1, <4>2, <4>3
    <3>3. IsFiniteSet(1..R) /\ Cardinality(1..R) = R
      <4>1. 1 \in Int /\ R \in Int /\ ~(1 > R)
        BY <2>2
      <4>2. IsFiniteSet(1..R) /\ Cardinality(1..R) = IF 1 > R THEN 0 ELSE R - 1 + 1
        BY <4>1, FS_Interval
      <4>3. QED
        BY <2>2, <4>2
    <3>4. D \in SUBSET (1..R)
      OBVIOUS
    <3> HIDE DEF D
    <3>5. /\ IsFiniteSet(D) /\ Cardinality(D) <= R
          /\ R = Cardinality(D) => 1..R = D
      BY <3>3, <3>4, FS_Subset
    <3>6. R <= Cardinality(D)
      BY <2>2, <3>2, <3>5, ChoiceNeedsPlaces
    <3>7. Cardinality(D) \in Nat
      BY <3>5, FS_CardinalityType
    <3>8. 1..R = D
      BY <2>2, <3>5, <3>6, <3>7
    <3>9. QED
      BY <2>3, <3>8 DEF D
  <2>9. QED
    BY <2>5, <2>6, <2>7, <2>8
<1>2. QED
  BY <1>1, Invariance, PTL

-----------------------------------------------------------------------------
(* After the audit.                                                        *)

\* T2 with the seller's signatures satisfies the script of T1.
LEMMA SellerSigsSpend ==
  ASSUME SInv, pc \in FromVerify
  PROVE  Spends(T1_output_script, T2_hash, SellerSigs)
<1>1. pc \in FromT2 /\ pc \in FromKeep
  BY DEF FromT2, FromCut, FromKeep
<1>2. /\ T1_output_script.m = R /\ T1_output_script.keys = MultiSigKeys(r)
      /\ DOMAIN MultiSigKeys(r) = 1..(2 * R - 1) /\ r \in [1..R -> Instances]
  BY <1>1, OutputScriptForm
<1>3. Len(SellerSigs) = R
  BY SellerSigsForm
<1>4. ASSUME NEW a \in 1..R
      PROVE  SellerSigs[a] = [key |-> MultiSigKeys(r)[SellerChoice[a]], hash |-> T2_hash]
  <2>1. SellerSigs[a] = prover_v[r[a]].sig
    BY DEF SInv, KeptCopies, SellerSigs
  <2>2. prover_v[r[a]].sig = [key |-> r[a], hash |-> T2_hash]
    BY <1>1, <1>2 DEF SInv, CutDone
  <2>3. QED
    BY <1>1, <2>1, <2>2, SellerChoiceWorks
<1>5. SellerChoice \in KeyChoices
  BY <1>1, SellerChoiceWorks
<1>6. QED
  BY <1>2, <1>3, <1>4, <1>5 DEF Spends, KeyChoices

\* verifyTransaction finds the payment, not the change, and the agreed price.
LEMMA PaymentVerified ==
  ASSUME SInv, pc \in FromT2
  PROVE  verifyTransaction(T1, seller_terms.price)
<1> DEFINE pay == [value |-> Price, script |-> T1_output_script]
           change == [value |-> Funds - Price, script |-> P2PKH(ChangeKey)]
           matches(o) == o.script = T1_output_script
           I == {i \in 1..Len(T1) : matches(T1[i])}
<1>1. /\ T1 = <<pay>> \/ T1 = <<pay, change>> \/ T1 = <<change, pay>>
      /\ Price < Half
  BY DEF SInv, SentT1, PaymentOutputs
<1>2. matches(pay)
  OBVIOUS
<1>3. ~matches(change)
  <2>1. TypeOK /\ r \in [1..R -> Instances] /\ T1_output_script = P2SH(OriginalScript(r))
    BY DEF SInv, Picked, SentT1, FromSend
  <2>2. R = 1 => T1_output_script = P2PKH(r[1]) /\ r[1] # ChangeKey
    <3>1. R = 1 => 1 \in 1..R
      OBVIOUS
    <3>2. QED
      BY <2>1, <3>1, ScriptForm, Constants
  <2>3. R # 1 => T1_output_script.type = "p2sh"
    BY <2>1, ScriptForm
  <2>4. \A k : P2PKH(k).keys[1] = k /\ P2PKH(k).type = "p2pkh"
    BY DEF P2PKH
  <2>5. QED
    BY <2>2, <2>3, <2>4
<1>4. SelectInSeq(T1, LAMBDA out : out.script = T1_output_script) = IF I # {} THEN Min(I) ELSE 0
  BY DEF SelectInSeq
<1>5. pay.value = Price
  OBVIOUS
<1> HIDE DEF pay, change, matches
<1>6. PICK p \in 1..2 : I = {p} /\ T1[p] = pay
  <2>1. CASE T1 = <<pay>>
    <3>1. 1..Len(T1) = {1} /\ T1[1] = pay
      BY <2>1
    <3>2. I = {1}
      BY <1>2, <3>1
    <3>3. QED
      BY <3>1, <3>2
  <2>2. CASE T1 = <<pay, change>>
    <3>1. 1..Len(T1) = {1, 2} /\ T1[1] = pay /\ T1[2] = change
      BY <2>2
    <3>2. I = {1}
      BY <1>2, <1>3, <3>1
    <3>3. QED
      BY <3>1, <3>2
  <2>3. CASE T1 = <<change, pay>>
    <3>1. 1..Len(T1) = {1, 2} /\ T1[1] = change /\ T1[2] = pay
      BY <2>3
    <3>2. I = {2}
      BY <1>2, <1>3, <3>1
    <3>3. QED
      BY <3>1, <3>2
  <2>4. QED
    BY <1>1, <2>1, <2>2, <2>3
<1> HIDE DEF I
<1>7. Min(I) = p
  BY <1>6 DEF Min
<1>8. SelectInSeq(T1, LAMBDA out : out.script = T1_output_script) = p
  BY <1>4, <1>6, <1>7
<1>9. seller_terms.price = Price
  BY DEF SInv, Agreed, Price, FromPick, FromSend
<1>10. ToI32(Price) = Price
  <2>1. Price \in Int /\ Half \in Int
    BY Constants DEF SInv
  <2>2. QED
    BY <1>1, <2>1 DEF ToI32
<1>11. QED
  BY <1>5, <1>6, <1>8, <1>9, <1>10 DEF verifyTransaction

\* With the key of any one lock, what redeemTransaction builds spends T1.
LEMMA RedeemSpends ==
  ASSUME SInv, pc = "settle", NEW j \in 1..R,
         NEW hash, hash = [value |-> Price - Fee, dst |-> BuyerKey, script |-> original_script]
  PROVE  Spends(T1_output_script, hash, RedeemSignatures(j, hash))
<1>1. pc \in FromT2
  BY DEF FromT2, FromCut, FromKeep, FromVerify, FromAccept, Settling
<1>2. /\ T1_output_script.m = R /\ T1_output_script.keys = MultiSigKeys(r)
      /\ DOMAIN MultiSigKeys(r) = 1..(2 * R - 1) /\ r \in [1..R -> Instances]
  BY <1>1, OutputScriptForm
<1> DEFINE sigs == RedeemSignatures(j, hash)
<1> HIDE DEF sigs
<1>3. sigs = [k \in 1..R |-> [key |-> IF k = 1 THEN r[j] ELSE BuyerKey, hash |-> hash]]
  <2> DEFINE h == [value |-> Price - Fee, dst |-> BuyerKey, script |-> original_script]
  <2>1. RedeemSignatures(j, h) =
          [k \in 1..R |-> [key |-> IF k = 1 THEN r[j] ELSE BuyerKey, hash |-> h]]
    BY RedeemForm
  <2> HIDE DEF h
  <2>2. hash = h
    BY DEF h
  <2>3. QED
    BY <2>1, <2>2 DEF sigs
<1>4. Len(sigs) = R
  <2>1. R \in Nat
    BY Constants DEF SInv
  <2>2. sigs \in [1..R -> {sigs[k] : k \in 1..R}]
    BY <1>3
  <2>3. QED
    BY <2>1, <2>2, FunctionIsSeq
<1>5. ASSUME NEW a \in 1..R
      PROVE  sigs[a] = [key |-> MultiSigKeys(r)[RedeemChoice(j)[a]], hash |-> hash]
  BY <1>1, <1>3, RedeemChoiceWorks
<1>6. RedeemChoice(j) \in KeyChoices
  BY <1>1, RedeemChoiceWorks
<1>7. QED
  BY <1>2, <1>4, <1>5, <1>6 DEF Spends, KeyChoices, sigs

\* The safety half of AuditedSaleIsSettled: once the audit has passed, no step of
\* exec throws and no redemption fails.  The checks of T2's signatures and of
\* T1's output accept what the honest parties have built, and the refund that
\* any one lock's key allows is a valid spending of T1.
THEOREM AuditedSaleGoesOn ==
  Spec => [][(pc \in {"keep"} \cup AfterKeep) => (pc' \in AfterKeep)]_vars
<1>1. ASSUME SInv, Next, pc \in {"keep"} \cup AfterKeep
      PROVE  pc' \in AfterKeep
  <2>1. CASE init \/ share \/ pickR \/ createSend \/ createT2 \/ cut_and_choose
    BY <1>1, <2>1 DEF AfterKeep, init, share, pickR, createSend, createT2, cut_and_choose
  <2>2. CASE keep
    BY <2>2 DEF AfterKeep, keep, Continue
  <2>3. CASE verifyT2Signature
    <3> DEFINE tx == getSignedTransaction(s_T2, SellerSigs)
    <3>1. pc = "verifyT2Signature" /\ (tx # NoTx => pc' = "accept_T1")
      BY <2>3 DEF verifyT2Signature, Continue, SellerSigs
    <3>2. pc \in FromVerify /\ pc \in FromCut
      BY <3>1 DEF FromVerify, FromCut, FromKeep
    <3>3. s_T2 = [hash |-> T2_hash, sigs |-> <<>>]
      BY <1>1, <3>1, <3>2 DEF SInv, SignedT2, BuiltT2
    <3>4. tx = [hash |-> T2_hash, sigs |-> SellerSigs]
      BY <1>1, <3>2, <3>3, SellerSigsSpend DEF getSignedTransaction
    <3>5. T2_hash.value = Price - Fee /\ Fee <= Price
      BY <1>1, <3>2 DEF SInv, BuiltT2, AgreedTx
    <3>6. Price - Fee # -1
      BY <1>1, <3>5, Constants DEF SInv
    <3>7. tx.hash.value # -1 /\ NoTx.hash.value = -1
      BY <3>4, <3>5, <3>6 DEF NoTx, NoHash
    <3>8. QED
      BY <3>1, <3>7 DEF AfterKeep
  <2>4. CASE accept_T1
    <3>1. pc \in FromT2
      BY <2>4 DEF accept_T1, FromT2, FromCut, FromKeep, FromVerify, FromAccept
    <3>2. QED
      BY <1>1, <2>4, <3>1, PaymentVerified DEF accept_T1, Continue, AfterKeep
  <2>5. CASE getSignatures
    BY <2>5 DEF getSignatures, Continue, AfterKeep
  <2>6. CASE redeemTransaction
    <3> DEFINE out(j) == T1[getOutput(T1, single_buyers[j].Q)]
               hash(j) == [value |-> out(j).value - Fee, dst |-> BuyerKey,
                           script |-> original_script]
               h == [value |-> Price - Fee, dst |-> BuyerKey, script |-> original_script]
    <3>1. pc = "settle"
      BY <2>6 DEF redeemTransaction
    <3>2. PICK j \in 1..R :
            (/\ R > 1 => original_script.keys[BuyerKeyChunk] = BuyerKey
             /\ Spends(out(j).script, hash(j), RedeemSignatures(j, hash(j)))) => pc' = "refunded"
      BY <2>6 DEF redeemTransaction, Continue
    <3>3. out(j) = [value |-> Price, script |-> T1_output_script]
      BY <1>1, <3>1, RedeemForm
    <3>4. out(j).value = Price /\ out(j).script = T1_output_script
      BY <3>3
    <3>5. hash(j) = h
      BY <3>4
    <3> HIDE DEF h, hash, out
    <3>6. Spends(T1_output_script, h, RedeemSignatures(j, h))
      BY <1>1, <3>1, RedeemSpends DEF h
    <3>7. R > 1 => original_script.keys[BuyerKeyChunk] = BuyerKey
      BY <1>1, <3>1, RedeemForm DEF h
    <3>8. QED
      BY <3>2, <3>4, <3>5, <3>6, <3>7 DEF AfterKeep
  <2>7. QED
    BY <1>1, <2>1, <2>2, <2>3, <2>4, <2>5, <2>6 DEF Next
<1>2. SInv /\ [Next]_vars => [(pc \in {"keep"} \cup AfterKeep) => (pc' \in AfterKeep)]_vars
  BY <1>1
<1>3. QED
  BY <1>2, Invariance, PTL DEF Spec

=============================================================================
