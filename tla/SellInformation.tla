-------------------------- MODULE SellInformation --------------------------
(***************************************************************************)
(* The sequencing of SellInformationProtocol::exec around the cut and      *)
(* choose (main/sell_information.cpp) and the transactions and scripts     *)
(* that the Java servers build for it (BitcoinUtilsHandler).               *)
(*                                                                         *)
(* A key is a number: the shared key of instance i is i, then come the     *)
(* buyer's key, the one for the change and the seller's address.  A        *)
(* signature is the key and the hash it is for, the hash of a transaction  *)
(* what it commits to.  What happens inside the cut and choose is in       *)
(* CutAndChoose and SignatureKey, the roots are in RootExchange, the race  *)
(* for the output of T1 is in Settlement.                                  *)
(***************************************************************************)
EXTENDS Integers, Sequences, FiniteSets, SequencesExt

CONSTANTS
  T,        \* instances
  Rs,       \* the values of R, how many of them are kept
  Terms,    \* the terms a party may come with: n and the price
  Half,     \* 2^31: prices are unsigned, thrift's i32 is not
  Funds,    \* what the buyer's wallet can spend
  MinSend,  \* the least output that bitcoinj and the network accept
  Fee,      \* DEFAULT_FEE_PER_KB
  MaxKeys   \* the most keys createMultiSigOutputScript accepts

ASSUME TAssumption == T \in Nat /\ Rs \subseteq 1..T
ASSUME TermsAssumption == \A t \in Terms : t.n \in Nat /\ t.price \in 0..(2 * Half - 1)
ASSUME AmountsAssumption == {Half, Funds, MinSend, Fee, MaxKeys} \subseteq Nat \ {0}

Instances == 0..(T - 1)
BuyerKey == T
ChangeKey == T + 1
SellerAddress == T + 2
Keys == 0..(T + 2)

NoScript == [type |-> "none", m |-> 0, keys |-> <<>>]
NoHash == [value |-> -1, dst |-> -1, script |-> NoScript]
NoSig == [key |-> -1, hash |-> NoHash]
NoTx == [hash |-> NoHash, sigs |-> <<>>]

VARIABLES
  pc, error,
  R,                 \* a constant of the program, here one of Rs
  seller_terms, buyer_terms,
  prover_v,          \* SingleSellers: shared key, Commiter, signature, commitments
  verifier_v,        \* SingleBuyers: shared key, commitments received
  r,                 \* Buyer::r, the chosen instances
  single_sellers,    \* the seller's kept copies
  single_buyers,     \* the buyer's copies: first for their keys, then kept
  T1,                \* the outputs of T1
  T1_output_script, original_script,
  T2, T2_hash,       \* of the buyer; the instances point to T2_hash
  s_T2,              \* the seller's T2
  revealed,          \* the Commiters whose p has been shown
  signatures,        \* Buyer::signatures
  refund             \* what redeemTransaction broadcasts

offchain == <<prover_v, verifier_v, r, single_sellers, single_buyers, revealed>>
txs == <<T1, T1_output_script, original_script, T2, T2_hash>>
terms == <<R, seller_terms, buyer_terms>>
outcome == <<signatures, refund>>
vars == <<pc, error, terms, offchain, txs, s_T2, outcome>>

NewSeller == [Q |-> -1, commiter |-> 0, sig |-> NoSig, com |-> 0]
NewBuyer == [Q |-> -1, com |-> 0]

\* vector<SingleSeller>(T, single_seller) copies one object, and with it the
\* primes of its Commiter, into every instance.
Init ==
  /\ pc = "init" /\ error = "none"
  /\ R \in Rs
  /\ seller_terms \in Terms /\ buyer_terms \in Terms
  /\ prover_v = [i \in Instances |-> NewSeller]
  /\ verifier_v = [i \in Instances |-> NewBuyer]
  /\ r = <<>> /\ single_sellers = <<>> /\ single_buyers = <<>> /\ revealed = {}
  /\ T1 = <<>> /\ T1_output_script = NoScript /\ original_script = NoScript
  /\ T2 = NoTx /\ T2_hash = NoHash /\ s_T2 = NoTx
  /\ signatures = <<>> /\ refund = NoTx

Throw(what) == pc' = "thrown" /\ error' = what
Continue(next) == pc' = next /\ UNCHANGED error

-----------------------------------------------------------------------------
(* The server: values, outputs and scripts.                                *)

\* unsigned to i32
ToI32(price) == IF price >= Half THEN price - 2 * Half ELSE price

P2PKH(key) == [type |-> "p2pkh", m |-> 1, keys |-> <<key>>]

\* The keys of createSend's multisignature script: R shared keys and R - 1
\* times the buyer's.
MultiSigKeys_OneMore(Qs) ==
  [k \in 1..(2 * R) |-> IF k <= R THEN Qs[k] ELSE BuyerKey]

MultiSigKeys(Qs) ==
  [k \in 1..(2 * R - 1) |-> IF k <= R THEN Qs[k] ELSE BuyerKey]

\* original_script and script of createSend.
OriginalScript(Qs) ==
  IF R = 1 THEN P2PKH(Qs[1]) ELSE [type |-> "multisig", m |-> R, keys |-> MultiSigKeys(Qs)]

P2SH(script) == IF R = 1 THEN script ELSE [script EXCEPT !.type = "p2sh"]

\* createSend succeeds: the wallet can pay, no output is dust, not too many keys.
CanSend(value) == value >= MinSend /\ value <= Funds /\ 2 * R - 1 <= MaxKeys

\* The outputs of T1: the payment, and the change unless there is none.
PaymentOutputs(value, script) ==
  LET pay == [value |-> value, script |-> script]
      change == [value |-> Funds - value, script |-> P2PKH(ChangeKey)]
  IN IF value = Funds THEN {<<pay>>} ELSE {<<pay, change>>, <<change, pay>>}

\* getOutput: the first output to the shared key if R is 1, and otherwise the
\* first one that is not P2PKH; 0 if there is none.
getOutput_First(tx, key) == IF tx = <<>> THEN 0 ELSE 1

getOutput(tx, key) ==
  LET matches(o) == IF R = 1 THEN o.script = P2PKH(key) ELSE o.script.type # "p2pkh"
  IN SelectInSeq(tx, matches)

\* The script interpreter: m signatures for the hash, by keys of the script, in
\* the order of the keys.
Spends(script, hash, sigs) ==
  /\ Len(sigs) = script.m
  /\ \E f \in [1..script.m -> DOMAIN script.keys] :
       /\ \A a, b \in 1..script.m : a < b => f[a] < f[b]
       /\ \A a \in 1..script.m : sigs[a] = [key |-> script.keys[f[a]], hash |-> hash]

Qs(parties) == [k \in 1..Len(parties) |-> parties[k].Q]

-----------------------------------------------------------------------------
(* exec up to the first cut and choose.                                    *)

init ==
  /\ pc = "init"
  /\ \/ seller_terms.n # buyer_terms.n /\ Throw("Not matching n")
     \/ /\ seller_terms.n = buyer_terms.n /\ seller_terms.price # buyer_terms.price
        /\ Throw("Not matching price")
     \/ seller_terms = buyer_terms /\ Continue("share")
  /\ UNCHANGED <<terms, offchain, txs, s_T2, outcome>>

\* SharedSignature::init for every instance.
share ==
  /\ pc = "share"
  /\ prover_v' = [i \in Instances |-> [prover_v[i] EXCEPT !.Q = i]]
  /\ verifier_v' = [i \in Instances |-> [verifier_v[i] EXCEPT !.Q = i]]
  /\ Continue("pickR")
  /\ UNCHANGED <<terms, r, single_sellers, single_buyers,
                 revealed, txs, s_T2, outcome>>

\* pickR: R different instances in the order of a std::set, and the buyer's
\* first copies.
pickR ==
  /\ pc = "pickR"
  /\ r' \in {s \in [1..R -> Instances] : \A a, b \in 1..R : a < b => s[a] < s[b]}
  /\ single_buyers' = [k \in 1..R |-> verifier_v[r'[k]]]
  /\ Continue("createSend")
  /\ UNCHANGED <<terms, prover_v, verifier_v, single_sellers,
                 revealed, txs, s_T2, outcome>>

\* A createSend that fails returns unset fields, which thrift refuses to send.
createSend ==
  /\ pc = "createSend"
  /\ LET value == ToI32(buyer_terms.price)
     IN \/ /\ ~CanSend(value)
           /\ Throw("thrift") /\ UNCHANGED txs
        \/ /\ CanSend(value)
           /\ original_script' = OriginalScript(Qs(single_buyers))
           /\ T1_output_script' = P2SH(original_script')
           /\ T1' \in PaymentOutputs(value, T1_output_script')
           /\ Continue("createT2")
           /\ UNCHANGED <<T2, T2_hash>>
  /\ UNCHANGED <<terms, offchain, s_T2, outcome>>

\* createSendTransactionToAddress and hashForSignature.  An output of a
\* negative value is an exception in the server.
createT2_Unchecked ==
  /\ pc = "createT2"
  /\ LET o == T1[getOutput(T1, single_buyers[1].Q)]
         tx == [value |-> o.value - Fee, dst |-> SellerAddress, script |-> original_script]
     IN T2' = [hash |-> tx, sigs |-> <<>>] /\ T2_hash' = tx
  /\ Continue("cut_and_choose")
  /\ UNCHANGED <<terms, offchain, T1, T1_output_script,
                 original_script, s_T2, outcome>>

createT2 ==
  /\ pc = "createT2"
  /\ LET o == T1[getOutput(T1, single_buyers[1].Q)]
         tx == [value |-> o.value - Fee, dst |-> SellerAddress, script |-> original_script]
     IN \/ o.value < Fee /\ Throw("thrift") /\ UNCHANGED <<T2, T2_hash>>
        \/ /\ o.value >= Fee
           /\ T2' = [hash |-> tx, sigs |-> <<>>]
           /\ T2_hash' = tx
           /\ Continue("cut_and_choose")
  /\ UNCHANGED <<terms, offchain, T1, T1_output_script,
                 original_script, s_T2, outcome>>

\* SignatureKeyProtocol::exec in every instance: a signature of the hash that
\* T2_hash points to, and fresh commitments; then all but the chosen are opened.
cut_and_choose ==
  /\ pc = "cut_and_choose"
  /\ prover_v' = [i \in Instances |->
       [prover_v[i] EXCEPT !.sig = [key |-> prover_v[i].Q, hash |-> T2_hash],
                           !.com = i + 1]]
  /\ verifier_v' = [i \in Instances |-> [verifier_v[i] EXCEPT !.com = i + 1]]
  /\ revealed' = {prover_v[i].commiter : i \in Instances \ ToSet(r)}
  /\ \/ Continue("keep")
     \/ Throw("Generating signatures and keys failed!")
  /\ UNCHANGED <<terms, r, single_sellers, single_buyers, txs,
                 s_T2, outcome>>

\* clearSingleBuyers, the copies that are kept, and the setters.
keep_NotCleared ==
  /\ pc = "keep"
  /\ single_sellers' = [k \in 1..R |-> prover_v[r[k]]]
  /\ single_buyers' = single_buyers \o [k \in 1..R |-> verifier_v[r[k]]]
  /\ s_T2' = T2
  /\ Continue("verifyT2Signature")
  /\ UNCHANGED <<terms, prover_v, verifier_v, r, revealed, txs,
                 outcome>>

keep ==
  /\ pc = "keep"
  /\ single_sellers' = [k \in 1..R |-> prover_v[r[k]]]
  /\ single_buyers' = [k \in 1..R |-> verifier_v[r[k]]]
  /\ s_T2' = T2
  /\ Continue("verifyT2Signature")
  /\ UNCHANGED <<terms, prover_v, verifier_v, r, revealed, txs,
                 outcome>>

-----------------------------------------------------------------------------
(* T2 gets its signatures, T1 is checked, and what follows the payment.    *)

\* getSignedTransaction: the empty transaction if the script is not satisfied.
getSignedTransaction(tx, sigs) ==
  IF Spends(T1_output_script, tx.hash, sigs) THEN [tx EXCEPT !.sigs = sigs] ELSE NoTx

verifyT2Signature ==
  /\ pc = "verifyT2Signature"
  /\ LET tx == getSignedTransaction(s_T2, [k \in 1..R |-> single_sellers[k].sig])
     IN IF tx = NoTx
        THEN Throw("verify T2 signature in bitcoinj failed") /\ UNCHANGED s_T2
        ELSE s_T2' = tx /\ Continue("accept_T1")
  /\ UNCHANGED <<terms, offchain, txs, outcome>>

\* verifyTransaction: the first output with the script must have the price.
verifyTransaction(tx, price) ==
  LET o == SelectInSeq(tx, LAMBDA out : out.script = T1_output_script)
  IN o # 0 /\ tx[o].value = ToI32(price)

accept_T1 ==
  /\ pc = "accept_T1"
  /\ IF verifyTransaction(T1, seller_terms.price) THEN Continue("settle")
     ELSE Throw("verify T1 failed!")
  /\ UNCHANGED <<terms, offchain, txs, s_T2, outcome>>

\* getSignatures reads the chunks of T2's input script: OP_0 and the signatures
\* if it is a multisignature, the signature and the public key if it is P2PKH.
InputScript(tx) == IF R = 1 THEN tx.sigs \o <<NoSig>> ELSE <<NoSig>> \o tx.sigs

Chunk_FromZero(k) == k

Chunk(k) == IF R = 1 THEN k ELSE k + 1

getSignatures ==
  /\ pc = "settle"
  /\ signatures' = [k \in 1..R |-> InputScript(s_T2)[Chunk(k)]]
  /\ Continue("taught")
  /\ UNCHANGED <<terms, offchain, txs, s_T2, refund>>

\* The key that redeemTransaction takes for the buyer's: chunk 2R - 1 of the
\* original script, whose chunk 0 is OP_R.
BuyerKeyChunk_TooEarly == R

BuyerKeyChunk == 2 * R - 1

\* The signatures that redeemTransaction puts together with the key of lock j.
RedeemSignatures(j, hash) ==
  [k \in 1..R |->
     [key |-> IF k = 1 THEN single_buyers[j].Q ELSE original_script.keys[BuyerKeyChunk],
      hash |-> hash]]

\* redeemTransaction fails if the wallet does not have the key it looks up, or
\* the input does not spend the output.
redeemTransaction ==
  /\ pc = "settle"
  /\ \E j \in 1..R :
       LET o == T1[getOutput(T1, single_buyers[j].Q)]
           hash == [value |-> o.value - Fee, dst |-> BuyerKey, script |-> original_script]
           sigs == RedeemSignatures(j, hash)
       IN IF /\ R > 1 => original_script.keys[BuyerKeyChunk] = BuyerKey
             /\ Spends(o.script, hash, sigs)
          THEN Continue("refunded") /\ refund' = [hash |-> hash, sigs |-> sigs]
          ELSE Continue("redeem failed") /\ UNCHANGED refund
  /\ UNCHANGED <<terms, offchain, txs, s_T2, signatures>>

Next == init \/ share \/ pickR \/ createSend \/ createT2 \/ cut_and_choose \/ keep
        \/ verifyT2Signature \/ accept_T1 \/ getSignatures
        \/ redeemTransaction

Spec == Init /\ [][Next]_vars

\* exec is a function call: it goes on until it returns or throws.
FairSpec == Spec /\ WF_vars(Next)

-----------------------------------------------------------------------------
(* Properties.                                                             *)

Scripts == [type : {"none", "p2pkh", "p2sh", "multisig"}, m : 0..R,
            keys : Seq(Keys)]
Hashes == [value : -1..(2 * Half), dst : Keys \cup {-1}, script : Scripts]
Sigs == [key : Keys \cup {-1}, hash : Hashes]

\* Every variable keeps its type.
TypeOK ==
  /\ pc \in {"init", "share", "pickR", "createSend", "createT2", "cut_and_choose",
             "keep", "verifyT2Signature", "accept_T1", "settle", "taught",
             "refunded", "redeem failed", "thrown"}
  /\ R \in Rs /\ {seller_terms, buyer_terms} \subseteq Terms
  /\ prover_v \in [Instances -> [Q : Instances \cup {-1}, commiter : {0},
                                 sig : Sigs, com : 0..T]]
  /\ verifier_v \in [Instances -> [Q : Instances \cup {-1}, com : 0..T]]
  /\ r \in Seq(Instances) /\ Len(r) \in {0, R}
  /\ Len(single_sellers) \in {0, R} /\ Len(single_buyers) \in {0, R}
  /\ T1 \in Seq([value : 0..Funds, script : Scripts])
  /\ {T1_output_script, original_script} \subseteq Scripts
  /\ T2_hash \in Hashes
  /\ \A tx \in {T2, s_T2, refund} : tx.hash \in Hashes /\ tx.sigs \in Seq(Sigs)
  /\ revealed \subseteq {0} /\ signatures \in Seq(Sigs)

AfterKeep == {"verifyT2Signature", "accept_T1", "settle", "taught", "refunded"}

\* From line 431 on, both parties work with the instances as the cut and choose
\* left them: the j-th copies belong to the same chosen instance, and the
\* commitments the buyer will open are the ones the seller made, not those of
\* the copies she took to build T1.
KeptAreFresh ==
  pc \in AfterKeep =>
    \A k \in 1..R : /\ single_buyers[k].com = single_sellers[k].com
                    /\ single_sellers[k].com = r[k] + 1
                    /\ single_buyers[k].Q = single_sellers[k].Q

CanSpend(keys) ==
  \E sigs \in [1..T1_output_script.m -> [key : keys, hash : {T2_hash}]] :
    Spends(T1_output_script, T2_hash, sigs)

\* Who can spend T1: the buyer as soon as she has the shared key of any one kept
\* instance and not before; without her key, only all R shared keys together.
SpendingThreshold ==
  pc \in AfterKeep =>
    \A S \in SUBSET ToSet(r) : /\ CanSpend(S \cup {BuyerKey}) <=> S # {}
                               /\ CanSpend(S) <=> S = ToSet(r)

\* When the payment is made T1 has an output of the agreed price, which T2
\* spends to the seller's address, less the fee: no conversion on the way (from
\* unsigned to i32, the search for the output) has changed the amount.
AmountsAddUp ==
  pc \in AfterKeep =>
    /\ \E k \in DOMAIN T1 : T1[k] = [value |-> buyer_terms.price, script |-> T1_output_script]
    /\ T2.hash = [value |-> buyer_terms.price - Fee, dst |-> SellerAddress,
                  script |-> original_script]
    /\ s_T2.hash = T2.hash

\* What the buyer reads from T2's input script are, in the same order, the
\* signatures from which the seller derived the keys of the kept instances.
ChainTeachesSignatures ==
  pc = "taught" => \A k \in 1..R : signatures[k] = single_sellers[k].sig

\* After the audit nothing stands between honest parties and the end of the
\* sale: the checks of T2 and T1 pass, and with the key from any one lock the
\* refund that redeemTransaction builds spends T1.
AuditedSaleIsSettled == (pc = "keep") ~> (pc \in {"taught", "refunded"})

\* README: a timed commitment "can be broken after a period of time".  Locks of
\* kept instances are not opened along with those of the others.
KeptLocksStayClosed ==
  pc \in AfterKeep => \A k \in 1..R : single_sellers[k].commiter \notin revealed

=============================================================================
