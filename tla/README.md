# A verification of the Selling Information protocol

The program sells the factorisation of an integer `n = p*q` for bitcoins.
The seller and the buyer first run an off-chain protocol that leaves the buyer
with ciphertexts of square roots modulo `n` whose keys are hashes of bitcoin
signatures; then the buyer pays with a transaction T1, and the seller can only
take the price with a transaction T2 that shows those signatures. If he does
not, the buyer breaks a timed commitment, gets the missing half of a signing
key and spends T1's output back.

This directory holds TLA+ modules that model the program, TLC runs that check
them on small instances, and theorems that TLAPS checks for every value of the
constants. `PROJECT.json` is the index: every run, its properties, a mutant
that breaks each property, the source lines of every definition, the hazards
and the theorems.

## 1. Inventory

| Component | State | Operations | Interacts with |
|---|---|---|---|
| Settlement: the on-chain end of `exec` and `main` (`main/sell_information.cpp`, `main/main.cpp`) | the control of three threads, two `atomic_bool`, `p` and `q` | `make_payment`, `accept_T1`, `accept_payment`, `wait_for_signature_or_time_lock`, `solve_time_lock`, `get_signature` | RPCs to the two Java servers; the threads share the flags and the buyer object |
| Bitcoin server (`bitcoin/java`) | bitcoinj's wallet: watched addresses, received transactions, their depth | broadcast, wait for depth, search by output, redeem, build and sign transactions | called by both parties; it outlives the process |
| Off-chain sequencing of `exec` | the terms, the `T` copies of the parties, the kept copies, T1, T2, their scripts and hash | `init`, `pickR`, `createT1AndT2`, the copies, `verifyT2Signature`, `accept_T1` | ties all the others together |
| Cut and choose (`cut_and_choose/cut_and_choose.h`) | `T` pairs of parties, the verifier's indices, `res` | execute all, choose, open the others | runs any `Protocol`, here `SignatureKeyProtocol` |
| Signature and key protocol (`main/signature_key.cpp`) | keys, commitments to them, the timed commitment | `exec`, `open` | shared signature, timed and SHA commitments |
| Shared signature (`shared_signature/shared_sig.cpp`) | key and nonce shares, the data to sign, `r`, `s` | `init`, `exec`, `open` | gives the signatures of T2; computes on Paillier ciphertexts |
| Paillier (`shared_signature/paillier.cpp`) | primes, `n`, `g`, `y`, `u` | `enc`, `dec`, products and powers of ciphertexts | used by the shared signature |
| Timed commitment (`timed_commitment/`) | the primes of `Commiter`, `n`, `h`, `S` | `commit`, `open`, `force_open`, conversions between integers and bits | holds the seller's key share |
| Root exchange (loop of `exec`, `common/square_root.cpp`) | `x`, `y`, `r1`, `r2`, the commitments `d1`, `d2`, the subset | `genSquares`, `findRoots`, `encryptRoots`, `pickSubset`, `acceptSubset`, `verifyRoot`, `factorise` | opens the key commitments made in the cut and choose |
| SHA commitment, AES | message, seed, digest | `exec`, `open`; `enc`, `dec` | used by all of the above |
| Regular commitment, balance tool, stub server, logging | | | not used by the sale, or pure I/O |

What is hard to test is first of all the settlement: two threads, two servers
and a block chain race for one output of T1; waits time out; reorganisations
take depth away between two looks at it; an exception ends `exec` in one thread
and the whole process in another, while a server goes on with a request. The
other parts are sequential, but each relies on what a choice made by the other
party looks like (indices, roots, factors, moduli), on objects that are copied
before the state they copy has changed and used afterwards, on two programs
that count the chunks of one script in the same way, and on numbers at the edge
of their range.

What makes each correct:

* settlement: the buyer never ends with both the factors and the money, the
  seller shows signatures only for a payment that is final, nobody is left
  without what the README promises, no thread writes to a dead frame;
* the sale around it: both parties go on with the same instances, as the cut
  and choose left them, T1 and T2 carry the agreed amounts, T1 can be spent by
  exactly the keys the protocol means, and the chain shows the signatures the
  keys were derived from;
* cut and choose: an accepting verifier has seen exactly the instances it did
  not choose, all good, and the chosen ones stay closed;
* signature and key protocol: a verified instance is consistent with what was
  committed to before the choice, and an honest seller is always verified;
* shared signature and Paillier: what comes out is a signature under the product
  of the two shares, no computation on ciphertexts wraps, and an honest run
  fails only for causes one can name;
* timed commitment: breaking the lock ends, and gives what was locked; opening
  it shows the same;
* root exchange: one root per square before the payment, both after it; what the
  buyer checks is right; honest parties always reach the payment, and the factors
  follow from the roots.

## 2. Modules

| Module | Models | Role |
|---|---|---|
| `FairExchange` | README lines 4-7 | abstract specification of the sale |
| `Settlement` | `exec` lines 538-545, the functions it calls, `main`, the servers | detailed specification; implements `FairExchange` |
| `SettlementProofs` | | theorems about `Settlement` |
| `SellInformation` | `init`, `exec` lines 381-441, the Java methods that build and check T1, T2 and the refund | the sale from its terms to the two ways it can end |
| `SellInformationProofs` | | theorems about `SellInformation` |
| `Audit` | README lines 48-57 | abstract specification of cut and choose |
| `CutAndChoose` | `cut_and_choose.h` | detailed specification; implements `Audit` |
| `CutAndChooseProofs` | | theorems about `CutAndChoose` |
| `SignatureKey` | `signature_key.cpp` | one instance of the audited protocol, with a seller that may deviate |
| `SignatureKeyProofs` | | theorems about `SignatureKey` |
| `SharedSignature` | `shared_sig.cpp` | two-party ECDSA over a group of prime order |
| `SharedSignatureProofs` | | theorems about `SharedSignature` and `Paillier` |
| `Paillier` | `paillier.cpp` | the encryption, with real small primes |
| `TimedCommitment` | `timed_commitment.cpp`, `bit_utils.cpp` | the lock, with real small primes |
| `TimedCommitmentProofs` | | theorems about `TimedCommitment` |
| `SignatureScheme` | | `SharedSignature` with `Paillier` |
| `LockedShare` | | `SignatureKey` with `TimedCommitment` |
| `RootExchange` | `exec` lines 467-530, `factorise`, `square_root.cpp` | detailed specification with small numbers |
| `RootExchangeProofs` | | theorems about `RootExchange` |
| `Modular` | | Crypto++'s modular powers and inverses (external) |
| `Residues` | | the number theory the proofs rest on |
| `MC*` | | values of the constants for TLC |

`SellInformation` is the frame. Its step `cut_and_choose` stands for what
`CutAndChoose` does with `T` instances of `SignatureKey`; an instance signs with
`SharedSignature`, which computes on `Paillier` ciphertexts, and locks a key share
with `TimedCommitment`; the rounds of `RootExchange` come before the payment and
`Settlement` is the race after it. Each module takes from the others only what its
own properties need: `CutAndChoose` that an instance is good or not, `SignatureKey`
that signing gives a signature or throws, `SharedSignature` that Paillier is
homomorphic (the property `Homomorphic`), `Settlement` which locks hold a key share.

### Settlement

`pc`, `tl` and `gs` are the controls of the main thread, of `solve_time_lock`
and of `get_signature`; `rpc` and `polls` are the state of
`waitForTransactionHelper` in the server, per caller. One action is one RPC,
one store to a shared flag or one look at it. The actions of the servers do not
need the process to be alive. `conf` counts confirmations up to `Depth`, the
depth both parties ask for; a transaction at `Depth` is final, so `Reorg` only
replaces fewer than `Depth` blocks (the assumption behind the code's 6). A
wallet receives a transaction from a block or by relay only if it watches one
of its outputs by then (`watched`, `seen`); this is how bitcoinj is used, and it
is external here, like the network.

`Faults` is the set of things that may go wrong: broadcasts that end in an
exception, blocks slower than the one-hour wait, a block between a broadcast
and the `addWatchedAddress` that would see it, a T1 without a change output, a
failing verification or factorisation, and a crash of the process anywhere.
Timed commitments are abstracted to `GoodLocks`, those that contain the key
share. `force_open` takes a bounded time, `2^K` squarings, so it is one step.

### SellInformation

One action per step of `exec` between two points where it can throw; the Java
methods it calls through thrift are operators and actions of the same name. A
key is a number, a signature the key and the hash it is for, a hash what it
commits to, and a script its type, its threshold and its keys in order, because
the order and the number of the keys are what `createSend`, `redeemTransaction`
and `getSignatures` rely on. Amounts are numbers: unsigned in C++, `i32` in thrift
(`Half` stands for 2^31), less `Fee` in T2 and in the refund. Where bitcoinj puts
the change, its refusal of dust and of too many keys, and its script interpreter
are external. `R`, fixed when the program is compiled, is a variable that never
changes, so that one run has both branches of the server. A `Commiter` is
identified by the object it was copied from.

### CutAndChoose

One action per iteration of the two loops of the function. An instance is good
or not, which is what `open` finds out; a prover may be dishonest in any set of
instances, and `exec` and `open` may throw. `Choices` is the set of vectors
`getI()` may return, invalid ones included. After the last chosen index the code
reads `chosen_i[R]`, one past the end. Either that memory can hold an index, and
the comparison may go either way, or it cannot; the variable `stray` says which.

### SignatureKey

One action per call that `exec` and `open` make, and one per iteration of the loop
of openings, which can throw in the middle. A digest is represented by the
message it was computed from, a key by the signature and the index it was derived
from and by how much of it there is: the message of a commitment is a vector of any
length, and `verifyKeys` compares it with `std::equal` over its own length, so that the
first bytes of a key, or none, pass, and of a longer message what is compared with lies
behind the key in memory (`EqualBytes`). The seller deviates in any combination of six
ways (`Deviations`): in the lock, in the signature he derives from, in one key, in one
opening, in the factor he shows, in the signature he shows.

### SharedSignature and Paillier

A point of the curve is its logarithm to the base `G`, so multiplying is a
product modulo the order `n`; its x coordinate is any function with equal values
at opposite points, and may be below, at or above `n`. A ciphertext is
represented by its plaintext: products and powers of ciphertexts are sums and
products modulo the Paillier modulus `N`. That this is what the encryption does
is checked in `Paillier`, where ciphertexts are real numbers modulo `N^2` blinded
by any number from 1 to `N`. The blinding can make `dec` refuse a ciphertext
(`RefusedOnlyForBlinding`); with primes of the size used this practically never
happens, and it is not among the causes that `HonestOutcome` of `SharedSignature` lists.

### TimedCommitment

Primes, `h`, the timed key and the bits are real. The stream of AES in OFB mode is
abstracted to one that depends on the seed taken from the timed key and on nothing
else. `force_open` takes a step per squaring. `Receiver::open` is tried with any
number in `Claims`, because the number for `p` comes from the other party; it is a
signed `Integer`, so the claims may be negative.

`SignatureScheme` puts `SharedSignature` and `Paillier` together, and `LockedShare`
`SignatureKey` and `TimedCommitment`. The modules of a pair share no variable. For TLC
(`MCSharedSignature`, `MCSignatureKey`) one moves only while the other is as it was
created, since their interleavings would multiply the states and show nothing.

### RootExchange

The primes are real and small and the arithmetic of `square_root.cpp` (roots
modulo the primes, signs, CRT, sorting four roots) is computed. A ciphertext is a
record of key and plaintext, a vector of bytes the set of what it encodes, a
digest the message it was computed from. One action per step of the round; the
loop over the checked indices takes a step per index because it can throw in the
middle. The buyer's array of indices is any member of `Subsets`, her values may be
replaced by `OtherValues`, also negative ones. The seller may deviate at one index
(`lie`), on one of its two sides or on both: he commits there to something else than an
encrypted root (`Forged`: a number in `Plaintexts`, not the same on both sides if he
likes, bytes that do not decrypt, or no bytes), or he opens a commitment to another
message or key than he committed to. That the commitments to the keys, made in the
first phase, hold the right keys of the right length is assumed. `GCD` is Crypto++'s
on a negative first argument too, which a large plaintext makes possible. Payment and
reading T2 happen between `openRest` and `factorise`; they are `Settlement`'s.

## 3. Runs

| Run | Bounds | Checks | Shows |
|---|---|---|---|
| `settlement_safe` | R = 3, locks 1 and 2 good, Depth = 3, 2 polls, 2 reorganisations, all faults | `TypeOK`, `SellerRevealsOnlyWhenPaid`, `ExclusiveOutcome`, `ReturnMeansSettled`, `NoStoreToDeadFrame`, `ImplementsFairExchange` | no interleaving and no fault breaks the safety of the exchange |
| `settlement_live` | the same, no faults, fairness | `BuyerIsServed`, `ProcessEnds` | the promise of the README holds if nothing fails |
| `settlement_stranded` | R = 2, Depth = 2, T2's broadcast can fail | `BuyerIsServed`: violated | finding 1 |
| `settlement_late_watch` | R = 2, Depth = 2, a block can come before the watch | `PaidSaleTeaches`: violated | finding 2 |
| `cut_and_choose` | T = 4, R = 2, every vector of up to 3 ints from -1 to 4, any dishonest set, with and without a stray read | `TypeOK`, `ChosenStayClosed`, `AcceptedMeansAudited`, `IndicesMetOnce`, `ImplementsAudit`, `HonestIsAccepted` | acceptance is sound whatever is read past the end, and only that read can make the assertion fail |
| `roots_deviant` | n = 15, L = 4, one round, draws 1 and 7, five arrays of two indices, other values 4, 8 and -7, one lie of any kind at any index and on any side, the plaintext 23 | `TypeOK`, `OneRootPerIndex`, `ExchangeIsHalfOpen`, `LieIsCaught` | the seller's secret survives any request; what the checks look at is right, and only what they do not look at can mislead `factorise` |
| `roots_honest` | n = 21, L = 2, two rounds, draws 0, 3, 7 and 10 | `RootsComplete`, `FactoriseOutcome`, `HonestExchangeCompletes` | the arithmetic, at its edges, lets honest parties finish |
| `sale` | T = 4, R = 1 and R = 3, nine prices from 0 to 13, i32 from 8 on negative, funds 7, least output 2, fee 4, at most 5 keys | `TypeOK`, `KeptAreFresh`, `SpendingThreshold`, `AmountsAddUp`, `ChainTeachesSignatures`, `AuditedSaleIsSettled` | an audited sale reaches either end, with the right amounts, keys and signatures |
| `sale_locks` | T = 3, R = 2, one price | `KeptLocksStayClosed`: violated | finding 3 |
| `signature_key` | L = 3, every set of deviations at every index, key messages of four lengths; primes 5, 7, 11, K = 0, 1, 3, every `h`, secrets 0, 130, 512 | `TypeOK`, `VerifiedMeansConsistent`, `HonestIsVerified`; `LockHoldsSecret`, `OpenAgreesWithForce`, `LockOpens` | a verified instance is consistent as far as its messages go; a lock opens, and holds what was put into it |
| `signature_key_lock` | L = 2, a lock without the share is the only deviation | `LockIsAudited`: violated | finding 4 |
| `shared_sig` | n = 7, x coordinates 3, 7 and 9, moduli 99, 4802 and 4803, digests 0 and 10 and no data; Paillier primes 3, 5 and 5, 7, three operations | `TypeOK`, `NoWrap`, `SignatureIsValid`, `HonestOutcome`, `OpenIsExact`; `Homomorphic`, `RefusedOnlyForBlinding` | every accepted signature is one under the shared key; Paillier computes what the protocol takes for granted |

Why the bounds are enough. Three locks with the first one bad let the loop go on
after a failure and let two redeem transactions compete after a timeout; Depth
= 3 leaves room for a partial and a full loss of depth; one reorganisation can
hit T1 and another T2 or a redeem. Two chosen indices of four give a choice
before, between and after opened instances, equal and out-of-range values, and a
position past the end. Four squares with two checked give repeated indices; the five
arrays of `roots_deviant` are two neighbours at the start and in the middle, the first
and the last index in descending order, a repeated index and one past the end, so that
every index is checked in one run and left closed in another. Both draws are prime to
15 and have two roots, 1 and 4 or 2 and 7; the other values are a root she did not
draw, a number above n/2 and a negative root. The plaintext 23 is above `n` and prime
to it: on both sides it gives 15 and 1, on one side it can give a negative gcd. In
`roots_honest` the draws are zero, a multiple of either prime, and `n/2` itself (10), the largest
legal one. Three kept instances give a 3-of-5 script, at the limit of keys, and any of the
three locks may break first; the prices lie on both sides of the least output,
the fee, the funds and the sign of an i32. Order 7 has room for the three kinds of
x coordinate, a digest above the order and a zero one, and every share, nonce
and mask is enumerated (4.2 million states); the moduli are the largest one that
`B()` refuses, the next, and one far too short. The secrets are zero, one byte,
and two bytes of which the low one is zero; 5 is a prime that `gen_prime` refuses;
the claims hold 0, 1, `n`, a factor, its negative, -1 and numbers that do not divide;
K = 3 makes
eight squarings. `CHECK_DEADLOCK FALSE` is in every configuration because the
process and the functions really end.

Fairness. `Settlement` has weak fairness on each thread, on each server call and
on mining: a runnable thread is scheduled, the thread pool of the server has more
threads than callers, and miners do not leave a mineable transaction out for
ever. There is none on reorganisations, relays, crashes or faults. The other
modules are function calls: weak fairness on the whole next-state relation says
that a call goes on until it returns or throws. For the timed commitment it is on
`force_open` only: the thread that squares is scheduled, while nobody is obliged to
commit or to open.

## 4. Findings

1. `settlement_stranded`: if the broadcast of T2 fails, `accept_payment` throws
   (`sell_information.cpp:141`), the exception leaves `exec` before line 544
   starts the buyer's threads, and the paid buyer never breaks the timed
   commitment. README lines 6-7 promise the money back.
2. `settlement_late_watch`: the buyer's server watches the seller's address only
   when `get_signature` asks for it (`BitcoinUtilsHandler.java:489`), after T2 was
   broadcast. If T2's block comes first, the search never finds T2: the seller has
   the price and the buyer has no factors.
3. `sale_locks`: `vector<SingleSeller>(T, single_seller)` (`sell_information.cpp:396`)
   copies one `Commiter`, with its primes, into every instance. Opening the
   instances that were not chosen shows `p`, with which the locks of the kept ones
   open at once, although they should take time to break (README lines 65-66).
4. `signature_key_lock`: the value opened from the timed commitment is discarded
   (`signature_key.cpp:128`), so a lock that does not hold the key share passes an
   audit that, by README lines 54-55, finds every deviation in an opened execution.

Smaller disagreements, met while modelling, that have no run of their own:

* `chosen_i[ix]` with `ix == R` (`cut_and_choose.h:67`) reads past the end. It can
  make an honest run end in "Assert failed"; `IndicesMetOnce` says that nothing else
  can, and `SoundAudit` that it never makes a dishonest prover accepted.
* `verifyKeys` compares the keys with the signature in `signature_commit`; whether that
  is the signature the parties made together is never compared
  (`signature_key.cpp:136-141`).
* `std::equal` takes its length from the message that was opened, not from the key
  (`signature_key.cpp:46`): a commitment to the first bytes of a key, or to none, is verified,
  and one to a longer message is compared with the memory behind the key.
  `VerifiedMeansConsistent` says no more than that. In the root exchange such a key stops
  the sale at a checked index only: `dec` throws there (`aes.cpp:56`).
* A checked index is checked on one side, that of the buyer's root
  (`sell_information.cpp:502-521`): something else than a root on the other side is
  not found. It does no harm there, since `factorise` skips the index.
* `factorise` takes any two gcds with `p * q == n` for the factors and looks no further
  (`sell_information.cpp:347-353`). Equal or opposite roots, or other numbers, encrypted
  at an index that was not checked can make it return 1 and `n`, and bytes that do not
  decrypt make it throw, although later indices hold good roots. `LieIsCaught` and
  `OnlyTheFactors` say that nothing else can.
* `Receiver::open` takes a signed number: -1 and the negatives of the factors divide `n`
  too, `phi` is then wrong, and what is shown is not what the lock holds
  (`timed_commitment.cpp:103-108`). `OpenAgreesWithForce` is stated for positive numbers.
* T2 and the refund are worth the price less the fee, and nothing makes sure that what
  is left can be relayed (`BitcoinUtilsHandler.java:222` and `582`).
* `hash_m_to_int` takes SHA-256 digests only (`shared_sig.cpp:21`) and the seller needs
  the data too; `test_shared_sig.cpp:142` gives 100 bytes, to the buyer only.

## 5. Proofs

`SettlementProofs`, for every `R`, `GoodLocks`, `Depth`, bounds and faults that
satisfy the assumptions named in `Settlement`:

* `TypeCorrect`: `Spec => []TypeOK`.
* `Invariance`: `Spec => []IInv`. None of the safety properties is inductive:
  whether a thread may report success depends on an answer a server gave earlier,
  and the answer on depth that must not be lost. `IInv` adds to `TypeOK`: mined
  transactions were sent (`MinedSent`); at most one spender of T1's output is in
  the chain (`OneSpender`); nothing that spends it is sent before T1 is final
  (`SpentPaid`); an answer `true` of a wait means that the
  transaction it waited for is final (`TrueAnswers`); the threads exist only once
  the seller has seen T1 final (`Spawned`); and what each thread's control says about flags and
  depth (`SignatureFacts`, `TimeLockFacts`, `MainFacts`). `FinalStable` is the
  lemma that carries it: no step takes depth from a final transaction.
* `SellerSafety`, `OneOutcome`, `Settled` follow from `IInv` in one state;
  `NoDanglingStore` from `IInv` and the lemma that only the two finishing steps
  write a flag; `Refinement` shows every step to be a step of `FairExchange` or a
  stutter, the coins being with whoever the final transactions say.

`CutAndChooseProofs`, for every `T`, `R`, `Choices` and `Cheats`: the inductive
invariant says where the loop is: the chosen indices before `i` are exactly the
first `ix` of the sorted vector (`Position`), everything opened is good, and as long
as no stray match has pushed `ix` past `R` the opened instances are exactly those
before `i` that were not chosen (`Visited`). From it `TypeCorrect`,
`ClosedStaysClosed`, `SoundAudit`, `AssertHoldsWithoutStray` and `Refinement` (of
`Audit`) follow.

`SignatureKeyProofs`, for every `L` and every set of `Deviations`: `TypeCorrect` and
`SoundOpening` (`VerifiedMeansConsistent`). What the property says at the end was
established one index at a time (with the length of each message, which nothing checks), so
the invariant says where the loop is: the
messages opened before `i` are those the digests were computed from (`OpenedSoFar`),
the loop starts at the first key (`LoopStart`), and the result kept for the shared
signature is about what the seller showed (`Shown`).

`SharedSignatureProofs`, for every prime order above 2, every x coordinate that is
equal at opposite points, all moduli and all data: `TypeCorrect`,
`PlaintextNeverWraps` (`NoWrap`), `SignatureSound` (`SignatureIsValid`),
`HonestCompleteness` (`HonestOutcome`) and `OpeningExact` (`OpenIsExact`). The invariant
carries the bound on `N` from the constructor to the computation (`Modulus`), both
public keys as the product of the shares (`Shared`), who was given which data
(`GivenData`), what the nonces and `r` are (`Nonce`), and what `verify` has accepted
(`Accepted`). Below it are lemmas of modular arithmetic (residues of sums and
products, cancelling a factor that has an inverse), and from them:

* `PlaintextBound`: the number that `cont_sig` builds is below the modulus `B()`
  demands, so it does not wrap and its residue modulo `n` is the one meant;
* `SignEquation`: that residue times the inverse of `ks` solves ECDSA's equation;
* `VerifySound` and `VerifyComplete`: `verify` accepts only solutions of the equation,
  and all of them whose x coordinate is below `n`;
* `LowSVerifies`: the lower of `s` and `n - s` verifies as well, because opposite
  points have the same x coordinate.

The second half of that module is about `Paillier`, for every pair of different primes of
which neither divides the other less 1 (two primes of equal length above 2 are such a
pair), all powers and any number of operations: `PaillierHomomorphic` (`Homomorphic`) and
`PaillierRefusal` (`RefusedOnlyForBlinding`). Decryption says nothing about the
ciphertexts before it, so the invariant gives each its form: `c` is
`(1 + m N) r^N mod N^2` for the plaintext `m` meant and some `r` with the residue kept
of what was drawn (`IsCipher`). `CipherAdded` and `CipherScaled` keep the form;
`CipherDivisible` turns the checks of `dec` into facts about `r`; `Unblinded` (by Euler,
`r^phi` is 1 modulo `N`, so its `N`th power is 1 modulo `N^2`) and `OrderInvertible` (the
owner's `u` exists) give `Decrypts`.

`RootExchangeProofs`, for every pair of different odd primes, every
number of rounds, every even number of squares, all requests, draws, plaintexts and
deviations at one index: `TypeCorrect`,
`RootsAreComplete` (`RootsComplete`), `OneRootOnly` (`OneRootPerIndex`), `HalfOpen`
(`ExchangeIsHalfOpen`), `LiesAreCaught` (`LieIsCaught`), `Factorisation`
(`FactoriseOutcome`) and `OnlyTheFactors`. The invariant (`Invariance`) says what `x`, `y`
and `r` are modulo `n`, what the digests hold, and how far every index of every round
has been opened; what is known of a round that has been left is what its last step
showed, so it is kept for all earlier rounds. An index that `factorise` does not skip was
not checked (`ClosedPlace`), and gives the primes if the seller encrypted its roots
(`FactorsAtIndex`): this is why only a lie at an index that was not checked leads to
other numbers. The arithmetic below it: a number has at
most two roots modulo a prime (`RootsOfSquare`), Crypto++'s CRT gives the residue wanted,
so the four numbers that `square_root` sorts are all the roots and the first two are
those up to `n/2`; and a gcd with the difference of two roots that are neither equal
nor opposite is one of the primes (`DivisorsOfProduct`).

`SellInformationProofs`, for every `T`, `R`, wallet, price and fee: `TypeCorrect`,
`KeptFresh` (`KeptAreFresh`), `AmountsAgree` (`AmountsAddUp`), `Threshold`
(`SpendingThreshold`), `ChainTeaches` (`ChainTeachesSignatures`), and `AuditedSaleGoesOn`,
the safety half of `AuditedSaleIsSettled`: after the audit no step throws and the
redemption with the key of any one lock spends T1. The invariant says, stage by stage,
what has been built so far (the copies, the scripts, the transactions, their hash, the
signatures); the work is in the positions: which chunk of the script or of the input a
key or a signature is in, for R = 1 and for every larger R.

`TimedCommitmentProofs`, for all primes, `K`, secrets, claims and `h`: `LockKeepsSecret`
and `OpenAndForceAgree`; `SignatureKeyProofs` takes them over to the instance of
`TimedCommitment` in `LockedShare` as `ShareComesBack` (`LockHoldsSecret`) and
`OpeningIsForcing` (`OpenAgreesWithForce`). The invariant
(`LockInvariance`) says that `u` after `i` squarings is `h^(2^i)`, that the lock is the
secret's bits under the key computed from `phi`, and that whatever is opened was computed
with the same `phi`: a positive number that `open` accepts is one of the two primes
(`DivisorsOfProduct`). By Euler's theorem, in a form that also covers an `h` that shares a
factor with `n`, reducing `2^(2^K)` modulo `phi` changes nothing. The conversions are
proved for every integer: `RoundTrip` says that `bits_to_integer(integer_to_bits(i)) = i`,
zero and bytes that are zero included, and `XorTwice` that the stream cancels.

`Residues` holds what these share: residues of sums and products, inverses modulo a
prime, Euclid's lemma, the divisors of a product of two primes, the laws of `ExpMod`,
Fermat's theorem (the orbits of multiplication by `a` split the residues into sets of
equal size) and Euler's for two primes (`EulerPeriod`). Induction is done with sets in the
place of predicates: `SetInduction` says that a set with 0 and the successors of its
members holds every natural number, and follows from the library's well-foundedness of
`<` (`LeastElement`). What `ExpMod` and the conversions compute by recursive functions is
proved this way, from lemmas that say the function exists.

Only model-checked: the liveness properties (`BuyerIsServed`, `ProcessEnds`,
`HonestIsAccepted`, `HonestExchangeCompletes`, `HonestIsVerified`, `AuditedSaleIsSettled`,
`LockOpens`), which rest on fairness and `ENABLED`, out of this prover's reach. Every
invariant and every action property that a passing run checks is also a theorem. The
primes are any numbers without divisors, and the AES stream of the lock is the one
`Stream` defines.

## 6. What is not modelled, and the plan

Not modelled:

* the regular commitment, which only its own test uses;
* `exp()` and the conversions of strings in the timed commitment, `m_to_int` and
  `encode_signature` in the shared signature: used by tests only, or a fixed-width
  encoding;
* a timed commitment with two equal primes, which two independent draws do not
  exclude (`LockHoldsSecret` is stated for different ones), and a committer who sends
  an `n` of another form;
* an output of value -1, which bitcoinj accepts: with a price of one less than the fee
  `createT2` throws in `SellInformation`, where the server would build a T2 that nobody
  accepts; no property depends on it;
* key commitments of a kept instance that do not hold the keys, in `RootExchange`
  (`SignatureKey` has them), and more than one lie of the seller in an exchange;
* the second lookup of T2 by output in `getSignatures` (`BitcoinUtilsHandler.java:515`),
  which differs from the first only if something else pays the seller's fresh address;
* logging, printing and timing; the balance tool, the C++ stub server, and the sample
  programs of the libraries; bitcoinj, Crypto++ and thrift themselves, which are used
  as external behaviour.

Next, in this order:

1. the safety halves of the liveness properties, as `AuditedSaleGoesOn` is of
   `AuditedSaleIsSettled`: an honest signature and key instance, cut and choose or root
   exchange has no step that throws;
2. `SellInformation` composed with `CutAndChoose` through the verdict of `Audit`.
