----------------------------- MODULE Settlement -----------------------------
(***************************************************************************)
(* The on-chain end of SellInformationProtocol::exec (lines 538 to 545 of  *)
(* main/sell_information.cpp): the buyer broadcasts T1, the seller waits   *)
(* for it and broadcasts T2, and the buyer's two threads race, one to read *)
(* the signatures out of T2, one to break the timed commitments and spend  *)
(* T1's output back.  Both parties run in one process ("main"); every      *)
(* call to a party's wallet is an RPC to a Java server that outlives it.   *)
(*                                                                         *)
(* The bitcoin network and bitcoinj are external: they are modelled from   *)
(* how BitcoinUtilsHandler.java uses them.                                 *)
(***************************************************************************)
EXTENDS Integers

CONSTANTS
  R,          \* common::R, the protocol instances whose timed locks the buyer holds
  GoodLocks,  \* the locks that do contain the seller's key share ds
  Depth,      \* the confirmations both parties ask for (6 in the code)
  MaxPolls,   \* the seconds waitForTransactionHelper waits (3600 in the code)
  MaxReorgs,  \* bound on the chain reorganisations of a behaviour
  Faults      \* what may go wrong around the process, see FaultKinds

(***************************************************************************)
(* T1_fails, T2_fails, redeem_fails                                        *)
(*                  the broadcast of that transaction ends in an exception *)
(* slow_blocks      MaxPolls seconds can pass before Depth blocks do       *)
(* late_watch       a block can arrive between a broadcast and the call of *)
(*                  addWatchedAddress that lets the other wallet see it    *)
(* no_change        T1 has no P2PKH output: the price took a coin exactly  *)
(* verify_T1_fails  no output of T1 has the agreed script and price        *)
(* factorise_fails  no pair of opened roots splits n                       *)
(* crash            the process ends anywhere; a thrift exception does it, *)
(*                  main() catches only ProtocolException                  *)
(***************************************************************************)
FaultKinds == {"T1_fails", "T2_fails", "redeem_fails", "slow_blocks", "late_watch",
               "no_change", "verify_T1_fails", "factorise_fails", "crash"}

Locks == 0..(R - 1)

ASSUME RAssumption == R \in Nat \ {0}
ASSUME GoodLocksAssumption == GoodLocks \subseteq Locks
ASSUME DepthAssumption == Depth \in Nat \ {0}
ASSUME MaxPollsAssumption == MaxPolls \in Nat
ASSUME MaxReorgsAssumption == MaxReorgs \in Nat
ASSUME FaultsAssumption == Faults \subseteq FaultKinds

-----------------------------------------------------------------------------
(* Transactions.  T2 and every redeem transaction spend the output of T1.  *)

T1 == [kind |-> "T1", lock |-> 0]
T2 == [kind |-> "T2", lock |-> 0]
Redeem(l) == [kind |-> "redeem", lock |-> l]
Redeems == {Redeem(l) : l \in Locks}
Spenders == {T2} \cup Redeems
Tx == {T1} \cup Spenders

\* The callers of waitForTransactionHelper.
Waiters == {"seller", "gs", "tl"}

VARIABLES
  cheat,               \* Seller::cheat, an input of main
  proc,                \* the process: "running", "exited" or "terminated"
  pc,                  \* control of the main thread
  tl, j,               \* control and loop variable of solve_time_lock
  gs,                  \* control of get_signature
  signature_finished,
  time_lock_finished,
  pq,                  \* TRUE once factorise has set Buyer::p and Buyer::q
  rpc,                 \* waitForTransactionHelper in the Java servers, per caller
  polls,               \* its loop variable
  sent,                \* transactions the network has
  conf,                \* confirmations of each, counted up to Depth
  watched,             \* transactions whose outputs the wallet of their reader watches
  seen,                \* those that wallet has received
  reorgs               \* reorganisations so far

chain == <<sent, conf, watched, seen, reorgs>>
server == <<rpc, polls>>
flags == <<signature_finished, time_lock_finished>>
threads == <<tl, j, gs>>
vars == <<cheat, proc, pc, tl, j, gs, signature_finished, time_lock_finished,
          pq, rpc, polls, sent, conf, watched, seen, reorgs>>

Running == proc = "running"

Init ==
  /\ cheat \in BOOLEAN
  /\ proc = "running"
  /\ pc = "pay"
  /\ tl = "none" /\ j = 0
  /\ gs = "none"
  /\ signature_finished = FALSE
  /\ time_lock_finished = FALSE
  /\ pq = FALSE
  /\ rpc = [w \in Waiters |-> "idle"]
  /\ polls = [w \in Waiters |-> 0]
  /\ sent = {}
  /\ conf = [t \in Tx |-> 0]
  /\ watched = Redeems       \* they pay an address of the buyer's own wallet
  /\ seen = {}
  /\ reorgs = 0

-----------------------------------------------------------------------------
(* The network.                                                            *)

Conflict(t) == t \in Spenders /\ \E u \in Spenders \ {t} : u \in sent

\* peerGroup().broadcastTransaction(t).future().get() returns ...
Broadcast(t) == sent' = sent \cup {t}

\* ... or throws; a node refuses a second spender of the same output.
BroadcastFails(t) ==
  /\ \/ t = T1 /\ "T1_fails" \in Faults
     \/ t = T2 /\ "T2_fails" \in Faults
     \/ t \in Redeems /\ "redeem_fails" \in Faults
     \/ Conflict(t)
  /\ UNCHANGED sent

Mineable(t) ==
  /\ t \in sent
  /\ conf[t] = 0
  /\ t \in Spenders => conf[T1] > 0 /\ \A u \in Spenders : conf[u] = 0

\* The step that makes the reader's wallet watch t is the next one there.
WatchComing(t) ==
  /\ Running
  /\ \/ t = T1 /\ pc \in {"verify", "watch"}
     \/ t = T2 /\ (pc = "spawn" \/ gs = "watch")

Deeper(c) == IF c \in 1..(Depth - 1) THEN c + 1 ELSE c

\* A block with t in it: a wallet receives t if it watches an output of t by
\* then, never from a block that came before addWatchedAddress.
Mine(t) ==
  /\ Mineable(t)
  /\ t \in watched \/ "late_watch" \in Faults \/ ~WatchComing(t)
  /\ conf' = [u \in Tx |-> IF u = t THEN 1 ELSE Deeper(conf[u])]
  /\ seen' = IF t \in watched THEN seen \cup {t} ELSE seen
  /\ UNCHANGED <<cheat, proc, pc, threads, flags, pq, server, sent, watched, reorgs>>

\* A wallet that watches an output of t may receive t before it is mined.
Relay(t) ==
  /\ t \in sent \cap watched
  /\ t \notin seen
  /\ conf[t] = 0
  /\ seen' = seen \cup {t}
  /\ UNCHANGED <<cheat, proc, pc, threads, flags, pq, server, sent, conf, watched, reorgs>>

MineNothing ==
  /\ \E u \in Tx : conf[u] \in 1..(Depth - 1)
  /\ conf' = [u \in Tx |-> Deeper(conf[u])]
  /\ UNCHANGED <<cheat, proc, pc, threads, flags, pq, server, sent, watched, seen, reorgs>>

\* The last k blocks are replaced; what they held waits to be mined again.
Reorg(k) ==
  /\ reorgs < MaxReorgs
  /\ \E u \in Tx : conf[u] \in 1..k
  /\ reorgs' = reorgs + 1
  /\ conf' = [u \in Tx |-> IF conf[u] \in 1..k THEN 0 ELSE conf[u]]
  /\ UNCHANGED <<cheat, proc, pc, threads, flags, pq, server, sent, watched, seen>>

-----------------------------------------------------------------------------
(* waitForTransactionHelper, run by a Java server for its caller w.        *)

WaitedTx(w) == IF w = "seller" THEN T1 ELSE IF w = "gs" THEN T2 ELSE Redeem(j)

\* What the wallet knows of t's depth: zero for a transaction it never received.
SeenDepth(t) == IF t \in seen THEN conf[t] ELSE 0

Mature_OneBlockEarly(t) == SeenDepth(t) >= Depth - 1
Mature(t) == SeenDepth(t) >= Depth

\* Unless blocks are slow, an hour is enough for Depth blocks: a wait times
\* out only when the chain has made it hopeless.
CanStillConfirm(t) ==
  /\ t \in sent
  /\ conf[t] < Depth \/ t \in seen
  /\ t \in Spenders => \A u \in Spenders \ {t} : conf[u] < Depth

\* One turn of the loop: a second passes.
WaitPoll(w) ==
  /\ rpc[w] = "polling"
  /\ ~Mature(WaitedTx(w))
  /\ polls[w] < MaxPolls
  /\ \/ polls[w] + 1 < MaxPolls
     \/ "slow_blocks" \in Faults
     \/ ~CanStillConfirm(WaitedTx(w))
  /\ polls' = [polls EXCEPT ![w] = @ + 1]
  /\ UNCHANGED <<cheat, proc, pc, threads, flags, pq, rpc, chain>>

WaitLeaveLoop(w) ==
  /\ rpc[w] = "polling"
  /\ Mature(WaitedTx(w)) \/ polls[w] = MaxPolls
  /\ rpc' = [rpc EXCEPT ![w] = "last"]
  /\ UNCHANGED <<cheat, proc, pc, threads, flags, pq, polls, chain>>

\* The getDepthFuture(depth).get(1, SECONDS) after the loop decides the result.
WaitResult(w) ==
  /\ rpc[w] = "last"
  /\ rpc' = [rpc EXCEPT ![w] = IF Mature(WaitedTx(w)) THEN "true" ELSE "false"]
  /\ UNCHANGED <<cheat, proc, pc, threads, flags, pq, polls, chain>>

waitForTransactionHelper(w) == WaitPoll(w) \/ WaitLeaveLoop(w) \/ WaitResult(w)

StartWait(w) ==
  /\ rpc' = [rpc EXCEPT ![w] = "polling"]
  /\ polls' = [polls EXCEPT ![w] = 0]

-----------------------------------------------------------------------------
(* The main thread, playing both parties in turn.  A ProtocolException     *)
(* leaves exec and is caught in main(), which prints p and q and returns.  *)

make_payment ==
  /\ Running /\ pc = "pay"
  /\ \/ Broadcast(T1) /\ pc' = "verify"
     \/ BroadcastFails(T1) /\ pc' = "print"
  /\ UNCHANGED <<cheat, proc, threads, flags, pq, server, conf, watched, seen, reorgs>>

\* verifyTransaction finds no output of T1 with the agreed script and price.
verifyTransaction_false == "verify_T1_fails" \in Faults

\* accept_T1 up to the answer of verifyTransaction.
accept_T1_verify ==
  /\ Running /\ pc = "verify"
  /\ \/ pc' = "watch"
     \/ verifyTransaction_false /\ pc' = "print"
  /\ UNCHANGED <<cheat, proc, threads, flags, pq, server, chain>>

\* waitForTransaction: watch T1's P2PKH outputs, then wait for T1.
waitForTransaction ==
  /\ Running /\ pc = "watch"
  /\ pc' = "wait"
  /\ \/ watched' = watched \cup {T1}
     \/ "no_change" \in Faults /\ UNCHANGED watched
  /\ StartWait("seller")
  /\ UNCHANGED <<cheat, proc, threads, flags, pq, sent, conf, seen, reorgs>>

accept_T1_return_Unchecked ==
  /\ Running /\ pc = "wait"
  /\ rpc["seller"] \in {"true", "false"}
  /\ pc' = "accept"
  /\ UNCHANGED <<cheat, proc, threads, flags, pq, server, chain>>

accept_T1_return ==
  /\ Running /\ pc = "wait"
  /\ \/ rpc["seller"] = "true" /\ pc' = "accept"
     \/ rpc["seller"] = "false" /\ pc' = "print"
  /\ UNCHANGED <<cheat, proc, threads, flags, pq, server, chain>>

accept_payment ==
  /\ Running /\ pc = "accept"
  /\ \/ cheat /\ pc' = "spawn" /\ UNCHANGED sent
     \/ ~cheat /\ Broadcast(T2) /\ pc' = "spawn"
     \/ ~cheat /\ BroadcastFails(T2) /\ pc' = "print"
  /\ UNCHANGED <<cheat, proc, threads, flags, pq, server, conf, watched, seen, reorgs>>

\* wait_for_signature_or_time_lock: both flags false, both threads started.
wait_spawn ==
  /\ Running /\ pc = "spawn"
  /\ pc' = "loop"
  /\ tl' = "force_open" /\ j' = 0
  /\ gs' = "watch"
  /\ signature_finished' = FALSE /\ time_lock_finished' = FALSE
  /\ UNCHANGED <<cheat, proc, pq, server, chain>>

wait_leave_loop_BothFlags ==
  /\ Running /\ pc = "loop"
  /\ signature_finished /\ time_lock_finished
  /\ pc' = "choose"
  /\ UNCHANGED <<cheat, proc, threads, flags, pq, server, chain>>

wait_leave_loop ==
  /\ Running /\ pc = "loop"
  /\ signature_finished \/ time_lock_finished
  /\ pc' = "choose"
  /\ UNCHANGED <<cheat, proc, threads, flags, pq, server, chain>>

\* signature_finished is read again here.
wait_choose ==
  /\ Running /\ pc = "choose"
  /\ pc' = IF signature_finished THEN "join_gs" ELSE "join_tl"
  /\ UNCHANGED <<cheat, proc, threads, flags, pq, server, chain>>

\* Join one thread, detach the other and return: the two atomic_bool are gone.
wait_join ==
  /\ Running
  /\ \/ pc = "join_gs" /\ gs = "done"
     \/ pc = "join_tl" /\ tl = "done"
  /\ pc' = "print"
  /\ UNCHANGED <<cheat, proc, threads, flags, pq, server, chain>>

\* main() prints p and q and returns: the process ends, its threads with it.
main_return ==
  /\ Running /\ pc = "print"
  /\ pc' = "end"
  /\ proc' = "exited"
  /\ UNCHANGED <<cheat, threads, flags, pq, server, chain>>

crash ==
  /\ Running /\ "crash" \in Faults
  /\ proc' = "terminated"
  /\ UNCHANGED <<cheat, pc, threads, flags, pq, server, chain>>

MainThread ==
  \/ make_payment \/ accept_T1_verify \/ waitForTransaction \/ accept_T1_return
  \/ accept_payment \/ wait_spawn \/ wait_leave_loop \/ wait_choose
  \/ wait_join \/ main_return

-----------------------------------------------------------------------------
(* Buyer::solve_time_lock.                                                 *)

\* force_open of lock j, then the request to the buyer's server.
solve_time_lock_force_open ==
  /\ Running /\ tl = "force_open"
  /\ tl' = "redeem"
  /\ UNCHANGED <<cheat, proc, pc, j, gs, flags, pq, server, chain>>

\* redeemTransaction in the server: a wrong key fails TransactionInput.verify;
\* the right one signs a transaction that is broadcast and waited for.
redeemTransaction ==
  /\ tl = "redeem"
  /\ tl' = "redeem_result"
  /\ \/ /\ j \notin GoodLocks \/ BroadcastFails(Redeem(j))
        /\ rpc' = [rpc EXCEPT !["tl"] = "false"]
        /\ UNCHANGED <<polls, sent>>
     \/ /\ j \in GoodLocks
        /\ Broadcast(Redeem(j))
        /\ StartWait("tl")
  /\ UNCHANGED <<cheat, proc, pc, j, gs, flags, pq, conf, watched, seen, reorgs>>

\* The loop for (j = 0; j < R && !res; ++j) goes on, ends in finished = true
\* or, no lock left, in an endless sleep.
solve_time_lock_result_FirstLockOnly ==
  /\ Running /\ tl = "redeem_result"
  /\ \/ /\ rpc["tl"] = "true"
        /\ time_lock_finished' = TRUE
        /\ tl' = "done"
     \/ /\ rpc["tl"] = "false"
        /\ tl' = "sleep_forever"
        /\ UNCHANGED time_lock_finished
  /\ UNCHANGED <<cheat, proc, pc, j, gs, signature_finished, pq, server, chain>>

solve_time_lock_result_OneLockTooMany ==
  /\ Running /\ tl = "redeem_result"
  /\ rpc["tl"] = "false" /\ j < R
  /\ tl' = "force_open"
  /\ j' = j + 1
  /\ UNCHANGED <<cheat, proc, pc, gs, flags, pq, server, chain>>

solve_time_lock_result ==
  /\ Running /\ tl = "redeem_result"
  /\ \/ /\ rpc["tl"] = "true"
        /\ time_lock_finished' = TRUE
        /\ tl' = "done"
        /\ UNCHANGED j
     \/ /\ rpc["tl"] = "false" /\ j < R - 1
        /\ tl' = "force_open"
        /\ j' = j + 1
        /\ UNCHANGED time_lock_finished
     \/ /\ rpc["tl"] = "false" /\ j = R - 1
        /\ tl' = "sleep_forever"
        /\ UNCHANGED <<j, time_lock_finished>>
  /\ UNCHANGED <<cheat, proc, pc, gs, signature_finished, pq, server, chain>>

TimeLockThread ==
  solve_time_lock_force_open \/ redeemTransaction \/ solve_time_lock_result

-----------------------------------------------------------------------------
(* Buyer::get_signature.  An exception leaves the thread's function and    *)
(* calls std::terminate: the whole process dies, the servers do not.       *)

\* waitForTransactionByOutput: watch the seller's address, ...
get_signature_watch ==
  /\ Running /\ gs = "watch"
  /\ gs' = "search"
  /\ watched' = watched \cup {T2}
  /\ UNCHANGED <<cheat, proc, pc, tl, j, flags, pq, server, sent, conf, seen, reorgs>>

\* ... search the wallet every second until a transaction pays it, ...
findTransactionByOutput ==
  /\ gs = "search"
  /\ T2 \in seen
  /\ gs' = "wait"
  /\ StartWait("gs")
  /\ UNCHANGED <<cheat, proc, pc, tl, j, flags, pq, chain>>

\* ... and wait for its confirmations.
get_signature_return_Unchecked ==
  /\ Running /\ gs = "wait"
  /\ rpc["gs"] \in {"true", "false"}
  /\ gs' = "get_signatures"
  /\ UNCHANGED <<cheat, proc, pc, tl, j, flags, pq, server, chain>>

get_signature_return ==
  /\ Running /\ gs = "wait"
  /\ \/ rpc["gs"] = "true" /\ gs' = "get_signatures" /\ UNCHANGED proc
     \/ rpc["gs"] = "false" /\ gs' = "thrown" /\ proc' = "terminated"
  /\ UNCHANGED <<cheat, pc, tl, j, flags, pq, server, chain>>

\* The server looks T2 up once more, in the wallet that has just received it,
\* and reads the signatures in its input script.
getSignatures ==
  /\ gs = "get_signatures"
  /\ gs' = "factorise"
  /\ UNCHANGED <<cheat, proc, pc, tl, j, flags, pq, server, chain>>

\* The keys the signatures give decrypt the roots (RootExchange).
factorise ==
  /\ Running /\ gs = "factorise"
  /\ \/ gs' = "finish" /\ pq' = TRUE /\ UNCHANGED proc
     \/ /\ "factorise_fails" \in Faults
        /\ gs' = "thrown" /\ proc' = "terminated" /\ UNCHANGED pq
  /\ UNCHANGED <<cheat, pc, tl, j, flags, server, chain>>

get_signature_finish ==
  /\ Running /\ gs = "finish"
  /\ gs' = "done"
  /\ signature_finished' = TRUE
  /\ UNCHANGED <<cheat, proc, pc, tl, j, time_lock_finished, pq, server, chain>>

SignatureThread ==
  \/ get_signature_watch \/ findTransactionByOutput \/ get_signature_return
  \/ getSignatures \/ factorise \/ get_signature_finish

-----------------------------------------------------------------------------

Network ==
  \/ \E t \in Tx : Mine(t)
  \/ \E t \in Tx : Relay(t)
  \/ MineNothing
  \/ \E k \in 1..(Depth - 1) : Reorg(k)

Next ==
  \/ MainThread
  \/ crash
  \/ TimeLockThread
  \/ SignatureThread
  \/ \E w \in Waiters : waitForTransactionHelper(w)
  \/ Network

Spec == Init /\ [][Next]_vars

\* Runnable threads run, servers answer, and miners go on mining: blocks
\* come, and a transaction that can be mined is not left out for ever.
Fairness ==
  /\ WF_vars(MainThread)
  /\ WF_vars(TimeLockThread)
  /\ WF_vars(SignatureThread)
  /\ \A w \in Waiters : WF_vars(waitForTransactionHelper(w))
  /\ WF_vars(\E t \in Tx : Mine(t))
  /\ WF_vars(MineNothing)

FairSpec == Spec /\ Fairness

-----------------------------------------------------------------------------
(* Properties.                                                             *)

\* Every variable keeps its type; solve_time_lock's j stays an index of
\* single_buyers, the array its loop body reads.
TypeOK ==
  /\ cheat \in BOOLEAN
  /\ proc \in {"running", "exited", "terminated"}
  /\ pc \in {"pay", "verify", "watch", "wait", "accept", "spawn", "loop",
             "choose", "join_gs", "join_tl", "print", "end"}
  /\ tl \in {"none", "force_open", "redeem", "redeem_result", "done", "sleep_forever"}
  /\ j \in Locks
  /\ gs \in {"none", "watch", "search", "wait", "get_signatures", "factorise",
             "finish", "done", "thrown"}
  /\ signature_finished \in BOOLEAN
  /\ time_lock_finished \in BOOLEAN
  /\ pq \in BOOLEAN
  /\ rpc \in [Waiters -> {"idle", "polling", "last", "true", "false"}]
  /\ polls \in [Waiters -> 0..MaxPolls]
  /\ sent \subseteq Tx
  /\ conf \in [Tx -> 0..Depth]
  /\ watched \subseteq Tx
  /\ seen \subseteq Tx
  /\ reorgs \in 0..MaxReorgs

Final(t) == conf[t] = Depth
Refunded == \E r \in Redeems : Final(r)

\* The seller shows its signatures to the network only when the payment they
\* claim is final: T2 is broadcast after accept_T1's wait, and no
\* reorganisation can then take T1 away.
SellerRevealsOnlyWhenPaid == T2 \in sent => Final(T1)

\* The two threads' outcomes exclude each other: the buyer is never told both
\* that it has the signatures and that it has its money back, in whatever
\* order the threads, the two waits, blocks and reorganisations interleave.
ExclusiveOutcome == ~(signature_finished /\ time_lock_finished)

\* The atomic_bool a thread stores to when it finishes live in the frame of
\* wait_for_signature_or_time_lock.  Once that function has returned, the
\* thread it detached never gets to its store.
FrameGone == gs # "none" /\ pc \in {"print", "end"}
NoStoreToDeadFrame == [][FrameGone => UNCHANGED flags]_vars

\* When exec returns without an exception the buyer has one of the two things
\* it waited for, and main() prints p and q exactly when the seller has the
\* price (the p and q read by main() are those the joined thread wrote).
ReturnMeansSettled ==
  FrameGone => \/ Final(T2) /\ pq
               \/ Refunded /\ ~pq

coins == IF Final(T2) THEN "seller"
         ELSE IF Refunded THEN "refund"
         ELSE IF Final(T1) THEN "escrow"
         ELSE "buyer"

FE == INSTANCE FairExchange WITH coins <- coins, knows <- pq

\* The settlement implements the exchange the README describes: final coins
\* move from the buyer to the escrow and from there to exactly one party, and
\* the buyer factorises n only after the seller has the price.
ImplementsFairExchange == FE!Spec

\* README lines 4 to 7, as a liveness property: a buyer whose payment is final
\* learns p and q or gets the payment back.
BuyerIsServed == FE!Promise

\* README lines 4 and 5, "Buyer pays agreed amount of bitcoins a in return
\* learns p, q": once the seller has the price the buyer learns p and q.
PaidSaleTeaches == (coins = "seller") ~> pq

\* The process does not hang: main() returns or std::terminate ends it.
ProcessEnds == <>(proc # "running")

=============================================================================
