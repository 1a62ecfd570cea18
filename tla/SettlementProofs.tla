-------------------------- MODULE SettlementProofs --------------------------
(***************************************************************************)
(* Proofs that Settlement keeps its safety properties, and implements      *)
(* FairExchange, for every number of locks, every depth, every number of   *)
(* polls and of reorganisations, and every set of faults.                  *)
(***************************************************************************)
EXTENDS Settlement, TLAPS

EarlyPC == {"pay", "verify", "watch", "wait", "accept", "spawn"}
LatePC == {"choose", "join_gs", "join_tl", "print", "end"}

-----------------------------------------------------------------------------
(* The inductive invariant, in parts.                                      *)

\* Blocks hold only what was broadcast.
MinedSent == \A t \in Tx : conf[t] > 0 => t \in sent

\* The output of T1 is spent once.
OneSpender == \A t, u \in Spenders : t # u => conf[t] = 0 \/ conf[u] = 0

\* Nothing spends the output of T1 before T1 is final.
SpentPaid == \A t \in Spenders : t \in sent => Final(T1)

\* A server's "true" is about a final transaction, and stays true.
TrueAnswers == \A w \in Waiters : rpc[w] = "true" => Final(WaitedTx(w))

\* The threads exist only once the seller has seen T1 final.
Spawned ==
  /\ pc \in {"accept", "spawn"} => Final(T1)
  /\ tl # "none" => Final(T1) /\ gs # "none"
  /\ pc \in EarlyPC => tl = "none" /\ gs = "none"
  /\ tl = "none" => rpc["tl"] = "idle"
  /\ tl \in {"force_open", "redeem"} => rpc["tl"] \in {"idle", "false"}
  /\ gs = "none" => ~signature_finished /\ ~time_lock_finished /\ ~pq

\* How far a thread is and what it has stored tell what is final.
SignatureFacts ==
  /\ gs \in {"get_signatures", "factorise", "finish", "done"} => Final(T2)
  /\ gs \in {"finish", "done"} => pq
  /\ gs = "done" <=> signature_finished
  /\ pq => Final(T2)

TimeLockFacts ==
  /\ tl = "done" <=> time_lock_finished
  /\ time_lock_finished => Final(Redeem(j))

\* The main thread leaves its loop only for a flag, and knows which one.
MainFacts ==
  /\ pc \in LatePC /\ gs # "none" => signature_finished \/ time_lock_finished
  /\ pc \in {"choose", "join_gs", "join_tl"} => gs # "none"
  /\ pc = "join_gs" => signature_finished
  /\ pc = "join_tl" => time_lock_finished

IInv ==
  /\ TypeOK
  /\ MinedSent
  /\ OneSpender
  /\ SpentPaid
  /\ TrueAnswers
  /\ Spawned
  /\ SignatureFacts
  /\ TimeLockFacts
  /\ MainFacts

-----------------------------------------------------------------------------
(* Transactions.                                                           *)

\* T1, T2 and the redeem transactions are different transactions.
LEMMA TxFacts ==
  /\ T1 \in Tx /\ T2 \in Tx /\ T2 \in Spenders
  /\ T1 \notin Spenders
  /\ \A l \in Locks : Redeem(l) \in Redeems /\ Redeem(l) \in Tx /\ Redeem(l) \in Spenders
  /\ \A r \in Redeems : r # T2 /\ r \in Spenders /\ r \in Tx
  /\ \A t \in Spenders : t \in Tx /\ (t = T2 \/ t \in Redeems)
  /\ \A t \in Tx : t = T1 \/ t \in Spenders
<1>1. T1 # T2
  BY DEF T1, T2
<1>2. \A l : Redeem(l) # T1 /\ Redeem(l) # T2
  BY DEF T1, T2, Redeem
<1>3. QED
  BY <1>1, <1>2 DEF Tx, Spenders, Redeems

\* solve_time_lock's loop variable starts inside the array and, incremented
\* below R - 1, stays there.
LEMMA LockFacts ==
  /\ 0 \in Locks
  /\ \A l \in Locks : l < R - 1 => l + 1 \in Locks
BY RAssumption DEF Locks

\* The transaction a server waits for.
LEMMA WaitedTxType ==
  ASSUME j \in Locks, NEW w \in Waiters
  PROVE  WaitedTx(w) \in Tx
BY TxFacts DEF WaitedTx

-----------------------------------------------------------------------------
(* Type correctness.                                                       *)

LEMMA TypeStep == TypeOK /\ [Next]_vars => TypeOK'
<1> SUFFICES ASSUME TypeOK, [Next]_vars PROVE TypeOK'
  OBVIOUS
<1> USE TxFacts, RAssumption, DepthAssumption, MaxPollsAssumption, MaxReorgsAssumption
<1>1. CASE make_payment
  BY <1>1 DEF TypeOK, make_payment, Broadcast, BroadcastFails, threads, flags, server
<1>2. CASE accept_T1_verify
  BY <1>2 DEF TypeOK, accept_T1_verify, threads, flags, server, chain
<1>3. CASE waitForTransaction
  BY <1>3 DEF TypeOK, waitForTransaction, StartWait, threads, flags, Waiters
<1>4. CASE accept_T1_return
  BY <1>4 DEF TypeOK, accept_T1_return, threads, flags, server, chain
<1>5. CASE accept_payment
  BY <1>5 DEF TypeOK, accept_payment, Broadcast, BroadcastFails, threads, flags, server
<1>6. CASE wait_spawn
  BY <1>6, LockFacts DEF TypeOK, wait_spawn, server, chain
<1>7. CASE wait_leave_loop
  BY <1>7 DEF TypeOK, wait_leave_loop, threads, flags, server, chain
<1>8. CASE wait_choose
  BY <1>8 DEF TypeOK, wait_choose, threads, flags, server, chain
<1>9. CASE wait_join
  BY <1>9 DEF TypeOK, wait_join, threads, flags, server, chain
<1>10. CASE main_return
  BY <1>10 DEF TypeOK, main_return, threads, flags, server, chain
<1>11. CASE crash
  BY <1>11 DEF TypeOK, crash, threads, flags, server, chain
<1>12. CASE solve_time_lock_force_open
  BY <1>12 DEF TypeOK, solve_time_lock_force_open, flags, server, chain
<1>13. CASE redeemTransaction
  BY <1>13 DEF TypeOK, redeemTransaction, Broadcast, BroadcastFails, StartWait, flags, Waiters
<1>14. CASE solve_time_lock_result
  <2>1. j' \in Locks
    BY <1>14, LockFacts DEF TypeOK, solve_time_lock_result
  <2>2. /\ tl' \in {"force_open", "done", "sleep_forever"}
        /\ time_lock_finished' \in BOOLEAN
    BY <1>14 DEF TypeOK, solve_time_lock_result
  <2>3. QED
    BY <1>14, <2>1, <2>2 DEF TypeOK, solve_time_lock_result, server, chain
<1>15. CASE get_signature_watch
  BY <1>15 DEF TypeOK, get_signature_watch, flags, server
<1>16. CASE findTransactionByOutput
  BY <1>16 DEF TypeOK, findTransactionByOutput, StartWait, flags, chain, Waiters
<1>17. CASE get_signature_return
  BY <1>17 DEF TypeOK, get_signature_return, flags, server, chain
<1>17a. CASE getSignatures
  BY <1>17a DEF TypeOK, getSignatures, flags, server, chain
<1>18. CASE factorise
  BY <1>18 DEF TypeOK, factorise, flags, server, chain
<1>19. CASE get_signature_finish
  BY <1>19 DEF TypeOK, get_signature_finish, server, chain
<1>20. ASSUME NEW w \in Waiters, waitForTransactionHelper(w) PROVE TypeOK'
  <2>1. CASE WaitPoll(w)
    BY <2>1 DEF TypeOK, WaitPoll, threads, flags, chain
  <2>2. CASE WaitLeaveLoop(w)
    BY <2>2 DEF TypeOK, WaitLeaveLoop, threads, flags, chain
  <2>3. CASE WaitResult(w)
    BY <2>3 DEF TypeOK, WaitResult, threads, flags, chain
  <2>4. QED
    BY <1>20, <2>1, <2>2, <2>3 DEF waitForTransactionHelper
<1>21. ASSUME NEW t \in Tx, Mine(t) PROVE TypeOK'
  BY <1>21 DEF TypeOK, Mine, Deeper, threads, flags, server
<1>22. ASSUME NEW t \in Tx, Relay(t) PROVE TypeOK'
  BY <1>22 DEF TypeOK, Relay, threads, flags, server
<1>23. CASE MineNothing
  BY <1>23 DEF TypeOK, MineNothing, Deeper, threads, flags, server
<1>24. ASSUME NEW k \in 1..(Depth - 1), Reorg(k) PROVE TypeOK'
  BY <1>24 DEF TypeOK, Reorg, threads, flags, server
<1>25. CASE UNCHANGED vars
  BY <1>25 DEF TypeOK, vars
<1>26. QED
  BY <1>1, <1>2, <1>3, <1>4, <1>5, <1>6, <1>7, <1>8, <1>9, <1>10, <1>11, <1>12,
     <1>13, <1>14, <1>15, <1>16, <1>17, <1>17a, <1>18, <1>19, <1>20, <1>21, <1>22,
     <1>23, <1>24, <1>25
  DEF Next, MainThread, TimeLockThread, SignatureThread, Network

LEMMA TypeInit == Init => TypeOK
<1> SUFFICES ASSUME Init PROVE TypeOK
  OBVIOUS
<1>1. watched \subseteq Tx
  BY DEF Init, Tx, Spenders
<1>2. /\ rpc \in [Waiters -> {"idle", "polling", "last", "true", "false"}]
      /\ polls \in [Waiters -> 0..MaxPolls]
      /\ conf \in [Tx -> 0..Depth]
      /\ reorgs \in 0..MaxReorgs
  BY DepthAssumption, MaxPollsAssumption, MaxReorgsAssumption DEF Init
<1>3. QED
  BY <1>1, <1>2, LockFacts DEF Init, TypeOK

\* Every reachable state of the settlement is well typed; in particular
\* solve_time_lock never indexes single_buyers out of its R elements.
THEOREM TypeCorrect == Spec => []TypeOK
BY TypeInit, TypeStep, PTL DEF Spec

-----------------------------------------------------------------------------
(* The chain.                                                              *)

\* Only blocks and reorganisations change the confirmations.
LEMMA ConfChange ==
  ASSUME [Next]_vars
  PROVE  \/ UNCHANGED conf
         \/ \E t \in Tx : Mine(t)
         \/ MineNothing
         \/ \E k \in 1..(Depth - 1) : Reorg(k)
<1>1. CASE MainThread
  BY <1>1 DEF MainThread, make_payment, accept_T1_verify, waitForTransaction,
     accept_T1_return, accept_payment, wait_spawn, wait_leave_loop, wait_choose,
     wait_join, main_return, chain
<1>2. CASE crash
  BY <1>2 DEF crash, chain
<1>3. CASE TimeLockThread
  BY <1>3 DEF TimeLockThread, solve_time_lock_force_open, redeemTransaction,
     solve_time_lock_result, chain
<1>4. CASE SignatureThread
  BY <1>4 DEF SignatureThread, get_signature_watch, findTransactionByOutput,
     get_signature_return, getSignatures, factorise, get_signature_finish, chain
<1>5. CASE \E w \in Waiters : waitForTransactionHelper(w)
  BY <1>5 DEF waitForTransactionHelper, WaitPoll, WaitLeaveLoop, WaitResult, chain
<1>6. CASE Network
  BY <1>6 DEF Network, Relay
<1>7. CASE UNCHANGED vars
  BY <1>7 DEF vars
<1>8. QED
  BY <1>1, <1>2, <1>3, <1>4, <1>5, <1>6, <1>7 DEF Next

\* A transaction with Depth confirmations keeps them: reorganisations are
\* shallower than that.
LEMMA FinalStable ==
  ASSUME TypeOK, [Next]_vars, NEW t \in Tx, Final(t)
  PROVE  Final(t)'
<1> USE DepthAssumption DEF Final
<1>1. CASE UNCHANGED conf
  BY <1>1
<1>2. ASSUME NEW u \in Tx, Mine(u) PROVE Final(t)'
  BY <1>2 DEF Mine, Mineable, Deeper, TypeOK
<1>3. CASE MineNothing
  BY <1>3 DEF MineNothing, Deeper, TypeOK
<1>4. ASSUME NEW k \in 1..(Depth - 1), Reorg(k) PROVE Final(t)'
  BY <1>4 DEF Reorg, TypeOK
<1>5. QED
  BY <1>1, <1>2, <1>3, <1>4, ConfChange

\* Nothing is ever taken back from the network.
LEMMA SentGrows ==
  ASSUME [Next]_vars
  PROVE  sent \subseteq sent'
<1>1. CASE MainThread
  BY <1>1 DEF MainThread, make_payment, accept_T1_verify, waitForTransaction,
     accept_T1_return, accept_payment, wait_spawn, wait_leave_loop, wait_choose,
     wait_join, main_return, Broadcast, BroadcastFails, chain
<1>2. CASE crash
  BY <1>2 DEF crash, chain
<1>3. CASE TimeLockThread
  BY <1>3 DEF TimeLockThread, solve_time_lock_force_open, redeemTransaction,
     solve_time_lock_result, Broadcast, chain
<1>4. CASE SignatureThread
  BY <1>4 DEF SignatureThread, get_signature_watch, findTransactionByOutput,
     get_signature_return, getSignatures, factorise, get_signature_finish, chain
<1>5. CASE \E w \in Waiters : waitForTransactionHelper(w)
  BY <1>5 DEF waitForTransactionHelper, WaitPoll, WaitLeaveLoop, WaitResult, chain
<1>6. CASE Network
  BY <1>6 DEF Network, Mine, Relay, MineNothing, Reorg
<1>7. CASE UNCHANGED vars
  BY <1>7 DEF vars
<1>8. QED
  BY <1>1, <1>2, <1>3, <1>4, <1>5, <1>6, <1>7 DEF Next

LEMMA ChainStep ==
  ASSUME TypeOK, MinedSent, OneSpender, [Next]_vars
  PROVE  MinedSent' /\ OneSpender'
<1> USE TxFacts, DepthAssumption
<1>1. CASE UNCHANGED conf
  BY <1>1, SentGrows DEF MinedSent, OneSpender
<1>2. ASSUME NEW u \in Tx, Mine(u) PROVE MinedSent' /\ OneSpender'
  <2>1. \A t \in Tx : conf'[t] > 0 => conf[t] > 0 \/ t = u
    BY <1>2 DEF Mine, Deeper, TypeOK
  <2>2. MinedSent'
    BY <1>2, <2>1 DEF Mine, Mineable, MinedSent
  <2>3. \A t \in Spenders : u \in Spenders => conf[t] = 0
    BY <1>2 DEF Mine, Mineable
  <2>4. \A t \in Tx : conf'[t] \in Nat /\ conf[t] \in Nat
    BY <1>2, TypeStep DEF TypeOK
  <2>5. OneSpender'
    BY <2>1, <2>3, <2>4 DEF OneSpender
  <2>6. QED
    BY <2>2, <2>5
<1>3. ASSUME MineNothing \/ \E k \in 1..(Depth - 1) : Reorg(k)
      PROVE  MinedSent' /\ OneSpender'
  <2>1. UNCHANGED sent
    BY <1>3 DEF MineNothing, Reorg
  <2>2. \A t \in Tx : conf[t] = 0 => conf'[t] = 0
    BY <1>3 DEF MineNothing, Reorg, Deeper, TypeOK
  <2>3. \A t \in Tx : conf[t] \in Nat
    BY DEF TypeOK
  <2>4. QED
    BY <2>1, <2>2, <2>3 DEF MinedSent, OneSpender
<1>4. QED
  BY <1>1, <1>2, <1>3, ConfChange

-----------------------------------------------------------------------------
(* The rest of the invariant, action by action.                            *)

\* What the processes know; the parts of IInv that ChainStep leaves.
ProcessFacts ==
  /\ SpentPaid
  /\ TrueAnswers
  /\ Spawned
  /\ SignatureFacts
  /\ TimeLockFacts
  /\ MainFacts

LEMMA ProcessStep ==
  ASSUME IInv, [Next]_vars
  PROVE  ProcessFacts'
<1> DEFINE Stable == \A t \in Tx : conf[t] = Depth => conf'[t] = Depth
<1>a. Stable
  BY FinalStable DEF IInv, Final
<1>b. j \in Locks /\ TypeOK
  BY DEF IInv, TypeOK
<1> USE <1>a, <1>b, TxFacts, LockFacts
<1> USE DEF IInv, ProcessFacts, SpentPaid, TrueAnswers, Spawned, SignatureFacts,
        TimeLockFacts, MainFacts, Final, WaitedTx, EarlyPC, LatePC, Waiters
<1>1. CASE make_payment
  BY <1>1 DEF make_payment, Broadcast, BroadcastFails, threads, flags, server
<1>2. CASE accept_T1_verify
  BY <1>2 DEF accept_T1_verify, threads, flags, server, chain
<1>3. CASE waitForTransaction
  BY <1>3 DEF waitForTransaction, StartWait, threads, flags, TypeOK
<1>4. CASE accept_T1_return
  BY <1>4 DEF accept_T1_return, threads, flags, server, chain
<1>5. CASE accept_payment
  BY <1>5 DEF accept_payment, Broadcast, BroadcastFails, threads, flags, server
<1>6. CASE wait_spawn
  BY <1>6 DEF wait_spawn, server, chain
<1>7. CASE wait_leave_loop
  BY <1>7 DEF wait_leave_loop, threads, flags, server, chain
<1>8. CASE wait_choose
  BY <1>8 DEF wait_choose, threads, flags, server, chain
<1>9. CASE wait_join
  BY <1>9 DEF wait_join, threads, flags, server, chain
<1>10. CASE main_return
  BY <1>10 DEF main_return, threads, flags, server, chain
<1>11. CASE crash
  BY <1>11 DEF crash, threads, flags, server, chain
<1>12. CASE solve_time_lock_force_open
  BY <1>12 DEF solve_time_lock_force_open, flags, server, chain
<1>13. CASE redeemTransaction
  BY <1>13 DEF redeemTransaction, Broadcast, BroadcastFails, StartWait, flags, TypeOK
<1>14. CASE solve_time_lock_result
  <2>1. UNCHANGED <<pc, gs, signature_finished, pq, rpc, sent, conf>>
    BY <1>14 DEF solve_time_lock_result, server, chain
  <2>2. ASSUME rpc["tl"] = "true", time_lock_finished' = TRUE, tl' = "done", UNCHANGED j
        PROVE  ProcessFacts'
    BY <1>14, <2>1, <2>2 DEF solve_time_lock_result
  <2>3. ASSUME rpc["tl"] = "false", tl' = "force_open", j' \in Locks,
               UNCHANGED time_lock_finished
        PROVE  ProcessFacts'
    BY <1>14, <2>1, <2>3 DEF solve_time_lock_result
  <2>4. ASSUME rpc["tl"] = "false", tl' = "sleep_forever", UNCHANGED <<j, time_lock_finished>>
        PROVE  ProcessFacts'
    BY <1>14, <2>1, <2>4 DEF solve_time_lock_result
  <2>5. QED
    BY <1>14, <2>2, <2>3, <2>4 DEF solve_time_lock_result
<1>15. CASE get_signature_watch
  BY <1>15 DEF get_signature_watch, flags, server
<1>16. CASE findTransactionByOutput
  BY <1>16 DEF findTransactionByOutput, StartWait, flags, chain, TypeOK
<1>17. CASE get_signature_return
  BY <1>17 DEF get_signature_return, flags, server, chain
<1>17a. CASE getSignatures
  BY <1>17a DEF getSignatures, flags, server, chain
<1>18. CASE factorise
  BY <1>18 DEF factorise, flags, server, chain
<1>19. CASE get_signature_finish
  BY <1>19 DEF get_signature_finish, server, chain
<1>20. ASSUME NEW w \in Waiters, waitForTransactionHelper(w) PROVE ProcessFacts'
  <2>1. CASE WaitPoll(w)
    BY <2>1 DEF WaitPoll, threads, flags, chain
  <2>2. CASE WaitLeaveLoop(w)
    BY <2>2 DEF WaitLeaveLoop, threads, flags, chain, TypeOK
  <2>3. CASE WaitResult(w)
    <3>1. Mature(WaitedTx(w)) => conf[WaitedTx(w)] = Depth
      BY WaitedTxType, DepthAssumption DEF Mature, SeenDepth, TypeOK
    <3>2. TrueAnswers'
      BY <2>3, <3>1 DEF WaitResult, threads, chain, TypeOK
    <3>3. rpc["tl"] \in {"idle", "false"} => rpc'["tl"] = rpc["tl"]
      BY <2>3 DEF WaitResult, TypeOK
    <3>4. QED
      BY <2>3, <3>2, <3>3 DEF WaitResult, threads, flags, chain
  <2>4. QED
    BY <1>20, <2>1, <2>2, <2>3 DEF waitForTransactionHelper
<1>21. CASE Network
  <2>1. UNCHANGED <<pc, tl, j, gs, signature_finished, time_lock_finished, pq, rpc, sent>>
    BY <1>21 DEF Network, Mine, Relay, MineNothing, Reorg, threads, flags, server
  <2>2. QED
    BY <2>1
<1>22. CASE UNCHANGED vars
  BY <1>22 DEF vars
<1>23. QED
  BY <1>1, <1>2, <1>3, <1>4, <1>5, <1>6, <1>7, <1>8, <1>9, <1>10, <1>11, <1>12,
     <1>13, <1>14, <1>15, <1>16, <1>17, <1>17a, <1>18, <1>19, <1>20, <1>21, <1>22
  DEF Next, MainThread, TimeLockThread, SignatureThread

-----------------------------------------------------------------------------
(* The theorems.                                                           *)

LEMMA IInvInit == Init => IInv
<1> SUFFICES ASSUME Init PROVE IInv
  OBVIOUS
<1>1. TypeOK
  BY TypeInit
<1>2. MinedSent /\ OneSpender
  BY TxFacts DEF Init, MinedSent, OneSpender
<1>3. SpentPaid
  BY DEF Init, SpentPaid
<1>4. TrueAnswers
  BY DEF Init, TrueAnswers
<1>5. Spawned
  BY DEF Init, Spawned, Waiters
<1>6. SignatureFacts /\ TimeLockFacts /\ MainFacts
  BY DEF Init, SignatureFacts, TimeLockFacts, MainFacts, LatePC
<1>7. QED
  BY <1>1, <1>2, <1>3, <1>4, <1>5, <1>6 DEF IInv

LEMMA IInvStep == IInv /\ [Next]_vars => IInv'
BY TypeStep, ChainStep, ProcessStep DEF IInv, ProcessFacts

\* The facts that tie the control of every thread and the answers of the
\* servers to what is final on the chain hold in every reachable state.
THEOREM Invariance == Spec => []IInv
BY IInvInit, IInvStep, PTL DEF Spec

\* The seller's signatures reach the network only when T1 is final, whatever
\* fails and whatever the depth, the timeouts and the reorganisations are.
THEOREM SellerSafety == Spec => []SellerRevealsOnlyWhenPaid
<1>1. IInv => SellerRevealsOnlyWhenPaid
  BY TxFacts DEF IInv, SpentPaid, SellerRevealsOnlyWhenPaid
<1>2. QED
  BY <1>1, Invariance, PTL

\* T2 and a redeem transaction are never both final.
LEMMA NotBoth == IInv => ~(Final(T2) /\ Refunded)
BY TxFacts, DepthAssumption DEF IInv, OneSpender, Final, Refunded

\* The two threads of wait_for_signature_or_time_lock never both report success.
THEOREM OneOutcome == Spec => []ExclusiveOutcome
<1>1. IInv => ExclusiveOutcome
  <2> SUFFICES ASSUME IInv, signature_finished, time_lock_finished PROVE FALSE
    BY DEF ExclusiveOutcome
  <2>1. Final(T2)
    BY DEF IInv, SignatureFacts
  <2>2. Refunded
    BY TxFacts DEF IInv, TypeOK, TimeLockFacts, Refunded
  <2>3. QED
    BY <2>1, <2>2, NotBoth
<1>2. QED
  BY <1>1, Invariance, PTL

\* When exec returns, the buyer has p and q and the seller the price, or the
\* buyer has the price back and main() prints no p and q.
THEOREM Settled == Spec => []ReturnMeansSettled
<1>1. IInv => ReturnMeansSettled
  <2> SUFFICES ASSUME IInv, FrameGone
               PROVE  (Final(T2) /\ pq) \/ (Refunded /\ ~pq)
    BY DEF ReturnMeansSettled
  <2>1. signature_finished \/ time_lock_finished
    BY DEF IInv, FrameGone, MainFacts, LatePC
  <2>2. CASE signature_finished
    <3>1. gs = "done"
      BY <2>2 DEF IInv, SignatureFacts
    <3>2. Final(T2) /\ pq
      BY <3>1 DEF IInv, SignatureFacts
    <3>3. QED
      BY <3>2
  <2>3. CASE time_lock_finished
    <3>1. Refunded
      BY <2>3, TxFacts DEF IInv, TypeOK, TimeLockFacts, Refunded
    <3>2. ~pq
      BY <3>1, NotBoth DEF IInv, SignatureFacts
    <3>3. QED
      BY <3>1, <3>2
  <2>4. QED
    BY <2>1, <2>2, <2>3
<1>2. QED
  BY <1>1, Invariance, PTL

\* Each flag has one writer, the thread it reports on, and wait_spawn.
LEMMA FlagWriters ==
  ASSUME [Next]_vars
  PROVE  \/ UNCHANGED flags
         \/ wait_spawn \/ get_signature_finish \/ solve_time_lock_result
<1>1. CASE MainThread
  BY <1>1 DEF MainThread, make_payment, accept_T1_verify, waitForTransaction,
     accept_T1_return, accept_payment, wait_leave_loop, wait_choose, wait_join,
     main_return
<1>2. CASE crash
  BY <1>2 DEF crash
<1>3. CASE TimeLockThread
  BY <1>3 DEF TimeLockThread, solve_time_lock_force_open, redeemTransaction
<1>4. CASE SignatureThread
  BY <1>4 DEF SignatureThread, get_signature_watch, findTransactionByOutput,
     get_signature_return, getSignatures, factorise
<1>5. CASE \E w \in Waiters : waitForTransactionHelper(w)
  BY <1>5 DEF waitForTransactionHelper, WaitPoll, WaitLeaveLoop, WaitResult
<1>6. CASE Network
  BY <1>6 DEF Network, Mine, Relay, MineNothing, Reorg
<1>7. CASE UNCHANGED vars
  BY <1>7 DEF vars, flags
<1>8. QED
  BY <1>1, <1>2, <1>3, <1>4, <1>5, <1>6, <1>7 DEF Next

\* The thread that is detached never stores to an atomic_bool of the frame
\* that wait_for_signature_or_time_lock has left.
THEOREM NoDanglingStore == Spec => NoStoreToDeadFrame
<1>1. IInv /\ [Next]_vars => [FrameGone => UNCHANGED flags]_vars
  <2> SUFFICES ASSUME IInv, [Next]_vars, FrameGone PROVE UNCHANGED flags
    OBVIOUS
  <2>1. signature_finished \/ time_lock_finished
    BY DEF IInv, FrameGone, MainFacts, LatePC
  <2>2. CASE wait_spawn
    BY <2>2 DEF wait_spawn, FrameGone
  <2>3. CASE get_signature_finish
    <3>1. Final(T2) /\ ~signature_finished
      BY <2>3 DEF get_signature_finish, IInv, SignatureFacts
    <3>2. Refunded
      BY <2>1, <3>1, TxFacts DEF IInv, TypeOK, TimeLockFacts, Refunded
    <3>3. QED
      BY <3>1, <3>2, NotBoth
  <2>4. CASE solve_time_lock_result
    <3>1. ~time_lock_finished
      BY <2>4 DEF solve_time_lock_result, IInv, TimeLockFacts
    <3>2. Final(T2)
      BY <2>1, <3>1 DEF IInv, SignatureFacts
    <3>3. rpc["tl"] # "true"
      BY <3>2, NotBoth, TxFacts
         DEF IInv, TypeOK, TrueAnswers, WaitedTx, Waiters, Refunded
    <3>4. QED
      BY <2>4, <3>3 DEF solve_time_lock_result, flags
  <2>5. QED
    BY <2>2, <2>3, <2>4, FlagWriters
<1>2. QED
  BY <1>1, Invariance, PTL DEF Spec, NoStoreToDeadFrame

-----------------------------------------------------------------------------
(* Settlement implements FairExchange.                                     *)

\* In one step T1 may become final, or one spender of it once it is.
LEMMA CoinsStep ==
  ASSUME IInv, [Next]_vars
  PROVE  \/ UNCHANGED coins
         \/ coins = "buyer" /\ coins' = "escrow"
         \/ coins = "escrow" /\ coins' \in {"seller", "refund"}
<1>1. IInv'
  BY IInvStep
<1>2. \A t \in Tx : Final(t) => Final(t)'
  BY FinalStable DEF IInv
<1>3. ~(Final(T2) /\ Refunded) /\ ~(Final(T2) /\ Refunded)'
  BY <1>1, NotBoth, DepthAssumption, TxFacts DEF IInv, OneSpender, Final, Refunded
<1>4. Refunded => Refunded'
  BY <1>2, TxFacts DEF Refunded, Final
<1>5. \A t \in Spenders : Final(t)' => Final(T1)
  <2> SUFFICES ASSUME NEW t \in Spenders, Final(t)' PROVE Final(T1)
    OBVIOUS
  <2>1. CASE UNCHANGED conf
    BY <2>1, TxFacts, DepthAssumption DEF Final, IInv, MinedSent, SpentPaid
  <2>2. CASE ~UNCHANGED conf
    <3>1. UNCHANGED sent
      BY <2>2, ConfChange DEF Mine, MineNothing, Reorg
    <3>2. t \in sent
      BY <1>1, <3>1, TxFacts, DepthAssumption DEF Final, IInv, MinedSent
    <3>3. QED
      BY <3>2 DEF IInv, SpentPaid
  <2>3. QED
    BY <2>1, <2>2
<1>6. /\ Final(T2) => Final(T1)
      /\ Refunded => Final(T1)
      /\ Final(T2)' => Final(T1)
      /\ Refunded' => Final(T1)
      /\ Final(T1) => Final(T1)'
      /\ Final(T2) => Final(T2)'
  BY <1>2, <1>5, TxFacts DEF Refunded, Final
<1>7. QED
  BY <1>3, <1>4, <1>6 DEF coins

\* Only get_signature's factorise sets p and q, and only from a final T2.
LEMMA KnowsStep ==
  ASSUME IInv, [Next]_vars
  PROVE  \/ UNCHANGED pq
         \/ pq' = TRUE /\ Final(T2) /\ UNCHANGED conf
<1>1. CASE MainThread
  BY <1>1 DEF MainThread, make_payment, accept_T1_verify, waitForTransaction,
     accept_T1_return, accept_payment, wait_spawn, wait_leave_loop, wait_choose,
     wait_join, main_return
<1>2. CASE crash
  BY <1>2 DEF crash
<1>3. CASE TimeLockThread
  BY <1>3 DEF TimeLockThread, solve_time_lock_force_open, redeemTransaction,
     solve_time_lock_result
<1>4. CASE SignatureThread
  BY <1>4 DEF SignatureThread, get_signature_watch, findTransactionByOutput,
     get_signature_return, getSignatures, factorise, get_signature_finish, chain, IInv, SignatureFacts
<1>5. CASE \E w \in Waiters : waitForTransactionHelper(w)
  BY <1>5 DEF waitForTransactionHelper, WaitPoll, WaitLeaveLoop, WaitResult
<1>6. CASE Network
  BY <1>6 DEF Network, Mine, Relay, MineNothing, Reorg
<1>7. CASE UNCHANGED vars
  BY <1>7 DEF vars
<1>8. QED
  BY <1>1, <1>2, <1>3, <1>4, <1>5, <1>6, <1>7 DEF Next

\* Coins that are final move as the exchange of the README says and the buyer
\* factorises n only after the seller has the price: every step of the
\* settlement is a step of FairExchange or leaves coins and knowledge alone.
THEOREM Refinement == Spec => ImplementsFairExchange
<1>1. Init => FE!Init
  BY TxFacts, DepthAssumption DEF Init, FE!Init, coins, Final, Refunded
<1>2. IInv /\ [Next]_vars => [FE!Next]_(FE!vars)
  <2> SUFFICES ASSUME IInv, [Next]_vars PROVE FE!Next \/ UNCHANGED <<coins, pq>>
    BY DEF FE!vars
  <2>1. pq \in BOOLEAN
    BY DEF IInv, TypeOK
  <2>2. CASE UNCHANGED pq
    BY <2>2, CoinsStep DEF FE!Next, FE!Pay, FE!Accept, FE!Refund
  <2>3. CASE pq' = TRUE /\ Final(T2) /\ UNCHANGED conf
    <3>1. coins = "seller" /\ UNCHANGED coins
      BY <2>3 DEF coins, Final, Refunded
    <3>2. QED
      BY <2>1, <2>3, <3>1 DEF FE!Next, FE!Learn
  <2>4. QED
    BY <2>2, <2>3, KnowsStep
<1>3. QED
  BY <1>1, <1>2, Invariance, PTL DEF Spec, FE!Spec, ImplementsFairExchange

=============================================================================
