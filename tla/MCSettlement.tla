---------------------------- MODULE MCSettlement ----------------------------
(* Instances of Settlement for TLC. *)
EXTENDS Settlement

NoFaults == {}
OnlyLateWatch == {"late_watch"}
OnlyT2Fails == {"T2_fails"}
AllFaults == FaultKinds

\* The first lock is broken, so that the loop goes on; the second one works.
SecondLockOnly == {1}
\* Two working locks: after a timeout two redeem transactions compete.
AllButFirst == Locks \ {0}
=============================================================================
