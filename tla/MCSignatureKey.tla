--------------------------- MODULE MCSignatureKey ---------------------------
(***************************************************************************)
(* SignatureKey, and the timed commitment it uses, for TLC.  They share no *)
(* state that either model distinguishes, so one of them only moves while  *)
(* the other is still as it was created.                                   *)
(***************************************************************************)
EXTENDS LockedShare

MCAll == Kinds
MCLock == {"lock"}

\* Zero, one byte, and two bytes with a low byte of zero.
MCSecrets == {0, 130, 512}

\* Nothing, one, a factor, numbers that do not divide, a multiple, and negative
\* numbers that do and do not divide.
MCClaims == {0, 1, 7, 8, 77, 154, -1, -7, -8}

tc_vars == <<tc_pc, tc_p, tc_q, tc_secret, tc_com, tc_claim, tc_opened, tc_open_error,
             tc_times, tc_u, tc_forced>>

Created == pc = "exec" /\ dev = {} /\ where = 0 /\ T2_hash = ""

MCInit == Init /\ TC!Init
ProtocolStep == tc_pc = "new" /\ Next /\ UNCHANGED tc_vars
LockStep == Created /\ TC!Next /\ UNCHANGED vars
ForceStep == Created /\ TC!force_open /\ UNCHANGED vars
MCNext == ProtocolStep \/ LockStep
MCSpec == MCInit /\ [][MCNext]_<<vars, tc_vars>>

\* exec and open are function calls, and the buyer's thread goes on squaring.
MCFairSpec ==
  MCSpec /\ WF_<<vars, tc_vars>>(ProtocolStep) /\ WF_<<vars, tc_vars>>(ForceStep)

=============================================================================
