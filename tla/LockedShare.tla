---------------------------- MODULE LockedShare ----------------------------
(***************************************************************************)
(* SignatureKey together with the timed commitment in which the seller     *)
(* locks his share of the signing key.  SignatureKey only distinguishes    *)
(* whether the lock holds the share; that a lock gives back what was put   *)
(* into it is what it takes for granted.                                   *)
(***************************************************************************)
EXTENDS SignatureKey

CONSTANTS Primes, Ks, Secrets, SeedSize, Claims
VARIABLES tc_pc, tc_p, tc_q, tc_secret, tc_com, tc_claim, tc_opened, tc_open_error,
          tc_times, tc_u, tc_forced

TC == INSTANCE TimedCommitment
        WITH pc <- tc_pc, p <- tc_p, q <- tc_q, secret <- tc_secret, com <- tc_com,
             claim <- tc_claim, opened <- tc_opened, open_error <- tc_open_error,
             times <- tc_times, u <- tc_u, forced <- tc_forced

ASSUME TimedCommitmentAssumption == TC!ConstantsOK

\* timed_commitment.cpp: what force_open finds after its squarings is, turned
\* back into an integer, what the seller locked, whatever h was drawn.
LockHoldsSecret == TC!LockHoldsSecret

\* timed_commitment.cpp: open never shows anything but what force_open would
\* find, whatever positive number is sent for p, and accepts p itself.
OpenAgreesWithForce == TC!OpenAgreesWithForce

\* timed_commitment.cpp: a lock is broken in the end.
LockOpens == TC!LockOpens

=============================================================================
