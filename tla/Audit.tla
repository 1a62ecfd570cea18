------------------------------- MODULE Audit -------------------------------
(***************************************************************************)
(* What cut and choose promises the verifier, without saying how the       *)
(* instances are visited: the prover has committed to every instance       *)
(* before the verifier's choice of some of them is known, a chosen         *)
(* instance is never opened, all the others are opened before the          *)
(* verifier accepts, and it rejects only a prover it caught.               *)
(***************************************************************************)
CONSTANTS
  Instances,  \* the executions of the protocol
  Picks       \* the sets of instances that may stay closed

VARIABLES
  good,     \* the instances in which the prover has followed the protocol
  picked,   \* the verifier's choice, empty until it is made
  opened,   \* the instances the prover has opened
  verdict   \* "none", "accept", "reject" or "abort"

vars == <<good, picked, opened, verdict>>

Undecided == verdict = "none"

Init ==
  /\ good = {}
  /\ picked = {}
  /\ opened = {}
  /\ verdict = "none"

\* The prover plays, well or badly, as long as nothing is picked.
Prepare ==
  /\ Undecided /\ picked = {}
  /\ good' \in SUBSET Instances
  /\ UNCHANGED <<picked, opened, verdict>>

Pick ==
  /\ Undecided /\ picked = {}
  /\ picked' \in Picks
  /\ UNCHANGED <<good, opened, verdict>>

Open(k) ==
  /\ Undecided /\ picked # {}
  /\ k \in good \ picked
  /\ opened' = opened \cup {k}
  /\ UNCHANGED <<good, picked, verdict>>

Reject(k) ==
  /\ Undecided /\ picked # {}
  /\ k \notin good /\ k \notin picked
  /\ opened' = opened \cup {k}
  /\ verdict' = "reject"
  /\ UNCHANGED <<good, picked>>

Accept ==
  /\ Undecided
  /\ opened = Instances \ picked
  /\ verdict' = "accept"
  /\ UNCHANGED <<good, picked, opened>>

Abort ==
  /\ Undecided
  /\ verdict' = "abort"
  /\ UNCHANGED <<good, picked, opened>>

Next ==
  \/ Prepare \/ Pick \/ Accept \/ Abort
  \/ \E k \in Instances : Open(k) \/ Reject(k)

Spec == Init /\ [][Next]_vars

=============================================================================
