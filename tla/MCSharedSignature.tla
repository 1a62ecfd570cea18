------------------------- MODULE MCSharedSignature -------------------------
(***************************************************************************)
(* SharedSignature, and the Paillier encryption it rests on, for TLC.  The *)
(* two share no state, so one of them only moves while the other is still  *)
(* as it was created.                                                      *)
(***************************************************************************)
EXTENDS SignatureScheme

\* Order 7: an ordinary x coordinate, one equal to n (so r is 0) and one above
\* n whose residue is not 0.
MCxcoord == [k \in Scalars |-> CASE k \in {1, n - 1} -> 3
                                 [] k \in {2, n - 2} -> n
                                 [] OTHER -> n + 2]

\* Digests: zero and one that is above n, as 32 bytes can be; and no data.
MCData == {[len |-> 32, z |-> 0], [len |-> 32, z |-> 10], [len |-> 0, z |-> 0]}

\* Both sides of the bound 2 n^4, and a modulus that is far too short.
MCModuli == {2 * n * n * n * n + 1, 2 * n * n * n * n, 2 * n * n + 1}

MCKeyPairs == {<<3, 5>>, <<5, 7>>}

pl_vars == <<pl_pc, pl_error, pl_p, pl_q, pl_c, pl_plain, pl_blind, pl_ops, pl_value>>

MCInit == Init /\ PL!Init
MCNext ==
  \/ pl_p = 0 /\ pl_pc = "new" /\ Next /\ UNCHANGED pl_vars
  \/ pc = "ctor" /\ PL!Next /\ UNCHANGED vars
MCSpec == MCInit /\ [][MCNext]_<<vars, pl_vars>>

=============================================================================
