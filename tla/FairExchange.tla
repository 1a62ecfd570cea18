---------------------------- MODULE FairExchange ----------------------------
(***************************************************************************)
(* What the README promises of a sale, whatever the protocol behind it:    *)
(* the price leaves the buyer's wallet into an output nobody owns alone    *)
(* ("escrow": the output of T1), from there it goes to the seller or back  *)
(* to the buyer, never to both, and the buyer learns the factorisation     *)
(* only once the seller has the price.                                     *)
(***************************************************************************)

VARIABLES
  coins,  \* who holds the price: "buyer", "escrow", "seller" or "refund"
  knows   \* TRUE once the buyer has p and q

vars == <<coins, knows>>

TypeOK ==
  /\ coins \in {"buyer", "escrow", "seller", "refund"}
  /\ knows \in BOOLEAN

Init ==
  /\ coins = "buyer"
  /\ knows = FALSE

\* The buyer's payment T1 is final.
Pay ==
  /\ coins = "buyer"
  /\ coins' = "escrow"
  /\ UNCHANGED knows

\* The seller's transaction T2 is final.
Accept ==
  /\ coins = "escrow"
  /\ coins' = "seller"
  /\ UNCHANGED knows

\* The buyer's redeem transaction is final.
Refund ==
  /\ coins = "escrow"
  /\ coins' = "refund"
  /\ UNCHANGED knows

\* The buyer reads the signatures in T2 and factorises n.
Learn ==
  /\ coins = "seller"
  /\ ~knows
  /\ knows' = TRUE
  /\ UNCHANGED coins

Next == Pay \/ Accept \/ Refund \/ Learn

Spec == Init /\ [][Next]_vars

\* README lines 4-7: a buyer whose payment is final either learns p and q,
\* the seller having the price, or gets the price back.
Promise ==
  (coins = "escrow") ~> (coins = "refund" \/ (coins = "seller" /\ knows))

=============================================================================
