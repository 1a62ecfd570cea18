--------------------------- MODULE MCRootExchange ---------------------------
(* Instances of RootExchange for TLC. *)
EXTENDS RootExchange

\* What Buyer::pickSubset sends: half of the indices, in any order.
Halves == {s \in [1..(L \div 2) -> Indices] : \A a, b \in DOMAIN s : s[a] = s[b] => a = b}

\* For L = 4: the first, the middle and the outer indices, these in descending
\* order, a repeated index, and an index past the end.
SomeSubsets == {<<0, 1>>, <<1, 2>>, <<3, 0>>, <<1, 1>>, <<2, 4>>}

\* The other root of one of the draws, a number above n/2, and a negative root.
MCOtherValues == {4, 8, -7}

NoLie == {"none"}
AnyLie == {"none", "root", "message", "key"}
=============================================================================
