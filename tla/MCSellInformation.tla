------------------------- MODULE MCSellInformation -------------------------
(* Values of the constants of SellInformation for TLC.                     *)
EXTENDS SellInformation

\* Prices on both sides of the least output, of the fee, of what the wallet has,
\* and of the sign of an i32.
MCTerms == [n : {15}, price : {0, 1, 2, 4, 5, 6, 7, 8, 13}] \cup {[n |-> 21, price |-> 5]}

MCOneTerm == {[n |-> 15, price |-> 6]}

=============================================================================
