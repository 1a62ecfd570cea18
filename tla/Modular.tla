------------------------------ MODULE Modular ------------------------------
(***************************************************************************)
(* CryptoPP's modular arithmetic, as the program uses it.                  *)
(***************************************************************************)
EXTENDS Integers

\* a_exp_b_mod_c
ExpMod(a, b, c) ==
  LET f[i \in 0..b] == IF i = 0 THEN 1 % c ELSE (f[i - 1] * a) % c
  IN f[b]

\* Integer::InverseMod: 0 if there is no inverse.
InverseMod(a, c) ==
  IF \E w \in 1..(c - 1) : (a * w) % c = 1
  THEN CHOOSE w \in 1..(c - 1) : (a * w) % c = 1
  ELSE 0

=============================================================================
