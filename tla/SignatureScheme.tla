-------------------------- MODULE SignatureScheme --------------------------
(***************************************************************************)
(* SharedSignature together with the Paillier encryption its parties       *)
(* compute with.  SharedSignature represents a ciphertext by its           *)
(* plaintext; that products and powers of ciphertexts are sums and         *)
(* multiples of plaintexts is what it takes for granted.                   *)
(***************************************************************************)
EXTENDS SharedSignature

CONSTANTS KeyPairs, Powers, MaxOps
VARIABLES pl_pc, pl_error, pl_p, pl_q, pl_c, pl_plain, pl_blind, pl_ops, pl_value

PL == INSTANCE Paillier
        WITH pc <- pl_pc, error <- pl_error, p <- pl_p, q <- pl_q, c <- pl_c,
             plain <- pl_plain, blind <- pl_blind, ops <- pl_ops, value <- pl_value

ASSUME PaillierAssumption == PL!ConstantsOK

\* paillier.cpp: products of ciphertexts decrypt to sums of plaintexts and
\* powers to multiples, modulo the Paillier modulus.
Homomorphic == PL!Homomorphic

\* paillier.cpp: dec refuses a ciphertext if and only if one of the numbers that
\* enc drew to blind it shares a factor with the modulus.
RefusedOnlyForBlinding == PL!RefusedOnlyForBlinding

=============================================================================
