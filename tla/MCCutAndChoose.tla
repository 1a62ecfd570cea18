--------------------------- MODULE MCCutAndChoose ---------------------------
(* Instances of CutAndChoose for TLC. *)
EXTENDS CutAndChoose

\* Every vector of up to R + 1 ints from -1 to T: unsorted ones, too short
\* and too long ones, repeated and out of range indices.
AllVectors == UNION {[1..n -> (-1)..T] : n \in 0..(R + 1)}

AnyCheat == Instances \cup {-1}
=============================================================================
