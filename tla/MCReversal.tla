---------------------------- MODULE MCReversal ----------------------------
(* Instances of Reversal for TLC. *)
EXTENDS Reversal, TLC
CONSTANTS s1, s2, w1, w2, r1, r2

WorkerSymmetry == Permutations(Workers)
=============================================================================
