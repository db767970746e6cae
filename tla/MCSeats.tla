------------------------------ MODULE MCSeats ------------------------------
(* Instances of Seats for TLC. *)
EXTENDS Seats, TLC
CONSTANTS t1, t2, buyer, a1, a2, s1, s2, k1, w1, w2, o1, q1

SeatSymmetry == Permutations(Savers) \cup Permutations(Sweepers)
                \cup Permutations(Addresses \ {SoldTo})
=============================================================================
