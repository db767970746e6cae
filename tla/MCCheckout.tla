----------------------------- MODULE MCCheckout -----------------------------
(* Instances of Checkout for TLC. *)
EXTENDS Checkout, TLC
CONSTANTS p1, p2, p3, i1, i2, c1, c2, t1, t2, k1, k2

TwoPayments == {p1, p2}
OneBuyer == [s \in Sales |-> c1]
TwoBuyers == [s \in Sales |-> IF s = p2 THEN c2 ELSE c1]
LimitOne == [t \in TicketTypes |-> 1]
LimitTwo == [t \in TicketTypes |-> 2]
CapacityOne == [t \in TicketTypes |-> 1]
CapacityFour == [t \in TicketTypes |-> 4]
CapacityTwo == [t \in TicketTypes |-> 2]
CallSymmetry == Permutations(Calls)
ConfirmSymmetry == CallSymmetry \cup Permutations(Imports)
BuyerOneSymmetry == Permutations({p1, p3})
=============================================================================
