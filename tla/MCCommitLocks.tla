--------------------------- MODULE MCCommitLocks ---------------------------
(* Instances of CommitLocks for TLC.  Type 1 is free, type 2 is paid. *)
EXTENDS CommitLocks, TLC
CONSTANTS x1, x2, x3, c1, c2, free, paid, other

BuyerOne == [s \in Sales |-> IF s = other THEN c2 ELSE c1]
SaleTypes == [s \in Sales |-> IF s = paid THEN {1, 2} ELSE {1}]
OneBuyer == {<<c1>>}
EitherOrder == {<<c1, c2>>, <<c2, c1>>}
OneLine == {<<1>>}
AnyOrder == {<<1, 2>>, <<2, 1>>}
TransactionSymmetry == Permutations(Transactions)
=============================================================================
