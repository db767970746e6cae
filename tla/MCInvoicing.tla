---------------------------- MODULE MCInvoicing ----------------------------
(* Small instances of Invoicing. *)
EXTENDS Invoicing, TLC

CONSTANTS none, r1, r2, op

OneRound == {r1}
TwoRounds == {r1, r2}
OneOperator == {op}
NoOperators == {}
OneDoc == {1}
TwoDocs == 1..2
ThreeDocs == 1..3
FourDocs == 1..4
AllMailable == {}
ThirdUnmailable == {3}

Symmetry == Permutations({r1, r2})

\* After a mishap among four documents the rounds take turns.
CalmAfterMishap ==
    hitches > 0 /\ rows[4].status # "absent" => \E r \in Rounds : At(r, "idle")
=============================================================================
