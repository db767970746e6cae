--------------------------- MODULE SaleDocuments ---------------------------
(***************************************************************************)
(* What is promised about the tax documents of one Ticket Sale, with       *)
(* nothing of the rounds, leases and requests that keep it (ADR 0061, ADR  *)
(* 0068): which documents are owed, the moment at which each may be        *)
(* declared, what becomes of it, and what a reversal, a reissue and an     *)
(* issue again owe.  A factura is declared only where no other stands, a   *)
(* Credit Note only against an authorized factura nothing else credits,    *)
(* and what is owed is given up only for a reason that lasts.              *)
(***************************************************************************)
CONSTANTS Docs, NoDoc

VARIABLES
  sale,      \* "committed" or "reversed"
  stage,     \* of each document, see Init and the actions
  credits,   \* the factura a Credit Note credits, NoDoc of a factura
  replaces   \* the document a corrected or newly issued factura follows

Outstanding(d) == stage[d] \in {"declared", "authorized"}
Notes(f) == {c \in Docs : credits[c] = f}
Factura(d) == credits[d] = NoDoc /\ stage[d] # "blank"
Credited(f) == \E c \in Notes(f) : stage[c] = "authorized"
Stands(f) == Factura(f) /\ Outstanding(f) /\ ~Credited(f)

\* Nothing is owed to be declared later.
NoneOwed == \A d \in Docs : stage[d] # "owed"

----------------------------------------------------------------------------
\* The checkout owes the first factura.
Init ==
  /\ sale = "committed"
  /\ \E first \in Docs : stage = [d \in Docs |-> IF d = first THEN "owed" ELSE "blank"]
  /\ credits = [d \in Docs |-> NoDoc]
  /\ replaces = [d \in Docs |-> NoDoc]

\* A factura while none stands, a note while nothing else credits its factura.
Declare(d) ==
  /\ stage[d] = "owed"
  /\ \/ Factura(d) /\ sale = "committed" /\ \A f \in Docs : ~Stands(f)
     \/ /\ ~Factura(d) /\ stage[credits[d]] = "authorized"
        /\ \A c \in Notes(credits[d]) : ~Outstanding(c)
  /\ stage' = [stage EXCEPT ![d] = "declared"]
  /\ UNCHANGED <<sale, credits, replaces>>

Authorize(d) ==
  /\ stage[d] = "declared"
  /\ stage' = [stage EXCEPT ![d] = "authorized"]
  /\ UNCHANGED <<sale, credits, replaces>>

\* Annulled at the portal or abandoned.  A note may take with it the owed factura that
\* was to follow what it credits.
Disown(d) ==
  /\ stage[d] = "declared"
  /\ \/ stage' = [stage EXCEPT ![d] = "disowned"]
     \/ /\ ~Factura(d)
        /\ \E s \in Docs :
              /\ stage[s] = "owed" /\ Factura(s) /\ replaces[s] = credits[d]
              /\ stage' = [stage EXCEPT ![d] = "disowned", ![s] = "withdrawn"]
  /\ UNCHANGED <<sale, credits, replaces>>

\* A note is given up when its factura was disowned or another credits it, a corrected
\* factura when what it replaces is authorized and no note will ever cancel that.
Withdraw(d) ==
  /\ stage[d] = "owed"
  /\ \/ ~Factura(d) /\ (stage[credits[d]] = "disowned" \/ Credited(credits[d]))
     \/ /\ Factura(d) /\ replaces[d] # NoDoc /\ stage[replaces[d]] = "authorized"
        /\ \A c \in Notes(replaces[d]) : stage[c] \in {"withdrawn", "disowned"}
  /\ stage' = [stage EXCEPT ![d] = "withdrawn"]
  /\ UNCHANGED <<sale, credits, replaces>>

\* Reissue: a note against a factura that stands authorized, and the corrected one.
Correct(f) ==
  /\ sale = "committed"
  /\ stage[f] = "authorized" /\ Stands(f)
  /\ NoneOwed /\ \A c \in Notes(f) : ~Outstanding(c)
  /\ \E note, corrected \in Docs :
        /\ note # corrected /\ stage[note] = "blank" /\ stage[corrected] = "blank"
        /\ stage' = [stage EXCEPT ![note] = "owed", ![corrected] = "owed"]
        /\ credits' = [credits EXCEPT ![note] = f]
        /\ replaces' = [replaces EXCEPT ![corrected] = f]
  /\ UNCHANGED sale

\* Issue again: a factura in place of a disowned one, where none stands or is owed.
Replace(f) ==
  /\ sale = "committed"
  /\ stage[f] = "disowned" /\ Factura(f)
  /\ \A g \in Docs : ~Stands(g) /\ ~(Factura(g) /\ stage[g] = "owed")
  /\ \E d \in Docs :
        /\ stage[d] = "blank"
        /\ stage' = [stage EXCEPT ![d] = "owed"]
        /\ replaces' = [replaces EXCEPT ![d] = f]
  /\ UNCHANGED <<sale, credits>>

\* A reversal withdraws what was never declared, and owes one note against the factura
\* that stands, if one does.
Undeclared(d) == /\ stage[d] = "owed"
                 /\ Factura(d) \/ Outstanding(credits[d])

Reverse ==
  /\ sale = "committed" /\ sale' = "reversed"
  /\ \/ /\ \A f \in Docs : ~Stands(f)
        /\ stage' = [d \in Docs |-> IF Undeclared(d) THEN "withdrawn" ELSE stage[d]]
        /\ UNCHANGED credits
     \/ \E f, note \in Docs :
           /\ Stands(f) /\ stage[note] = "blank"
           /\ stage' = [d \in Docs |-> IF d = note THEN "owed"
                                       ELSE IF Undeclared(d) THEN "withdrawn" ELSE stage[d]]
           /\ credits' = [credits EXCEPT ![note] = f]
  /\ UNCHANGED replaces

Next ==
  \/ \E d \in Docs : Declare(d) \/ Authorize(d) \/ Disown(d) \/ Withdraw(d)
                     \/ Correct(d) \/ Replace(d)
  \/ Reverse

Spec == Init /\ [][Next]_<<sale, stage, credits, replaces>>
=============================================================================
