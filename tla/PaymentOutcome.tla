--------------------------- MODULE PaymentOutcome ---------------------------
(***************************************************************************)
(* What checkout promises about one Payment, with nothing of how: it opens *)
(* once, ends at most once, and what it ends as agrees with whether the    *)
(* provider charged the Customer.  A sale may later be reversed, and an    *)
(* Upgrade reverses one earlier sale in the step that makes the new one.   *)
(* A Payment may stay open for ever: nothing forces a Customer to return.  *)
(***************************************************************************)
CONSTANT Payments

VARIABLES
  outcome,  \* where each Payment stands
  charged   \* the Payments the provider has approved a charge for

Open == {"openFree", "openPaid"}
Outcomes == Open \cup {"none", "declined", "incident", "sold", "reversed"}

Init ==
  /\ outcome = [p \in Payments |-> "none"]
  /\ charged = {}

Become(p, o) == outcome' = [outcome EXCEPT ![p] = o]

Start(p) ==
  /\ outcome[p] = "none"
  /\ \E o \in Open : Become(p, o)
  /\ UNCHANGED charged

Charge(p) ==
  /\ outcome[p] = "openPaid"
  /\ charged' = charged \cup {p}
  /\ UNCHANGED outcome

\* A sale, and with it at most one earlier sale reversed by the Upgrade.
Sell(p) ==
  /\ outcome[p] \in Open
  /\ outcome[p] = "openPaid" => p \in charged
  /\ \/ Become(p, "sold")
     \/ \E q \in Payments :
          /\ outcome[q] = "sold"
          /\ outcome' = [outcome EXCEPT ![p] = "sold", ![q] = "reversed"]
  /\ UNCHANGED charged

Decline(p) ==
  /\ outcome[p] \in Open /\ p \notin charged
  /\ Become(p, "declined")
  /\ UNCHANGED charged

\* Charged, and no sale recorded: left for the Platform Operator.
Strand(p) ==
  /\ outcome[p] = "openPaid" /\ p \in charged
  /\ Become(p, "incident")
  /\ UNCHANGED charged

Reverse(p) ==
  /\ outcome[p] = "sold"
  /\ Become(p, "reversed")
  /\ UNCHANGED charged

Next ==
  \E p \in Payments :
    Start(p) \/ Charge(p) \/ Sell(p) \/ Decline(p) \/ Strand(p) \/ Reverse(p)

Spec == Init /\ [][Next]_<<outcome, charged>>
=============================================================================
