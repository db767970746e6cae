--------------------------- MODULE RefundPromise ---------------------------
(***************************************************************************)
(* What the platform promises a Customer who presses Undo, with nothing of *)
(* how it keeps asking the Payment Provider (ADR 0024).  An ask is         *)
(* answered: the tickets go and the money comes back, or neither does, or  *)
(* the question is handed to a Platform Operator, who alone may void       *)
(* tickets on a refund made elsewhere.                                     *)
(***************************************************************************)
CONSTANT Sales

VARIABLES
  free,     \* the sales that cost nothing, which never changes
  tickets,  \* "valid" or "void"
  money,    \* "kept" by the platform or "returned" by the provider
  promise   \* "none", "open" while the platform pursues it, "operator" for good

Init ==
  /\ free \in SUBSET Sales
  /\ tickets = [s \in Sales |-> "valid"]
  /\ money = [s \in Sales |-> "kept"]
  /\ promise = [s \in Sales |-> "none"]

Ask(s) ==
  /\ s \notin free
  /\ tickets[s] = "valid" /\ promise[s] = "none" /\ money[s] = "kept"
  /\ promise' = [promise EXCEPT ![s] = "open"]
  /\ UNCHANGED <<free, tickets, money>>

\* The provider is asked only about tickets that still stand.
Return(s) ==
  /\ tickets[s] = "valid" /\ promise[s] # "none" /\ money[s] = "kept"
  /\ money' = [money EXCEPT ![s] = "returned"]
  /\ UNCHANGED <<free, tickets, promise>>

Refuse(s) ==
  /\ promise[s] = "open" /\ money[s] = "kept"
  /\ promise' = [promise EXCEPT ![s] = "none"]
  /\ UNCHANGED <<free, tickets, money>>

\* The Customer's undo: never before the money is back.
Undo(s) ==
  /\ tickets[s] = "valid"
  /\ s \in free \/ money[s] = "returned"
  /\ tickets' = [tickets EXCEPT ![s] = "void"]
  /\ \/ promise[s] = "open" /\ promise' = [promise EXCEPT ![s] = "none"]
     \/ promise[s] # "open" /\ UNCHANGED promise
  /\ UNCHANGED <<free, money>>

OperatorVoids(s) ==
  /\ tickets[s] = "valid"
  /\ tickets' = [tickets EXCEPT ![s] = "void"]
  /\ \/ UNCHANGED promise
     \/ /\ promise[s] = "open" /\ money[s] = "returned"
        /\ promise' = [promise EXCEPT ![s] = "none"]
  /\ UNCHANGED <<free, money>>

\* Unresolved: given up on, and never taken back.  A refund already made and
\* settled may still be handed over, by a pass that gave up on it too late to
\* know.
HandOver(s) ==
  /\ \/ promise[s] = "open"
     \/ promise[s] = "none" /\ money[s] = "returned"
  /\ promise' = [promise EXCEPT ![s] = "operator"]
  /\ UNCHANGED <<free, tickets, money>>

Next ==
  \E s \in Sales : \/ Ask(s) \/ Return(s) \/ Refuse(s) \/ Undo(s)
                   \/ OperatorVoids(s) \/ HandOver(s)

Spec == Init /\ [][Next]_<<free, tickets, money, promise>>
=============================================================================
