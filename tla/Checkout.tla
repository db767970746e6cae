------------------------------ MODULE Checkout ------------------------------
(***************************************************************************)
(* Online checkout: the two legs of a redirect payment, the Capacity Holds *)
(* that pending Payments are, and the commit spine (CommitSales /          *)
(* reverseSalesTx) through which every Sales Channel moves sold_count.     *)
(*                                                                         *)
(* BeginCheckout runs as a chain of separate SQL statements on the pool,   *)
(* so other requests interleave between them; a ConfirmCheckout call runs  *)
(* as read / provider call / transaction / marking.  What is ONE database  *)
(* transaction in the code (ApprovePaymentAndCommitSale, ReverseSales,     *)
(* RecordBatchlessImportSale, CorrectImportedSale) is one action here: the *)
(* commit decides under FOR UPDATE locks on the Ticket Types it moves, and *)
(* reads the holds after it has them.                                      *)
(***************************************************************************)
EXTENDS Integers, FiniteSets

CONSTANTS
  Payments,          \* checkout attempts, by client transaction id
  Imports,           \* sales the staff channels record (no Payment, no hold)
  Customers,
  TicketTypes,       \* the Ticket Types of one published Event
  FreeTypes,         \* those whose buyer price is zero
  Rationed,          \* those with a Purchase Limit
  PurchaseLimit,     \* the limit of each Ticket Type (read only if Rationed)
  Buyer,             \* who each sale or payment is addressed to
  Calls,             \* concurrent ConfirmCheckout calls on one Payment
  MaxQuantity,       \* most tickets of one type in one cart (model bound)
  InitialCapacity,   \* capacity of each Ticket Type at the start
  Capacities,        \* capacities staff may set later
  HoldWindow,        \* sales.CapacityHoldWindow, in ticks
  MaxTime,           \* last tick of the clock (model bound)
  TicketAssignment,  \* the deployment flag Terms.SelfHeld stands on
  Faults,            \* which failures of the process or database may happen
  NoSale             \* "no replacement": the NULL of replaced_by_sale_id

Sales == Payments \cup Imports

ASSUME CheckoutAssumption ==
  /\ IsFiniteSet(Payments) /\ IsFiniteSet(Imports)
  /\ Payments \cap Imports = {}
  /\ NoSale \notin Sales
  /\ IsFiniteSet(TicketTypes)
  /\ FreeTypes \subseteq TicketTypes /\ Rationed \subseteq TicketTypes
  /\ PurchaseLimit \in [TicketTypes -> Nat]
  /\ Buyer \in [Sales -> Customers]
  /\ MaxQuantity \in Nat
  /\ InitialCapacity \in [TicketTypes -> Nat] /\ Capacities \subseteq Nat
  /\ HoldWindow \in Nat /\ MaxTime \in Nat
  /\ TicketAssignment \in BOOLEAN
  /\ Faults \subseteq {"commit", "lostAck", "mark", "crash"}

VARIABLES
  now,        \* the clock
  capacity,   \* ticket_types.capacity
  soldCount,  \* ticket_types.sold_count
  payment,    \* payments rows with their payment_lines
  sale,       \* ticket_sales rows with their ticket_sale_lines
  replacedBy, \* ticket_sales.replaced_by_sale_id
  seated,     \* Online Sales whose seat ticket the buyer themself holds
  begin,      \* where each BeginCheckout call stands
  room,       \* the tickets each BeginCheckout call has found to be left
  verdict,    \* what the Payment Provider has decided (external)
  confirm,    \* where each ConfirmCheckout call stands
  told        \* what ConfirmCheckout has answered about each Payment

ledger == <<capacity, soldCount, sale, replacedBy, seated>>
vars == <<now, ledger, payment, begin, room, verdict, confirm, told>>

NoLines == [t \in TicketTypes |-> 0]
Lines == [TicketTypes -> 0..MaxQuantity]
Carts == Lines \ {NoLines}

Unsettled == {"pending", "expired"}
PaymentStatuses == Unsettled \cup {"none", "approved", "failed"}
BeginPcs == {"idle", "readTypes", "readHolds", "readHoldings", "insert",
             "initiate", "redirected", "settleFree", "failFree", "settled", "over"}
ConfirmPcs == {"idle", "asking", "declined", "approved", "marking", "reloading"}

TypeOK ==
  /\ now \in 0..MaxTime
  /\ capacity \in [TicketTypes -> Nat]
  /\ soldCount \in [TicketTypes -> Nat]
  /\ payment \in [Payments -> [status : PaymentStatuses, cart : Lines,
                               created : 0..MaxTime, elected : BOOLEAN]]
  /\ sale \in [Sales -> [status : {"none", "active", "reversed"}, lines : Lines]]
  /\ replacedBy \in [Sales -> Sales \cup {NoSale}]
  /\ seated \subseteq Payments
  /\ begin \in [Payments -> BeginPcs]
  /\ room \in [Payments -> [TicketTypes -> Int]]
  /\ verdict \in [Payments -> {"none", "approved", "declined"}]
  /\ confirm \in [Payments -> [Calls -> ConfirmPcs]]
  /\ told \in [Payments -> SUBSET {"approved", "failed", "incident"}]

Init ==
  /\ now = 0
  /\ capacity = InitialCapacity
  /\ soldCount = NoLines
  /\ payment = [p \in Payments |->
                  [status |-> "none", cart |-> NoLines, created |-> 0, elected |-> FALSE]]
  /\ sale = [s \in Sales |-> [status |-> "none", lines |-> NoLines]]
  /\ replacedBy = [s \in Sales |-> NoSale]
  /\ seated = {}
  /\ begin = [p \in Payments |-> "idle"]
  /\ room = [p \in Payments |-> NoLines]
  /\ verdict = [p \in Payments |-> "none"]
  /\ confirm = [p \in Payments |-> [k \in Calls |-> "idle"]]
  /\ told = [p \in Payments |-> {}]

-----------------------------------------------------------------------------
(* Capacity Holds.  A Payment is a hold while it is pending and was created *)
(* strictly after the cutoff `at - HoldWindow`.  Quantities are counted as  *)
(* sets of <<payment, ordinal>> and <<sale, ordinal>>: the second is the    *)
(* rows mintTickets inserts.                                                *)

Live(p, at) == payment[p].status = "pending" /\ payment[p].created + HoldWindow > at

HeldUnits(t, at, ps) ==
  {u \in ps \X (1..MaxQuantity) : Live(u[1], at) /\ u[2] <= payment[u[1]].cart[t]}

SoldUnits(t, ss) ==
  {u \in ss \X (1..MaxQuantity) : sale[u[1]].status = "active" /\ u[2] <= sale[u[1]].lines[t]}

Held(t, at, ps) == Cardinality(HeldUnits(t, at, ps))

\* What the Purchase Limit is measured against: active sales plus live holds.
Holdings(c, t, at) ==
  Cardinality(SoldUnits(t, {s \in Sales : Buyer[s] = c}))
    + Held(t, at, {p \in Payments : Buyer[p] = c})

\* What reversing the sales in `gone` gives back.
Restored(t, gone) == Cardinality(SoldUnits(t, gone))

\* Mutant: the holds of other Payments are forgotten.
FitsIgnoringHolds(cart, at, others, gone) ==
  \A t \in TicketTypes :
    cart[t] > 0 => soldCount[t] - Restored(t, gone) + cart[t] <= capacity[t]

\* The check CommitSales makes under the Ticket Type locks: `others` are the
\* Payments whose holds count (all but the one being committed), `gone` the
\* sales the same transaction has already reversed.
Fits(cart, at, others, gone) ==
  \A t \in TicketTypes :
    cart[t] > 0 =>
      soldCount[t] - Restored(t, gone) + Held(t, at, others) + cart[t] <= capacity[t]

FitsOwn(p, at) == Fits(payment[p].cart, at, Payments \ {p}, {})

-----------------------------------------------------------------------------
(* The commit spine.                                                        *)

TicketsOf(lines, types) ==
  Cardinality({u \in types \X (1..MaxQuantity) : u[2] <= lines[u[1]]})

\* Mutant: a free sale of any size qualifies.
SurrenderableAnySize(c) ==
  {q \in Payments \cap seated :
     /\ Buyer[q] = c
     /\ sale[q].status = "active"
     /\ TicketsOf(sale[q].lines, FreeTypes) = 1}

\* The one free Ticket a buyer could surrender: an active, single-ticket, free
\* Online Sale whose ticket they still hold themselves.
Surrenderable(c) ==
  {q \in Payments \cap seated :
     /\ Buyer[q] = c
     /\ sale[q].status = "active"
     /\ TicketsOf(sale[q].lines, TicketTypes) = 1
     /\ TicketsOf(sale[q].lines, FreeTypes) = 1}

\* Same-basket Upgrade: the basket's only free ticket is dropped when a paid
\* one is bought beside it and no earlier sale makes the choice ambiguous.
KeptLines(p) ==
  LET cart == payment[p].cart
      paid == TicketTypes \ FreeTypes
  IN IF /\ TicketAssignment /\ payment[p].elected
        /\ TicketsOf(cart, FreeTypes) = 1 /\ TicketsOf(cart, paid) > 0
        /\ Surrenderable(Buyer[p]) = {}
     THEN [t \in TicketTypes |-> IF t \in FreeTypes THEN 0 ELSE cart[t]]
     ELSE cart

\* Cross-sale Upgrade: the sales this commit may reverse in its own
\* transaction.  The upgrade may also be skipped: a candidate that appeared
\* after the lock set was chosen is not locked, and degrades to silence.
UpgradesOutOf(p) ==
  {{}} \cup
  (IF /\ TicketAssignment /\ payment[p].elected
      /\ TicketsOf(KeptLines(p), TicketTypes \ FreeTypes) > 0
      /\ TicketsOf(KeptLines(p), FreeTypes) = 0
      /\ Cardinality(Surrenderable(Buyer[p])) = 1
   THEN {Surrenderable(Buyer[p])} ELSE {})

\* One transaction: record sale s with `lines`, reverse the sales in `gone`
\* as replaced by s, and move sold_count by the difference.
Record(s, lines, gone) ==
  /\ sale' = [r \in Sales |->
                CASE r = s -> [status |-> "active", lines |-> lines]
                  [] r \in gone -> [sale[r] EXCEPT !.status = "reversed"]
                  [] OTHER -> sale[r]]
  /\ soldCount' = [t \in TicketTypes |-> soldCount[t] + lines[t] - Restored(t, gone)]
  /\ replacedBy' = [r \in Sales |-> IF r \in gone THEN s ELSE replacedBy[r]]

\* ApprovePaymentAndCommitSale, for the Payment p it has found unsettled.
ApproveAndCommit(p, at) ==
  /\ FitsOwn(p, at)
  /\ \E gone \in UpgradesOutOf(p) : Record(p, KeptLines(p), gone)
  /\ payment' = [payment EXCEPT ![p].status = "approved"]
  /\ seated' = IF TicketAssignment THEN seated \cup {p} ELSE seated
  /\ UNCHANGED capacity

\* settlePayment: guarded on the Payment still being unsettled.
Settle(p, status) ==
  payment' = IF payment[p].status \in Unsettled
             THEN [payment EXCEPT ![p].status = status] ELSE payment

-----------------------------------------------------------------------------
(* BeginCheckout.                                                           *)

\* Reads the clock, and lazily expires the Payments whose hold has lapsed (an
\* update whose failure is only logged).
StartCheckout(p) ==
  /\ begin[p] = "idle"
  /\ begin' = [begin EXCEPT ![p] = "readTypes"]
  /\ \E cart \in Carts, elected \in IF TicketAssignment THEN BOOLEAN ELSE {FALSE},
        expired \in {{}, {q \in Payments : /\ payment[q].status = "pending"
                                           /\ payment[q].created + HoldWindow <= now}} :
       payment' = [q \in Payments |->
         IF q = p THEN [payment[p] EXCEPT !.cart = cart, !.created = now, !.elected = elected]
         ELSE IF q \in expired THEN [payment[q] EXCEPT !.status = "expired"]
         ELSE payment[q]]
  /\ UNCHANGED <<now, ledger, room, verdict, confirm, told>>

ReadTicketTypes(p) ==
  /\ begin[p] = "readTypes"
  /\ room' = [room EXCEPT ![p] = [t \in TicketTypes |-> capacity[t] - soldCount[t]]]
  /\ begin' = [begin EXCEPT ![p] = "readHolds"]
  /\ UNCHANGED <<now, ledger, payment, verdict, confirm, told>>

\* The capacity check of a cart against what is left after sales and holds, as
\* BeginCheckout read them.  A refusal is an answer, not an error: nothing has
\* been written.
Admit(p, left) ==
  IF \A t \in TicketTypes : payment[p].cart[t] > 0 => payment[p].cart[t] <= left[t]
  THEN "insert" ELSE "over"

\* A second statement reads the live holds, as of the clock read at the start.
\* Capacity is judged on these two reads after the Purchase Limit.
ReadHolds(p) ==
  LET left == [t \in TicketTypes |-> room[p][t] - Held(t, payment[p].created, Payments)]
      rationed == \E t \in Rationed : payment[p].cart[t] > 0
  IN /\ begin[p] = "readHolds"
     /\ begin' = [begin EXCEPT ![p] = IF rationed THEN "readHoldings" ELSE Admit(p, left)]
     /\ room' = [room EXCEPT ![p] = IF rationed THEN left ELSE NoLines]
     /\ UNCHANGED <<now, ledger, payment, verdict, confirm, told>>

\* The buyer's own holdings are read here and nowhere else: the commit does not
\* look at the Purchase Limit again.
refusePurchaseLimitBreach(p) ==
  LET within == \A t \in Rationed :
        payment[p].cart[t] > 0 =>
          Holdings(Buyer[p], t, payment[p].created) + payment[p].cart[t] <= PurchaseLimit[t]
  IN /\ begin[p] = "readHoldings"
     /\ begin' = [begin EXCEPT ![p] = IF within THEN Admit(p, room[p]) ELSE "over"]
     /\ room' = [room EXCEPT ![p] = NoLines]
     /\ UNCHANGED <<now, ledger, payment, verdict, confirm, told>>

\* The Payment and its lines are inserted; from here it is a Capacity Hold.
CreatePayment(p) ==
  /\ begin[p] = "insert"
  /\ payment' = [payment EXCEPT ![p].status = "pending"]
  /\ begin' = [begin EXCEPT ![p] =
                 IF \A t \in TicketTypes \ FreeTypes : payment[p].cart[t] = 0
                 THEN "settleFree" ELSE "initiate"]
  /\ UNCHANGED <<now, ledger, room, verdict, confirm, told>>

\* The provider prepares its page and the Customer is redirected to it.
Initiate(p) ==
  /\ begin[p] = "initiate"
  /\ begin' = [begin EXCEPT ![p] = "redirected"]
  /\ UNCHANGED <<now, ledger, payment, room, verdict, confirm, told>>

\* An error (or the process dying) anywhere in BeginCheckout: the caller gets
\* no redirect, and whatever was written stays written.
AbortCheckout(p) ==
  /\ "crash" \in Faults
  /\ begin[p] \in BeginPcs \ {"idle", "redirected", "settled", "over"}
  /\ begin' = [begin EXCEPT ![p] = "over"]
  /\ room' = [room EXCEPT ![p] = NoLines]
  /\ UNCHANGED <<now, ledger, payment, verdict, confirm, told>>

\* settleFreeCheckout commits on the clock BeginCheckout read.  The commit may
\* fail, and its acknowledgement may be lost after it has landed.
SettleFree(p) ==
  /\ begin[p] = "settleFree"
  /\ payment[p].status \in Unsettled
  /\ \/ /\ ApproveAndCommit(p, payment[p].created)
        /\ begin' = [begin EXCEPT ![p] = "settled"]
     \/ /\ "lostAck" \in Faults
        /\ ApproveAndCommit(p, payment[p].created)
        /\ begin' = [begin EXCEPT ![p] = "failFree"]
     \/ /\ \/ "commit" \in Faults
           \/ ~FitsOwn(p, payment[p].created)
        /\ begin' = [begin EXCEPT ![p] = "failFree"]
        /\ UNCHANGED <<ledger, payment>>
  /\ UNCHANGED <<now, room, verdict, confirm, told>>

FailFree(p) ==
  /\ begin[p] = "failFree"
  /\ \/ Settle(p, "failed")
     \/ "mark" \in Faults /\ UNCHANGED payment
  /\ begin' = [begin EXCEPT ![p] = "over"]
  /\ UNCHANGED <<now, ledger, room, verdict, confirm, told>>

-----------------------------------------------------------------------------
(* The Payment Provider (external): the Customer pays or cancels on its     *)
(* page, and every later Confirm reports that decision.                     *)

Decide(p) ==
  /\ begin[p] = "redirected" /\ verdict[p] = "none"
  /\ \E v \in {"approved", "declined"} : verdict' = [verdict EXCEPT ![p] = v]
  /\ UNCHANGED <<now, ledger, payment, begin, room, confirm, told>>

-----------------------------------------------------------------------------
(* ConfirmCheckout, one call k among the concurrent calls on Payment p.     *)

GoTo(p, k, pc) == confirm' = [confirm EXCEPT ![p][k] = pc]

Tell(p, outcome) == told' = [told EXCEPT ![p] = @ \cup {outcome}]

\* Mutant: an approved Payment is taken to have a sale.
RecordedByStatus(p) == IF payment[p].status = "approved" THEN "approved" ELSE "failed"

\* recordedOutcome, of a Payment read as it stands.
Recorded(p) ==
  IF payment[p].status # "approved" THEN "failed"
  ELSE IF sale[p].status = "none" THEN "incident"
  ELSE "approved"

ReadPayment(p, k) ==
  /\ confirm[p][k] = "idle"
  /\ begin[p] \in {"redirected", "settled"}
  /\ \/ /\ payment[p].status \in Unsettled
        /\ GoTo(p, k, "asking")
        /\ UNCHANGED told
     \/ /\ payment[p].status \notin Unsettled
        /\ Tell(p, Recorded(p))
        /\ UNCHANGED confirm
  /\ UNCHANGED <<now, ledger, payment, begin, room, verdict>>

\* Mutant: a failed provider call is taken for an approval.
AskProviderOptimistic(p, k) ==
  /\ confirm[p][k] = "asking"
  /\ GoTo(p, k, IF verdict[p] = "none" THEN "approved" ELSE verdict[p])
  /\ UNCHANGED <<now, ledger, payment, begin, room, verdict, told>>

\* The provider answers with its verdict, or the call fails and says nothing.
AskProvider(p, k) ==
  /\ confirm[p][k] = "asking"
  /\ \/ verdict[p] # "none" /\ GoTo(p, k, verdict[p])
     \/ GoTo(p, k, "idle")
  /\ UNCHANGED <<now, ledger, payment, begin, room, verdict, told>>

MarkFailed(p, k) ==
  /\ confirm[p][k] = "declined"
  /\ \/ /\ payment[p].status \in Unsettled
        /\ Settle(p, "failed") /\ Tell(p, "failed") /\ GoTo(p, k, "idle")
     \/ /\ payment[p].status \notin Unsettled
        /\ GoTo(p, k, "reloading")
        /\ UNCHANGED <<payment, told>>
     \/ /\ "mark" \in Faults
        /\ GoTo(p, k, "idle")
        /\ UNCHANGED <<payment, told>>
  /\ UNCHANGED <<now, ledger, begin, room, verdict>>

\* Mutant: the commit does not look at the Payment's status under its lock.
CommitApprovedTwice(p, k) ==
  /\ confirm[p][k] = "approved"
  /\ ApproveAndCommit(p, now)
  /\ Tell(p, "approved") /\ GoTo(p, k, "idle")
  /\ UNCHANGED <<now, begin, room, verdict>>

CommitApproved(p, k) ==
  /\ confirm[p][k] = "approved"
  /\ \/ /\ payment[p].status \notin Unsettled
        /\ GoTo(p, k, "reloading")
        /\ UNCHANGED <<ledger, payment, told>>
     \/ /\ payment[p].status \in Unsettled
        /\ ApproveAndCommit(p, now)
        /\ Tell(p, "approved") /\ GoTo(p, k, "idle")
     \/ /\ "lostAck" \in Faults
        /\ payment[p].status \in Unsettled
        /\ ApproveAndCommit(p, now)
        /\ GoTo(p, k, "marking")
        /\ UNCHANGED told
     \/ /\ \/ "commit" \in Faults
           \/ payment[p].status \in Unsettled /\ ~FitsOwn(p, now)
        /\ GoTo(p, k, "marking")
        /\ UNCHANGED <<ledger, payment, told>>
  /\ UNCHANGED <<now, begin, room, verdict>>

\* Mutant: a charge whose sale could not be recorded is marked failed.
MarkIncidentFailed(p, k) ==
  /\ confirm[p][k] = "marking"
  /\ Settle(p, "failed")
  /\ Tell(p, "incident") /\ GoTo(p, k, "idle")
  /\ UNCHANGED <<now, ledger, begin, room, verdict>>

\* The charge stands and this call could not record the sale: mark the Payment
\* approved without one, and report the incident whether or not the mark took.
MarkIncident(p, k) ==
  /\ confirm[p][k] = "marking"
  /\ \/ Settle(p, "approved")
     \/ "mark" \in Faults /\ UNCHANGED payment
  /\ Tell(p, "incident") /\ GoTo(p, k, "idle")
  /\ UNCHANGED <<now, ledger, begin, room, verdict>>

Reload(p, k) ==
  /\ confirm[p][k] = "reloading"
  /\ Tell(p, Recorded(p)) /\ GoTo(p, k, "idle")
  /\ UNCHANGED <<now, ledger, payment, begin, room, verdict>>

CrashConfirm(p, k) ==
  /\ "crash" \in Faults
  /\ confirm[p][k] # "idle"
  /\ GoTo(p, k, "idle")
  /\ UNCHANGED <<now, ledger, payment, begin, room, verdict, told>>

-----------------------------------------------------------------------------
(* The other writers of sold_count and capacity.                            *)

\* A sale staff record (Manually Recorded Sale): the same spine, on its own.
RecordBatchlessImportSale(i, cart) ==
  /\ sale[i].status = "none"
  /\ Fits(cart, now, Payments, {})
  /\ Record(i, cart, {})
  /\ UNCHANGED <<now, capacity, payment, seated, begin, room, verdict, confirm, told>>

\* CorrectImportedSale: reverse one imported sale and record its replacement
\* in the same transaction, the capacity already given back.
CorrectImportedSale(i, j, cart) ==
  /\ sale[i].status = "active" /\ sale[j].status = "none"
  /\ Fits(cart, now, Payments, {i})
  /\ Record(j, cart, {i})
  /\ UNCHANGED <<now, capacity, payment, seated, begin, room, verdict, confirm, told>>

\* Mutant: sales already reversed give their capacity back again.
ReverseSalesAgain(ids) ==
  /\ \E s \in ids : sale[s].status # "none"
  /\ sale' = [s \in Sales |-> IF s \in ids THEN [sale[s] EXCEPT !.status = "reversed"]
                                         ELSE sale[s]]
  /\ soldCount' = [t \in TicketTypes |-> soldCount[t] -
       Cardinality({u \in ids \X (1..MaxQuantity) : u[2] <= sale[u[1]].lines[t]})]
  /\ UNCHANGED <<now, capacity, replacedBy, seated, payment, begin, room,
                 verdict, confirm, told>>

\* ReverseSales over one sale (customer, operator, staff) or over the sales of
\* an import batch; the sales no longer active are skipped.
ReverseSales(ids) ==
  LET gone == {s \in ids : sale[s].status = "active"}
  IN /\ gone # {}
     /\ sale' = [s \in Sales |-> IF s \in gone THEN [sale[s] EXCEPT !.status = "reversed"]
                                               ELSE sale[s]]
     /\ soldCount' = [t \in TicketTypes |-> soldCount[t] - Restored(t, gone)]
     /\ UNCHANGED <<now, capacity, replacedBy, seated, payment, begin, room,
                    verdict, confirm, told>>

\* UpdateTicketType: staff may set any capacity, below sold_count included.
SetCapacity(t, c) ==
  /\ capacity' = [capacity EXCEPT ![t] = c]
  /\ UNCHANGED <<now, soldCount, sale, replacedBy, seated, payment, begin, room,
                 verdict, confirm, told>>

\* The buyer names somebody else on the ticket they hold, or themself again: the
\* first clears holder_customer_id, the second accepts it for the buyer.
AssignTicketToHolder(p, own) ==
  /\ TicketAssignment /\ sale[p].status = "active"
  /\ seated' = IF own THEN seated \cup {p} ELSE seated \ {p}
  /\ UNCHANGED <<now, capacity, soldCount, sale, replacedBy, payment, begin, room,
                 verdict, confirm, told>>

Tick ==
  /\ now < MaxTime
  /\ now' = now + 1
  /\ UNCHANGED <<ledger, payment, begin, room, verdict, confirm, told>>

BeginStep(p) ==
  \/ StartCheckout(p) \/ ReadTicketTypes(p) \/ ReadHolds(p)
  \/ refusePurchaseLimitBreach(p) \/ CreatePayment(p) \/ Initiate(p)
  \/ AbortCheckout(p) \/ SettleFree(p) \/ FailFree(p)

ConfirmStep(p, k) ==
  \/ ReadPayment(p, k) \/ AskProvider(p, k) \/ MarkFailed(p, k)
  \/ CommitApproved(p, k) \/ MarkIncident(p, k) \/ Reload(p, k)
  \/ CrashConfirm(p, k)

Next ==
  \/ \E p \in Payments : BeginStep(p) \/ Decide(p)
  \/ \E p \in Payments, own \in BOOLEAN : AssignTicketToHolder(p, own)
  \/ \E p \in Payments, k \in Calls : ConfirmStep(p, k)
  \/ \E i \in Imports, cart \in Carts : RecordBatchlessImportSale(i, cart)
  \/ \E i, j \in Imports, cart \in Carts : CorrectImportedSale(i, j, cart)
  \/ \E ids \in {{s} : s \in Sales} \cup SUBSET Imports : ReverseSales(ids)
  \/ \E t \in TicketTypes, c \in Capacities : SetCapacity(t, c)
  \/ Tick

Spec == Init /\ [][Next]_vars

-----------------------------------------------------------------------------
(* Properties.                                                              *)

\* sold_count is the number of tickets on active sales, whatever mix of
\* commits, free checkouts, imports, corrections, upgrades and reversals led
\* here: every writer moves it by exactly what it mints or voids
\* (repository.CommitSales, repository.reverseSalesTx).
SoldCountMatchesTickets ==
  \A t \in TicketTypes : soldCount[t] = Cardinality(SoldUnits(t, Sales))

\* A Ticket Sale stands on a Payment that is approved, and when the cart costs
\* money the provider has approved the charge; a Payment is never approved, nor
\* marked with an incident, on a charge that was declined (ConfirmCheckout).
SaleIsPaidFor ==
  \A p \in Payments :
    /\ sale[p].status # "none" => payment[p].status = "approved"
    /\ payment[p].status = "approved" =>
         \/ verdict[p] = "approved"
         \/ sale[p].status # "none" /\ TicketsOf(payment[p].cart, TicketTypes \ FreeTypes) = 0

\* What ConfirmCheckout has told the Customer stays true whatever the other
\* calls on the same Payment do: "approved" means there is a Ticket Sale, and
\* "failed" means there is none and never will be, and that nothing was charged.
AnswersAreTrue ==
  \A p \in Payments :
    /\ "approved" \in told[p] => sale[p].status # "none"
    /\ "failed" \in told[p] => /\ payment[p].status = "failed"
                               /\ sale[p].status = "none"
                               /\ verdict[p] # "approved"

\* Only a settled Payment is ever reloaded, which is why recordedOutcome may
\* read every status but "approved" as failed ('expired' never reaches it).
ReloadSeesSettled ==
  \A p \in Payments, k \in Calls :
    confirm[p][k] = "reloading" => payment[p].status \in {"approved", "failed"}

\* A replaced sale is reversed, its replacement was recorded, no sale replaces
\* two, and an Upgrade gives up only one free ticket of the same buyer for a
\* basket with a paid one and no free one.
ReplacementIsSound ==
  \A s \in Sales :
    LET r == replacedBy[s] IN
    r # NoSale =>
      /\ sale[s].status = "reversed" /\ sale[r].status # "none"
      /\ \A q \in Sales : replacedBy[q] = r => q = s
      /\ r \in Payments =>
           /\ s \in Payments /\ Buyer[s] = Buyer[r]
           /\ TicketsOf(sale[s].lines, TicketTypes) = 1
           /\ TicketsOf(sale[s].lines, FreeTypes) = 1
           /\ TicketsOf(sale[r].lines, FreeTypes) = 0
           /\ TicketsOf(sale[r].lines, TicketTypes) > 0

\* A step that sells tickets of a type leaves room under its capacity for every
\* other live Capacity Hold: no commit, on any channel, is paid for out of the
\* tickets of a Customer who is still on the payment page.
CommitLeavesHoldsWhole ==
  [][\A t \in TicketTypes :
       soldCount'[t] > soldCount[t] => soldCount'[t] + Held(t, now, Payments)' <= capacity[t]]_vars


\* The promise PaymentOutcome states, kept by everything above: each Payment
\* ends at most once, sold only when charged or free, declined only when not
\* charged, and an incident only when charged.
Outcome(p) ==
  IF sale[p].status # "none"
  THEN IF sale[p].status = "active" THEN "sold" ELSE "reversed"
  ELSE CASE payment[p].status = "none" -> "none"
         [] payment[p].status = "failed" -> "declined"
         [] payment[p].status = "approved" -> "incident"
         [] payment[p].status \in Unsettled ->
              IF TicketsOf(payment[p].cart, TicketTypes \ FreeTypes) = 0
              THEN "openFree" ELSE "openPaid"

PO == INSTANCE PaymentOutcome WITH
        outcome <- [p \in Payments |-> Outcome(p)],
        charged <- {p \in Payments : verdict[p] = "approved"}

ImplementsPaymentOutcome == PO!Spec
=============================================================================
