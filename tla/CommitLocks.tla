---------------------------- MODULE CommitLocks ----------------------------
(***************************************************************************)
(* The order in which the transactions that move sold_count take their row *)
(* locks: the commit spine (with the Upgrade's reversal inside it), a sale  *)
(* reversal, a Sale Correction, an import, and the insert of a Payment      *)
(* whose lines reference the Ticket Types.  READ COMMITTED, as in the code: *)
(* a plan is made from rows that may change before they are locked.         *)
(*                                                                          *)
(* Every lock is held to the end of its transaction.  Ticket Types are      *)
(* numbered in the order of their ids.                                      *)
(***************************************************************************)
EXTENDS Integers, FiniteSets, Sequences

CONSTANTS
  Transactions, Customers,
  TicketTypes,      \* a set of integers: the sorted order of ids
  FreeTypes,        \* those that cost nothing
  Sales,            \* sales already recorded
  Buyer, TypesOf,   \* their customer and their Ticket Types
  FreeSales,        \* those an Upgrade may reverse: free, single-ticket
  ReversibleSales,  \* those somebody may come to reverse
  ImportedSales,    \* those staff may come to correct
  Running,          \* the kinds of transaction an instance runs
  BuyersOfImports,  \* orders in which an import's rows may name Customers
  CartOrders,       \* orders in which a cart may list Ticket Types
  MaxReseats        \* how often seats may change hands (model bound)

ASSUME LocksAssumption ==
  /\ TicketTypes \subseteq Int /\ IsFiniteSet(TicketTypes)
  /\ TypesOf \in [Sales -> SUBSET TicketTypes] /\ Buyer \in [Sales -> Customers]
  /\ FreeTypes \subseteq TicketTypes /\ FreeSales \subseteq Sales
  /\ \A s \in FreeSales : TypesOf[s] \subseteq FreeTypes /\ Cardinality(TypesOf[s]) = 1
  /\ ReversibleSales \subseteq Sales /\ ImportedSales \subseteq Sales
  /\ BuyersOfImports \subseteq Seq(Customers) /\ CartOrders \subseteq Seq(TicketTypes)
  /\ MaxReseats \in Nat

VARIABLES
  tx,        \* what each transaction is, and what it has still to lock
  held,      \* the locks: <<transaction, row, mode>>
  active,    \* the sales not yet reversed
  selfHeld,  \* the free sales whose ticket the buyer still holds
  reseats    \* how many times a seat has changed hands

vars == <<tx, held, active, selfHeld, reseats>>

CustomerRow(c) == <<"customer", c>>
TypeRow(n) == <<"type", n>>
SaleRow(s) == <<"sale", s>>

Rows == {CustomerRow(c) : c \in Customers} \cup {TypeRow(n) : n \in TicketTypes}
          \cup {SaleRow(s) : s \in Sales}
Modes == {"update", "share"}
Kinds == {"none", "commit", "reversal", "correction", "import", "payment"}
Stages == {"none", "buyers", "types", "upgrade", "sale", "last"}

Nothing == [kind |-> "none", stage |-> "none", plan |-> <<>>, basket |-> {}, sales |-> {}]

TypeOK ==
  /\ tx \in [Transactions -> [kind : Kinds, stage : Stages, plan : Seq(Rows),
                              basket : SUBSET TicketTypes, sales : SUBSET Sales]]
  /\ held \subseteq Transactions \X Rows \X Modes
  /\ active \subseteq Sales /\ selfHeld \subseteq FreeSales
  /\ reseats \in 0..MaxReseats

Init ==
  /\ tx = [t \in Transactions |-> Nothing]
  /\ held = {}
  /\ active = Sales
  /\ selfHeld = FreeSales
  /\ reseats = 0

-----------------------------------------------------------------------------

Mode(t) == IF tx[t].kind = "payment" THEN "share" ELSE "update"

\* FOR KEY SHARE, which a foreign key check takes, conflicts with FOR UPDATE.
Conflicts(m, n) == m = "update" \/ n = "update"

WaitsFor(t, u) ==
  /\ t # u /\ tx[t].plan # <<>>
  /\ \E m \in Modes : <<u, Head(tx[t].plan), m>> \in held /\ Conflicts(m, Mode(t))

Holds(t, row) == \E m \in Modes : <<t, row, m>> \in held

\* sort.Strings over the ids of a set of Ticket Types.
Sorted(types) ==
  LET ids == CHOOSE ids \in [1..Cardinality(types) -> types] :
               \A i, j \in 1..Cardinality(types) : i < j => ids[i] < ids[j]
  IN [i \in 1..Cardinality(types) |-> TypeRow(ids[i])]

\* UpgradeEligibilityFor: the one free seat in play, if there is exactly one.
Candidates(c) == {s \in active \cap selfHeld : Buyer[s] = c}
Offered(c) == IF Cardinality(Candidates(c)) = 1 THEN Candidates(c) ELSE {}
TypesOfSales(ss) == UNION {TypesOf[s] : s \in ss}

Begin(t, kind, stage, plan, basket, ss) ==
  /\ tx[t] = Nothing /\ kind \in Running
  /\ tx' = [tx EXCEPT ![t] = [kind |-> kind, stage |-> stage, plan |-> plan,
                              basket |-> basket, sales |-> ss]]
  /\ UNCHANGED <<held, active, selfHeld, reseats>>

\* The plan of t is locked as far as it goes: its next statements decide what more.
Planned(t, kind, stage) == tx[t].kind = kind /\ tx[t].stage = stage /\ tx[t].plan = <<>>
Plan(t, stage, plan) == tx' = [tx EXCEPT ![t].stage = stage, ![t].plan = plan]

-----------------------------------------------------------------------------
(* The commit of one checkout: the buyer, then the one sorted set of Ticket *)
(* Types with the Upgrade's candidate among them, then the Upgrade.         *)

BeginCommit(t, c, basket) ==
  Begin(t, "commit", "buyers", <<CustomerRow(c)>>, basket, {})

BuyerOf(t) == CHOOSE c \in Customers : <<t, CustomerRow(c), "update">> \in held

\* The Upgrade's candidate joins the lock set of a buyer who elected it.
PlanTypes(t) ==
  /\ Planned(t, "commit", "buyers")
  /\ \E candidate \in {{}, Offered(BuyerOf(t))} :
       Plan(t, "types", Sorted(tx[t].basket \cup TypesOfSales(candidate)))
  /\ UNCHANGED <<held, active, selfHeld, reseats>>

\* Mutant: the Upgrade does not ask whether its Ticket Type is in the lock set.
UpgradeUnguarded(t) ==
  /\ Planned(t, "commit", "types") /\ tx[t].basket \cap FreeTypes = {}
  /\ LET offer == Offered(BuyerOf(t)) IN
     /\ offer # {}
     /\ tx' = [tx EXCEPT ![t].stage = "upgrade", ![t].sales = offer,
                         ![t].plan = <<SaleRow(CHOOSE s \in offer : TRUE)>>]
  /\ UNCHANGED <<held, active, selfHeld, reseats>>

\* For a basket with nothing free in it; eligibility is read again, and acted on
\* only for a type already locked.
Upgrade(t) ==
  /\ Planned(t, "commit", "types") /\ tx[t].basket \cap FreeTypes = {}
  /\ LET offer == Offered(BuyerOf(t)) IN
     /\ offer # {}
     /\ \A n \in TypesOfSales(offer) : Holds(t, TypeRow(n))
     /\ tx' = [tx EXCEPT ![t].stage = "upgrade", ![t].sales = offer,
                         ![t].plan = <<SaleRow(CHOOSE s \in offer : TRUE)>>]
  /\ UNCHANGED <<held, active, selfHeld, reseats>>

-----------------------------------------------------------------------------
(* The reversals: reverseSalesTx takes its sales in order, keeps those still *)
(* active, and then takes their Ticket Types in order.                       *)

BeginReversal(t, s) ==
  /\ s \in ReversibleSales
  /\ Begin(t, "reversal", "sale", <<SaleRow(s)>>, {}, {s})

BeginCorrection(t, s, basket) ==
  /\ s \in ImportedSales
  /\ Begin(t, "correction", "sale", <<SaleRow(s)>>, basket, {s})

ReverseTypes(t) ==
  /\ \/ Planned(t, "reversal", "sale") \/ Planned(t, "correction", "sale")
     \/ Planned(t, "commit", "upgrade")
  /\ LET gone == tx[t].sales \cap active IN
     tx' = [tx EXCEPT ![t].sales = gone, ![t].plan = Sorted(TypesOfSales(gone)),
                      ![t].stage = IF tx[t].kind = "correction" /\ gone # {}
                                   THEN "types" ELSE "last"]
  /\ UNCHANGED <<held, active, selfHeld, reseats>>

\* The replacement of a corrected sale is a commit of its own, begun under the
\* locks of the reversal.
CommitReplacement(t) ==
  /\ Planned(t, "correction", "types")
  /\ \E c \in Customers :
       Plan(t, "last", <<CustomerRow(c)>> \o Sorted(tx[t].basket))
  /\ UNCHANGED <<held, active, selfHeld, reseats>>

-----------------------------------------------------------------------------
(* An import commits many sales at once, its buyers in the order of its     *)
(* rows; a Payment's lines take a key share of their Ticket Types in the    *)
(* order of the cart.                                                       *)

BeginImport(t, buyers, basket) ==
  Begin(t, "import", "last",
        [i \in DOMAIN buyers |-> CustomerRow(buyers[i])] \o Sorted(basket), basket, {})

\* Mutant: no foreign key, so that a line locks its own row and no Ticket Type.
CreatePaymentUnreferenced(t, cart) ==
  Begin(t, "payment", "last", [i \in DOMAIN cart |-> <<"line", cart[i]>>], {}, {})

CreatePayment(t, cart) ==
  Begin(t, "payment", "last", [i \in DOMAIN cart |-> TypeRow(cart[i])], {}, {})

-----------------------------------------------------------------------------

Lock(t) ==
  /\ tx[t].plan # <<>>
  /\ \A u \in Transactions : ~WaitsFor(t, u)
  /\ held' = held \cup {<<t, Head(tx[t].plan), Mode(t)>>}
  /\ tx' = [tx EXCEPT ![t].plan = Tail(@)]
  /\ UNCHANGED <<active, selfHeld, reseats>>

Release(t) ==
  /\ held' = {l \in held : l[1] # t}
  /\ tx' = [tx EXCEPT ![t] = Nothing]
  /\ UNCHANGED <<selfHeld, reseats>>

\* COMMIT, with or without an Upgrade: what was reversed is no longer active.
Commit(t) ==
  /\ tx[t].plan = <<>>
  /\ (tx[t].stage = "last" \/ (tx[t].kind = "commit" /\ tx[t].stage = "types"))
  /\ active' = active \ tx[t].sales
  /\ Release(t)

\* An error or a refusal anywhere, PostgreSQL breaking a deadlock included.
Rollback(t) ==
  /\ tx[t].kind # "none"
  /\ UNCHANGED active
  /\ Release(t)

\* A Holder accepts, or the buyer takes the ticket back (AssignTicketToHolder):
\* the ticket's row and no row of these.
Reseat(s) ==
  /\ reseats < MaxReseats
  /\ selfHeld' = IF s \in selfHeld THEN selfHeld \ {s} ELSE selfHeld \cup {s}
  /\ reseats' = reseats + 1
  /\ UNCHANGED <<tx, held, active>>

Next ==
  \/ \E t \in Transactions :
       \/ \E basket \in (SUBSET TicketTypes) \ {{}} :
            \/ \E c \in Customers : BeginCommit(t, c, basket)
            \/ \E s \in Sales : BeginCorrection(t, s, basket)
            \/ \E buyers \in BuyersOfImports : BeginImport(t, buyers, basket)
       \/ \E s \in Sales : BeginReversal(t, s)
       \/ \E cart \in CartOrders : CreatePayment(t, cart)
       \/ PlanTypes(t) \/ Upgrade(t) \/ ReverseTypes(t) \/ CommitReplacement(t)
       \/ Lock(t) \/ Commit(t) \/ Rollback(t)
  \/ \E s \in FreeSales : Reseat(s)

Spec == Init /\ [][Next]_vars

-----------------------------------------------------------------------------
(* Properties.                                                              *)

Deadlocked(ts) == \A t \in ts : \E u \in ts : WaitsFor(t, u)

\* The places where the code takes a row outside its order: the replacement of a
\* corrected sale (CorrectImportedSale), the free sale an Upgrade reverses
\* (upgradeOutOfEarlierFreeSaleTx), a further buyer of an import (CommitSales),
\* and the lines of a cart that does not list its types by id (CreatePayment).
OutOfOrder(t) ==
  /\ tx[t].plan # <<>>
  /\ LET row == Head(tx[t].plan) IN
     \/ tx[t].kind = "correction" /\ tx[t].stage = "last"
     \/ tx[t].kind = "commit" /\ row \in {SaleRow(s) : s \in Sales}
     \/ tx[t].kind = "import" /\ \E c, d \in Customers :
          c # d /\ row = CustomerRow(c) /\ Holds(t, CustomerRow(d))
     \/ tx[t].kind = "payment" /\ \E m, n \in TicketTypes :
          m < n /\ row = TypeRow(m) /\ Holds(t, TypeRow(n))

\* Every deadlock has one of those four in it: checkouts, Upgrades, reversals,
\* imports and Payments that keep the order never wait on each other in a cycle,
\* whatever changes between a plan and its locks (the one sorted lock set of
\* CommitSales, the Upgrade's guard on it, the sale before its types in
\* reverseSalesTx).
NoOtherDeadlock ==
  \A ts \in (SUBSET Transactions) \ {{}} :
    Deadlocked(ts) => \E t \in ts : OutOfOrder(t)

\* repository.go: the rows are locked "in a stable order to avoid deadlocks
\* between concurrent commits", customers "uniformly BEFORE `ticket_types`", and
\* no reversal inside a commit ever takes a second lock set.
NoDeadlock == \A ts \in (SUBSET Transactions) \ {{}} : ~Deadlocked(ts)
=============================================================================
