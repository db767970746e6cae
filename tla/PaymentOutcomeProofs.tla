------------------------ MODULE PaymentOutcomeProofs ------------------------
(***************************************************************************)
(* Checkout keeps what PaymentOutcome promises, a commit sells only what    *)
(* no other Payment holds, and an Upgrade gives up one free ticket for one  *)
(* paid basket.                                                             *)
(***************************************************************************)
EXTENDS CheckoutProofs

-----------------------------------------------------------------------------
(* The steps that move the ledger.                                          *)

\* ApprovePaymentAndCommitSale, on the clock of whichever call ran it.
Sells(p, at) ==
  /\ payment[p].status \in Unsettled
  /\ ApproveAndCommit(p, at)
  /\ at <= now
  /\ verdict[p] = "approved" \/ TicketsOf(payment[p].cart, Paid) = 0
  /\ UNCHANGED <<now, verdict>>

Rings == UNCHANGED <<soldCount, sale, replacedBy>>

LEMMA SettleFreeSells ==
  ASSUME IInv, NEW p \in Payments, SettleFree(p)
  PROVE  \/ UNCHANGED <<now, ledger, payment, verdict>>
         \/ Sells(p, payment[p].created)
<1>1. payment[p].created <= now /\ TicketsOf(payment[p].cart, Paid) = 0
  BY DEF IInv, BeginTracksPayment, SettleFree
<1> QED
  BY <1>1 DEF SettleFree, Sells

LEMMA CommitApprovedSells ==
  ASSUME IInv, NEW p \in Payments, NEW k \in Calls, CommitApproved(p, k)
  PROVE  UNCHANGED <<now, ledger, payment, verdict>> \/ Sells(p, now)
<1>1. verdict[p] = "approved" /\ now <= now
  BY CheckoutAssumption DEF IInv, TypeOK, ConfirmTracksVerdict, CommitApproved
<1> QED
  BY <1>1 DEF CommitApproved, Sells

LEMMA LedgerMoves ==
  ASSUME IInv, [Next]_vars
  PROVE  \/ Rings
         \/ \E p \in Payments : \E at \in 0..MaxTime : Sells(p, at)
         \/ \E i \in Imports, cart \in Carts : RecordBatchlessImportSale(i, cart)
         \/ \E i, j \in Imports, cart \in Carts : CorrectImportedSale(i, j, cart)
         \/ \E ids \in {{s} : s \in Sales} \cup SUBSET Imports : ReverseSales(ids)
<1>0. now \in 0..MaxTime /\ \A p \in Payments : payment[p].created \in 0..MaxTime
  BY DEF IInv, TypeOK
<1>1. ASSUME NEW p \in Payments, BeginStep(p)
      PROVE  Rings \/ \E at \in 0..MaxTime : Sells(p, at)
  <2>1. CASE SettleFree(p)
    BY <1>0, <2>1, SettleFreeSells DEF Rings, ledger
  <2>2. CASE ~SettleFree(p)
    BY <1>1, <2>2 DEF BeginStep, StartCheckout, ReadTicketTypes, ReadHolds, refusePurchaseLimitBreach,
       CreatePayment, Initiate, AbortCheckout, FailFree, Rings, ledger
  <2> QED
    BY <2>1, <2>2
<1>2. ASSUME NEW p \in Payments, NEW k \in Calls, ConfirmStep(p, k)
      PROVE  Rings \/ \E at \in 0..MaxTime : Sells(p, at)
  <2>1. CASE CommitApproved(p, k)
    BY <1>0, <2>1, CommitApprovedSells DEF Rings, ledger
  <2>2. CASE ~CommitApproved(p, k)
    BY <1>2, <2>2 DEF ConfirmStep, ReadPayment, AskProvider, MarkFailed, MarkIncident, Reload,
       CrashConfirm, Rings, ledger
  <2> QED
    BY <2>1, <2>2
<1>3. ASSUME NEW p \in Payments, Decide(p) PROVE Rings
  BY <1>3 DEF Decide, Rings, ledger
<1>4. ASSUME NEW p \in Payments, NEW own \in BOOLEAN, AssignTicketToHolder(p, own) PROVE Rings
  BY <1>4 DEF AssignTicketToHolder, Rings
<1>5. ASSUME NEW t \in TicketTypes, NEW c \in Capacities, SetCapacity(t, c) PROVE Rings
  BY <1>5 DEF SetCapacity, Rings
<1>6. CASE Tick
  BY <1>6 DEF Tick, Rings, ledger
<1>7. CASE UNCHANGED vars
  BY <1>7 DEF vars, Rings, ledger
<1> QED
  BY <1>1, <1>2, <1>3, <1>4, <1>5, <1>6, <1>7 DEF Next

-----------------------------------------------------------------------------
(* A commit and the holds of the others.                                    *)

\* Fewer Payments, read later, hold no more tickets.
LEMMA HeldShrinks ==
  ASSUME NEW t, NEW at, NEW ps, ps \subseteq Payments,
         HeldUnits(t, now, Payments)' \subseteq HeldUnits(t, at, ps)
  PROVE  /\ Held(t, now, Payments)' \in Nat /\ Held(t, at, ps) \in Nat
         /\ Held(t, now, Payments)' <= Held(t, at, ps)
<1>1. IsFiniteSet(HeldUnits(t, at, ps)) /\ Held(t, at, ps) \in Nat
  BY UnitsFinite, FS_Subset, CheckoutAssumption DEF HeldUnits, Held
<1>2. Cardinality(HeldUnits(t, now, Payments)') <= Cardinality(HeldUnits(t, at, ps))
  BY <1>1, FS_Subset
<1>3. Cardinality(HeldUnits(t, now, Payments)') \in Nat
  BY <1>1, FS_Subset, FS_CardinalityType
<1> QED
  BY <1>1, <1>2, <1>3 DEF Held

LEMMA NothingRestored == \A t : Restored(t, {}) = 0
<1> SUFFICES ASSUME NEW t PROVE Restored(t, {}) = 0
  OBVIOUS
<1>1. SoldUnits(t, {}) = {}
  BY DEF SoldUnits
<1> QED
  BY <1>1, FS_EmptySet DEF Restored

\* What the commit records of a cart is never more than the cart.
LEMMA KeptIsFromTheCart ==
  ASSUME TypeOK, NEW p \in Payments, NEW t \in TicketTypes
  PROVE  /\ payment[p].cart[t] \in Nat /\ KeptLines(p)[t] \in Nat
         /\ KeptLines(p)[t] <= payment[p].cart[t]
<1>1. payment[p].cart \in Lines
  BY DEF TypeOK
<1>2. payment[p].cart[t] \in Nat
  BY <1>1, QuantityTyped
<1> QED
  BY <1>2 DEF KeptLines

LEMMA SellsWhatIsFree ==
  ASSUME IInv, NEW p \in Payments, NEW at \in 0..MaxTime, Sells(p, at), NEW t \in TicketTypes,
         soldCount'[t] > soldCount[t]
  PROVE  soldCount'[t] + Held(t, now, Payments)' <= capacity[t]
<1>0. /\ payment \in [Payments -> [status : PaymentStatuses, cart : Lines,
                                  created : 0..MaxTime, elected : BOOLEAN]]
      /\ soldCount[t] \in Nat /\ capacity[t] \in Nat /\ now \in 0..MaxTime
      /\ HoldWindow \in Nat /\ MaxTime \in Nat
  BY CheckoutAssumption DEF IInv, TypeOK
<1>1. PICK gone \in UpgradesOutOf(p) : Record(p, KeptLines(p), gone)
  BY DEF Sells, ApproveAndCommit
<1>2. gone \subseteq Sales
  BY UpgradesOutOfActive, SalesFinite
<1>3. /\ soldCount'[t] = soldCount[t] + KeptLines(p)[t] - Restored(t, gone)
      /\ Restored(t, gone) \in Nat
  BY <1>1, <1>2, RestoredIsNat DEF Record
<1>4. /\ payment[p].cart[t] \in Nat /\ KeptLines(p)[t] \in Nat
      /\ KeptLines(p)[t] <= payment[p].cart[t]
  BY KeptIsFromTheCart DEF IInv
<1>5. payment[p].cart[t] > 0 /\ soldCount'[t] <= soldCount[t] + payment[p].cart[t]
  BY <1>0, <1>3, <1>4
<1>6. soldCount[t] + Held(t, at, Payments \ {p}) + payment[p].cart[t] <= capacity[t]
  <2>1. soldCount[t] - Restored(t, {}) + Held(t, at, Payments \ {p}) + payment[p].cart[t] <= capacity[t]
    BY <1>5 DEF Sells, ApproveAndCommit, FitsOwn, Fits
  <2>2. Restored(t, {}) = 0 /\ Held(t, at, Payments \ {p}) \in Nat
    BY NothingRestored, HeldIsNat
  <2> QED
    BY <1>0, <1>4, <2>1, <2>2
<1>7. /\ payment'[p].status = "approved"
      /\ \A q \in Payments : q # p => payment'[q] = payment[q]
  BY <1>0 DEF Sells, ApproveAndCommit
<1>8. HeldUnits(t, now, Payments)' \subseteq HeldUnits(t, at, Payments \ {p})
  <2>1. ASSUME NEW u \in Payments \X (1..MaxQuantity),
               Live(u[1], now)', u[2] <= payment'[u[1]].cart[t]
        PROVE  u[1] # p /\ Live(u[1], at) /\ u[2] <= payment[u[1]].cart[t]
    <3>1. u[1] # p
      BY <1>7, <2>1 DEF Live
    <3>2. payment'[u[1]] = payment[u[1]] /\ payment[u[1]].created \in Nat /\ now' = now
      BY <1>0, <1>7, <2>1, <3>1 DEF Sells
    <3> QED
      BY <1>0, <2>1, <3>1, <3>2 DEF Live, Sells
  <2> QED
    BY <2>1 DEF HeldUnits
<1>9. /\ Held(t, now, Payments)' \in Nat /\ Held(t, at, Payments \ {p}) \in Nat
      /\ Held(t, now, Payments)' <= Held(t, at, Payments \ {p})
  BY <1>8, HeldShrinks
<1>10. soldCount'[t] \in Nat
  BY <1>2, CommitEffect DEF Sells
<1> QED
  BY <1>0, <1>4, <1>5, <1>6, <1>9, <1>10

\* A sale of another channel leaves every live hold its room.
LEMMA RecordsWhatIsFree ==
  ASSUME IInv, NEW s, NEW lines \in Lines, NEW gone, gone \subseteq Sales,
         Fits(lines, now, Payments, gone), Record(s, lines, gone), UNCHANGED <<now, payment>>,
         NEW t \in TicketTypes, soldCount'[t] > soldCount[t]
  PROVE  soldCount'[t] + Held(t, now, Payments)' <= capacity[t]
<1>1. /\ soldCount'[t] = soldCount[t] + lines[t] - Restored(t, gone)
      /\ Restored(t, gone) \in Nat /\ lines[t] \in Nat /\ soldCount[t] \in Nat
  BY RestoredIsNat, QuantityTyped DEF Record, IInv, TypeOK
<1>2. soldCount[t] - Restored(t, gone) + Held(t, now, Payments) + lines[t] <= capacity[t]
  BY <1>1 DEF Fits
<1>3. Held(t, now, Payments)' = Held(t, now, Payments)
  BY DEF Held, HeldUnits, Live
<1>4. Held(t, now, Payments) \in Nat
  BY HeldIsNat
<1> QED
  BY <1>1, <1>2, <1>3, <1>4

HoldsLeft ==
  \A t \in TicketTypes :
    soldCount'[t] > soldCount[t] => soldCount'[t] + Held(t, now, Payments)' <= capacity[t]

LEMMA HoldsAreLeft ==
  ASSUME IInv, [Next]_vars PROVE HoldsLeft
<1> SUFFICES ASSUME NEW t \in TicketTypes, soldCount'[t] > soldCount[t]
             PROVE  soldCount'[t] + Held(t, now, Payments)' <= capacity[t]
  BY DEF HoldsLeft
<1>0. soldCount[t] \in Nat
  BY DEF IInv, TypeOK
<1>1. CASE Rings
  BY <1>0, <1>1 DEF Rings
<1>2. ASSUME NEW p \in Payments, NEW at \in 0..MaxTime, Sells(p, at)
      PROVE  soldCount'[t] + Held(t, now, Payments)' <= capacity[t]
  BY <1>2, SellsWhatIsFree
<1>3. ASSUME NEW i \in Imports, NEW cart \in Carts, RecordBatchlessImportSale(i, cart)
      PROVE  soldCount'[t] + Held(t, now, Payments)' <= capacity[t]
  BY <1>3, RecordsWhatIsFree DEF RecordBatchlessImportSale, Carts
<1>4. ASSUME NEW i \in Imports, NEW j \in Imports, NEW cart \in Carts, CorrectImportedSale(i, j, cart)
      PROVE  soldCount'[t] + Held(t, now, Payments)' <= capacity[t]
  BY <1>4, RecordsWhatIsFree, SalesFinite DEF CorrectImportedSale, Carts
<1>5. ASSUME NEW ids \in {{s} : s \in Sales} \cup SUBSET Imports, ReverseSales(ids) PROVE FALSE
  <2> DEFINE gone == {s \in ids : sale[s].status = "active"}
  <2>1. gone \subseteq Sales
    BY SalesFinite
  <2>2. soldCount'[t] = soldCount[t] - Restored(t, gone)
    BY <1>5 DEF ReverseSales
  <2> QED
    BY <1>0, <2>1, <2>2, RestoredIsNat
<1> QED
  BY <1>1, <1>2, <1>3, <1>4, <1>5, LedgerMoves

\* A Customer on the payment page keeps the tickets they hold, whichever channel
\* sells beside them, for any number of Payments, types and capacities.
THEOREM HoldsStayWhole == Spec => CommitLeavesHoldsWhole
<1>1. IInv /\ [Next]_vars => [HoldsLeft]_vars
  BY HoldsAreLeft
<1> QED
  BY <1>1, Invariance, PTL DEF Spec, CommitLeavesHoldsWhole, HoldsLeft

-----------------------------------------------------------------------------
(* An Upgrade and what it gives up.                                         *)

\* The tickets of more types are no fewer, and a line that holds any counts.
LEMMA TicketsGrow ==
  ASSUME NEW lines \in Lines, NEW few, NEW many, few \subseteq many, many \subseteq TicketTypes
  PROVE  /\ TicketsOf(lines, few) \in Nat /\ TicketsOf(lines, many) \in Nat
         /\ TicketsOf(lines, few) <= TicketsOf(lines, many)
         /\ TicketsOf(lines, few) = 0 <=> \A t \in few : lines[t] = 0
<1> DEFINE U(types) == {u \in types \X (1..MaxQuantity) : u[2] <= lines[u[1]]}
<1>1. IsFiniteSet(many) /\ IsFiniteSet(few)
  BY FS_Subset, CheckoutAssumption
<1>2. /\ IsFiniteSet(U(few)) /\ Cardinality(U(few)) \in Nat
      /\ IsFiniteSet(U(many)) /\ Cardinality(U(many)) \in Nat
  BY <1>1, UnitsFinite
<1>3. U(few) \subseteq U(many)
  OBVIOUS
<1>4. Cardinality(U(few)) <= Cardinality(U(many))
  BY <1>2, <1>3, FS_Subset
<1>5. Cardinality(U(few)) = 0 <=> U(few) = {}
  BY <1>2, FS_EmptySet
<1>6. U(few) = {} <=> \A t \in few : lines[t] = 0
  <2>1. ASSUME NEW t \in few PROVE lines[t] \in 0..MaxQuantity /\ MaxQuantity \in Nat
    BY QuantityTyped, CheckoutAssumption
  <2>2. ASSUME NEW t \in few, lines[t] # 0 PROVE <<t, 1>> \in U(few)
    BY <2>1, <2>2
  <2>3. ASSUME NEW t \in few, lines[t] = 0, NEW n \in 1..MaxQuantity PROVE <<t, n>> \notin U(few)
    BY <2>1, <2>3
  <2> QED
    BY <2>2, <2>3
<1> HIDE DEF U
<1>7. TicketsOf(lines, few) = Cardinality(U(few)) /\ TicketsOf(lines, many) = Cardinality(U(many))
  BY DEF TicketsOf, U
<1> QED
  BY <1>2, <1>4, <1>5, <1>6, <1>7

\* The one candidate of upgradeOutOfEarlierFreeSaleTx, or none.
LEMMA OneIsGivenUp ==
  ASSUME TypeOK, NEW p \in Payments, NEW gone \in UpgradesOutOf(p)
  PROVE  \/ gone = {}
         \/ /\ \E q \in Payments : gone = {q} /\ q \in Surrenderable(Buyer[p])
            /\ TicketsOf(KeptLines(p), FreeTypes) = 0
            /\ TicketsOf(KeptLines(p), TicketTypes) > 0
<1> SUFFICES ASSUME gone # {}
             PROVE  /\ \E q \in Payments : gone = {q} /\ q \in Surrenderable(Buyer[p])
                    /\ TicketsOf(KeptLines(p), FreeTypes) = 0
                    /\ TicketsOf(KeptLines(p), TicketTypes) > 0
  OBVIOUS
<1>1. /\ gone = Surrenderable(Buyer[p]) /\ Cardinality(gone) = 1
      /\ TicketsOf(KeptLines(p), FreeTypes) = 0
      /\ TicketsOf(KeptLines(p), TicketTypes \ FreeTypes) > 0
  BY DEF UpgradesOutOf
<1>2. gone \subseteq Payments /\ IsFiniteSet(gone)
  BY <1>1, FS_Subset, CheckoutAssumption DEF Surrenderable
<1>3. \E q : gone = {q}
  BY <1>1, <1>2, FS_Singleton
<1>4. TicketsOf(KeptLines(p), TicketTypes) > 0
  <2>1. KeptLines(p) \in Lines
    BY KeptLinesTyped
  <2>2. /\ TicketsOf(KeptLines(p), TicketTypes \ FreeTypes) \in Nat
        /\ TicketsOf(KeptLines(p), TicketTypes) \in Nat
        /\ TicketsOf(KeptLines(p), TicketTypes \ FreeTypes) <= TicketsOf(KeptLines(p), TicketTypes)
    BY <2>1, TicketsGrow
  <2> QED
    BY <1>1, <2>2
<1> QED
  BY <1>1, <1>2, <1>3, <1>4

\* What ReplacementIsSound says of one replaced sale.
Replaces(s, r) ==
  /\ sale[s].status = "reversed" /\ sale[r].status # "none"
  /\ \A q \in Sales : replacedBy[q] = r => q = s
  /\ r \in Payments =>
       /\ s \in Payments /\ Buyer[s] = Buyer[r]
       /\ TicketsOf(sale[s].lines, TicketTypes) = 1
       /\ TicketsOf(sale[s].lines, FreeTypes) = 1
       /\ TicketsOf(sale[r].lines, FreeTypes) = 0
       /\ TicketsOf(sale[r].lines, TicketTypes) > 0

LEMMA ReplacesAre ==
  ReplacementIsSound <=> \A s \in Sales : replacedBy[s] # NoSale => Replaces(s, replacedBy[s])
BY DEF ReplacementIsSound, Replaces

\* One transaction that records a new sale and reverses at most one other.
LEMMA RecordReplaces ==
  ASSUME TypeOK, ReplacementIsSound,
         NEW r \in Sales, sale[r].status = "none", NEW lines \in Lines,
         NEW gone, gone \subseteq Sales, \A s \in gone : sale[s].status = "active",
         \A s, q \in gone : s = q,
         r \in Payments => \A s \in gone :
           /\ s \in Payments /\ Buyer[s] = Buyer[r]
           /\ TicketsOf(sale[s].lines, TicketTypes) = 1
           /\ TicketsOf(sale[s].lines, FreeTypes) = 1
           /\ TicketsOf(lines, FreeTypes) = 0
           /\ TicketsOf(lines, TicketTypes) > 0,
         Record(r, lines, gone)
  PROVE  ReplacementIsSound'
<1>0. /\ sale \in [Sales -> [status : {"none", "active", "reversed"}, lines : Lines]]
      /\ replacedBy \in [Sales -> Sales \cup {NoSale}] /\ NoSale \notin Sales
  BY CheckoutAssumption DEF TypeOK
<1>1. /\ sale'[r] = [status |-> "active", lines |-> lines]
      /\ \A s \in gone : sale'[s].status = "reversed" /\ sale'[s].lines = sale[s].lines
      /\ \A s \in Sales : s # r /\ s \notin gone => sale'[s] = sale[s]
      /\ r \notin gone
  <2>1. r \notin gone
    OBVIOUS
  <2>2. ASSUME NEW s \in Sales
        PROVE  /\ s = r => sale'[s] = [status |-> "active", lines |-> lines]
               /\ s \in gone => sale'[s] = [sale[s] EXCEPT !.status = "reversed"]
               /\ s # r /\ s \notin gone => sale'[s] = sale[s]
    BY <2>1 DEF Record
  <2> QED
    BY <1>0, <2>1, <2>2
<1>2. \A s \in Sales : replacedBy'[s] = IF s \in gone THEN r ELSE replacedBy[s]
  BY DEF Record
<1>3. \A s \in Sales : replacedBy[s] # NoSale => Replaces(s, replacedBy[s])
  BY ReplacesAre
<1>4. \A s \in Sales : replacedBy[s] # r
  BY <1>0, <1>3 DEF Replaces
<1>5. ASSUME NEW s \in Sales, NEW o \in Sales, replacedBy'[s] = o
      PROVE  Replaces(s, o)'
  <2>1. CASE s \in gone
    <3>1. o = r
      BY <1>2, <1>5, <2>1
    <3>2. sale'[s].status = "reversed" /\ sale'[r].status # "none"
          /\ sale'[s].lines = sale[s].lines /\ sale'[r].lines = lines
      BY <1>1, <2>1
    <3>3. \A q \in Sales : replacedBy'[q] = r => q = s
      BY <1>2, <1>4, <2>1
    <3> QED
      BY <2>1, <3>1, <3>2, <3>3 DEF Replaces
  <2>2. CASE s \notin gone
    <3>1. replacedBy[s] = o /\ o # r /\ Replaces(s, o)
      BY <1>0, <1>2, <1>3, <1>4, <1>5, <2>2
    <3>2. s # r /\ sale'[s] = sale[s]
      BY <1>1, <2>2, <3>1 DEF Replaces
    <3>3. sale'[o].status # "none" /\ sale'[o].lines = sale[o].lines
      BY <1>1, <3>1 DEF Replaces
    <3>4. \A q \in Sales : replacedBy'[q] = o => q = s
      BY <1>2, <3>1 DEF Replaces
    <3> QED
      BY <3>1, <3>2, <3>3, <3>4 DEF Replaces
  <2> QED
    BY <2>1, <2>2
<1>6. \A s \in Sales : replacedBy'[s] # NoSale => replacedBy'[s] \in Sales
  BY <1>0, <1>2
<1> QED
  BY <1>5, <1>6 DEF ReplacementIsSound, Replaces

LEMMA ReversalReplaces ==
  ASSUME TypeOK, ReplacementIsSound, NEW ids, ids \subseteq Sales, ReverseSales(ids)
  PROVE  ReplacementIsSound'
<1>0. sale \in [Sales -> [status : {"none", "active", "reversed"}, lines : Lines]]
      /\ replacedBy \in [Sales -> Sales \cup {NoSale}]
  BY DEF TypeOK
<1>1. ASSUME NEW s \in Sales
      PROVE  /\ sale'[s].lines = sale[s].lines
             /\ sale[s].status = "reversed" => sale'[s].status = "reversed"
             /\ sale[s].status # "none" => sale'[s].status # "none"
  <2>1. sale'[s] = IF s \in ids /\ sale[s].status = "active"
                   THEN [sale[s] EXCEPT !.status = "reversed"] ELSE sale[s]
    BY DEF ReverseSales
  <2>2. sale[s] \in [status : {"none", "active", "reversed"}, lines : Lines]
    BY <1>0
  <2> QED
    BY <2>1, <2>2
<1>2. replacedBy' = replacedBy
  BY DEF ReverseSales
<1> QED
  BY <1>0, <1>1, <1>2 DEF ReplacementIsSound

LEMMA ReplacementKept ==
  ASSUME IInv, ReplacementIsSound, [Next]_vars PROVE ReplacementIsSound'
<1>1. CASE Rings
  BY <1>1 DEF Rings, ReplacementIsSound
<1>2. ASSUME NEW p \in Payments, NEW at \in 0..MaxTime, Sells(p, at) PROVE ReplacementIsSound'
  <2>1. PICK gone \in UpgradesOutOf(p) : Record(p, KeptLines(p), gone)
    BY <1>2 DEF Sells, ApproveAndCommit
  <2>2. p \in Sales /\ sale[p].status = "none"
    BY <1>2, SalesFinite DEF IInv, PaymentTracksSale, Sells, Unsettled, TypeOK
  <2>3. gone \subseteq Sales /\ \A s \in gone : sale[s].status = "active"
    BY UpgradesOutOfActive, SalesFinite
  <2>4. \/ gone = {}
        \/ /\ \E q \in Payments : gone = {q} /\ q \in Surrenderable(Buyer[p])
           /\ TicketsOf(KeptLines(p), FreeTypes) = 0
           /\ TicketsOf(KeptLines(p), TicketTypes) > 0
    BY OneIsGivenUp DEF IInv
  <2>5. KeptLines(p) \in Lines
    BY KeptLinesTyped DEF IInv
  <2> QED
    BY <2>1, <2>2, <2>3, <2>4, <2>5, RecordReplaces DEF IInv, Surrenderable
<1>3. ASSUME NEW i \in Imports, NEW cart \in Carts, RecordBatchlessImportSale(i, cart)
      PROVE  ReplacementIsSound'
  BY <1>3, RecordReplaces, SalesFinite DEF RecordBatchlessImportSale, Carts, IInv
<1>4. ASSUME NEW i \in Imports, NEW j \in Imports, NEW cart \in Carts, CorrectImportedSale(i, j, cart)
      PROVE  ReplacementIsSound'
  <2>1. /\ j \in Sales /\ sale[j].status = "none" /\ cart \in Lines /\ {i} \subseteq Sales
        /\ sale[i].status = "active" /\ Record(j, cart, {i}) /\ j \notin Payments
    BY <1>4, SalesFinite, CheckoutAssumption DEF CorrectImportedSale, Carts
  <2> QED
    BY <2>1, RecordReplaces DEF IInv
<1>5. ASSUME NEW ids \in {{s} : s \in Sales} \cup SUBSET Imports, ReverseSales(ids)
      PROVE  ReplacementIsSound'
  BY <1>5, ReversalReplaces, SalesFinite DEF IInv
<1> QED
  BY <1>1, <1>2, <1>3, <1>4, <1>5, LedgerMoves

\* However commits, corrections and reversals interleave, an Upgrade gives up one
\* free ticket of its own buyer, once.
THEOREM ReplacementsAreSound == Spec => []ReplacementIsSound
<1>1. Init => ReplacementIsSound
  BY DEF Init, ReplacementIsSound
<1>2. IInv /\ ReplacementIsSound /\ [Next]_vars => ReplacementIsSound'
  BY ReplacementKept
<1> QED
  BY <1>1, <1>2, Invariance, PTL DEF Spec

-----------------------------------------------------------------------------
(* The refinement: each step is a step of PaymentOutcome, or none at all.   *)

outcomes == [p \in Payments |-> Outcome(p)]
charges == {p \in Payments : verdict[p] = "approved"}

\* A Customer on the payment page is there to pay: a free basket settles without
\* a redirect (BeginCheckout).  The provider's approval rests on it.
PagesArePaid ==
  \A p \in Payments :
    begin[p] \in {"initiate", "redirected"} => TicketsOf(payment[p].cart, Paid) # 0

RInv == IInv /\ PagesArePaid

LEMMA PagesInit == Init => PagesArePaid
BY DEF Init, PagesArePaid

LEMMA PagesStay ==
  ASSUME RInv, [Next]_vars PROVE PagesArePaid'
<1>0. /\ begin \in [Payments -> BeginPcs]
      /\ payment \in [Payments -> [status : PaymentStatuses, cart : Lines,
                                  created : 0..MaxTime, elected : BOOLEAN]]
  BY DEF RInv, IInv, TypeOK
<1> SUFFICES ASSUME NEW q \in Payments, begin'[q] \in {"initiate", "redirected"}
             PROVE  TicketsOf(payment'[q].cart, Paid) # 0
  BY DEF PagesArePaid, TicketsOf, Paid
<1>1. ASSUME begin[q] \in {"initiate", "redirected"}, payment'[q].cart = payment[q].cart
      PROVE  TicketsOf(payment'[q].cart, Paid) # 0
  BY <1>1 DEF RInv, PagesArePaid
<1>2. ASSUME begin'[q] = begin[q], payment'[q].cart = payment[q].cart
      PROVE  TicketsOf(payment'[q].cart, Paid) # 0
  BY <1>1, <1>2
<1>3. ASSUME NEW p \in Payments, BeginStep(p)
      PROVE  TicketsOf(payment'[q].cart, Paid) # 0
  <2>1. CASE StartCheckout(p)
    <3>1. q # p /\ begin'[q] = begin[q] /\ payment'[q].cart = payment[q].cart
      BY <1>0, <2>1 DEF StartCheckout
    <3> QED
      BY <1>2, <3>1
  <2>2. CASE CreatePayment(p)
    <3>1. payment'[q].cart = payment[q].cart
      BY <1>0, <2>2 DEF CreatePayment
    <3>2. CASE q # p
      BY <1>0, <1>2, <2>2, <3>1, <3>2 DEF CreatePayment
    <3>3. CASE q = p
      <4>1. ~ \A t \in Paid : payment[q].cart[t] = 0
        BY <1>0, <2>2, <3>3 DEF CreatePayment, Paid
      <4>2. payment[q].cart \in Lines /\ Paid \subseteq TicketTypes
        BY <1>0 DEF Paid
      <4> QED
        BY <3>1, <4>1, <4>2, TicketsGrow
    <3> QED
      BY <3>2, <3>3
  <2>3. CASE Initiate(p)
    <3>1. begin[q] \in {"initiate", "redirected"} /\ payment' = payment
      BY <1>0, <2>3 DEF Initiate
    <3> QED
      BY <1>1, <3>1
  <2>4. CASE \/ ReadTicketTypes(p) \/ ReadHolds(p) \/ refusePurchaseLimitBreach(p)
             \/ AbortCheckout(p)
    <3>1. begin'[q] = begin[q] /\ payment' = payment
      BY <1>0, <2>4 DEF ReadTicketTypes, ReadHolds, refusePurchaseLimitBreach, AbortCheckout, Admit
    <3> QED
      BY <1>2, <3>1
  <2>5. CASE SettleFree(p) \/ FailFree(p)
    <3>1. begin'[q] = begin[q] /\ payment'[q].cart = payment[q].cart
      BY <1>0, <2>5 DEF SettleFree, FailFree, ApproveAndCommit, Settle
    <3> QED
      BY <1>2, <3>1
  <2> QED
    BY <1>3, <2>1, <2>2, <2>3, <2>4, <2>5 DEF BeginStep
<1>4. ASSUME NEW p \in Payments, NEW k \in Calls, ConfirmStep(p, k)
      PROVE  begin' = begin /\ payment'[q].cart = payment[q].cart
  BY <1>0, <1>4 DEF ConfirmStep, ReadPayment, AskProvider, MarkFailed, CommitApproved, MarkIncident,
     Reload, CrashConfirm, ApproveAndCommit, Settle
<1>5. ASSUME NEW p \in Payments, \/ Decide(p)
                                 \/ \E own \in BOOLEAN : AssignTicketToHolder(p, own)
      PROVE  begin' = begin /\ payment' = payment
  BY <1>5 DEF Decide, AssignTicketToHolder
<1>6. ASSUME \/ \E i \in Imports, cart \in Carts : RecordBatchlessImportSale(i, cart)
             \/ \E i, j \in Imports, cart \in Carts : CorrectImportedSale(i, j, cart)
             \/ \E ids \in {{s} : s \in Sales} \cup SUBSET Imports : ReverseSales(ids)
             \/ \E t \in TicketTypes, c \in Capacities : SetCapacity(t, c)
             \/ Tick
      PROVE  begin' = begin /\ payment' = payment
  BY <1>6 DEF RecordBatchlessImportSale, CorrectImportedSale, ReverseSales, SetCapacity, Tick
<1>7. CASE UNCHANGED vars
  BY <1>2, <1>7 DEF vars
<1> QED
  BY <1>2, <1>3, <1>4, <1>5, <1>6, <1>7 DEF Next

\* An outcome, read case by case.
OutcomeMeans(p) ==
  /\ sale[p].status = "active" => Outcome(p) = "sold"
  /\ sale[p].status = "reversed" => Outcome(p) = "reversed"
  /\ sale[p].status = "none" =>
       /\ payment[p].status = "none" => Outcome(p) = "none"
       /\ payment[p].status = "failed" => Outcome(p) = "declined"
       /\ payment[p].status = "approved" => Outcome(p) = "incident"
       /\ payment[p].status \in Unsettled =>
            Outcome(p) = IF TicketsOf(payment[p].cart, Paid) = 0 THEN "openFree" ELSE "openPaid"

LEMMA OutcomesMean == \A p : OutcomeMeans(p) /\ OutcomeMeans(p)'
BY DEF OutcomeMeans, Outcome, Unsettled, Paid

LEMMA SameOutcome ==
  ASSUME TypeOK, NEW p \in Payments, sale'[p].status = sale[p].status,
         \/ payment'[p].status = payment[p].status
         \/ payment'[p].status \in Unsettled /\ payment[p].status \in Unsettled,
         payment'[p].cart = payment[p].cart \/ payment[p].status = "none"
  PROVE  Outcome(p)' = Outcome(p)
<1>1. /\ sale[p].status \in {"none", "active", "reversed"}
      /\ payment[p].status \in {"none", "approved", "failed"} \cup Unsettled
  BY SalesFinite DEF TypeOK, PaymentStatuses
<1>2. payment[p].status # "none" =>
        TicketsOf(payment[p].cart, Paid)' = TicketsOf(payment[p].cart, Paid)
  BY DEF TicketsOf, Paid
<1> QED
  BY <1>1, <1>2, OutcomesMean DEF OutcomeMeans, Unsettled

LEMMA NothingHappens ==
  ASSUME \A p \in Payments : Outcome(p)' = Outcome(p), UNCHANGED verdict
  PROVE  UNCHANGED <<outcomes, charges>>
BY DEF outcomes, charges

\* One Payment moves on.
LEMMA OneMovesOn ==
  ASSUME TypeOK, NEW p \in Payments, NEW st \in PaymentStatuses,
         payment' = [payment EXCEPT ![p].status = st], UNCHANGED <<sale, verdict>>
  PROVE  /\ outcomes' = [outcomes EXCEPT ![p] = Outcome(p)'] /\ charges' = charges
         /\ payment'[p].status = st /\ sale'[p] = sale[p]
         /\ payment'[p].cart = payment[p].cart
<1>1. /\ payment'[p].status = st /\ payment'[p].cart = payment[p].cart
      /\ \A q \in Payments : q # p => payment'[q] = payment[q]
  BY DEF TypeOK
<1>2. \A q \in Payments : q # p => Outcome(q)' = Outcome(q)
  BY <1>1, SameOutcome
<1> QED
  BY <1>1, <1>2 DEF outcomes, charges

LEMMA DeclinesWhatIsOpen ==
  ASSUME RInv, NEW p \in Payments, Settle(p, "failed"), UNCHANGED <<sale, verdict>>,
         verdict[p] # "approved"
  PROVE  [PO!Next]_<<outcomes, charges>>
<1>0. sale[p].status # "none" => payment[p].status = "approved"
  BY DEF RInv, IInv, PaymentTracksSale
<1>1. CASE payment[p].status \in Unsettled
  <2>1. payment' = [payment EXCEPT ![p].status = "failed"] /\ "failed" \in PaymentStatuses
    BY <1>1 DEF Settle, PaymentStatuses
  <2>2. /\ outcomes' = [outcomes EXCEPT ![p] = Outcome(p)'] /\ charges' = charges
        /\ payment'[p].status = "failed" /\ sale'[p] = sale[p]
    BY <2>1, OneMovesOn DEF RInv, IInv
  <2>3. sale[p].status = "none"
    BY <1>0, <1>1, SalesFinite DEF RInv, IInv, TypeOK, Unsettled
  <2>4. Outcome(p) \in {"openFree", "openPaid"} /\ Outcome(p)' = "declined"
    BY <1>1, <2>2, <2>3, OutcomesMean DEF OutcomeMeans
  <2>5. outcomes[p] = Outcome(p) /\ p \notin charges
    BY DEF outcomes, charges
  <2>6. PO!Decline(p)
    BY <2>2, <2>4, <2>5 DEF PO!Decline, PO!Become, PO!Open, outcomes, charges
  <2> QED
    BY <2>6 DEF PO!Next
<1>2. CASE payment[p].status \notin Unsettled
  <2>1. payment' = payment
    BY <1>2 DEF Settle
  <2>2. UNCHANGED <<outcomes, charges>>
    BY <2>1, SameOutcome, NothingHappens DEF RInv, IInv
  <2> QED
    BY <2>2
<1> QED
  BY <1>1, <1>2

LEMMA StrandsWhatIsCharged ==
  ASSUME RInv, NEW p \in Payments, Settle(p, "approved"), UNCHANGED <<sale, verdict>>,
         verdict[p] = "approved"
  PROVE  [PO!Next]_<<outcomes, charges>>
<1>0. /\ sale[p].status # "none" => payment[p].status = "approved"
      /\ TicketsOf(payment[p].cart, Paid) # 0
  BY DEF RInv, IInv, PaymentTracksSale, PagesArePaid, ConfirmTracksVerdict
<1>1. CASE payment[p].status \in Unsettled
  <2>1. payment' = [payment EXCEPT ![p].status = "approved"] /\ "approved" \in PaymentStatuses
    BY <1>1 DEF Settle, PaymentStatuses
  <2>2. /\ outcomes' = [outcomes EXCEPT ![p] = Outcome(p)'] /\ charges' = charges
        /\ payment'[p].status = "approved" /\ sale'[p] = sale[p]
    BY <2>1, OneMovesOn DEF RInv, IInv
  <2>3. sale[p].status = "none"
    BY <1>0, <1>1, SalesFinite DEF RInv, IInv, TypeOK, Unsettled
  <2>4. Outcome(p) = "openPaid" /\ Outcome(p)' = "incident"
    BY <1>0, <1>1, <2>2, <2>3, OutcomesMean DEF OutcomeMeans
  <2>5. outcomes[p] = Outcome(p) /\ p \in charges
    BY DEF outcomes, charges
  <2>6. PO!Strand(p)
    BY <2>2, <2>4, <2>5 DEF PO!Strand, PO!Become, outcomes, charges
  <2> QED
    BY <2>6 DEF PO!Next
<1>2. CASE payment[p].status \notin Unsettled
  <2>1. payment' = payment
    BY <1>2 DEF Settle
  <2>2. UNCHANGED <<outcomes, charges>>
    BY <2>1, SameOutcome, NothingHappens DEF RInv, IInv
  <2> QED
    BY <2>2
<1> QED
  BY <1>1, <1>2

LEMMA StartsOnce ==
  ASSUME RInv, NEW p \in Payments, CreatePayment(p)
  PROVE  [PO!Next]_<<outcomes, charges>>
<1>1. payment[p].status = "none" /\ sale[p].status = "none"
  BY SalesFinite DEF RInv, IInv, TypeOK, CreatePayment, BeginTracksPayment, Opening, PaymentTracksSale
<1>2. payment' = [payment EXCEPT ![p].status = "pending"] /\ UNCHANGED <<sale, verdict>>
  BY DEF CreatePayment, ledger
<1>3. "pending" \in PaymentStatuses /\ "pending" \in Unsettled
  BY DEF PaymentStatuses, Unsettled
<1>4. /\ outcomes' = [outcomes EXCEPT ![p] = Outcome(p)'] /\ charges' = charges
      /\ payment'[p].status = "pending" /\ sale'[p] = sale[p]
  BY <1>2, <1>3, OneMovesOn DEF RInv, IInv
<1>5. Outcome(p) = "none" /\ Outcome(p)' \in {"openFree", "openPaid"}
  BY <1>1, <1>3, <1>4, OutcomesMean DEF OutcomeMeans
<1>6. outcomes[p] = Outcome(p)
  BY DEF outcomes
<1>7. PO!Start(p)
  BY <1>4, <1>5, <1>6 DEF PO!Start, PO!Become, PO!Open, outcomes, charges
<1> QED
  BY <1>7 DEF PO!Next

LEMMA ChargesWhatIsOpen ==
  ASSUME RInv, NEW p \in Payments, Decide(p)
  PROVE  [PO!Next]_<<outcomes, charges>>
<1>1. payment' = payment /\ sale' = sale
  BY DEF Decide, ledger
<1>2. outcomes' = outcomes
  BY <1>1, SameOutcome DEF RInv, IInv, outcomes
<1>3. begin[p] = "redirected" /\ verdict[p] = "none" /\ TicketsOf(payment[p].cart, Paid) # 0
  BY DEF Decide, RInv, PagesArePaid
<1>4. payment[p].status \in Unsettled /\ sale[p].status = "none"
  <2>1. payment[p].status \in PaymentStatuses \ {"none"}
    BY <1>3 DEF RInv, IInv, TypeOK, BeginTracksPayment
  <2>2. payment[p].status # "approved" /\ payment[p].status # "failed"
    BY <1>3 DEF RInv, IInv, PaymentTracksSale
  <2>3. sale[p].status = "none"
    BY <2>2 DEF RInv, IInv, PaymentTracksSale
  <2> QED
    BY <2>1, <2>2, <2>3 DEF PaymentStatuses
<1>5. outcomes[p] = "openPaid"
  BY <1>3, <1>4, OutcomesMean DEF OutcomeMeans, outcomes
<1>6. PICK v \in {"approved", "declined"} : verdict' = [verdict EXCEPT ![p] = v]
  BY DEF Decide
<1>7. verdict \in [Payments -> {"none", "approved", "declined"}]
  BY DEF RInv, IInv, TypeOK
<1>8. CASE v = "approved"
  <2>1. charges' = charges \cup {p}
    BY <1>6, <1>7, <1>8 DEF charges
  <2>2. PO!Charge(p)
    BY <1>2, <1>5, <2>1 DEF PO!Charge, outcomes, charges
  <2> QED
    BY <2>2 DEF PO!Next
<1>9. CASE v = "declined"
  <2>1. charges' = charges
    BY <1>3, <1>6, <1>7, <1>9 DEF charges
  <2> QED
    BY <1>2, <2>1
<1> QED
  BY <1>6, <1>8, <1>9

LEMMA SellsWhatIsPaidFor ==
  ASSUME RInv, NEW p \in Payments, NEW at, Sells(p, at)
  PROVE  [PO!Next]_<<outcomes, charges>>
<1>0. /\ sale \in [Sales -> [status : {"none", "active", "reversed"}, lines : Lines]]
      /\ payment \in [Payments -> [status : PaymentStatuses, cart : Lines,
                                  created : 0..MaxTime, elected : BOOLEAN]]
      /\ TypeOK
  BY DEF RInv, IInv, TypeOK
<1>1. PICK gone \in UpgradesOutOf(p) : Record(p, KeptLines(p), gone)
  BY DEF Sells, ApproveAndCommit
<1>2. payment[p].status \in Unsettled /\ sale[p].status = "none"
  BY <1>0, SalesFinite DEF Sells, RInv, IInv, PaymentTracksSale, Unsettled
<1>3. \/ gone = {}
      \/ \E q \in Payments : gone = {q} /\ sale[q].status = "active"
  BY <1>0, OneIsGivenUp DEF Surrenderable
<1>4. p \notin gone
  BY <1>2, <1>3
<1>5. ASSUME NEW s \in Payments
      PROVE  /\ s = p => sale'[s].status = "active"
             /\ s \in gone => sale'[s].status = "reversed"
             /\ s # p /\ s \notin gone => sale'[s] = sale[s]
  <2>1. s \in Sales /\ sale[s] \in [status : {"none", "active", "reversed"}, lines : Lines]
    BY <1>0, SalesFinite
  <2>2. /\ s = p => sale'[s] = [status |-> "active", lines |-> KeptLines(p)]
        /\ s \in gone => sale'[s] = [sale[s] EXCEPT !.status = "reversed"]
        /\ s # p /\ s \notin gone => sale'[s] = sale[s]
    BY <1>1, <1>4, <2>1 DEF Record
  <2> QED
    BY <2>1, <2>2
<1>6. \A q \in Payments : q # p => payment'[q] = payment[q]
  BY <1>0 DEF Sells, ApproveAndCommit
<1>7. ASSUME NEW q \in Payments
      PROVE  /\ q = p => Outcome(q)' = "sold"
             /\ q \in gone => Outcome(q) = "sold" /\ Outcome(q)' = "reversed"
             /\ q # p /\ q \notin gone => Outcome(q)' = Outcome(q)
  <2>1. q = p => Outcome(q)' = "sold"
    BY <1>5, OutcomesMean DEF OutcomeMeans
  <2>2. q \in gone => Outcome(q) = "sold" /\ Outcome(q)' = "reversed"
    BY <1>3, <1>5, OutcomesMean DEF OutcomeMeans
  <2>3. ASSUME q # p, q \notin gone PROVE Outcome(q)' = Outcome(q)
    BY <1>0, <1>5, <1>6, <2>3, SameOutcome
  <2> QED
    BY <2>1, <2>2, <2>3
<1>8. charges' = charges
  BY DEF Sells, charges
<1>9. outcomes[p] \in {"openFree", "openPaid"} /\ (outcomes[p] = "openPaid" => p \in charges)
  <2>1. Outcome(p) = IF TicketsOf(payment[p].cart, Paid) = 0 THEN "openFree" ELSE "openPaid"
    BY <1>2, OutcomesMean DEF OutcomeMeans
  <2> QED
    BY <2>1 DEF outcomes, charges, Sells
<1>10. CASE gone = {}
  <2>1. outcomes' = [outcomes EXCEPT ![p] = "sold"]
    BY <1>7, <1>10 DEF outcomes
  <2> HIDE DEF outcomes, charges
  <2>2. PO!Sell(p)
    BY <1>8, <1>9, <2>1 DEF PO!Sell, PO!Become, PO!Open, outcomes, charges
  <2> QED
    BY <2>2 DEF PO!Next
<1>11. ASSUME NEW q \in Payments, gone = {q} PROVE PO!Next
  <2>1. outcomes' = [outcomes EXCEPT ![p] = "sold", ![q] = "reversed"] /\ outcomes[q] = "sold"
    BY <1>4, <1>7, <1>11 DEF outcomes
  <2>2. PO!Sell(p)
    BY <1>8, <1>9, <2>1 DEF PO!Sell, PO!Open, outcomes, charges
  <2> QED
    BY <2>2 DEF PO!Next
<1> QED
  BY <1>3, <1>10, <1>11

LEMMA ReversesWhatIsSold ==
  ASSUME RInv, NEW ids \in {{s} : s \in Sales} \cup SUBSET Imports, ReverseSales(ids)
  PROVE  [PO!Next]_<<outcomes, charges>>
<1>0. sale \in [Sales -> [status : {"none", "active", "reversed"}, lines : Lines]] /\ TypeOK
  BY DEF RInv, IInv, TypeOK
<1>1. \A s \in Payments :
        /\ s \in ids /\ sale[s].status = "active" => sale'[s].status = "reversed"
        /\ ~ (s \in ids /\ sale[s].status = "active") => sale'[s] = sale[s]
  BY <1>0, SalesFinite DEF ReverseSales
<1>2. payment' = payment /\ verdict' = verdict
  BY DEF ReverseSales
<1>3. \A q \in Payments : ~ (q \in ids /\ sale[q].status = "active") => Outcome(q)' = Outcome(q)
  BY <1>0, <1>1, <1>2, SameOutcome
<1>4. CASE \E p \in Payments : ids = {p} /\ sale[p].status = "active"
  <2>1. PICK p \in Payments : ids = {p} /\ sale[p].status = "active"
    BY <1>4
  <2>2. Outcome(p) = "sold" /\ Outcome(p)' = "reversed"
    BY <1>1, <2>1, OutcomesMean DEF OutcomeMeans
  <2>3. outcomes' = [outcomes EXCEPT ![p] = "reversed"] /\ outcomes[p] = "sold"
    BY <1>3, <2>1, <2>2 DEF outcomes
  <2>4. PO!Reverse(p)
    BY <1>2, <2>3 DEF PO!Reverse, PO!Become, outcomes, charges
  <2> QED
    BY <2>4 DEF PO!Next
<1>5. CASE ~ \E p \in Payments : ids = {p} /\ sale[p].status = "active"
  <2>1. \A q \in Payments : Outcome(q)' = Outcome(q)
    BY <1>3, <1>5, CheckoutAssumption
  <2> QED
    BY <1>2, <2>1, NothingHappens
<1> QED
  BY <1>4, <1>5

LEMMA StartsNothing ==
  ASSUME RInv, NEW p \in Payments, StartCheckout(p)
  PROVE  UNCHANGED <<outcomes, charges>>
<1>0. /\ payment \in [Payments -> [status : PaymentStatuses, cart : Lines,
                                  created : 0..MaxTime, elected : BOOLEAN]]
      /\ TypeOK
  BY DEF RInv, IInv, TypeOK
<1>1. payment[p].status = "none"
  BY DEF RInv, IInv, BeginTracksPayment, StartCheckout, Opening
<1>2. sale' = sale /\ verdict' = verdict
  BY DEF StartCheckout, ledger
<1>3. ASSUME NEW q \in Payments PROVE Outcome(q)' = Outcome(q)
  <2>1. /\ \/ payment'[q].status = payment[q].status
           \/ payment'[q].status \in Unsettled /\ payment[q].status \in Unsettled
        /\ payment'[q].cart = payment[q].cart \/ payment[q].status = "none"
    BY <1>0, <1>1 DEF StartCheckout, Unsettled
  <2> QED
    BY <1>0, <1>2, <2>1, SameOutcome
<1> QED
  BY <1>2, <1>3, NothingHappens

LEMMA RefinementStep ==
  ASSUME RInv, [Next]_vars PROVE [PO!Next]_<<outcomes, charges>>
<1>0. TypeOK
  BY DEF RInv, IInv
<1>1. ASSUME payment' = payment, verdict' = verdict,
             \A s \in Payments : sale'[s] = sale[s]
      PROVE  UNCHANGED <<outcomes, charges>>
  BY <1>0, <1>1, SameOutcome, NothingHappens
<1>2. ASSUME NEW p \in Payments, BeginStep(p) PROVE [PO!Next]_<<outcomes, charges>>
  <2>1. CASE SettleFree(p)
    BY <1>1, <2>1, SettleFreeSells, SellsWhatIsPaidFor DEF RInv, ledger
  <2>2. CASE FailFree(p)
    <3>1. verdict[p] # "approved"
      BY <2>2 DEF RInv, IInv, ConfirmTracksVerdict, FailFree
    <3>2. UNCHANGED <<sale, verdict>> /\ (Settle(p, "failed") \/ payment' = payment)
      BY <2>2 DEF FailFree, ledger
    <3> QED
      BY <1>1, <3>1, <3>2, DeclinesWhatIsOpen
  <2>3. CASE StartCheckout(p) \/ CreatePayment(p)
    BY <2>3, StartsNothing, StartsOnce
  <2>4. CASE \/ ReadTicketTypes(p) \/ ReadHolds(p) \/ refusePurchaseLimitBreach(p)
             \/ Initiate(p) \/ AbortCheckout(p)
    BY <1>1, <2>4 DEF ReadTicketTypes, ReadHolds, refusePurchaseLimitBreach, Initiate,
       AbortCheckout, ledger
  <2> QED
    BY <1>2, <2>1, <2>2, <2>3, <2>4 DEF BeginStep
<1>3. ASSUME NEW p \in Payments, NEW k \in Calls, ConfirmStep(p, k)
      PROVE  [PO!Next]_<<outcomes, charges>>
  <2>1. CASE CommitApproved(p, k)
    BY <1>1, <2>1, CommitApprovedSells, SellsWhatIsPaidFor DEF RInv, ledger
  <2>2. CASE MarkFailed(p, k)
    <3>1. verdict[p] # "approved"
      BY <2>2 DEF RInv, IInv, ConfirmTracksVerdict, MarkFailed
    <3>2. UNCHANGED <<sale, verdict>> /\ (Settle(p, "failed") \/ payment' = payment)
      BY <2>2 DEF MarkFailed, ledger
    <3> QED
      BY <1>1, <3>1, <3>2, DeclinesWhatIsOpen
  <2>3. CASE MarkIncident(p, k)
    <3>1. verdict[p] = "approved"
      BY <2>3 DEF RInv, IInv, ConfirmTracksVerdict, MarkIncident
    <3>2. UNCHANGED <<sale, verdict>> /\ (Settle(p, "approved") \/ payment' = payment)
      BY <2>3 DEF MarkIncident, ledger
    <3> QED
      BY <1>1, <3>1, <3>2, StrandsWhatIsCharged
  <2>4. CASE ReadPayment(p, k) \/ AskProvider(p, k) \/ Reload(p, k) \/ CrashConfirm(p, k)
    BY <1>1, <2>4 DEF ReadPayment, AskProvider, Reload, CrashConfirm, ledger
  <2> QED
    BY <1>3, <2>1, <2>2, <2>3, <2>4 DEF ConfirmStep
<1>4. ASSUME NEW i \in Imports, NEW cart \in Carts, RecordBatchlessImportSale(i, cart)
      PROVE  UNCHANGED <<outcomes, charges>>
  <2>1. \A s \in Payments : sale'[s] = sale[s]
    BY <1>4, SalesFinite, CheckoutAssumption DEF RecordBatchlessImportSale, Record
  <2> QED
    BY <1>1, <1>4, <2>1 DEF RecordBatchlessImportSale
<1>5. ASSUME NEW i \in Imports, NEW j \in Imports, NEW cart \in Carts, CorrectImportedSale(i, j, cart)
      PROVE  UNCHANGED <<outcomes, charges>>
  <2>1. \A s \in Payments : sale'[s] = sale[s]
    BY <1>5, SalesFinite, CheckoutAssumption DEF CorrectImportedSale, Record
  <2> QED
    BY <1>1, <1>5, <2>1 DEF CorrectImportedSale
<1>6. ASSUME NEW ids \in {{s} : s \in Sales} \cup SUBSET Imports, ReverseSales(ids)
      PROVE  [PO!Next]_<<outcomes, charges>>
  BY <1>6, ReversesWhatIsSold
<1>7. ASSUME NEW p \in Payments, Decide(p) PROVE [PO!Next]_<<outcomes, charges>>
  BY <1>7, ChargesWhatIsOpen
<1>8. ASSUME \/ \E p \in Payments, own \in BOOLEAN : AssignTicketToHolder(p, own)
             \/ \E t \in TicketTypes, c \in Capacities : SetCapacity(t, c)
             \/ Tick
             \/ UNCHANGED vars
      PROVE  UNCHANGED <<outcomes, charges>>
  BY <1>1, <1>8 DEF AssignTicketToHolder, SetCapacity, Tick, ledger, vars
<1> QED
  BY <1>2, <1>3, <1>4, <1>5, <1>6, <1>7, <1>8 DEF Next

LEMMA RefinementInit == Init => PO!Init
<1> SUFFICES ASSUME Init PROVE PO!Init
  OBVIOUS
<1>1. \A p \in Payments : Outcome(p) = "none"
  BY OutcomesMean, SalesFinite DEF Init, OutcomeMeans
<1>2. \A p \in Payments : verdict[p] # "approved"
  BY DEF Init
<1> QED
  BY <1>1, <1>2 DEF PO!Init

\* The two legs of a redirect payment, lost acknowledgements, failed marks and
\* crashes included, keep the promise PaymentOutcome makes of each Payment.
THEOREM PaymentPromiseKept == Spec => ImplementsPaymentOutcome
<1>1. Init => PO!Init /\ PagesArePaid
  BY RefinementInit, PagesInit
<1>2. IInv /\ PagesArePaid /\ [Next]_vars => PagesArePaid'
  BY PagesStay DEF RInv
<1>3. IInv /\ PagesArePaid /\ [Next]_vars => [PO!Next]_<<outcomes, charges>>
  BY RefinementStep DEF RInv
<1> QED
  BY <1>1, <1>2, <1>3, Invariance, PTL DEF Spec, ImplementsPaymentOutcome, PO!Spec, outcomes, charges
=============================================================================
