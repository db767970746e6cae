--------------------------- MODULE CheckoutProofs ---------------------------
(***************************************************************************)
(* Proofs about Checkout for every value of its constants: the counting    *)
(* lemmas sold_count rests on, the inductive invariant, and the theorems.  *)
(***************************************************************************)
EXTENDS Checkout, FiniteSetTheorems, TLAPS

-----------------------------------------------------------------------------
(* Counting tickets.                                                        *)

\* The rows of the ticket set of any set of sales or payments are finitely many.
LEMMA UnitsFinite ==
  ASSUME NEW S, IsFiniteSet(S), NEW U, U \subseteq S \X (1..MaxQuantity)
  PROVE  IsFiniteSet(U) /\ Cardinality(U) \in Nat
<1>1. IsFiniteSet(1..MaxQuantity)
  BY FS_Interval, CheckoutAssumption
<1>2. IsFiniteSet(S \X (1..MaxQuantity))
  BY <1>1, FS_Product
<1>3. IsFiniteSet(U)
  BY <1>2, FS_Subset
<1> QED
  BY <1>3, FS_CardinalityType

LEMMA SalesFinite == IsFiniteSet(Sales) /\ Payments \subseteq Sales /\ Imports \subseteq Sales
BY FS_Union, CheckoutAssumption DEF Sales

LEMMA QuantityTyped == \A lines \in Lines, t \in TicketTypes : lines[t] \in 0..MaxQuantity /\ lines[t] \in Nat
BY CheckoutAssumption DEF Lines

LEMMA NoLinesTyped == NoLines \in Lines /\ \A t \in TicketTypes : NoLines[t] = 0
BY CheckoutAssumption DEF Lines, NoLines

\* mintTickets mints one ticket per unit: the tickets of one line are as many
\* as its quantity.
LEMMA TicketsOfOneLine ==
  ASSUME NEW s, NEW n \in 0..MaxQuantity
  PROVE  Cardinality({u \in {s} \X (1..MaxQuantity) : u[2] <= n}) = n
<1> DEFINE U == {u \in {s} \X (1..MaxQuantity) : u[2] <= n}
<1>1. n \in Nat /\ MaxQuantity \in Nat
  BY CheckoutAssumption
<1>2. U = {s} \X (1..n)
  BY <1>1
<1>3. IsFiniteSet(1..n) /\ Cardinality(1..n) = n
  BY <1>1, FS_Interval
<1>4. IsFiniteSet({s}) /\ Cardinality({s}) = 1
  BY FS_Singleton
<1>5. Cardinality({s} \X (1..n)) = Cardinality({s}) * Cardinality(1..n)
  BY <1>3, <1>4, FS_Product
<1>6. Cardinality({s} \X (1..n)) = 1 * n
  BY <1>3, <1>4, <1>5
<1>7. 1 * n = n
  BY <1>1
<1> QED
  BY <1>2, <1>6, <1>7

\* Removing a part of a finite set takes away exactly its size.
LEMMA SubtractPart ==
  ASSUME NEW S, IsFiniteSet(S), NEW T, T \subseteq S
  PROVE  /\ IsFiniteSet(S \ T)
         /\ Cardinality(S \ T) = Cardinality(S) - Cardinality(T)
         /\ Cardinality(T) <= Cardinality(S)
<1>1. S \cap T = T
  OBVIOUS
<1>2. IsFiniteSet(T) /\ Cardinality(T) <= Cardinality(S)
  BY FS_Subset
<1>3. /\ IsFiniteSet(S \ T)
      /\ Cardinality(S \ T) = Cardinality(S) - Cardinality(S \cap T)
  BY <1>2, FS_Difference
<1> QED
  BY <1>1, <1>2, <1>3

\* Adding a disjoint part adds exactly its size.
LEMMA AddPart ==
  ASSUME NEW S, IsFiniteSet(S), NEW T, IsFiniteSet(T), S \cap T = {}
  PROVE  Cardinality(S \cup T) = Cardinality(S) + Cardinality(T)
<1>1. Cardinality(S \cup T) = Cardinality(S) + Cardinality(T) - Cardinality(S \cap T)
  BY FS_Union
<1>2. Cardinality(S \cap T) = 0
  BY FS_EmptySet
<1>3. Cardinality(S) \in Nat /\ Cardinality(T) \in Nat
  BY FS_CardinalityType
<1> QED
  BY <1>1, <1>2, <1>3

\* What LiveCapacityHolds counts is a natural number, and it only grows with
\* the payments counted.
LEMMA HeldIsNat ==
  ASSUME NEW t, NEW at, NEW ps, ps \subseteq Payments
  PROVE  Held(t, at, ps) \in Nat
BY UnitsFinite, FS_Subset, CheckoutAssumption DEF Held, HeldUnits

LEMMA RestoredIsNat ==
  ASSUME NEW t, NEW gone, gone \subseteq Sales
  PROVE  Restored(t, gone) \in Nat
BY UnitsFinite, FS_Subset, SalesFinite DEF Restored, SoldUnits

\* The tickets of active sales are finitely many.
LEMMA SoldIsNat ==
  ASSUME NEW t
  PROVE  /\ IsFiniteSet(SoldUnits(t, Sales))
         /\ Cardinality(SoldUnits(t, Sales)) \in Nat
BY UnitsFinite, SalesFinite DEF SoldUnits

\* reverseSalesTx: voiding the tickets of some sales takes away what they held
\* and nothing else.
LEMMA VoidedTickets ==
  ASSUME NEW t, NEW gone, gone \subseteq Sales
  PROVE  /\ IsFiniteSet(SoldUnits(t, Sales) \ SoldUnits(t, gone))
         /\ Cardinality(SoldUnits(t, Sales) \ SoldUnits(t, gone))
              = Cardinality(SoldUnits(t, Sales)) - Restored(t, gone)
         /\ Restored(t, gone) <= Cardinality(SoldUnits(t, Sales))
<1>1. SoldUnits(t, gone) \subseteq SoldUnits(t, Sales)
  BY DEF SoldUnits
<1> QED
  BY <1>1, SoldIsNat, SubtractPart DEF Restored

\* CommitSales: whatever the channel, recording a sale moves sold_count by the
\* tickets minted less the tickets voided, so the count stays exact.
LEMMA RecordKeepsCount ==
  ASSUME TypeOK, SoldCountMatchesTickets,
         NEW s \in Sales, sale[s].status # "active", NEW lines \in Lines,
         NEW gone, gone \subseteq Sales, s \notin gone,
         Record(s, lines, gone)
  PROVE  /\ SoldCountMatchesTickets'
         /\ sale'[s] = [status |-> "active", lines |-> lines]
         /\ soldCount' \in [TicketTypes -> Nat]
         /\ sale' \in [Sales -> [status : {"none", "active", "reversed"}, lines : Lines]]
<1>0. /\ sale \in [Sales -> [status : {"none", "active", "reversed"}, lines : Lines]]
      /\ soldCount \in [TicketTypes -> Nat]
  BY DEF TypeOK
<1>1. /\ sale' \in [Sales -> [status : {"none", "active", "reversed"}, lines : Lines]]
      /\ sale'[s] = [status |-> "active", lines |-> lines]
      /\ \A r \in gone : sale'[r].status = "reversed"
      /\ \A r \in Sales : r # s /\ r \notin gone => sale'[r] = sale[r]
  <2>1. ASSUME NEW r \in Sales
        PROVE  /\ sale'[r] \in [status : {"none", "active", "reversed"}, lines : Lines]
               /\ r = s => sale'[r] = [status |-> "active", lines |-> lines]
               /\ r \in gone => sale'[r].status = "reversed"
               /\ r # s /\ r \notin gone => sale'[r] = sale[r]
    BY <1>0, <2>1 DEF Record
  <2>2. sale' = [r \in Sales |-> sale'[r]]
    BY DEF Record
  <2> QED
    BY <2>1, <2>2
<1>2. ASSUME NEW t \in TicketTypes
      PROVE  /\ soldCount[t] + lines[t] - Restored(t, gone) = Cardinality(SoldUnits(t, Sales)')
             /\ soldCount[t] + lines[t] - Restored(t, gone) \in Nat
  <2> DEFINE Kept == SoldUnits(t, Sales) \ SoldUnits(t, gone)
             Minted == {u \in {s} \X (1..MaxQuantity) : u[2] <= lines[t]}
  <2>1. SoldUnits(t, Sales)' = Kept \cup Minted
    BY <1>1 DEF SoldUnits
  <2>2. Kept \cap Minted = {}
    BY DEF SoldUnits
  <2>3. IsFiniteSet(Minted) /\ Cardinality(Minted) = lines[t]
    <3>1. lines[t] \in 0..MaxQuantity
      BY QuantityTyped
    <3>2. Cardinality(Minted) = lines[t]
      BY <3>1, TicketsOfOneLine
    <3>3. IsFiniteSet({s}) /\ Minted \subseteq {s} \X (1..MaxQuantity)
      BY FS_Singleton
    <3> HIDE DEF Minted
    <3> QED
      BY <3>2, <3>3, UnitsFinite
  <2>4. IsFiniteSet(Kept) /\ Cardinality(Kept) = Cardinality(SoldUnits(t, Sales)) - Restored(t, gone)
        /\ Restored(t, gone) <= Cardinality(SoldUnits(t, Sales))
    BY VoidedTickets
  <2>5. Cardinality(Kept \cup Minted) = Cardinality(Kept) + Cardinality(Minted)
    BY <2>2, <2>3, <2>4, AddPart
  <2>6. /\ soldCount[t] = Cardinality(SoldUnits(t, Sales))
        /\ Restored(t, gone) \in Nat /\ lines[t] \in Nat /\ soldCount[t] \in Nat
    BY <1>0, RestoredIsNat, QuantityTyped DEF SoldCountMatchesTickets
  <2> HIDE DEF Kept, Minted
  <2> QED
    BY <2>1, <2>3, <2>4, <2>5, <2>6
<1>3. /\ soldCount' \in [TicketTypes -> Nat]
      /\ \A t \in TicketTypes : soldCount'[t] = Cardinality(SoldUnits(t, Sales)')
  BY <1>2 DEF Record
<1> QED
  BY <1>1, <1>3 DEF SoldCountMatchesTickets

\* reverseSalesTx keeps the count exact too.
LEMMA ReverseKeepsCount ==
  ASSUME TypeOK, SoldCountMatchesTickets,
         NEW ids, ids \subseteq Sales, ReverseSales(ids)
  PROVE  /\ SoldCountMatchesTickets'
         /\ soldCount' \in [TicketTypes -> Nat]
         /\ sale' \in [Sales -> [status : {"none", "active", "reversed"}, lines : Lines]]
<1> DEFINE gone == {s \in ids : sale[s].status = "active"}
<1>0. /\ sale \in [Sales -> [status : {"none", "active", "reversed"}, lines : Lines]]
      /\ soldCount \in [TicketTypes -> Nat]
      /\ gone \subseteq Sales
  BY DEF TypeOK
<1>1. /\ sale' = [s \in Sales |-> IF s \in gone THEN [sale[s] EXCEPT !.status = "reversed"]
                                               ELSE sale[s]]
      /\ soldCount' = [t \in TicketTypes |-> soldCount[t] - Restored(t, gone)]
  BY DEF ReverseSales
<1> HIDE DEF gone
<1>2. /\ sale' \in [Sales -> [status : {"none", "active", "reversed"}, lines : Lines]]
      /\ \A r \in gone : sale'[r].status = "reversed"
      /\ \A r \in Sales : r \notin gone => sale'[r] = sale[r]
  BY <1>0, <1>1
<1>3. ASSUME NEW t \in TicketTypes
      PROVE  /\ soldCount[t] - Restored(t, gone) = Cardinality(SoldUnits(t, Sales)')
             /\ soldCount[t] - Restored(t, gone) \in Nat
  <2>1. SoldUnits(t, Sales)' = SoldUnits(t, Sales) \ SoldUnits(t, gone)
    BY <1>0, <1>2 DEF SoldUnits
  <2>2. /\ soldCount[t] = Cardinality(SoldUnits(t, Sales))
        /\ Restored(t, gone) \in Nat /\ soldCount[t] \in Nat
    BY <1>0, RestoredIsNat DEF SoldCountMatchesTickets
  <2>3. /\ Cardinality(SoldUnits(t, Sales) \ SoldUnits(t, gone))
             = Cardinality(SoldUnits(t, Sales)) - Restored(t, gone)
        /\ Restored(t, gone) <= Cardinality(SoldUnits(t, Sales))
    BY <1>0, VoidedTickets
  <2> QED
    BY <2>1, <2>2, <2>3
<1> QED
  BY <1>1, <1>2, <1>3 DEF SoldCountMatchesTickets

-----------------------------------------------------------------------------
(* The inductive invariant.                                                 *)

Opening == {"idle", "readTypes", "readHolds", "readHoldings", "insert"}
Paid == TicketTypes \ FreeTypes

\* How far BeginCheckout got says whether there is a Payment and what it costs.
BeginTracksPayment ==
  \A p \in Payments :
    /\ begin[p] \in Opening => payment[p].status = "none"
    /\ begin[p] \in {"initiate", "redirected", "settleFree", "failFree", "settled"}
         => payment[p].status # "none"
    /\ begin[p] \in {"settleFree", "failFree"} => TicketsOf(payment[p].cart, Paid) = 0
    /\ payment[p].created <= now

\* What a ConfirmCheckout call stands on is what the provider decided.
ConfirmTracksVerdict ==
  \A p \in Payments :
    /\ verdict[p] # "none" => begin[p] = "redirected"
    /\ \A k \in Calls :
         /\ confirm[p][k] # "idle" => begin[p] \in {"redirected", "settled"}
         /\ confirm[p][k] \in {"approved", "marking"} => verdict[p] = "approved"
         /\ confirm[p][k] = "declined" => verdict[p] = "declined"
         /\ confirm[p][k] = "reloading" => payment[p].status \in {"approved", "failed"}

\* A settled Payment agrees with the sale and with the charge.
PaymentTracksSale ==
  \A p \in Payments :
    /\ sale[p].status # "none" => payment[p].status = "approved"
    /\ payment[p].status = "approved" =>
         \/ verdict[p] = "approved"
         \/ sale[p].status # "none" /\ TicketsOf(payment[p].cart, Paid) = 0
    /\ payment[p].status = "failed" => verdict[p] = "declined" \/ begin[p] = "over"

ToldTracksPayment ==
  \A p \in Payments :
    /\ "approved" \in told[p] => sale[p].status # "none"
    /\ "failed" \in told[p] => payment[p].status = "failed"

IInv ==
  /\ TypeOK /\ SoldCountMatchesTickets
  /\ BeginTracksPayment /\ ConfirmTracksVerdict /\ PaymentTracksSale /\ ToldTracksPayment

LEMMA CountIgnoresPayments ==
  ASSUME SoldCountMatchesTickets, soldCount' = soldCount, sale' = sale
  PROVE  SoldCountMatchesTickets'
BY DEF SoldCountMatchesTickets, SoldUnits

\* The tickets of a cart whose every line of some types is empty.
LEMMA NoTickets ==
  ASSUME NEW lines \in Lines, NEW types, types \subseteq TicketTypes,
         \A t \in types : lines[t] = 0
  PROVE  TicketsOf(lines, types) = 0
<1>1. {u \in types \X (1..MaxQuantity) : u[2] <= lines[u[1]]} = {}
  BY CheckoutAssumption
<1> QED
  BY <1>1, FS_EmptySet DEF TicketsOf

LEMMA AdmitTyped ==
  ASSUME NEW p, NEW left
  PROVE  Admit(p, left) \in {"insert", "over"}
BY DEF Admit

\* What LiveCapacityHolds leaves of the room is an integer for each type.
LEMMA RoomTyped ==
  ASSUME TypeOK, NEW p \in Payments
  PROVE  [t \in TicketTypes |-> room[p][t] - Held(t, payment[p].created, Payments)]
           \in [TicketTypes -> Int]
<1>1. room[p] \in [TicketTypes -> Int]
  BY DEF TypeOK
<1>2. \A t \in TicketTypes : Held(t, payment[p].created, Payments) \in Nat
  BY HeldIsNat
<1> QED
  BY <1>1, <1>2

LEMMA NoRoomTyped == NoLines \in [TicketTypes -> Int]
BY DEF NoLines

\* Giving one Payment another status changes nothing else of any Payment.
LEMMA StatusUpdate ==
  ASSUME TypeOK, NEW p \in Payments, NEW st \in PaymentStatuses,
         payment' = [payment EXCEPT ![p].status = st]
  PROVE  /\ payment' \in [Payments -> [status : PaymentStatuses, cart : Lines,
                                      created : 0..MaxTime, elected : BOOLEAN]]
         /\ payment'[p].status = st
         /\ payment'[p].cart = payment[p].cart
         /\ payment'[p].created = payment[p].created
         /\ \A q \in Payments : q # p => payment'[q] = payment[q]
<1>1. payment \in [Payments -> [status : PaymentStatuses, cart : Lines,
                               created : 0..MaxTime, elected : BOOLEAN]]
  BY DEF TypeOK
<1>2. payment[p] \in [status : PaymentStatuses, cart : Lines,
                     created : 0..MaxTime, elected : BOOLEAN]
  BY <1>1
<1>3. payment'[p] = [payment[p] EXCEPT !.status = st]
  BY <1>1
<1>4. \A q \in Payments : q # p => payment'[q] = payment[q]
  BY <1>1
<1>5. payment' = [q \in Payments |-> payment'[q]]
  BY <1>1
<1>6. /\ payment'[p] \in [status : PaymentStatuses, cart : Lines,
                          created : 0..MaxTime, elected : BOOLEAN]
      /\ payment'[p].status = st
      /\ payment'[p].cart = payment[p].cart
      /\ payment'[p].created = payment[p].created
  BY <1>2, <1>3
<1>7. \A q \in Payments : payment'[q] \in [status : PaymentStatuses, cart : Lines,
                                           created : 0..MaxTime, elected : BOOLEAN]
  BY <1>1, <1>4, <1>6
<1> QED
  BY <1>4, <1>5, <1>6, <1>7

LEMMA ToldUpdate ==
  ASSUME TypeOK, NEW p \in Payments, NEW o \in {"approved", "failed", "incident"}, Tell(p, o)
  PROVE  /\ told' \in [Payments -> SUBSET {"approved", "failed", "incident"}]
         /\ \A q \in Payments : q # p => told'[q] = told[q]
         /\ \A a \in told'[p] : a \in told[p] \/ a = o
<1>1. told \in [Payments -> SUBSET {"approved", "failed", "incident"}]
  BY DEF TypeOK
<1>2. told' = [told EXCEPT ![p] = told[p] \cup {o}]
  BY DEF Tell
<1>3. told[p] \cup {o} \in SUBSET {"approved", "failed", "incident"}
  BY <1>1
<1> QED
  BY <1>1, <1>2, <1>3

LEMMA PcUpdate ==
  ASSUME TypeOK, NEW p \in Payments, NEW k \in Calls, NEW pc \in ConfirmPcs, GoTo(p, k, pc)
  PROVE  /\ confirm' \in [Payments -> [Calls -> ConfirmPcs]]
         /\ \A q \in Payments, j \in Calls :
              confirm'[q][j] = IF q = p /\ j = k THEN pc ELSE confirm[q][j]
<1>1. confirm \in [Payments -> [Calls -> ConfirmPcs]]
  BY DEF TypeOK
<1>2. confirm' = [confirm EXCEPT ![p] = [confirm[p] EXCEPT ![k] = pc]]
  BY DEF GoTo
<1>3. [confirm[p] EXCEPT ![k] = pc] \in [Calls -> ConfirmPcs]
  BY <1>1
<1> QED
  BY <1>1, <1>2, <1>3

-----------------------------------------------------------------------------
(* BeginCheckout keeps the invariant.                                       *)

LEMMA StartCheckoutStep ==
  ASSUME IInv, NEW p \in Payments, StartCheckout(p)
  PROVE  IInv'
<1>1. SoldCountMatchesTickets'
  BY CountIgnoresPayments DEF IInv, StartCheckout, ledger
<1>2. TypeOK'
  <2>1. PICK cart \in Carts, elected \in IF TicketAssignment THEN BOOLEAN ELSE {FALSE},
             expired \in {{}, {q \in Payments : /\ payment[q].status = "pending"
                                                /\ payment[q].created + HoldWindow <= now}} :
          payment' = [q \in Payments |->
            IF q = p THEN [payment[p] EXCEPT !.cart = cart, !.created = now, !.elected = elected]
            ELSE IF q \in expired THEN [payment[q] EXCEPT !.status = "expired"]
            ELSE payment[q]]
    BY DEF StartCheckout
  <2>2. cart \in Lines /\ now \in 0..MaxTime /\ elected \in BOOLEAN
    BY DEF IInv, TypeOK, Carts
  <2>3. payment' \in [Payments -> [status : PaymentStatuses, cart : Lines,
                                   created : 0..MaxTime, elected : BOOLEAN]]
    <3> DEFINE Rows == [status : PaymentStatuses, cart : Lines,
                        created : 0..MaxTime, elected : BOOLEAN]
    <3>1. ASSUME NEW q \in Payments
          PROVE  payment'[q] \in Rows
      <4>1. payment[q] \in Rows /\ "expired" \in PaymentStatuses
        BY DEF IInv, TypeOK, PaymentStatuses, Unsettled
      <4>2. CASE q = p
        <5>1. payment'[q] = [payment[p] EXCEPT !.cart = cart, !.created = now, !.elected = elected]
          BY <2>1, <4>2
        <5> QED
          BY <2>2, <4>1, <4>2, <5>1
      <4>3. CASE q # p /\ q \in expired
        <5>1. payment'[q] = [payment[q] EXCEPT !.status = "expired"]
          BY <2>1, <4>3
        <5> QED
          BY <4>1, <5>1
      <4>4. CASE q # p /\ q \notin expired
        BY <2>1, <4>1, <4>4
      <4> QED
        BY <4>2, <4>3, <4>4
    <3>2. payment' = [q \in Payments |-> payment'[q]]
      BY <2>1
    <3> QED
      BY <3>1, <3>2
  <2> QED
    BY <2>3 DEF IInv, TypeOK, StartCheckout, ledger, BeginPcs
<1>3. BeginTracksPayment'
  BY CheckoutAssumption DEF IInv, TypeOK, BeginTracksPayment, ConfirmTracksVerdict, StartCheckout, ledger, Opening,
                            BeginPcs, PaymentStatuses, Unsettled, Settle
<1>4. ConfirmTracksVerdict'
  BY CheckoutAssumption DEF IInv, TypeOK, ConfirmTracksVerdict, BeginTracksPayment, StartCheckout, ledger, Opening,
                            BeginPcs, PaymentStatuses, Unsettled, Settle
<1>5. PaymentTracksSale'
  BY DEF IInv, TypeOK, PaymentTracksSale, BeginTracksPayment, ConfirmTracksVerdict, StartCheckout, ledger,
         Settle, PaymentStatuses, Unsettled, Opening
<1>6. ToldTracksPayment'
  BY DEF IInv, TypeOK, ToldTracksPayment, BeginTracksPayment, StartCheckout, ledger, Settle, PaymentStatuses,
         Unsettled, Opening
<1> QED
  BY <1>1, <1>2, <1>3, <1>4, <1>5, <1>6 DEF IInv

LEMMA ReadTicketTypesStep ==
  ASSUME IInv, NEW p \in Payments, ReadTicketTypes(p)
  PROVE  IInv'
<1>1. SoldCountMatchesTickets'
  BY CountIgnoresPayments DEF IInv, ReadTicketTypes, ledger
<1>2. TypeOK'
  BY DEF IInv, TypeOK, ReadTicketTypes, ledger, BeginPcs, PaymentStatuses, Unsettled, Settle
<1>3. BeginTracksPayment'
  BY CheckoutAssumption DEF IInv, TypeOK, BeginTracksPayment, ConfirmTracksVerdict, ReadTicketTypes, ledger, Opening,
                            BeginPcs, PaymentStatuses, Unsettled, Settle
<1>4. ConfirmTracksVerdict'
  BY CheckoutAssumption DEF IInv, TypeOK, ConfirmTracksVerdict, BeginTracksPayment, ReadTicketTypes, ledger, Opening,
                            BeginPcs, PaymentStatuses, Unsettled, Settle
<1>5. PaymentTracksSale'
  BY DEF IInv, TypeOK, PaymentTracksSale, BeginTracksPayment, ConfirmTracksVerdict, ReadTicketTypes, ledger,
         Settle, PaymentStatuses, Unsettled, Opening
<1>6. ToldTracksPayment'
  BY DEF IInv, TypeOK, ToldTracksPayment, BeginTracksPayment, ReadTicketTypes, ledger, Settle, PaymentStatuses,
         Unsettled, Opening
<1> QED
  BY <1>1, <1>2, <1>3, <1>4, <1>5, <1>6 DEF IInv

LEMMA ReadHoldsStep ==
  ASSUME IInv, NEW p \in Payments, ReadHolds(p)
  PROVE  IInv'
<1>0. /\ UNCHANGED <<now, ledger, payment, verdict, confirm, told>>
      /\ \E pc \in {"readHoldings", "insert", "over"} : begin' = [begin EXCEPT ![p] = pc]
      /\ \E left \in [TicketTypes -> Int] : room' = [room EXCEPT ![p] = left]
      /\ begin[p] \in Opening
  BY AdmitTyped, RoomTyped, NoRoomTyped DEF ReadHolds, IInv, Opening
<1>1. SoldCountMatchesTickets'
  BY <1>0, CountIgnoresPayments DEF IInv, ledger
<1>2. TypeOK'
  BY <1>0 DEF IInv, TypeOK, ledger, BeginPcs
<1>3. BeginTracksPayment'
  BY <1>0 DEF IInv, TypeOK, BeginTracksPayment, ledger, Opening
<1>4. ConfirmTracksVerdict'
  BY <1>0 DEF IInv, TypeOK, ConfirmTracksVerdict, ledger, Opening
<1>5. PaymentTracksSale'
  BY <1>0 DEF IInv, TypeOK, PaymentTracksSale, ledger, Opening, BeginTracksPayment
<1>6. ToldTracksPayment'
  BY <1>0 DEF IInv, ToldTracksPayment, ledger
<1> QED
  BY <1>1, <1>2, <1>3, <1>4, <1>5, <1>6 DEF IInv

LEMMA refusePurchaseLimitBreachStep ==
  ASSUME IInv, NEW p \in Payments, refusePurchaseLimitBreach(p)
  PROVE  IInv'
<1>0. /\ UNCHANGED <<now, ledger, payment, verdict, confirm, told>>
      /\ \E pc \in {"readHoldings", "insert", "over"} : begin' = [begin EXCEPT ![p] = pc]
      /\ \E left \in [TicketTypes -> Int] : room' = [room EXCEPT ![p] = left]
      /\ begin[p] \in Opening
  BY AdmitTyped, RoomTyped, NoRoomTyped DEF refusePurchaseLimitBreach, IInv, Opening
<1>1. SoldCountMatchesTickets'
  BY <1>0, CountIgnoresPayments DEF IInv, ledger
<1>2. TypeOK'
  BY <1>0 DEF IInv, TypeOK, ledger, BeginPcs
<1>3. BeginTracksPayment'
  BY <1>0 DEF IInv, TypeOK, BeginTracksPayment, ledger, Opening
<1>4. ConfirmTracksVerdict'
  BY <1>0 DEF IInv, TypeOK, ConfirmTracksVerdict, ledger, Opening
<1>5. PaymentTracksSale'
  BY <1>0 DEF IInv, TypeOK, PaymentTracksSale, ledger, Opening, BeginTracksPayment
<1>6. ToldTracksPayment'
  BY <1>0 DEF IInv, ToldTracksPayment, ledger
<1> QED
  BY <1>1, <1>2, <1>3, <1>4, <1>5, <1>6 DEF IInv

LEMMA CreatePaymentStep ==
  ASSUME IInv, NEW p \in Payments, CreatePayment(p)
  PROVE  IInv'
<1>0. /\ payment' = [payment EXCEPT ![p].status = "pending"]
      /\ UNCHANGED <<now, ledger, room, verdict, confirm, told>>
      /\ begin[p] = "insert"
      /\ \/ begin' = [begin EXCEPT ![p] = "initiate"]
         \/ begin' = [begin EXCEPT ![p] = "settleFree"] /\ TicketsOf(payment[p].cart, Paid) = 0
  BY NoTickets DEF CreatePayment, IInv, TypeOK, Paid
<1>00. /\ payment' \in [Payments -> [status : PaymentStatuses, cart : Lines,
                                    created : 0..MaxTime, elected : BOOLEAN]]
       /\ payment'[p].status = "pending"
       /\ payment'[p].cart = payment[p].cart
       /\ payment'[p].created = payment[p].created
       /\ \A q \in Payments : q # p => payment'[q] = payment[q]
  <2>1. "pending" \in PaymentStatuses
    BY DEF PaymentStatuses, Unsettled
  <2> QED
    BY <1>0, <2>1, StatusUpdate DEF IInv
<1>1. SoldCountMatchesTickets'
  BY <1>0, CountIgnoresPayments DEF IInv, ledger
<1>2. TypeOK'
  BY <1>0, <1>00 DEF IInv, TypeOK, ledger, BeginPcs, PaymentStatuses, Unsettled
<1>3. BeginTracksPayment'
  BY <1>0, <1>00 DEF IInv, TypeOK, BeginTracksPayment, ledger, Opening
<1>4. ConfirmTracksVerdict'
  BY <1>0, <1>00 DEF IInv, TypeOK, ConfirmTracksVerdict, ledger, Opening
<1>5. PaymentTracksSale'
  BY <1>0, <1>00 DEF IInv, TypeOK, PaymentTracksSale, BeginTracksPayment, ledger, Opening
<1>6. ToldTracksPayment'
  BY <1>0, <1>00 DEF IInv, TypeOK, ToldTracksPayment, BeginTracksPayment, ledger, Opening
<1> QED
  BY <1>1, <1>2, <1>3, <1>4, <1>5, <1>6 DEF IInv

LEMMA InitiateStep ==
  ASSUME IInv, NEW p \in Payments, Initiate(p)
  PROVE  IInv'
<1>1. SoldCountMatchesTickets'
  BY CountIgnoresPayments DEF IInv, Initiate, ledger
<1>2. TypeOK'
  BY DEF IInv, TypeOK, Initiate, ledger, BeginPcs, PaymentStatuses, Unsettled, Settle
<1>3. BeginTracksPayment'
  BY CheckoutAssumption DEF IInv, TypeOK, BeginTracksPayment, ConfirmTracksVerdict, Initiate, ledger, Opening,
                            BeginPcs, PaymentStatuses, Unsettled, Settle
<1>4. ConfirmTracksVerdict'
  BY CheckoutAssumption DEF IInv, TypeOK, ConfirmTracksVerdict, BeginTracksPayment, Initiate, ledger, Opening,
                            BeginPcs, PaymentStatuses, Unsettled, Settle
<1>5. PaymentTracksSale'
  BY DEF IInv, TypeOK, PaymentTracksSale, BeginTracksPayment, ConfirmTracksVerdict, Initiate, ledger,
         Settle, PaymentStatuses, Unsettled, Opening
<1>6. ToldTracksPayment'
  BY DEF IInv, TypeOK, ToldTracksPayment, BeginTracksPayment, Initiate, ledger, Settle, PaymentStatuses,
         Unsettled, Opening
<1> QED
  BY <1>1, <1>2, <1>3, <1>4, <1>5, <1>6 DEF IInv

LEMMA AbortCheckoutStep ==
  ASSUME IInv, NEW p \in Payments, AbortCheckout(p)
  PROVE  IInv'
<1>1. SoldCountMatchesTickets'
  BY CountIgnoresPayments DEF IInv, AbortCheckout, ledger
<1>2. TypeOK'
  BY NoRoomTyped DEF IInv, TypeOK, AbortCheckout, ledger, BeginPcs
<1>3. BeginTracksPayment'
  BY CheckoutAssumption DEF IInv, TypeOK, BeginTracksPayment, ConfirmTracksVerdict, AbortCheckout, ledger, Opening,
                            BeginPcs, PaymentStatuses, Unsettled, Settle
<1>4. ConfirmTracksVerdict'
  BY CheckoutAssumption DEF IInv, TypeOK, ConfirmTracksVerdict, BeginTracksPayment, AbortCheckout, ledger, Opening,
                            BeginPcs, PaymentStatuses, Unsettled, Settle
<1>5. PaymentTracksSale'
  BY DEF IInv, TypeOK, PaymentTracksSale, BeginTracksPayment, ConfirmTracksVerdict, AbortCheckout, ledger,
         Settle, PaymentStatuses, Unsettled, Opening
<1>6. ToldTracksPayment'
  BY DEF IInv, TypeOK, ToldTracksPayment, BeginTracksPayment, AbortCheckout, ledger, Settle, PaymentStatuses,
         Unsettled, Opening
<1> QED
  BY <1>1, <1>2, <1>3, <1>4, <1>5, <1>6 DEF IInv

LEMMA FailFreeStep ==
  ASSUME IInv, NEW p \in Payments, FailFree(p)
  PROVE  IInv'
<1>0. /\ payment' = payment \/ payment[p].status \in Unsettled
      /\ payment' \in [Payments -> [status : PaymentStatuses, cart : Lines,
                                    created : 0..MaxTime, elected : BOOLEAN]]
      /\ payment' # payment => payment'[p].status = "failed"
      /\ payment'[p].cart = payment[p].cart
      /\ payment'[p].created = payment[p].created
      /\ \A q \in Payments : q # p => payment'[q] = payment[q]
  <2>1. "failed" \in PaymentStatuses
    BY DEF PaymentStatuses
  <2>2. \/ payment' = payment
        \/ payment[p].status \in Unsettled /\ payment' = [payment EXCEPT ![p].status = "failed"]
    BY DEF FailFree, Settle
  <2>3. CASE payment' = payment
    BY <2>3 DEF IInv, TypeOK
  <2>4. CASE payment[p].status \in Unsettled /\ payment' = [payment EXCEPT ![p].status = "failed"]
    BY <2>1, <2>4, StatusUpdate DEF IInv
  <2> QED
    BY <2>2, <2>3, <2>4
<1>00. /\ begin[p] = "failFree" /\ begin' = [begin EXCEPT ![p] = "over"]
       /\ UNCHANGED <<now, ledger, room, verdict, confirm, told>>
  BY DEF FailFree
<1>1. SoldCountMatchesTickets'
  BY <1>00, CountIgnoresPayments DEF IInv, ledger
<1>2. TypeOK'
  BY <1>0, <1>00 DEF IInv, TypeOK, ledger, BeginPcs
<1>3. BeginTracksPayment'
  BY <1>0, <1>00 DEF IInv, TypeOK, BeginTracksPayment, ledger, Opening, Unsettled
<1>4. ConfirmTracksVerdict'
  BY <1>0, <1>00 DEF IInv, TypeOK, ConfirmTracksVerdict, ledger, Unsettled
<1>5. PaymentTracksSale'
  BY <1>0, <1>00 DEF IInv, TypeOK, PaymentTracksSale, ConfirmTracksVerdict, ledger, Unsettled
<1>6. ToldTracksPayment'
  BY <1>0, <1>00 DEF IInv, TypeOK, ToldTracksPayment, ledger, Unsettled
<1> QED
  BY <1>1, <1>2, <1>3, <1>4, <1>5, <1>6 DEF IInv

LEMMA DecideStep ==
  ASSUME IInv, NEW p \in Payments, Decide(p)
  PROVE  IInv'
<1>1. SoldCountMatchesTickets'
  BY CountIgnoresPayments DEF IInv, Decide, ledger
<1>2. TypeOK'
  BY DEF IInv, TypeOK, Decide, ledger, BeginPcs, PaymentStatuses, Unsettled, Settle
<1>3. BeginTracksPayment'
  BY CheckoutAssumption DEF IInv, TypeOK, BeginTracksPayment, ConfirmTracksVerdict, Decide, ledger, Opening,
                            BeginPcs, PaymentStatuses, Unsettled, Settle
<1>4. ConfirmTracksVerdict'
  BY CheckoutAssumption DEF IInv, TypeOK, ConfirmTracksVerdict, BeginTracksPayment, Decide, ledger, Opening,
                            BeginPcs, PaymentStatuses, Unsettled, Settle
<1>5. PaymentTracksSale'
  BY DEF IInv, TypeOK, PaymentTracksSale, BeginTracksPayment, ConfirmTracksVerdict, Decide, ledger,
         Settle, PaymentStatuses, Unsettled, Opening
<1>6. ToldTracksPayment'
  BY DEF IInv, TypeOK, ToldTracksPayment, BeginTracksPayment, Decide, ledger, Settle, PaymentStatuses,
         Unsettled, Opening
<1> QED
  BY <1>1, <1>2, <1>3, <1>4, <1>5, <1>6 DEF IInv

-----------------------------------------------------------------------------
(* ApprovePaymentAndCommitSale.                                             *)

LEMMA KeptLinesTyped ==
  ASSUME TypeOK, NEW p \in Payments
  PROVE  KeptLines(p) \in Lines
BY CheckoutAssumption DEF TypeOK, KeptLines, Lines

\* What an Upgrade reverses is other active sales of Payments.
LEMMA UpgradesOutOfActive ==
  ASSUME NEW p, NEW gone \in UpgradesOutOf(p)
  PROVE  gone \subseteq Payments /\ \A s \in gone : sale[s].status = "active"
BY DEF UpgradesOutOf, Surrenderable

\* What the commit of an unsettled Payment does to the ledger.
LEMMA CommitEffect ==
  ASSUME IInv, NEW p \in Payments, NEW at,
         payment[p].status \in Unsettled, ApproveAndCommit(p, at)
  PROVE  /\ SoldCountMatchesTickets'
         /\ soldCount' \in [TicketTypes -> Nat]
         /\ sale' \in [Sales -> [status : {"none", "active", "reversed"}, lines : Lines]]
         /\ replacedBy' \in [Sales -> Sales \cup {NoSale}]
         /\ seated' \subseteq Payments
         /\ capacity' = capacity
         /\ sale'[p].status = "active"
         /\ \A s \in Payments : s # p => (sale'[s].status = "none" <=> sale[s].status = "none")
         /\ payment' \in [Payments -> [status : PaymentStatuses, cart : Lines,
                                      created : 0..MaxTime, elected : BOOLEAN]]
         /\ payment'[p].status = "approved"
         /\ payment'[p].cart = payment[p].cart
         /\ payment'[p].created = payment[p].created
         /\ \A q \in Payments : q # p => payment'[q] = payment[q]
<1>1. PICK gone \in UpgradesOutOf(p) : Record(p, KeptLines(p), gone)
  BY DEF ApproveAndCommit
<1>2. gone \subseteq Payments /\ \A s \in gone : sale[s].status = "active"
  BY UpgradesOutOfActive
<1>3. sale[p].status = "none" /\ p \in Sales
  BY SalesFinite DEF IInv, PaymentTracksSale, Unsettled, TypeOK
<1>4. gone \subseteq Sales /\ p \notin gone
  BY <1>2, <1>3, SalesFinite
<1>5. KeptLines(p) \in Lines
  BY KeptLinesTyped DEF IInv
<1>6. /\ SoldCountMatchesTickets'
      /\ soldCount' \in [TicketTypes -> Nat]
      /\ sale' \in [Sales -> [status : {"none", "active", "reversed"}, lines : Lines]]
  BY <1>1, <1>3, <1>4, <1>5, RecordKeepsCount DEF IInv
<1>7. sale'[p].status = "active"
  <2>1. sale'[p] = [status |-> "active", lines |-> KeptLines(p)]
    BY <1>1, <1>3, <1>4, <1>5, RecordKeepsCount DEF IInv
  <2> QED
    BY <2>1
<1>8. ASSUME NEW s \in Sales, s # p
      PROVE  sale'[s].status = "none" <=> sale[s].status = "none"
  <2>1. CASE s \in gone
    <3>1. sale[s] \in [status : {"none", "active", "reversed"}, lines : Lines]
      BY DEF IInv, TypeOK
    <3>2. sale'[s] = [sale[s] EXCEPT !.status = "reversed"]
      BY <1>1, <1>8, <2>1 DEF Record
    <3> QED
      BY <1>2, <2>1, <3>1, <3>2
  <2>2. CASE s \notin gone
    BY <1>1, <1>8, <2>2 DEF Record
  <2> QED
    BY <2>1, <2>2
<1>9. replacedBy' \in [Sales -> Sales \cup {NoSale}]
  BY <1>1, <1>3 DEF Record, IInv, TypeOK
<1>10. seated' \subseteq Payments /\ capacity' = capacity
       /\ payment' = [payment EXCEPT ![p].status = "approved"]
  BY DEF ApproveAndCommit, IInv, TypeOK
<1>11. "approved" \in PaymentStatuses
  BY DEF PaymentStatuses
<1> QED
  BY <1>6, <1>7, <1>8, <1>9, <1>10, <1>11, StatusUpdate, SalesFinite DEF IInv

LEMMA SettleFreeStep ==
  ASSUME IInv, NEW p \in Payments, SettleFree(p)
  PROVE  IInv'
<1>0. /\ begin[p] = "settleFree" /\ payment[p].status \in Unsettled
      /\ UNCHANGED <<now, room, verdict, confirm, told>>
      /\ \E pc \in {"settled", "failFree"} : begin' = [begin EXCEPT ![p] = pc]
      /\ \/ UNCHANGED <<ledger, payment>> /\ begin' = [begin EXCEPT ![p] = "failFree"]
         \/ ApproveAndCommit(p, payment[p].created)
  BY DEF SettleFree
<1>a. CASE UNCHANGED <<ledger, payment>> /\ begin' = [begin EXCEPT ![p] = "failFree"]
  <2>1. SoldCountMatchesTickets'
    BY <1>0, <1>a, CountIgnoresPayments DEF IInv, ledger
  <2>2. TypeOK'
    BY <1>0, <1>a DEF IInv, TypeOK, ledger, BeginPcs
  <2>3. BeginTracksPayment' /\ ConfirmTracksVerdict'
    BY <1>0, <1>a DEF IInv, TypeOK, BeginTracksPayment, ConfirmTracksVerdict, ledger, Unsettled, Opening
  <2>4. PaymentTracksSale' /\ ToldTracksPayment'
    BY <1>0, <1>a DEF IInv, TypeOK, PaymentTracksSale, ToldTracksPayment, ledger
  <2> QED
    BY <2>1, <2>2, <2>3, <2>4 DEF IInv
<1>b. CASE ApproveAndCommit(p, payment[p].created)
  <2>0. /\ SoldCountMatchesTickets'
        /\ soldCount' \in [TicketTypes -> Nat]
        /\ sale' \in [Sales -> [status : {"none", "active", "reversed"}, lines : Lines]]
        /\ replacedBy' \in [Sales -> Sales \cup {NoSale}]
        /\ seated' \subseteq Payments
        /\ capacity' = capacity
        /\ sale'[p].status = "active"
        /\ \A s \in Payments : s # p => (sale'[s].status = "none" <=> sale[s].status = "none")
        /\ payment' \in [Payments -> [status : PaymentStatuses, cart : Lines,
                                     created : 0..MaxTime, elected : BOOLEAN]]
        /\ payment'[p].status = "approved"
        /\ payment'[p].cart = payment[p].cart
        /\ payment'[p].created = payment[p].created
        /\ \A q \in Payments : q # p => payment'[q] = payment[q]
    BY <1>0, <1>b, CommitEffect, SalesFinite
  <2>1. /\ begin' \in [Payments -> BeginPcs]
        /\ begin'[p] \in {"settled", "failFree"}
        /\ \A q \in Payments : q # p => begin'[q] = begin[q]
    BY <1>0 DEF IInv, TypeOK, BeginPcs
  <2>2. TypeOK'
    BY <1>0, <2>0, <2>1 DEF IInv, TypeOK
  <2>3. BeginTracksPayment' /\ ConfirmTracksVerdict'
    BY <1>0, <2>0, <2>1 DEF IInv, TypeOK, BeginTracksPayment, ConfirmTracksVerdict, Unsettled, Opening
  <2>4. ASSUME NEW q \in Payments
        PROVE  /\ sale'[q].status # "none" => payment'[q].status = "approved"
               /\ payment'[q].status = "approved" =>
                    \/ verdict'[q] = "approved"
                    \/ sale'[q].status # "none" /\ TicketsOf(payment'[q].cart, Paid) = 0
               /\ payment'[q].status = "failed" => verdict'[q] = "declined" \/ begin'[q] = "over"
               /\ "approved" \in told'[q] => sale'[q].status # "none"
               /\ "failed" \in told'[q] => payment'[q].status = "failed"
    <3>1. CASE q = p
      <4>1. TicketsOf(payment[p].cart, Paid) = 0 /\ "failed" \notin told[p]
        BY <1>0 DEF IInv, BeginTracksPayment, ToldTracksPayment, Unsettled
      <4> QED
        BY <1>0, <2>0, <3>1, <4>1
    <3>2. CASE q # p
      <4>1. /\ payment'[q] = payment[q] /\ begin'[q] = begin[q]
            /\ verdict' = verdict /\ told' = told
            /\ sale'[q].status = "none" <=> sale[q].status = "none"
        BY <1>0, <2>0, <2>1, <3>2
      <4> QED
        BY <4>1 DEF IInv, PaymentTracksSale, ToldTracksPayment
    <3> QED
      BY <3>1, <3>2
  <2>5. PaymentTracksSale' /\ ToldTracksPayment'
    BY <2>4 DEF PaymentTracksSale, ToldTracksPayment
  <2> QED
    BY <2>0, <2>2, <2>3, <2>4, <2>5 DEF IInv
<1> QED
  BY <1>0, <1>a, <1>b

-----------------------------------------------------------------------------
(* ConfirmCheckout keeps the invariant.                                     *)

\* A step of call k that commits nothing: where it goes, what it settles and
\* what it tells must each be borne out by the provider's verdict and the sale.
LEMMA ConfirmCallStep ==
  ASSUME IInv, NEW p \in Payments, NEW k \in Calls, NEW pc \in ConfirmPcs,
         UNCHANGED <<now, ledger, begin, room, verdict>>,
         begin[p] \in {"redirected", "settled"},
         confirm' = confirm \/ GoTo(p, k, pc),
         pc \in {"approved", "marking"} => verdict[p] = "approved",
         pc = "declined" => verdict[p] = "declined",
         pc = "reloading" => payment[p].status \notin Unsettled,
         \/ payment' = payment
         \/ verdict[p] = "declined" /\ Settle(p, "failed")
         \/ verdict[p] = "approved" /\ Settle(p, "approved"),
         \/ told' = told
         \/ Tell(p, "incident")
         \/ Tell(p, "approved") /\ sale[p].status # "none"
         \/ Tell(p, "failed") /\ payment'[p].status = "failed"
  PROVE  IInv'
<1>1. SoldCountMatchesTickets'
  BY CountIgnoresPayments DEF IInv, ledger
<1>2. /\ confirm' \in [Payments -> [Calls -> ConfirmPcs]]
      /\ \A q \in Payments, j \in Calls :
           confirm'[q][j] = confirm[q][j] \/ (q = p /\ j = k /\ confirm'[q][j] = pc)
  <2>1. CASE confirm' = confirm
    BY <2>1 DEF IInv, TypeOK
  <2>2. CASE GoTo(p, k, pc)
    BY <2>2, PcUpdate DEF IInv
  <2> QED
    BY <2>1, <2>2
<1>3. /\ payment' \in [Payments -> [status : PaymentStatuses, cart : Lines,
                                   created : 0..MaxTime, elected : BOOLEAN]]
      /\ payment'[p].cart = payment[p].cart
      /\ payment'[p].created = payment[p].created
      /\ \A q \in Payments : q # p => payment'[q] = payment[q]
      /\ \/ payment'[p] = payment[p]
         \/ /\ payment[p].status \in Unsettled
            /\ \/ verdict[p] = "declined" /\ payment'[p].status = "failed"
               \/ verdict[p] = "approved" /\ payment'[p].status = "approved"
  <2>0. {"approved", "failed"} \subseteq PaymentStatuses
    BY DEF PaymentStatuses
  <2>1. CASE payment' = payment
    BY <2>1 DEF IInv, TypeOK
  <2>2. CASE /\ payment[p].status \in Unsettled /\ verdict[p] = "declined"
             /\ payment' = [payment EXCEPT ![p].status = "failed"]
    BY <2>0, <2>2, StatusUpdate DEF IInv
  <2>3. CASE /\ payment[p].status \in Unsettled /\ verdict[p] = "approved"
             /\ payment' = [payment EXCEPT ![p].status = "approved"]
    BY <2>0, <2>3, StatusUpdate DEF IInv
  <2> QED
    BY <2>1, <2>2, <2>3 DEF Settle
<1>4. /\ told' \in [Payments -> SUBSET {"approved", "failed", "incident"}]
      /\ \A q \in Payments :
           /\ "approved" \in told'[q] => "approved" \in told[q] \/ sale[q].status # "none"
           /\ "failed" \in told'[q] => "failed" \in told[q] \/ payment'[q].status = "failed"
  <2>1. CASE told' = told
    BY <2>1 DEF IInv, TypeOK
  <2>2. CASE Tell(p, "incident")
    BY <2>2, ToldUpdate DEF IInv
  <2>3. CASE Tell(p, "approved") /\ sale[p].status # "none"
    BY <2>3, ToldUpdate DEF IInv
  <2>4. CASE Tell(p, "failed") /\ payment'[p].status = "failed"
    BY <2>4, ToldUpdate DEF IInv
  <2> QED
    BY <2>1, <2>2, <2>3, <2>4
<1>5. TypeOK'
  BY <1>2, <1>3, <1>4 DEF IInv, TypeOK, ledger
<1>6. BeginTracksPayment'
  BY <1>3 DEF IInv, BeginTracksPayment, Opening, Unsettled
<1>7. /\ payment[p].status # "none" /\ payment[p].status \in PaymentStatuses
      /\ \A q \in Payments : payment[q].status \in {"approved", "failed"}
                             => payment'[q].status = payment[q].status
  BY <1>3 DEF IInv, TypeOK, BeginTracksPayment, Unsettled
<1>8. ConfirmTracksVerdict'
  BY <1>2, <1>7 DEF IInv, ConfirmTracksVerdict, PaymentStatuses, Unsettled
<1>9. PaymentTracksSale'
  BY <1>3 DEF IInv, PaymentTracksSale, ledger, Unsettled
<1>10. ToldTracksPayment'
  BY <1>4, <1>7 DEF IInv, ToldTracksPayment, ledger
<1> QED
  BY <1>1, <1>5, <1>6, <1>8, <1>9, <1>10 DEF IInv

\* recordedOutcome of a settled Payment tells the truth.
LEMMA RecordedIsTrue ==
  ASSUME TypeOK, NEW p \in Payments, payment[p].status \notin Unsettled,
         payment[p].status # "none"
  PROVE  /\ Recorded(p) \in {"approved", "failed", "incident"}
         /\ Recorded(p) = "approved" => sale[p].status # "none"
         /\ Recorded(p) = "failed" => payment[p].status = "failed"
<1>1. payment[p].status \in {"approved", "failed"}
  BY DEF TypeOK, PaymentStatuses, Unsettled
<1>2. CASE payment[p].status = "failed"
  BY <1>2 DEF Recorded
<1>3. CASE payment[p].status = "approved" /\ sale[p].status = "none"
  BY <1>3 DEF Recorded
<1>4. CASE payment[p].status = "approved" /\ sale[p].status # "none"
  BY <1>4 DEF Recorded
<1> QED
  BY <1>1, <1>2, <1>3, <1>4

LEMMA ConfirmCallRuns ==
  ASSUME IInv, NEW p \in Payments, NEW k \in Calls, confirm[p][k] # "idle"
  PROVE  /\ begin[p] \in {"redirected", "settled"}
         /\ payment[p].status # "none"
         /\ confirm[p][k] \in {"approved", "marking"} => verdict[p] = "approved"
         /\ confirm[p][k] = "declined" => verdict[p] = "declined"
         /\ confirm[p][k] = "reloading" => payment[p].status \notin Unsettled
BY DEF IInv, ConfirmTracksVerdict, BeginTracksPayment, Unsettled

LEMMA PcsAre == {"idle", "asking", "declined", "approved", "marking", "reloading"} \subseteq ConfirmPcs
BY DEF ConfirmPcs

LEMMA ReadPaymentStep ==
  ASSUME IInv, NEW p \in Payments, NEW k \in Calls, ReadPayment(p, k)
  PROVE  IInv'
<1>1. /\ UNCHANGED <<now, ledger, payment, begin, room, verdict>>
      /\ begin[p] \in {"redirected", "settled"} /\ payment[p].status # "none"
  BY DEF ReadPayment, IInv, BeginTracksPayment
<1>2. CASE GoTo(p, k, "asking") /\ told' = told
  BY <1>1, <1>2, ConfirmCallStep, PcsAre
<1>3. CASE payment[p].status \notin Unsettled /\ Tell(p, Recorded(p)) /\ confirm' = confirm
  <2>1. /\ Recorded(p) \in {"approved", "failed", "incident"}
        /\ Recorded(p) = "approved" => sale[p].status # "none"
        /\ Recorded(p) = "failed" => payment[p].status = "failed"
    BY <1>1, <1>3, RecordedIsTrue DEF IInv
  <2> QED
    BY <1>1, <1>3, <2>1, ConfirmCallStep, PcsAre
<1> QED
  BY <1>2, <1>3 DEF ReadPayment

LEMMA AskProviderStep ==
  ASSUME IInv, NEW p \in Payments, NEW k \in Calls, AskProvider(p, k)
  PROVE  IInv'
<1>1. /\ UNCHANGED <<now, ledger, payment, begin, room, verdict, told>>
      /\ begin[p] \in {"redirected", "settled"}
  BY ConfirmCallRuns DEF AskProvider
<1>2. CASE verdict[p] # "none" /\ GoTo(p, k, verdict[p])
  <2>1. verdict[p] \in {"approved", "declined"}
    BY <1>2 DEF IInv, TypeOK
  <2> QED
    BY <1>1, <1>2, <2>1, ConfirmCallStep, PcsAre
<1>3. CASE GoTo(p, k, "idle")
  BY <1>1, <1>3, ConfirmCallStep, PcsAre
<1> QED
  BY <1>2, <1>3 DEF AskProvider

LEMMA MarkFailedStep ==
  ASSUME IInv, NEW p \in Payments, NEW k \in Calls, MarkFailed(p, k)
  PROVE  IInv'
<1>1. /\ UNCHANGED <<now, ledger, begin, room, verdict>>
      /\ begin[p] \in {"redirected", "settled"} /\ verdict[p] = "declined"
  BY ConfirmCallRuns DEF MarkFailed
<1>2. CASE /\ payment[p].status \in Unsettled
           /\ Settle(p, "failed") /\ Tell(p, "failed") /\ GoTo(p, k, "idle")
  <2>1. payment'[p].status = "failed"
    BY <1>2, StatusUpdate DEF IInv, Settle, PaymentStatuses
  <2> QED
    BY <1>1, <1>2, <2>1, ConfirmCallStep, PcsAre
<1>3. CASE payment[p].status \notin Unsettled /\ GoTo(p, k, "reloading") /\ UNCHANGED <<payment, told>>
  BY <1>1, <1>3, ConfirmCallStep, PcsAre
<1>4. CASE GoTo(p, k, "idle") /\ UNCHANGED <<payment, told>>
  BY <1>1, <1>4, ConfirmCallStep, PcsAre
<1> QED
  BY <1>2, <1>3, <1>4 DEF MarkFailed

LEMMA MarkIncidentStep ==
  ASSUME IInv, NEW p \in Payments, NEW k \in Calls, MarkIncident(p, k)
  PROVE  IInv'
<1>1. /\ UNCHANGED <<now, ledger, begin, room, verdict>>
      /\ begin[p] \in {"redirected", "settled"} /\ verdict[p] = "approved"
      /\ Settle(p, "approved") \/ payment' = payment
      /\ Tell(p, "incident") /\ GoTo(p, k, "idle")
  BY ConfirmCallRuns DEF MarkIncident
<1> QED
  BY <1>1, ConfirmCallStep, PcsAre

LEMMA ReloadStep ==
  ASSUME IInv, NEW p \in Payments, NEW k \in Calls, Reload(p, k)
  PROVE  IInv'
<1>1. /\ UNCHANGED <<now, ledger, payment, begin, room, verdict>>
      /\ begin[p] \in {"redirected", "settled"} /\ payment[p].status # "none"
      /\ payment[p].status \notin Unsettled
      /\ Tell(p, Recorded(p)) /\ GoTo(p, k, "idle")
  BY ConfirmCallRuns DEF Reload
<1>2. /\ Recorded(p) \in {"approved", "failed", "incident"}
      /\ Recorded(p) = "approved" => sale[p].status # "none"
      /\ Recorded(p) = "failed" => payment[p].status = "failed"
  BY <1>1, RecordedIsTrue DEF IInv
<1> QED
  BY <1>1, <1>2, ConfirmCallStep, PcsAre

LEMMA CrashConfirmStep ==
  ASSUME IInv, NEW p \in Payments, NEW k \in Calls, CrashConfirm(p, k)
  PROVE  IInv'
<1>1. /\ UNCHANGED <<now, ledger, payment, begin, room, verdict, told>>
      /\ begin[p] \in {"redirected", "settled"} /\ GoTo(p, k, "idle")
  BY ConfirmCallRuns DEF CrashConfirm
<1> QED
  BY <1>1, ConfirmCallStep, PcsAre

LEMMA CommitApprovedStep ==
  ASSUME IInv, NEW p \in Payments, NEW k \in Calls, CommitApproved(p, k)
  PROVE  IInv'
<1>1. /\ confirm[p][k] = "approved"
      /\ UNCHANGED <<now, begin, room, verdict>>
      /\ begin[p] \in {"redirected", "settled"} /\ verdict[p] = "approved"
  BY ConfirmCallRuns DEF CommitApproved
<1>2. CASE /\ UNCHANGED <<ledger, payment, told>>
           /\ \/ GoTo(p, k, "marking")
              \/ payment[p].status \notin Unsettled /\ GoTo(p, k, "reloading")
  BY <1>1, <1>2, ConfirmCallStep, PcsAre
<1>3. CASE /\ payment[p].status \in Unsettled /\ ApproveAndCommit(p, now)
           /\ told' = told \/ Tell(p, "approved")
           /\ GoTo(p, k, "idle") \/ GoTo(p, k, "marking")
  <2>1. /\ SoldCountMatchesTickets'
        /\ soldCount' \in [TicketTypes -> Nat]
        /\ sale' \in [Sales -> [status : {"none", "active", "reversed"}, lines : Lines]]
        /\ replacedBy' \in [Sales -> Sales \cup {NoSale}]
        /\ seated' \subseteq Payments
        /\ capacity' = capacity
        /\ sale'[p].status = "active"
        /\ \A s \in Payments : s # p => (sale'[s].status = "none" <=> sale[s].status = "none")
        /\ payment' \in [Payments -> [status : PaymentStatuses, cart : Lines,
                                     created : 0..MaxTime, elected : BOOLEAN]]
        /\ payment'[p].status = "approved"
        /\ payment'[p].cart = payment[p].cart
        /\ payment'[p].created = payment[p].created
        /\ \A q \in Payments : q # p => payment'[q] = payment[q]
    BY <1>3, CommitEffect
  <2>2. /\ confirm' \in [Payments -> [Calls -> ConfirmPcs]]
        /\ \A q \in Payments, j \in Calls :
             confirm'[q][j] = confirm[q][j] \/ (q = p /\ confirm'[q][j] \in {"idle", "marking"})
    BY <1>3, PcUpdate, PcsAre DEF IInv
  <2>3. /\ told' \in [Payments -> SUBSET {"approved", "failed", "incident"}]
        /\ \A q \in Payments :
             /\ "approved" \in told'[q] => "approved" \in told[q] \/ q = p
             /\ "failed" \in told'[q] => "failed" \in told[q]
    <3>1. CASE told' = told
      BY <3>1 DEF IInv, TypeOK
    <3>2. CASE Tell(p, "approved")
      BY <3>2, ToldUpdate DEF IInv
    <3> QED
      BY <1>3, <3>1, <3>2
  <2>4. TypeOK'
    BY <1>1, <2>1, <2>2, <2>3 DEF IInv, TypeOK
  <2>5. BeginTracksPayment'
    BY <1>1, <2>1 DEF IInv, BeginTracksPayment, Opening
  <2>6. ConfirmTracksVerdict'
    <3>1. \A q \in Payments : payment[q].status \in {"approved", "failed"}
                               => payment'[q].status \in {"approved", "failed"}
      BY <2>1
    <3>2. verdict' = verdict /\ begin' = begin
      BY <1>1
    <3> QED
      BY <1>1, <2>2, <3>1, <3>2 DEF IInv, ConfirmTracksVerdict
  <2>7. PaymentTracksSale'
    BY <1>1, <2>1 DEF IInv, PaymentTracksSale
  <2>8. ToldTracksPayment'
    BY <1>3, <2>1, <2>3 DEF IInv, ToldTracksPayment, Unsettled
  <2> QED
    BY <2>1, <2>4, <2>5, <2>6, <2>7, <2>8 DEF IInv
<1> QED
  BY <1>1, <1>2, <1>3 DEF CommitApproved

-----------------------------------------------------------------------------
(* The other writers keep the invariant.                                    *)

\* What a sale of another channel, a correction or a reversal leaves alone.
LEMMA LedgerStep ==
  ASSUME IInv, SoldCountMatchesTickets',
         UNCHANGED <<now, payment, begin, room, verdict, confirm, told>>,
         capacity' \in [TicketTypes -> Nat],
         soldCount' \in [TicketTypes -> Nat],
         sale' \in [Sales -> [status : {"none", "active", "reversed"}, lines : Lines]],
         replacedBy' \in [Sales -> Sales \cup {NoSale}],
         seated' \subseteq Payments,
         \A s \in Payments : sale'[s].status = "none" <=> sale[s].status = "none"
  PROVE  IInv'
<1>1. TypeOK'
  BY DEF IInv, TypeOK
<1>2. BeginTracksPayment' /\ ConfirmTracksVerdict'
  BY DEF IInv, BeginTracksPayment, ConfirmTracksVerdict
<1>3. PaymentTracksSale' /\ ToldTracksPayment'
  BY DEF IInv, PaymentTracksSale, ToldTracksPayment
<1> QED
  BY <1>1, <1>2, <1>3 DEF IInv

LEMMA RecordBatchlessImportSaleStep ==
  ASSUME IInv, NEW i \in Imports, NEW cart \in Carts, RecordBatchlessImportSale(i, cart)
  PROVE  IInv'
<1> DEFINE gone == {}
<1>1. /\ Record(i, cart, gone) /\ i \in Sales /\ sale[i].status # "active" /\ cart \in Lines
      /\ gone \subseteq Sales /\ i \notin gone /\ \A s \in Payments : s # i /\ s \in Sales
  BY SalesFinite, CheckoutAssumption DEF RecordBatchlessImportSale, Carts
<1>2. \A s \in Payments : sale'[s] = sale[s]
  BY <1>1 DEF Record
<1>3. replacedBy' \in [Sales -> Sales \cup {NoSale}]
  BY <1>1 DEF Record, IInv, TypeOK
<1> HIDE DEF gone
<1>4. /\ SoldCountMatchesTickets'
      /\ soldCount' \in [TicketTypes -> Nat]
      /\ sale' \in [Sales -> [status : {"none", "active", "reversed"}, lines : Lines]]
  BY <1>1, RecordKeepsCount DEF IInv
<1> QED
  BY <1>2, <1>3, <1>4, LedgerStep DEF RecordBatchlessImportSale, IInv, TypeOK

LEMMA CorrectImportedSaleStep ==
  ASSUME IInv, NEW i \in Imports, NEW j \in Imports, NEW cart \in Carts,
         CorrectImportedSale(i, j, cart)
  PROVE  IInv'
<1>1. /\ Record(j, cart, {i}) /\ i \in Sales /\ j \in Sales
      /\ sale[j].status # "active" /\ cart \in Lines /\ j \notin {i}
  BY SalesFinite DEF CorrectImportedSale, Carts
<1>2. /\ SoldCountMatchesTickets'
      /\ soldCount' \in [TicketTypes -> Nat]
      /\ sale' \in [Sales -> [status : {"none", "active", "reversed"}, lines : Lines]]
  BY <1>1, RecordKeepsCount DEF IInv
<1>3. \A s \in Payments : sale'[s] = sale[s]
  BY <1>1, SalesFinite, CheckoutAssumption DEF Record
<1>4. replacedBy' \in [Sales -> Sales \cup {NoSale}]
  BY <1>1 DEF Record, IInv, TypeOK
<1> QED
  BY <1>2, <1>3, <1>4, LedgerStep DEF CorrectImportedSale, IInv, TypeOK

LEMMA ReverseSalesStep ==
  ASSUME IInv, NEW ids, ids \subseteq Sales, ReverseSales(ids)
  PROVE  IInv'
<1>1. /\ SoldCountMatchesTickets'
      /\ soldCount' \in [TicketTypes -> Nat]
      /\ sale' \in [Sales -> [status : {"none", "active", "reversed"}, lines : Lines]]
  BY ReverseKeepsCount DEF IInv
<1>2. ASSUME NEW s \in Payments
      PROVE  sale'[s].status = "none" <=> sale[s].status = "none"
  <2>1. s \in Sales /\ sale[s] \in [status : {"none", "active", "reversed"}, lines : Lines]
    BY SalesFinite DEF IInv, TypeOK
  <2> QED
    BY <2>1 DEF ReverseSales
<1> QED
  BY <1>1, <1>2, LedgerStep DEF ReverseSales, IInv, TypeOK

LEMMA SetCapacityStep ==
  ASSUME IInv, NEW t \in TicketTypes, NEW c \in Capacities, SetCapacity(t, c)
  PROVE  IInv'
<1>1. SoldCountMatchesTickets'
  BY CountIgnoresPayments DEF IInv, SetCapacity
<1>2. capacity' \in [TicketTypes -> Nat]
  BY CheckoutAssumption DEF SetCapacity, IInv, TypeOK
<1> QED
  BY <1>1, <1>2, LedgerStep DEF SetCapacity, IInv, TypeOK

LEMMA AssignTicketToHolderStep ==
  ASSUME IInv, NEW p \in Payments, NEW own \in BOOLEAN, AssignTicketToHolder(p, own)
  PROVE  IInv'
<1>1. SoldCountMatchesTickets'
  BY CountIgnoresPayments DEF IInv, AssignTicketToHolder
<1> QED
  BY <1>1, LedgerStep DEF AssignTicketToHolder, IInv, TypeOK

LEMMA TickStep ==
  ASSUME IInv, Tick
  PROVE  IInv'
<1>1. SoldCountMatchesTickets'
  BY CountIgnoresPayments DEF IInv, Tick, ledger
<1>2. TypeOK'
  BY CheckoutAssumption DEF IInv, TypeOK, Tick, ledger
<1>3. BeginTracksPayment'
  BY CheckoutAssumption DEF IInv, TypeOK, BeginTracksPayment, Tick
<1>4. ConfirmTracksVerdict' /\ PaymentTracksSale' /\ ToldTracksPayment'
  BY DEF IInv, ConfirmTracksVerdict, PaymentTracksSale, ToldTracksPayment, Tick, ledger
<1> QED
  BY <1>1, <1>2, <1>3, <1>4 DEF IInv

LEMMA StutterStep ==
  ASSUME IInv, UNCHANGED vars
  PROVE  IInv'
<1>1. SoldCountMatchesTickets'
  BY CountIgnoresPayments DEF IInv, vars, ledger
<1> QED
  BY <1>1, LedgerStep DEF IInv, TypeOK, vars, ledger

-----------------------------------------------------------------------------
(* The theorems.                                                            *)

LEMMA InvInit == Init => IInv
<1> SUFFICES ASSUME Init PROVE IInv
  OBVIOUS
<1>1. TypeOK
  <2>1. /\ now \in 0..MaxTime /\ 0 \in 0..MaxTime
        /\ capacity \in [TicketTypes -> Nat] /\ soldCount \in [TicketTypes -> Nat]
    BY CheckoutAssumption DEF Init, NoLines
  <2>2. payment \in [Payments -> [status : PaymentStatuses, cart : Lines,
                                 created : 0..MaxTime, elected : BOOLEAN]]
    BY <2>1, NoLinesTyped DEF Init, PaymentStatuses
  <2>3. /\ sale \in [Sales -> [status : {"none", "active", "reversed"}, lines : Lines]]
        /\ replacedBy \in [Sales -> Sales \cup {NoSale}] /\ seated \subseteq Payments
    BY NoLinesTyped DEF Init
  <2>4. room \in [Payments -> [TicketTypes -> Int]]
    BY NoRoomTyped DEF Init
  <2>5. /\ begin \in [Payments -> BeginPcs]
        /\ verdict \in [Payments -> {"none", "approved", "declined"}]
        /\ confirm \in [Payments -> [Calls -> ConfirmPcs]]
        /\ told \in [Payments -> SUBSET {"approved", "failed", "incident"}]
    BY DEF Init, BeginPcs, ConfirmPcs
  <2> QED
    BY <2>1, <2>2, <2>3, <2>4, <2>5 DEF TypeOK
<1>2. SoldCountMatchesTickets
  <2>1. \A t \in TicketTypes : SoldUnits(t, Sales) = {}
    BY DEF Init, SoldUnits
  <2> QED
    BY <2>1, NoLinesTyped, FS_EmptySet DEF Init, SoldCountMatchesTickets
<1>3. BeginTracksPayment
  BY DEF Init, BeginTracksPayment, Opening
<1>4. ConfirmTracksVerdict
  BY DEF Init, ConfirmTracksVerdict
<1>5. PaymentTracksSale /\ ToldTracksPayment
  BY SalesFinite DEF Init, PaymentTracksSale, ToldTracksPayment
<1> QED
  BY <1>1, <1>2, <1>3, <1>4, <1>5 DEF IInv

LEMMA InvStep == IInv /\ [Next]_vars => IInv'
<1> SUFFICES ASSUME IInv, [Next]_vars PROVE IInv'
  OBVIOUS
<1>1. ASSUME NEW p \in Payments, BeginStep(p) PROVE IInv'
  BY <1>1, StartCheckoutStep, ReadTicketTypesStep, ReadHoldsStep, refusePurchaseLimitBreachStep,
     CreatePaymentStep, InitiateStep, AbortCheckoutStep, SettleFreeStep, FailFreeStep DEF BeginStep
<1>2. ASSUME NEW p \in Payments, Decide(p) PROVE IInv'
  BY <1>2, DecideStep
<1>3. ASSUME NEW p \in Payments, NEW own \in BOOLEAN, AssignTicketToHolder(p, own) PROVE IInv'
  BY <1>3, AssignTicketToHolderStep
<1>4. ASSUME NEW p \in Payments, NEW k \in Calls, ConfirmStep(p, k) PROVE IInv'
  BY <1>4, ReadPaymentStep, AskProviderStep, MarkFailedStep, CommitApprovedStep, MarkIncidentStep,
     ReloadStep, CrashConfirmStep DEF ConfirmStep
<1>5. ASSUME NEW i \in Imports, NEW cart \in Carts, RecordBatchlessImportSale(i, cart) PROVE IInv'
  BY <1>5, RecordBatchlessImportSaleStep
<1>6. ASSUME NEW i \in Imports, NEW j \in Imports, NEW cart \in Carts, CorrectImportedSale(i, j, cart)
      PROVE IInv'
  BY <1>6, CorrectImportedSaleStep
<1>7. ASSUME NEW ids \in {{s} : s \in Sales} \cup SUBSET Imports, ReverseSales(ids) PROVE IInv'
  <2>1. ids \subseteq Sales
    BY <1>7, SalesFinite
  <2> QED
    BY <1>7, <2>1, ReverseSalesStep
<1>8. ASSUME NEW t \in TicketTypes, NEW c \in Capacities, SetCapacity(t, c) PROVE IInv'
  BY <1>8, SetCapacityStep
<1>9. CASE Tick
  BY <1>9, TickStep
<1>10. CASE UNCHANGED vars
  BY <1>10, StutterStep
<1> QED
  BY <1>1, <1>2, <1>3, <1>4, <1>5, <1>6, <1>7, <1>8, <1>9, <1>10 DEF Next

THEOREM Invariance == Spec => []IInv
BY InvInit, InvStep, PTL DEF Spec

\* Every row keeps its shape; sold_count, a column with CHECK (sold_count >= 0),
\* never goes below zero whatever is reversed.
THEOREM TypeCorrect == Spec => []TypeOK
<1>1. IInv => TypeOK
  BY DEF IInv
<1> QED
  BY <1>1, Invariance, PTL

\* sold_count is exactly the tickets on active sales, for any number of types,
\* sales and quantities.
THEOREM SoldCountExact == Spec => []SoldCountMatchesTickets
<1>1. IInv => SoldCountMatchesTickets
  BY DEF IInv
<1> QED
  BY <1>1, Invariance, PTL

\* No Ticket Sale without its approved Payment, no approved Payment without a
\* charge or a free cart.
THEOREM SaleStandsOnPayment == Spec => []SaleIsPaidFor
<1>1. IInv => SaleIsPaidFor
  BY DEF IInv, PaymentTracksSale, SaleIsPaidFor, Paid
<1> QED
  BY <1>1, Invariance, PTL

\* recordedOutcome and the racing confirms never tell the Customer a falsehood
\* about a sale or a failure.
THEOREM AnswersStayTrue == Spec => []AnswersAreTrue
<1>1. IInv => AnswersAreTrue
  <2> SUFFICES ASSUME IInv, NEW p \in Payments
               PROVE  /\ "approved" \in told[p] => sale[p].status # "none"
                      /\ "failed" \in told[p] => /\ payment[p].status = "failed"
                                                 /\ sale[p].status = "none"
                                                 /\ verdict[p] # "approved"
    BY DEF AnswersAreTrue
  <2>1. /\ "approved" \in told[p] => sale[p].status # "none"
        /\ "failed" \in told[p] => payment[p].status = "failed"
    BY DEF IInv, ToldTracksPayment
  <2>2. payment[p].status = "failed" => sale[p].status = "none" /\ verdict[p] # "approved"
    BY DEF IInv, PaymentTracksSale, ConfirmTracksVerdict
  <2> QED
    BY <2>1, <2>2
<1> QED
  BY <1>1, Invariance, PTL

\* A reload follows a settlement, so the default branch of recordedOutcome only
\* ever reads 'failed'.
THEOREM ReloadsAreSettled == Spec => []ReloadSeesSettled
<1>1. IInv => ReloadSeesSettled
  BY DEF IInv, ConfirmTracksVerdict, ReloadSeesSettled
<1> QED
  BY <1>1, Invariance, PTL
=============================================================================
