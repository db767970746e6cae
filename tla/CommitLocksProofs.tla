------------------------- MODULE CommitLocksProofs -------------------------
(***************************************************************************)
(* Proofs about CommitLocks for every value of its constants: what each     *)
(* transaction has still to lock lies above what it holds, so that a circle *)
(* of waits would need a largest Ticket Type, and beyond it a larger one.   *)
(***************************************************************************)
EXTENDS CommitLocks, FiniteSetTheorems, SequenceTheorems, WellFoundedInduction, TLAPS

-----------------------------------------------------------------------------
(* Sorting.                                                                 *)

\* A finite set of numbers has a largest one.
LEMMA LargestOfFinite ==
  ASSUME NEW S, S \subseteq Int, S # {}, IsFiniteSet(S)
  PROVE  \E x \in S : \A y \in S : y <= x
<1> DEFINE Over(x) == {y \in S : y > x}
           T == {Over(x) : x \in S}
<1>1. T \subseteq FiniteSubsetsOf(S) /\ T # {}
  <2>1. ASSUME NEW x \in S PROVE Over(x) \in FiniteSubsetsOf(S)
    <3>1. Over(x) \in SUBSET S
      OBVIOUS
    <3> HIDE DEF Over
    <3> QED
      BY <3>1, FS_Subset DEF FiniteSubsetsOf
  <2> QED
    BY <2>1
<1>2. PICK U \in T : \A V \in T : <<V, U>> \notin StrictSubsetOrdering(S)
  <2>1. IsWellFoundedOn(StrictSubsetOrdering(S), FiniteSubsetsOf(S))
    BY FS_StrictSubsetOrderingWellFounded
  <2> HIDE DEF T
  <2> QED
    BY <1>1, <2>1, WFMin
<1>3. PICK x \in S : U = Over(x)
  OBVIOUS
<1>4. ASSUME NEW y \in U PROVE FALSE
  <2>1. y \in S /\ y > x /\ ~(y > y)
    BY <1>3
  <2>2. \A z \in S : z > y => z > x
    BY <2>1
  <2>3. Over(y) \subseteq U /\ y \notin Over(y) /\ U \subseteq S
    BY <1>3, <2>1, <2>2
  <2>4. Over(y) \in T
    BY <2>1
  <2>5. <<Over(y), U>> \in StrictSubsetOrdering(S)
    <3> HIDE DEF Over
    <3> QED
      BY <2>3 DEF StrictSubsetOrdering
  <2> QED
    BY <1>2, <2>4, <2>5
<1> QED
  BY <1>3, <1>4

Rising(f, n) == \A i, j \in 1..n : i < j => f[i] < f[j]

\* A finite set of numbers can be listed in rising order: were it not so, one
\* with no smaller exception would do without its largest number.
LEMMA SortedExists ==
  ASSUME NEW All, All \subseteq Int, IsFiniteSet(All)
  PROVE  \A S \in SUBSET All : \E f \in [1..Cardinality(S) -> S] : Rising(f, Cardinality(S))
<1> DEFINE Bad == {S \in SUBSET All :
                     ~ \E f \in [1..Cardinality(S) -> S] : Rising(f, Cardinality(S))}
<1> SUFFICES ASSUME Bad # {} PROVE FALSE
  OBVIOUS
<1>1. Bad \subseteq FiniteSubsetsOf(All)
  BY FS_Subset DEF FiniteSubsetsOf
<1>2. PICK S \in Bad : \A T \in Bad : <<T, S>> \notin StrictSubsetOrdering(All)
  <2>1. IsWellFoundedOn(StrictSubsetOrdering(All), FiniteSubsetsOf(All))
    BY FS_StrictSubsetOrderingWellFounded
  <2> HIDE DEF Bad
  <2> QED
    BY <1>1, <2>1, WFMin
<1>3. S \subseteq All /\ IsFiniteSet(S) /\ Cardinality(S) \in Nat
  BY <1>1, FS_CardinalityType DEF FiniteSubsetsOf
<1>4. S # {}
  <2> SUFFICES ASSUME S = {} PROVE FALSE
    OBVIOUS
  <2>1. Cardinality(S) = 0
    BY FS_EmptySet
  <2>2. [i \in 1..0 |-> 0] \in [1..0 -> S] /\ Rising([i \in 1..0 |-> 0], 0)
    BY DEF Rising
  <2> QED
    BY <2>1, <2>2
<1>5. PICK x \in S : \A y \in S : y <= x
  BY <1>3, <1>4, LargestOfFinite
<1> DEFINE T == S \ {x}
           n == Cardinality(T)
<1>6. IsFiniteSet(T) /\ n \in Nat /\ Cardinality(S) = n + 1
  <2>1. IsFiniteSet(T) /\ n = Cardinality(S) - 1
    BY <1>3, FS_RemoveElement
  <2>2. n \in Nat
    BY <2>1, FS_CardinalityType
  <2> QED
    BY <1>3, <2>1, <2>2
<1>7. T \notin Bad
  <2>1. T \subseteq S /\ T # S /\ T \in SUBSET All /\ S \in SUBSET All
    BY <1>3
  <2>2. <<T, S>> \in StrictSubsetOrdering(All)
    BY <2>1 DEF StrictSubsetOrdering
  <2> QED
    BY <1>2, <2>2
<1>8. PICK g \in [1..n -> T] : Rising(g, n)
  BY <1>3, <1>7
<1> DEFINE f == [i \in 1..(n + 1) |-> IF i = n + 1 THEN x ELSE g[i]]
<1>9. f \in [1..(n + 1) -> S]
  <2> HIDE DEF n
  <2>1. \A i \in 1..(n + 1) : i # n + 1 => i \in 1..n
    BY <1>6
  <2> QED
    BY <1>8, <2>1
<1>10. Rising(f, n + 1)
  <2> HIDE DEF n
  <2> SUFFICES ASSUME NEW i \in 1..(n + 1), NEW j \in 1..(n + 1), i < j PROVE f[i] < f[j]
    BY DEF Rising
  <2>1. i \in 1..n /\ f[i] = g[i]
    BY <1>6
  <2>2. g[i] \in T /\ g[i] < x
    <3>1. g[i] \in T
      BY <1>8, <2>1
    <3>2. g[i] \in S /\ g[i] # x /\ g[i] \in Int /\ x \in Int /\ g[i] <= x
      BY <1>3, <1>5, <3>1
    <3> QED
      BY <3>1, <3>2
  <2>3. CASE j = n + 1
    BY <1>6, <2>1, <2>2, <2>3
  <2>4. CASE j # n + 1
    <3>1. j \in 1..n /\ f[j] = g[j]
      BY <1>6, <2>4
    <3>2. g[i] < g[j]
      BY <1>8, <2>1, <3>1 DEF Rising
    <3> QED
      BY <2>1, <3>1, <3>2
  <2> QED
    BY <2>3, <2>4
<1> HIDE DEF f, n, T
<1> QED
  BY <1>2, <1>6, <1>9, <1>10

\* sort.Strings over a set of Ticket Types: their rows, each above the ones before.
LEMMA SortedRises ==
  ASSUME NEW types \in SUBSET TicketTypes
  PROVE  /\ Sorted(types) \in Seq(Rows) /\ Len(Sorted(types)) = Cardinality(types)
         /\ \A i \in 1..Len(Sorted(types)) :
              \E m \in types :
                /\ Sorted(types)[i] = TypeRow(m)
                /\ \A j \in 1..(i - 1), n \in TicketTypes : Sorted(types)[j] = TypeRow(n) => n < m
<1> DEFINE n == Cardinality(types)
           ids == CHOOSE ids \in [1..Cardinality(types) -> types] :
                    \A i, j \in 1..Cardinality(types) : i < j => ids[i] < ids[j]
<1>1. TicketTypes \subseteq Int /\ IsFiniteSet(TicketTypes)
  BY LocksAssumption
<1>2. n \in Nat
  BY <1>1, FS_Subset, FS_CardinalityType
<1>3. ids \in [1..n -> types] /\ \A i, j \in 1..n : i < j => ids[i] < ids[j]
  <2>1. \E f \in [1..n -> types] : Rising(f, n)
    BY <1>1, SortedExists
  <2> QED
    BY <2>1 DEF Rising
<1>4. Sorted(types) = [i \in 1..n |-> TypeRow(ids[i])]
  BY DEF Sorted
<1> HIDE DEF n, ids
<1>5. \A i \in 1..n : ids[i] \in types /\ TypeRow(ids[i]) \in Rows
  BY <1>3 DEF Rows
<1>6. Sorted(types) \in Seq(Rows) /\ Len(Sorted(types)) = n
  BY <1>2, <1>4, <1>5
<1>7. ASSUME NEW i \in 1..n, NEW j \in 1..(i - 1), NEW k \in TicketTypes, Sorted(types)[j] = TypeRow(k)
      PROVE  k < ids[i]
  <2>1. j \in 1..n /\ j < i
    BY <1>2
  <2>2. Sorted(types)[j] = TypeRow(ids[j])
    BY <1>4, <2>1
  <2>3. k = ids[j]
    BY <1>7, <2>2 DEF TypeRow
  <2> QED
    BY <1>3, <2>1, <2>3
<1>8. \A i \in 1..n : Sorted(types)[i] = TypeRow(ids[i])
  BY <1>4
<1> QED
  BY <1>5, <1>6, <1>7, <1>8 DEF n
-----------------------------------------------------------------------------
(* The inductive invariant: what a transaction has still to lock, against   *)
(* what it holds.                                                           *)

\* What t holds when it comes to the i-th entry of its plan.
Met(t, i, row) == Holds(t, row) \/ \E j \in 1..(i - 1) : tx[t].plan[j] = row

At(t, kind, stage) == tx[t].kind = kind /\ tx[t].stage = stage

\* The i-th entry of the plan is a Ticket Type above all that t then holds.
Above(t, i) ==
  \E m \in TicketTypes :
    /\ tx[t].plan[i] = TypeRow(m)
    /\ \A n \in TicketTypes : Met(t, i, TypeRow(n)) => n < m

Entries(t) == 1..Len(tx[t].plan)

Idle(t) == tx[t] = Nothing /\ \A row \in Rows : ~Holds(t, row)

\* One row to lock, no Ticket Type, and nothing held before it.
Opening(t) ==
  /\ \A i \in Entries(t), row \in Rows : ~Met(t, i, row)
  /\ \A n \in TicketTypes : ~Met(t, Len(tx[t].plan) + 1, TypeRow(n))

Climbing(t) == \A i \in Entries(t) : Above(t, i)

\* The free sale's row, under the locks of its Ticket Types.
Reversing(t) ==
  /\ \A i \in Entries(t) : tx[t].plan[i] \in {SaleRow(s) : s \in Sales}
  /\ \A n \in TypesOfSales(tx[t].sales) : Holds(t, TypeRow(n))

\* Nothing to lock that is not held: the code's "it waits for nobody".
Covered(t) == \A i \in Entries(t) : Holds(t, tx[t].plan[i])

\* An import locks Customers while it holds only Customers, and then climbs.
Importing(t) ==
  \A i \in Entries(t) :
    \/ Above(t, i)
    \/ /\ \E c \in Customers : tx[t].plan[i] = CustomerRow(c)
       /\ \A row \in Rows : Met(t, i, row) => \E c \in Customers : row = CustomerRow(c)

Paying(t) == \A i \in Entries(t) : \E m \in TicketTypes : tx[t].plan[i] = TypeRow(m)

Shape(t) ==
  \/ Idle(t)
  \/ Opening(t) /\ (At(t, "commit", "buyers") \/ At(t, "reversal", "sale") \/ At(t, "correction", "sale"))
  \/ Climbing(t) /\ (At(t, "commit", "types") \/ At(t, "reversal", "last") \/ At(t, "correction", "types"))
  \/ Reversing(t) /\ At(t, "commit", "upgrade")
  \/ Covered(t) /\ At(t, "commit", "last")
  \/ Importing(t) /\ At(t, "import", "last")
  \/ Paying(t) /\ At(t, "payment", "last")
  \/ At(t, "correction", "last")

OwnMode == \A l \in held : l[3] = Mode(l[1])

Exclusive == \A k, l \in held : k[2] = l[2] /\ k[1] # l[1] => ~Conflicts(k[3], l[3])

IInv == TypeOK /\ OwnMode /\ Exclusive /\ \A t \in Transactions : Shape(t)

Entry == [kind : Kinds, stage : Stages, plan : Seq(Rows),
          basket : SUBSET TicketTypes, sales : SUBSET Sales]

-----------------------------------------------------------------------------
(* Types.                                                                   *)

LEMMA SalesTypes ==
  ASSUME NEW ss \in SUBSET Sales
  PROVE  TypesOfSales(ss) \in SUBSET TicketTypes
BY LocksAssumption DEF TypesOfSales

LEMMA SortedType ==
  ASSUME NEW types \in SUBSET TicketTypes
  PROVE  Sorted(types) \in Seq(Rows)
BY SortedRises

LEMMA OfferedType ==
  ASSUME TypeOK, NEW c
  PROVE  /\ Offered(c) \in SUBSET Sales
         /\ Offered(c) # {} => (CHOOSE s \in Offered(c) : TRUE) \in Sales
BY DEF Offered, Candidates, TypeOK

\* A transaction begins with a plan of rows.
LEMMA BeginTypes ==
  ASSUME TypeOK, NEW t \in Transactions, NEW kind \in Kinds, NEW stage \in Stages,
         NEW plan \in Seq(Rows), NEW basket \in SUBSET TicketTypes, NEW ss \in SUBSET Sales,
         Begin(t, kind, stage, plan, basket, ss)
  PROVE  TypeOK'
<1>1. [kind |-> kind, stage |-> stage, plan |-> plan, basket |-> basket, sales |-> ss] \in Entry
  BY DEF Entry
<1>2. tx \in [Transactions -> Entry]
  BY DEF TypeOK, Entry
<1>3. tx' \in [Transactions -> Entry]
  BY <1>1, <1>2 DEF Begin
<1> QED
  BY <1>3 DEF TypeOK, Begin, Entry

\* One that goes on does so with a plan of rows.
LEMMA PlanTypesOK ==
  ASSUME TypeOK, NEW t \in Transactions, NEW stage \in Stages, NEW plan \in Seq(Rows),
         NEW ss \in SUBSET Sales,
         tx' = [tx EXCEPT ![t].sales = ss, ![t].plan = plan, ![t].stage = stage],
         UNCHANGED <<held, active, selfHeld, reseats>>
  PROVE  TypeOK'
<1>1. tx \in [Transactions -> Entry] /\ tx[t] \in Entry
  BY DEF TypeOK, Entry
<1>2. tx' = [tx EXCEPT ![t] = [tx[t] EXCEPT !.sales = ss, !.plan = plan, !.stage = stage]]
  BY <1>1
<1>3. [tx[t] EXCEPT !.sales = ss, !.plan = plan, !.stage = stage] \in Entry
  BY <1>1 DEF Entry
<1>4. tx' \in [Transactions -> Entry]
  BY <1>1, <1>2, <1>3
<1> QED
  BY <1>4 DEF TypeOK, Entry

LEMMA RowsAreRows ==
  /\ \A c \in Customers : CustomerRow(c) \in Rows
  /\ \A n \in TicketTypes : TypeRow(n) \in Rows
  /\ \A s \in Sales : SaleRow(s) \in Rows
BY DEF Rows

\* What is locked is what the plan said.
LEMMA LockTypes ==
  ASSUME TypeOK, NEW t \in Transactions, Lock(t)
  PROVE  TypeOK'
<1>1. tx \in [Transactions -> Entry] /\ tx[t] \in Entry /\ tx[t].plan \in Seq(Rows)
  BY DEF TypeOK, Entry
<1>2. Head(tx[t].plan) \in Rows /\ Tail(tx[t].plan) \in Seq(Rows)
  BY <1>1 DEF Lock
<1>3. [tx[t] EXCEPT !.plan = Tail(tx[t].plan)] \in Entry
  BY <1>1, <1>2 DEF Entry
<1>4. tx' = [tx EXCEPT ![t] = [tx[t] EXCEPT !.plan = Tail(tx[t].plan)]]
  BY <1>1 DEF Lock
<1>5. tx' \in [Transactions -> Entry]
  BY <1>1, <1>3, <1>4
<1>6. held' \subseteq Transactions \X Rows \X Modes
  BY <1>2 DEF TypeOK, Lock, Mode, Modes
<1> QED
  BY <1>5, <1>6 DEF TypeOK, Lock, Entry

LEMMA ReleaseTypes ==
  ASSUME TypeOK, NEW t \in Transactions, Release(t), active' \subseteq active
  PROVE  TypeOK'
<1>1. Nothing \in Entry
  BY DEF Nothing, Entry, Kinds, Stages
<1>2. tx' \in [Transactions -> Entry]
  BY <1>1 DEF TypeOK, Release, Entry
<1> QED
  BY <1>2 DEF TypeOK, Release, Entry

LEMMA TypeInit == Init => TypeOK
BY LocksAssumption DEF Init, TypeOK, Nothing, Kinds, Stages

\* The plans that an action makes of its inputs are plans of rows.
LEMMA ImportPlan ==
  ASSUME NEW buyers \in BuyersOfImports, NEW basket \in SUBSET TicketTypes
  PROVE  [i \in DOMAIN buyers |-> CustomerRow(buyers[i])] \in Seq(Rows)
<1>1. buyers \in Seq(Customers)
  BY LocksAssumption
<1> QED
  BY <1>1 DEF Rows

LEMMA PaymentPlan ==
  ASSUME NEW cart \in CartOrders
  PROVE  [i \in DOMAIN cart |-> TypeRow(cart[i])] \in Seq(Rows)
<1>1. cart \in Seq(TicketTypes)
  BY LocksAssumption
<1> QED
  BY <1>1 DEF Rows

\* Every step keeps the types of the state.
LEMMA TypeStep ==
  ASSUME TypeOK, [Next]_vars
  PROVE  TypeOK'
<1> USE DEF Kinds, Stages
<1>1. ASSUME NEW t \in Transactions, NEW basket \in (SUBSET TicketTypes) \ {{}},
             NEW c \in Customers, BeginCommit(t, c, basket)
      PROVE  TypeOK'
  <2>1. <<CustomerRow(c)>> \in Seq(Rows)
    BY RowsAreRows
  <2> QED
    BY <1>1, <2>1, BeginTypes DEF BeginCommit
<1>2. ASSUME NEW t \in Transactions, NEW basket \in (SUBSET TicketTypes) \ {{}},
             NEW s \in Sales, BeginCorrection(t, s, basket)
      PROVE  TypeOK'
  <2>1. <<SaleRow(s)>> \in Seq(Rows) /\ {s} \in SUBSET Sales
    BY RowsAreRows
  <2>2. \E some \in SUBSET TicketTypes :
          Begin(t, "correction", "sale", <<SaleRow(s)>>, some, {s})
    BY <1>2 DEF BeginCorrection
  <2> QED
    BY <2>1, <2>2, BeginTypes
<1>3. ASSUME NEW t \in Transactions, NEW basket \in (SUBSET TicketTypes) \ {{}},
             NEW buyers \in BuyersOfImports, BeginImport(t, buyers, basket)
      PROVE  TypeOK'
  <2>1. [i \in DOMAIN buyers |-> CustomerRow(buyers[i])] \o Sorted(basket) \in Seq(Rows)
    BY ImportPlan, SortedType
  <2> QED
    BY <1>3, <2>1, BeginTypes DEF BeginImport
<1>4. ASSUME NEW t \in Transactions, NEW s \in Sales, BeginReversal(t, s)
      PROVE  TypeOK'
  <2>1. <<SaleRow(s)>> \in Seq(Rows) /\ {s} \in SUBSET Sales
    BY RowsAreRows
  <2>2. \E some \in SUBSET TicketTypes :
          Begin(t, "reversal", "sale", <<SaleRow(s)>>, some, {s})
    BY <1>4 DEF BeginReversal
  <2> QED
    BY <2>1, <2>2, BeginTypes
<1>5. ASSUME NEW t \in Transactions, NEW cart \in CartOrders, CreatePayment(t, cart)
      PROVE  TypeOK'
  BY <1>5, PaymentPlan, BeginTypes DEF CreatePayment
<1>6. ASSUME NEW t \in Transactions PROVE tx[t] \in Entry
  BY DEF TypeOK, Entry
<1>7. ASSUME NEW t \in Transactions, PlanTypes(t) PROVE TypeOK'
  <2>1. PICK candidate \in {{}, Offered(BuyerOf(t))} :
          Plan(t, "types", Sorted(tx[t].basket \cup TypesOfSales(candidate)))
    BY <1>7 DEF PlanTypes
  <2>2. tx[t].basket \cup TypesOfSales(candidate) \in SUBSET TicketTypes
    BY <1>6, OfferedType, SalesTypes DEF Entry
  <2>3. Sorted(tx[t].basket \cup TypesOfSales(candidate)) \in Seq(Rows)
    BY <2>2, SortedType
  <2>4. tx' = [tx EXCEPT ![t].sales = tx[t].sales,
                         ![t].plan = Sorted(tx[t].basket \cup TypesOfSales(candidate)),
                         ![t].stage = "types"]
    BY <1>6, <2>1 DEF Plan, TypeOK, Entry
  <2>5. tx[t].sales \in SUBSET Sales /\ "types" \in Stages
    BY <1>6 DEF Entry
  <2>6. UNCHANGED <<held, active, selfHeld, reseats>>
    BY <1>7 DEF PlanTypes
  <2> QED
    BY <2>3, <2>4, <2>5, <2>6, PlanTypesOK
<1>8. ASSUME NEW t \in Transactions, Upgrade(t) PROVE TypeOK'
  <2> DEFINE offer == Offered(BuyerOf(t))
             row == SaleRow(CHOOSE s \in offer : TRUE)
  <2>1. offer \in SUBSET Sales /\ row \in Rows
    BY <1>8, OfferedType, RowsAreRows DEF Upgrade
  <2>2. <<row>> \in Seq(Rows)
    BY <2>1
  <2>3. /\ tx' = [tx EXCEPT ![t].stage = "upgrade", ![t].sales = offer, ![t].plan = <<row>>]
        /\ UNCHANGED <<held, active, selfHeld, reseats>>
    BY <1>8 DEF Upgrade
  <2> HIDE DEF offer, row
  <2>4. tx' = [tx EXCEPT ![t].sales = offer, ![t].plan = <<row>>, ![t].stage = "upgrade"]
    BY <2>3 DEF TypeOK
  <2>5. "upgrade" \in Stages
    OBVIOUS
  <2> QED
    BY <2>1, <2>2, <2>3, <2>4, <2>5, PlanTypesOK
<1>9. ASSUME NEW t \in Transactions, ReverseTypes(t) PROVE TypeOK'
  <2> DEFINE gone == tx[t].sales \cap active
             stage == IF tx[t].kind = "correction" /\ gone # {} THEN "types" ELSE "last"
  <2>1. gone \in SUBSET Sales /\ stage \in Stages
    BY <1>6 DEF Entry
  <2>2. Sorted(TypesOfSales(gone)) \in Seq(Rows)
    BY <2>1, SalesTypes, SortedType
  <2>3. /\ tx' = [tx EXCEPT ![t].sales = gone, ![t].plan = Sorted(TypesOfSales(gone)),
                            ![t].stage = stage]
        /\ UNCHANGED <<held, active, selfHeld, reseats>>
    BY <1>9 DEF ReverseTypes
  <2> HIDE DEF gone, stage
  <2> QED
    BY <2>1, <2>2, <2>3, PlanTypesOK
<1>10. ASSUME NEW t \in Transactions, CommitReplacement(t) PROVE TypeOK'
  <2>1. PICK c \in Customers : Plan(t, "last", <<CustomerRow(c)>> \o Sorted(tx[t].basket))
    BY <1>10 DEF CommitReplacement
  <2>2. <<CustomerRow(c)>> \o Sorted(tx[t].basket) \in Seq(Rows)
    BY <1>6, RowsAreRows, SortedType DEF Entry
  <2>3. tx' = [tx EXCEPT ![t].sales = tx[t].sales,
                         ![t].plan = <<CustomerRow(c)>> \o Sorted(tx[t].basket),
                         ![t].stage = "last"]
    BY <1>6, <2>1 DEF Plan, TypeOK, Entry
  <2> QED
    BY <1>6, <1>10, <2>2, <2>3, PlanTypesOK DEF CommitReplacement, Entry
<1>11. ASSUME NEW t \in Transactions, Lock(t) PROVE TypeOK'
  BY <1>11, LockTypes
<1>12. ASSUME NEW t \in Transactions, Commit(t) \/ Rollback(t) PROVE TypeOK'
  BY <1>12, ReleaseTypes DEF Commit, Rollback
<1>13. ASSUME NEW s \in FreeSales, Reseat(s) PROVE TypeOK'
  BY <1>13, LocksAssumption DEF Reseat, TypeOK
<1>14. CASE UNCHANGED vars
  BY <1>14 DEF vars, TypeOK
<1> QED
  BY <1>1, <1>2, <1>3, <1>4, <1>5, <1>7, <1>8, <1>9, <1>10, <1>11, <1>12, <1>13, <1>14 DEF Next

\* The state has its type: a plan lists rows of the three tables, and a lock is
\* of such a row, whatever is read between a plan and its locks.
THEOREM LocksTypes == Spec => []TypeOK
BY TypeInit, TypeStep, PTL DEF Spec

-----------------------------------------------------------------------------
(* The locks.                                                               *)

\* Who is not at work keeps its place.
LEMMA Undisturbed ==
  ASSUME NEW t, tx'[t] = tx[t], \A row, m : <<t, row, m>> \in held' <=> <<t, row, m>> \in held,
         Shape(t)
  PROVE  Shape(t)'
<1>1. \A row : Holds(t, row)' <=> Holds(t, row)
  BY DEF Holds
<1>2. \A i, row : Met(t, i, row)' <=> Met(t, i, row)
  BY <1>1 DEF Met
<1>3. \A i : Above(t, i)' <=> Above(t, i)
  BY <1>2 DEF Above
<1>4. Entries(t)' = Entries(t) /\ \A kind, stage : At(t, kind, stage)' <=> At(t, kind, stage)
  BY DEF Entries, At
<1>5. /\ Idle(t) => Idle(t)'
      /\ Opening(t) => Opening(t)'
      /\ Climbing(t) => Climbing(t)'
  BY <1>1, <1>2, <1>3, <1>4 DEF Idle, Opening, Climbing
<1>6. /\ Reversing(t) => Reversing(t)'
      /\ Covered(t) => Covered(t)'
  BY <1>1, <1>4 DEF Reversing, Covered
<1>7. Importing(t) => Importing(t)'
  BY <1>2, <1>3, <1>4 DEF Importing
<1>8. Paying(t) => Paying(t)'
  BY <1>4 DEF Paying
<1> QED
  BY <1>4, <1>5, <1>6, <1>7, <1>8 DEF Shape

\* What is locked next is met by the rest of the plan.
LEMMA LockKeepsShape ==
  ASSUME TypeOK, NEW t \in Transactions, Lock(t), Shape(t)
  PROVE  Shape(t)'
<1> DEFINE p == tx[t].plan
<1>1. tx[t] \in Entry /\ p \in Seq(Rows) /\ p # <<>>
  BY DEF TypeOK, Entry, Lock
<1>2. /\ Len(p) \in Nat /\ Len(p) >= 1 /\ Head(p) = p[1]
      /\ Tail(p) \in Seq(Rows) /\ Len(Tail(p)) = Len(p) - 1
      /\ \A i \in 1..(Len(p) - 1) : Tail(p)[i] = p[i + 1]
  BY <1>1
<1>3. /\ tx'[t].plan = Tail(p) /\ tx'[t].kind = tx[t].kind /\ tx'[t].stage = tx[t].stage
      /\ tx'[t].sales = tx[t].sales
  BY <1>1 DEF Lock, TypeOK, Entry
<1>4. \A row : Holds(t, row)' <=> Holds(t, row) \/ row = p[1]
  BY <1>2 DEF Lock, Holds, Mode, Modes
<1> HIDE DEF p
<1>5. ASSUME NEW i \in 1..Len(p), NEW row
      PROVE  Met(t, i, row)' <=> Met(t, i + 1, row)
  <2>1. (\E j \in 1..(i - 1) : Tail(p)[j] = row) <=> (\E j \in 2..i : p[j] = row)
    <3>1. ASSUME NEW j \in 1..(i - 1) PROVE j + 1 \in 2..i /\ Tail(p)[j] = p[j + 1]
      BY <1>2
    <3>2. ASSUME NEW j \in 2..i PROVE j - 1 \in 1..(i - 1) /\ Tail(p)[j - 1] = p[j]
      BY <1>2
    <3> QED
      BY <3>1, <3>2
  <2>2. (\E j \in 1..((i + 1) - 1) : p[j] = row) <=> p[1] = row \/ \E j \in 2..i : p[j] = row
    <3>1. 1..((i + 1) - 1) = {1} \cup (2..i)
      BY <1>2
    <3> QED
      BY <3>1
  <2> QED
    BY <1>3, <1>4, <2>1, <2>2 DEF Met, p
<1>6. \A i \in 1..(Len(p) - 1) : i \in 1..Len(p) /\ i + 1 \in 1..Len(p)
  BY <1>2
<1>7. Entries(t)' = 1..(Len(p) - 1) /\ Entries(t) = 1..Len(p)
  BY <1>2, <1>3 DEF Entries, p
<1>8. \A i \in Entries(t)' : i + 1 \in Entries(t) /\ tx'[t].plan[i] = p[i + 1]
  BY <1>2, <1>3, <1>6, <1>7
<1>9. \A i \in Entries(t)' : Above(t, i + 1) => Above(t, i)'
  BY <1>5, <1>6, <1>7, <1>8 DEF Above, p
<1>10. ~Idle(t)
  BY <1>1 DEF Idle, Nothing, p
<1>11. Opening(t) => Opening(t)'
  <2>1. Len(tx'[t].plan) + 1 = Len(p) /\ Len(p) \in 1..Len(p)
    BY <1>2, <1>3
  <2> QED
    BY <1>5, <1>6, <1>7, <1>8, <2>1 DEF Opening, p
<1>12. Climbing(t) => Climbing(t)'
  BY <1>8, <1>9 DEF Climbing
<1>13. Reversing(t) => Reversing(t)'
  BY <1>3, <1>4, <1>8 DEF Reversing, p
<1>14. Covered(t) => Covered(t)'
  BY <1>4, <1>8 DEF Covered, p
<1>15. Importing(t) => Importing(t)'
  BY <1>5, <1>6, <1>7, <1>8, <1>9 DEF Importing, p
<1>16. Paying(t) => Paying(t)'
  BY <1>8 DEF Paying, p
<1>17. \A kind, stage : At(t, kind, stage) => At(t, kind, stage)'
  BY <1>3 DEF At
<1> QED
  BY <1>10, <1>11, <1>12, <1>13, <1>14, <1>15, <1>16, <1>17 DEF Shape

\* A transaction that holds no Ticket Type may take any set of them, sorted.
LEMMA SortedClimbs ==
  ASSUME NEW t, NEW types \in SUBSET TicketTypes, tx'[t].plan = Sorted(types),
         \A n \in TicketTypes : ~Holds(t, TypeRow(n))'
  PROVE  Climbing(t)'
<1>1. \A i \in 1..Len(Sorted(types)) :
        \E m \in types :
          /\ Sorted(types)[i] = TypeRow(m)
          /\ \A j \in 1..(i - 1), n \in TicketTypes : Sorted(types)[j] = TypeRow(n) => n < m
  BY SortedRises
<1> QED
  BY <1>1 DEF Climbing, Entries, Above, Met

\* An import's plan: its buyers, then its one sorted set.
LEMMA ImportClimbs ==
  ASSUME NEW t, NEW types \in SUBSET TicketTypes, NEW buyers \in BuyersOfImports,
         tx'[t].plan = [i \in DOMAIN buyers |-> CustomerRow(buyers[i])] \o Sorted(types),
         \A row : ~Holds(t, row)'
  PROVE  Importing(t)'
<1> DEFINE P == [i \in DOMAIN buyers |-> CustomerRow(buyers[i])]
           S == Sorted(types)
<1>1. P \in Seq(Rows) /\ S \in Seq(Rows)
  BY ImportPlan, SortedType
<1>2. buyers \in Seq(Customers)
  BY LocksAssumption
<1>3. Len(P) \in Nat /\ \A i \in 1..Len(P) : \E c \in Customers : P[i] = CustomerRow(c)
  BY <1>1, <1>2
<1>4. \A i \in 1..Len(S) :
        \E m \in types :
          /\ S[i] = TypeRow(m)
          /\ \A j \in 1..(i - 1), n \in TicketTypes : S[j] = TypeRow(n) => n < m
  BY SortedRises
<1>5. tx'[t].plan = P \o S
  OBVIOUS
<1> HIDE DEF P, S
<1>6. /\ Len(P \o S) = Len(P) + Len(S) /\ Len(S) \in Nat
      /\ \A i \in 1..(Len(P) + Len(S)) : (P \o S)[i] = IF i <= Len(P) THEN P[i] ELSE S[i - Len(P)]
  BY <1>1
<1> SUFFICES ASSUME NEW i \in 1..(Len(P) + Len(S))
             PROVE  \/ Above(t, i)'
                    \/ /\ \E c \in Customers : tx'[t].plan[i] = CustomerRow(c)
                       /\ \A row \in Rows : Met(t, i, row)' => \E c \in Customers : row = CustomerRow(c)
  BY <1>5, <1>6 DEF Importing, Entries
<1>7. CASE i <= Len(P)
  <2>1. \A j \in 1..i : j \in 1..Len(P) /\ (P \o S)[j] = P[j]
    BY <1>3, <1>6, <1>7
  <2>2. \A j \in 1..i : \E c \in Customers : tx'[t].plan[j] = CustomerRow(c)
    BY <1>3, <1>5, <2>1
  <2>3. i \in 1..i /\ \A j \in 1..(i - 1) : j \in 1..i
    BY <1>3, <1>6
  <2> QED
    BY <2>2, <2>3 DEF Met
<1>8. CASE i > Len(P)
  <2>1. i - Len(P) \in 1..Len(S) /\ (P \o S)[i] = S[i - Len(P)]
    BY <1>3, <1>6, <1>8
  <2>2. PICK m \in types :
          /\ S[i - Len(P)] = TypeRow(m)
          /\ \A j \in 1..((i - Len(P)) - 1), n \in TicketTypes : S[j] = TypeRow(n) => n < m
    BY <1>4, <2>1
  <2>3. ASSUME NEW j \in 1..(i - 1), NEW n \in TicketTypes, (P \o S)[j] = TypeRow(n)
        PROVE  n < m
    <3>1. ~(j <= Len(P))
      <4> SUFFICES ASSUME j <= Len(P) PROVE FALSE
        OBVIOUS
      <4>1. j \in 1..Len(P) /\ (P \o S)[j] = P[j]
        BY <1>3, <1>6
      <4>2. PICK c \in Customers : P[j] = CustomerRow(c)
        BY <1>3, <4>1
      <4> QED
        BY <2>3, <4>1, <4>2 DEF TypeRow, CustomerRow
    <3>2. j - Len(P) \in 1..((i - Len(P)) - 1) /\ (P \o S)[j] = S[j - Len(P)]
      BY <1>3, <1>6, <3>1
    <3> QED
      BY <2>2, <2>3, <3>2
  <2> QED
    BY <1>5, <2>1, <2>2, <2>3 DEF Above, Met
<1>9. i <= Len(P) \/ i > Len(P)
  BY <1>3, <1>6
<1> QED
  BY <1>7, <1>8, <1>9

\* One row, first of all: a Customer's or a sale's.
LEMMA OneRowOpens ==
  ASSUME NEW t, NEW row, tx'[t].plan = <<row>>, \A r : ~Holds(t, r)',
         \A n \in TicketTypes : row # TypeRow(n)
  PROVE  Opening(t)'
<1>1. Len(tx'[t].plan) = 1 /\ tx'[t].plan[1] = row
  OBVIOUS
<1>2. \A r : ~Met(t, 1, r)'
  BY DEF Met
<1>3. \A n \in TicketTypes : ~Met(t, 2, TypeRow(n))'
  <2>1. \A j \in 1..(2 - 1) : j = 1
    OBVIOUS
  <2> QED
    BY <1>1, <2>1 DEF Met
<1>4. Entries(t)' = {1}
  BY <1>1 DEF Entries
<1> QED
  BY <1>1, <1>2, <1>3, <1>4 DEF Opening

LEMMA RowsDiffer ==
  /\ \A c, n : CustomerRow(c) # TypeRow(n)
  /\ \A s, n : SaleRow(s) # TypeRow(n)
  /\ \A m, n : TypeRow(m) = TypeRow(n) => m = n
  /\ \A c, d : CustomerRow(c) = CustomerRow(d) => c = d
BY DEF CustomerRow, TypeRow, SaleRow

\* Where a transaction begins, it holds nothing.
LEMMA BeginsIdle ==
  ASSUME TypeOK, NEW t \in Transactions, Shape(t), NEW kind, NEW stage, NEW plan, NEW basket, NEW ss,
         Begin(t, kind, stage, plan, basket, ss)
  PROVE  /\ \A row : ~Holds(t, row)'
         /\ \A row, m : <<t, row, m>> \notin held
         /\ tx'[t].plan = plan /\ tx'[t].kind = kind /\ tx'[t].stage = stage
<1>1. Idle(t)
  BY DEF Begin, Shape, At, Nothing
<1>2. \A row, m : <<t, row, m>> \notin held
  BY <1>1 DEF Idle, Holds, TypeOK
<1>3. tx'[t] = [kind |-> kind, stage |-> stage, plan |-> plan, basket |-> basket, sales |-> ss]
  BY DEF Begin, TypeOK
<1>4. held' = held
  BY DEF Begin
<1>5. \A row : ~Holds(t, row)'
  BY <1>2, <1>4 DEF Holds
<1> QED
  BY <1>2, <1>3, <1>5

-----------------------------------------------------------------------------
(* The inductive step.                                                      *)

\* No lock is taken or given back, and who holds one stays what it is.
LEMMA LocksStay ==
  ASSUME TypeOK, OwnMode, Exclusive, held' = held,
         \A u \in Transactions :
           tx'[u].kind = tx[u].kind \/ \A row, m : <<u, row, m>> \notin held
  PROVE  OwnMode' /\ Exclusive'
<1>1. \A l \in held : l = <<l[1], l[2], l[3]>> /\ l[1] \in Transactions
  BY DEF TypeOK
<1>2. \A l \in held : Mode(l[1])' = Mode(l[1])
  BY <1>1 DEF Mode
<1> QED
  BY <1>2 DEF OwnMode, Exclusive

\* A lock is granted to one whom no other's lock stops.
LEMMA LockKeepsLocks ==
  ASSUME TypeOK, OwnMode, Exclusive, NEW t \in Transactions, Lock(t)
  PROVE  OwnMode' /\ Exclusive'
<1> DEFINE own == <<t, Head(tx[t].plan), Mode(t)>>
<1>1. \A l \in held : l = <<l[1], l[2], l[3]>> /\ l[1] \in Transactions /\ l[3] \in Modes
  BY DEF TypeOK
<1>2. \A u \in Transactions : Mode(u)' = Mode(u)
  BY DEF Lock, Mode, TypeOK
<1>3. held' = held \cup {own}
  BY DEF Lock
<1>4. OwnMode'
  BY <1>1, <1>2, <1>3 DEF OwnMode
<1>5. ASSUME NEW l \in held, l[2] = own[2], l[1] # t
      PROVE  ~Conflicts(l[3], own[3]) /\ ~Conflicts(own[3], l[3])
  BY <1>1, <1>5 DEF Lock, WaitsFor, Conflicts
<1>6. own[1] = t /\ own[2] = Head(tx[t].plan)
  OBVIOUS
<1> HIDE DEF own
<1>7. Exclusive'
  BY <1>3, <1>5, <1>6 DEF Exclusive
<1> QED
  BY <1>4, <1>7

LEMMA ReleaseKeeps ==
  ASSUME IInv, NEW t \in Transactions, Release(t), active' \subseteq active
  PROVE  IInv'
<1>1. TypeOK'
  BY ReleaseTypes DEF IInv
<1>2. tx'[t] = Nothing /\ \A u \in Transactions : u # t => tx'[u] = tx[u]
  BY DEF IInv, TypeOK, Release
<1>3. \A l \in held' : l \in held /\ l[1] # t /\ l[1] \in Transactions
  BY DEF IInv, TypeOK, Release
<1>4. OwnMode' /\ Exclusive'
  <2>1. \A l \in held' : Mode(l[1])' = Mode(l[1])
    BY <1>2, <1>3 DEF Mode
  <2> QED
    BY <1>3, <2>1 DEF IInv, OwnMode, Exclusive
<1>5. Shape(t)'
  <2>1. \A row : ~Holds(t, row)'
    BY <1>3 DEF Holds
  <2> QED
    BY <1>2, <2>1 DEF Shape, Idle
<1>6. ASSUME NEW u \in Transactions, u # t PROVE Shape(u)'
  <2>1. \A row, m : <<u, row, m>> \in held' <=> <<u, row, m>> \in held
    BY <1>6 DEF Release
  <2> QED
    BY <1>2, <1>6, <2>1, Undisturbed DEF IInv
<1> QED
  BY <1>1, <1>4, <1>5, <1>6 DEF IInv

LEMMA LockKeeps ==
  ASSUME IInv, NEW t \in Transactions, Lock(t)
  PROVE  IInv'
<1>1. TypeOK' /\ OwnMode' /\ Exclusive' /\ Shape(t)'
  BY LockTypes, LockKeepsLocks, LockKeepsShape DEF IInv
<1>2. ASSUME NEW u \in Transactions, u # t PROVE Shape(u)'
  <2>1. tx'[u] = tx[u] /\ \A row, m : <<u, row, m>> \in held' <=> <<u, row, m>> \in held
    BY <1>2 DEF Lock, IInv, TypeOK
  <2> QED
    BY <1>2, <2>1, Undisturbed DEF IInv
<1> QED
  BY <1>1, <1>2 DEF IInv

\* A transaction that begins, or plans on, takes no lock by it: it is enough
\* that its own plan is in shape.
LEMMA PlanKeeps ==
  ASSUME IInv, TypeOK', NEW t \in Transactions, held' = held,
         \A u \in Transactions : u # t => tx'[u] = tx[u],
         tx'[t].kind = tx[t].kind \/ \A row, m : <<t, row, m>> \notin held,
         Shape(t)'
  PROVE  IInv'
<1>1. OwnMode' /\ Exclusive'
  BY LocksStay DEF IInv
<1>2. ASSUME NEW u \in Transactions, u # t PROVE Shape(u)'
  BY <1>2, Undisturbed DEF IInv
<1> QED
  BY <1>1, <1>2 DEF IInv

LEMMA BeginKeeps ==
  ASSUME IInv, TypeOK', NEW t \in Transactions, NEW kind, NEW stage, NEW plan, NEW basket, NEW ss,
         Begin(t, kind, stage, plan, basket, ss), Shape(t)'
  PROVE  IInv'
<1>1. \A row, m : <<t, row, m>> \notin held
  BY BeginsIdle DEF IInv
<1>2. held' = held /\ \A u \in Transactions : u # t => tx'[u] = tx[u]
  BY DEF Begin, IInv, TypeOK
<1> QED
  BY <1>1, <1>2, PlanKeeps

LEMMA InvInit == Init => IInv
<1> SUFFICES ASSUME Init PROVE IInv
  OBVIOUS
<1>1. TypeOK
  BY TypeInit
<1>2. OwnMode /\ Exclusive
  BY DEF Init, OwnMode, Exclusive
<1>3. ASSUME NEW t \in Transactions PROVE Shape(t)
  BY DEF Init, Shape, Idle, Holds
<1> QED
  BY <1>1, <1>2, <1>3 DEF IInv

\* A plan made of the rows as they stand keeps what is locked below what is not.
LEMMA PlanTypesKeeps ==
  ASSUME IInv, TypeOK', NEW t \in Transactions, PlanTypes(t)
  PROVE  IInv'
<1>1. tx[t] \in Entry
  BY DEF IInv, TypeOK, Entry
<1>2. PICK candidate \in {{}, Offered(BuyerOf(t))} :
        Plan(t, "types", Sorted(tx[t].basket \cup TypesOfSales(candidate)))
  BY DEF PlanTypes
<1> DEFINE types == tx[t].basket \cup TypesOfSales(candidate)
<1>3. types \in SUBSET TicketTypes
  BY <1>1, OfferedType, SalesTypes DEF Entry, IInv
<1> HIDE DEF types
<1>4. held' = held /\ At(t, "commit", "buyers") /\ tx[t].plan = <<>>
  BY DEF PlanTypes, Planned, At
<1>5. /\ tx'[t].plan = Sorted(types) /\ tx'[t].kind = tx[t].kind /\ tx'[t].stage = "types"
      /\ \A u \in Transactions : u # t => tx'[u] = tx[u]
  BY <1>1, <1>2 DEF Plan, IInv, TypeOK, Entry, types
<1>6. Opening(t)
  BY <1>4 DEF IInv, Shape, At, Idle, Nothing
<1>7. \A n \in TicketTypes : ~Holds(t, TypeRow(n))'
  BY <1>4, <1>6 DEF Opening, Met, Holds
<1>8. Climbing(t)'
  BY <1>3, <1>5, <1>7, SortedClimbs
<1>9. Shape(t)'
  BY <1>4, <1>5, <1>8 DEF Shape, At
<1> QED
  BY <1>4, <1>5, <1>9, PlanKeeps

\* The Upgrade's guard: the types of the sale it gives up are all held.
LEMMA UpgradeKeeps ==
  ASSUME IInv, TypeOK', NEW t \in Transactions, Upgrade(t)
  PROVE  IInv'
<1> DEFINE offer == Offered(BuyerOf(t))
           s == CHOOSE s \in offer : TRUE
<1>1. s \in Sales /\ \A n \in TypesOfSales(offer) : Holds(t, TypeRow(n))
  BY OfferedType DEF Upgrade, IInv
<1>2. /\ tx' = [tx EXCEPT ![t].stage = "upgrade", ![t].sales = offer, ![t].plan = <<SaleRow(s)>>]
      /\ held' = held /\ tx[t].kind = "commit"
  BY DEF Upgrade, Planned
<1> HIDE DEF offer, s
<1>3. /\ tx'[t].plan = <<SaleRow(s)>> /\ tx'[t].kind = "commit" /\ tx'[t].stage = "upgrade"
      /\ tx'[t].sales = offer /\ \A u \in Transactions : u # t => tx'[u] = tx[u]
  BY <1>2 DEF IInv, TypeOK
<1>4. \A row : Holds(t, row)' <=> Holds(t, row)
  BY <1>2 DEF Holds
<1>5. Entries(t)' = {1} /\ tx'[t].plan[1] = SaleRow(s)
  BY <1>3 DEF Entries
<1>6. Reversing(t)'
  BY <1>1, <1>3, <1>4, <1>5 DEF Reversing
<1>7. Shape(t)'
  BY <1>3, <1>6 DEF Shape, At
<1> QED
  BY <1>2, <1>3, <1>7, PlanKeeps

\* What a reversal inside a commit asks for is held already; one by itself holds
\* no Ticket Type yet.
LEMMA ReverseTypesKeeps ==
  ASSUME IInv, TypeOK', NEW t \in Transactions, ReverseTypes(t)
  PROVE  IInv'
<1> DEFINE gone == tx[t].sales \cap active
           types == TypesOfSales(gone)
           stage == IF tx[t].kind = "correction" /\ gone # {} THEN "types" ELSE "last"
<1>1. tx[t] \in Entry
  BY DEF IInv, TypeOK, Entry
<1>2. types \in SUBSET TicketTypes /\ \A n \in types : n \in TypesOfSales(tx[t].sales)
  <2>1. gone \in SUBSET Sales
    BY <1>1 DEF Entry
  <2> QED
    BY <2>1, SalesTypes DEF TypesOfSales
<1>3. /\ tx' = [tx EXCEPT ![t].sales = gone, ![t].plan = Sorted(types), ![t].stage = stage]
      /\ held' = held /\ tx[t].plan = <<>>
  BY DEF ReverseTypes, Planned
<1>10. At(t, "reversal", "sale") \/ At(t, "correction", "sale") \/ At(t, "commit", "upgrade")
  BY DEF ReverseTypes, Planned, At
<1>4. stage \in {"types", "last"} /\ (stage = "types" => tx[t].kind = "correction")
  OBVIOUS
<1> HIDE DEF gone, types, stage
<1>5. /\ tx'[t].plan = Sorted(types) /\ tx'[t].kind = tx[t].kind /\ tx'[t].stage = stage
      /\ \A u \in Transactions : u # t => tx'[u] = tx[u]
  BY <1>1, <1>3 DEF IInv, TypeOK, Entry
<1>6. \A row : Holds(t, row)' <=> Holds(t, row)
  BY <1>3 DEF Holds
<1>7. ASSUME At(t, "commit", "upgrade") PROVE Shape(t)'
  <2>1. Reversing(t)
    BY <1>7 DEF IInv, Shape, At, Idle, Nothing
  <2>2. Covered(t)'
    <3>1. \A i \in 1..Len(Sorted(types)) : \E m \in types : Sorted(types)[i] = TypeRow(m)
      BY <1>2, SortedRises
    <3> QED
      BY <1>2, <1>5, <1>6, <2>1, <3>1 DEF Covered, Entries, Reversing
  <2>3. tx'[t].kind = "commit" /\ tx'[t].stage = "last"
    BY <1>4, <1>5, <1>7 DEF At
  <2> QED
    BY <2>2, <2>3 DEF Shape, At
<1>8. ASSUME At(t, "reversal", "sale") \/ At(t, "correction", "sale") PROVE Shape(t)'
  <2>1. Opening(t)
    BY <1>8 DEF IInv, Shape, At, Idle, Nothing
  <2>2. \A n \in TicketTypes : ~Holds(t, TypeRow(n))'
    BY <1>6, <2>1 DEF Opening, Met
  <2>3. Climbing(t)'
    BY <1>2, <1>5, <2>2, SortedClimbs
  <2>4. \/ tx'[t].kind = "reversal" /\ tx'[t].stage = "last"
        \/ tx'[t].kind = "correction" /\ tx'[t].stage \in {"types", "last"}
    BY <1>4, <1>5, <1>8 DEF At
  <2> QED
    BY <2>3, <2>4 DEF Shape, At
<1>9. Shape(t)'
  BY <1>7, <1>8, <1>10
<1> QED
  BY <1>3, <1>5, <1>9, PlanKeeps

LEMMA CommitReplacementKeeps ==
  ASSUME IInv, TypeOK', NEW t \in Transactions, CommitReplacement(t)
  PROVE  IInv'
<1>1. /\ tx'[t].kind = tx[t].kind /\ tx[t].kind = "correction" /\ tx'[t].stage = "last"
      /\ held' = held /\ \A u \in Transactions : u # t => tx'[u] = tx[u]
  BY DEF CommitReplacement, Planned, Plan, IInv, TypeOK
<1>2. Shape(t)'
  BY <1>1 DEF Shape, At
<1> QED
  BY <1>1, <1>2, PlanKeeps

\* Every step keeps the inductive invariant.
LEMMA InvStep ==
  ASSUME IInv, [Next]_vars
  PROVE  IInv'
<1>1. TypeOK /\ TypeOK' /\ \A t \in Transactions : Shape(t)
  BY TypeStep DEF IInv
<1>2. ASSUME NEW t \in Transactions, NEW basket \in (SUBSET TicketTypes) \ {{}},
             NEW c \in Customers, BeginCommit(t, c, basket)
      PROVE  IInv'
  <2>1. Begin(t, "commit", "buyers", <<CustomerRow(c)>>, basket, {})
    BY <1>2 DEF BeginCommit
  <2>2. /\ \A row : ~Holds(t, row)' 
        /\ tx'[t].plan = <<CustomerRow(c)>> /\ At(t, "commit", "buyers")'
    BY <1>1, <2>1, BeginsIdle DEF At
  <2>3. Opening(t)'
    BY <2>2, OneRowOpens, RowsDiffer
  <2>4. Shape(t)'
    BY <2>2, <2>3 DEF Shape
  <2> QED
    BY <1>1, <2>1, <2>4, BeginKeeps
<1>3. ASSUME NEW t \in Transactions, NEW basket \in (SUBSET TicketTypes) \ {{}},
             NEW s \in Sales, BeginCorrection(t, s, basket)
      PROVE  IInv'
  <2>1. Begin(t, "correction", "sale", <<SaleRow(s)>>, basket, {s})
    BY <1>3 DEF BeginCorrection
  <2>2. /\ \A row : ~Holds(t, row)' 
        /\ tx'[t].plan = <<SaleRow(s)>> /\ At(t, "correction", "sale")'
    BY <1>1, <2>1, BeginsIdle DEF At
  <2>3. Opening(t)'
    BY <2>2, OneRowOpens, RowsDiffer
  <2>4. Shape(t)'
    BY <2>2, <2>3 DEF Shape
  <2> QED
    BY <1>1, <2>1, <2>4, BeginKeeps
<1>4. ASSUME NEW t \in Transactions, NEW basket \in (SUBSET TicketTypes) \ {{}},
             NEW buyers \in BuyersOfImports, BeginImport(t, buyers, basket)
      PROVE  IInv'
  <2> DEFINE plan == [i \in DOMAIN buyers |-> CustomerRow(buyers[i])] \o Sorted(basket)
  <2>1. Begin(t, "import", "last", plan, basket, {})
    BY <1>4 DEF BeginImport
  <2>2. /\ \A row : ~Holds(t, row)' 
        /\ tx'[t].plan = plan /\ At(t, "import", "last")'
    <3> HIDE DEF plan
    <3> QED
      BY <1>1, <2>1, BeginsIdle DEF At
  <2>3. Importing(t)'
    BY <2>2, ImportClimbs
  <2>4. Shape(t)'
    BY <2>2, <2>3 DEF Shape
  <2> HIDE DEF plan
  <2> QED
    BY <1>1, <2>1, <2>4, BeginKeeps
<1>5. ASSUME NEW t \in Transactions, NEW s \in Sales, BeginReversal(t, s)
      PROVE  IInv'
  <2>1. Begin(t, "reversal", "sale", <<SaleRow(s)>>, {}, {s})
    BY <1>5 DEF BeginReversal
  <2>2. /\ \A row : ~Holds(t, row)' 
        /\ tx'[t].plan = <<SaleRow(s)>> /\ At(t, "reversal", "sale")'
    BY <1>1, <2>1, BeginsIdle DEF At
  <2>3. Opening(t)'
    BY <2>2, OneRowOpens, RowsDiffer
  <2>4. Shape(t)'
    BY <2>2, <2>3 DEF Shape
  <2> QED
    BY <1>1, <2>1, <2>4, BeginKeeps
<1>6. ASSUME NEW t \in Transactions, NEW cart \in CartOrders, CreatePayment(t, cart)
      PROVE  IInv'
  <2> DEFINE plan == [i \in DOMAIN cart |-> TypeRow(cart[i])]
  <2>1. Begin(t, "payment", "last", plan, {}, {})
    BY <1>6 DEF CreatePayment
  <2>2. tx'[t].plan = plan /\ At(t, "payment", "last")'
    <3> HIDE DEF plan
    <3> QED
      BY <1>1, <2>1, BeginsIdle DEF At
  <2>3. \A i \in 1..Len(plan) : \E m \in TicketTypes : plan[i] = TypeRow(m)
    <3>1. cart \in Seq(TicketTypes)
      BY LocksAssumption
    <3> QED
      BY <3>1
  <2> HIDE DEF plan
  <2>4. Paying(t)'
    BY <2>2, <2>3 DEF Paying, Entries
  <2>5. Shape(t)'
    BY <2>2, <2>4 DEF Shape
  <2> QED
    BY <1>1, <2>1, <2>5, BeginKeeps
<1>7. ASSUME NEW t \in Transactions, PlanTypes(t) PROVE IInv'
  BY <1>1, <1>7, PlanTypesKeeps
<1>8. ASSUME NEW t \in Transactions, Upgrade(t) PROVE IInv'
  BY <1>1, <1>8, UpgradeKeeps
<1>9. ASSUME NEW t \in Transactions, ReverseTypes(t) PROVE IInv'
  BY <1>1, <1>9, ReverseTypesKeeps
<1>10. ASSUME NEW t \in Transactions, CommitReplacement(t) PROVE IInv'
  BY <1>1, <1>10, CommitReplacementKeeps
<1>11. ASSUME NEW t \in Transactions, Lock(t) PROVE IInv'
  BY <1>11, LockKeeps
<1>12. ASSUME NEW t \in Transactions, Commit(t) \/ Rollback(t) PROVE IInv'
  BY <1>12, ReleaseKeeps DEF Commit, Rollback
<1>13. ASSUME UNCHANGED <<tx, held>> PROVE IInv'
  <2>1. OwnMode' /\ Exclusive'
    BY <1>13, LocksStay DEF IInv
  <2>2. \A t \in Transactions : Shape(t)'
    BY <1>13, Undisturbed DEF IInv
  <2> QED
    BY <1>1, <2>1, <2>2 DEF IInv
<1>14. ASSUME NEW s \in FreeSales, Reseat(s) PROVE IInv'
  BY <1>13, <1>14 DEF Reseat
<1>15. CASE UNCHANGED vars
  BY <1>13, <1>15 DEF vars
<1> QED
  BY <1>2, <1>3, <1>4, <1>5, <1>6, <1>7, <1>8, <1>9, <1>10, <1>11, <1>12, <1>14, <1>15 DEF Next

-----------------------------------------------------------------------------
(* Deadlocks.                                                               *)

\* Nobody waits for a row it holds itself.
LEMMA WaitsForAnother ==
  ASSUME IInv, NEW u \in Transactions, NEW v \in Transactions, WaitsFor(u, v)
  PROVE  ~Holds(u, Head(tx[u].plan))
<1> SUFFICES ASSUME Holds(u, Head(tx[u].plan)) PROVE FALSE
  OBVIOUS
<1> DEFINE row == Head(tx[u].plan)
<1>1. PICK m \in Modes : <<v, row, m>> \in held /\ Conflicts(m, Mode(u)) /\ u # v
  BY DEF WaitsFor
<1>2. PICK k \in Modes : <<u, row, k>> \in held
  BY DEF Holds
<1> HIDE DEF row
<1>3. k = Mode(u)
  BY <1>2 DEF IInv, OwnMode
<1>4. ~Conflicts(m, k)
  BY <1>1, <1>2 DEF IInv, Exclusive
<1> QED
  BY <1>1, <1>3, <1>4

\* Who waits in order, and holds anything, waits for a Ticket Type above all it
\* holds.
LEMMA WaitsAbove ==
  ASSUME IInv, NEW u \in Transactions, NEW v \in Transactions, WaitsFor(u, v), ~OutOfOrder(u),
         NEW row \in Rows, Holds(u, row)
  PROVE  \E m \in TicketTypes :
           /\ Head(tx[u].plan) = TypeRow(m)
           /\ \A n \in TicketTypes : row = TypeRow(n) => n < m
<1>1. /\ tx[u].plan # <<>> /\ tx[u].plan \in Seq(Rows) /\ 1 \in Entries(u)
      /\ Head(tx[u].plan) = tx[u].plan[1]
  <2>1. tx[u].plan # <<>> /\ tx[u].plan \in Seq(Rows)
    BY DEF WaitsFor, IInv, TypeOK
  <2> QED
    BY <2>1 DEF Entries
<1>2. \A r : Holds(u, r) => Met(u, 1, r)
  BY DEF Met
<1>3. ~Holds(u, tx[u].plan[1])
  BY <1>1, WaitsForAnother
<1>4. Above(u, 1) => \E m \in TicketTypes :
        /\ Head(tx[u].plan) = TypeRow(m)
        /\ \A n \in TicketTypes : row = TypeRow(n) => n < m
  BY <1>1, <1>2 DEF Above
<1>5. CASE Idle(u)
  BY <1>1, <1>5 DEF Idle, Nothing
<1>6. CASE Opening(u)
  BY <1>1, <1>2, <1>6 DEF Opening
<1>7. CASE Climbing(u)
  BY <1>1, <1>4, <1>7 DEF Climbing
<1>8. CASE Reversing(u) /\ At(u, "commit", "upgrade")
  BY <1>1, <1>8 DEF Reversing, At, OutOfOrder
<1>9. CASE Covered(u)
  BY <1>1, <1>3, <1>9 DEF Covered
<1>10. CASE Importing(u) /\ At(u, "import", "last")
  <2>1. CASE Above(u, 1)
    BY <1>4, <2>1
  <2>2. ASSUME ~Above(u, 1) PROVE FALSE
    <3>1. PICK c \in Customers : tx[u].plan[1] = CustomerRow(c)
      BY <1>1, <1>10, <2>2 DEF Importing
    <3>2. PICK d \in Customers : row = CustomerRow(d)
      BY <1>1, <1>2, <1>10, <2>2 DEF Importing
    <3>3. c = d
      BY <1>1, <1>10, <3>1, <3>2 DEF OutOfOrder, At
    <3> QED
      BY <1>3, <3>1, <3>2, <3>3
  <2> QED
    BY <2>1, <2>2
<1>11. CASE Paying(u) /\ At(u, "payment", "last")
  <2>1. PICK m \in TicketTypes : tx[u].plan[1] = TypeRow(m)
    BY <1>1, <1>11 DEF Paying
  <2>2. ASSUME NEW n \in TicketTypes, row = TypeRow(n) PROVE n < m
    <3>1. ~(m < n)
      BY <1>1, <1>11, <2>1, <2>2 DEF OutOfOrder, At
    <3>2. m # n
      BY <1>3, <2>1, <2>2
    <3>3. m \in Int /\ n \in Int
      BY LocksAssumption
    <3> QED
      BY <3>1, <3>2, <3>3
  <2> QED
    BY <1>1, <2>1, <2>2
<1>12. CASE At(u, "correction", "last")
  BY <1>1, <1>12 DEF At, OutOfOrder
<1> QED
  BY <1>5, <1>6, <1>7, <1>8, <1>9, <1>10, <1>11, <1>12 DEF IInv, Shape

\* In a circle of transactions that keep the order, each one that is waited for
\* waits for a Ticket Type; the one who waits for the largest waits for another
\* who waits for a larger.
LEMMA InvNoOtherDeadlock == IInv => NoOtherDeadlock
<1> SUFFICES ASSUME IInv, NEW ts \in (SUBSET Transactions) \ {{}}, Deadlocked(ts),
                    \A t \in ts : ~OutOfOrder(t)
             PROVE  FALSE
  BY DEF NoOtherDeadlock
<1> DEFINE Awaited(v) == \E u \in ts : WaitsFor(u, v)
           D == {m \in TicketTypes : \E v \in ts : Awaited(v) /\ Head(tx[v].plan) = TypeRow(m)}
<1>1. ASSUME NEW u \in ts, NEW v \in ts, WaitsFor(u, v)
      PROVE  Head(tx[u].plan) \in Rows /\ Holds(v, Head(tx[u].plan))
  <2>1. tx[u].plan # <<>> /\ tx[u].plan \in Seq(Rows)
    BY <1>1 DEF WaitsFor, IInv, TypeOK
  <2> QED
    BY <1>1, <2>1 DEF WaitsFor, Holds
<1>2. ASSUME NEW u \in ts, NEW v \in ts, WaitsFor(u, v)
      PROVE  \E m \in D :
               /\ Head(tx[v].plan) = TypeRow(m)
               /\ \A n \in TicketTypes : Head(tx[u].plan) = TypeRow(n) => n < m
  <2>1. PICK w \in ts : WaitsFor(v, w)
    BY DEF Deadlocked
  <2>2. PICK m \in TicketTypes :
          /\ Head(tx[v].plan) = TypeRow(m)
          /\ \A n \in TicketTypes : Head(tx[u].plan) = TypeRow(n) => n < m
    BY <1>1, <1>2, <2>1, WaitsAbove
  <2>3. m \in D
    BY <1>2, <2>2
  <2> QED
    BY <2>2, <2>3
<1>3. D # {}
  <2>1. PICK u \in ts : TRUE
    OBVIOUS
  <2>2. PICK v \in ts : WaitsFor(u, v)
    BY DEF Deadlocked
  <2> QED
    BY <1>2, <2>2
<1>4. D \subseteq Int /\ IsFiniteSet(D)
  <2>1. D \subseteq TicketTypes
    OBVIOUS
  <2> HIDE DEF D
  <2> QED
    BY <2>1, LocksAssumption, FS_Subset
<1>5. PICK m \in D : \A n \in D : n <= m
  <2> HIDE DEF D
  <2> QED
    BY <1>3, <1>4, LargestOfFinite
<1>6. PICK v \in ts : Awaited(v) /\ Head(tx[v].plan) = TypeRow(m)
  OBVIOUS
<1>7. PICK w \in ts : WaitsFor(v, w)
  BY DEF Deadlocked
<1>8. PICK n \in D : \A k \in TicketTypes : Head(tx[v].plan) = TypeRow(k) => k < n
  BY <1>2, <1>7
<1>9. m < n /\ n <= m /\ m \in Int /\ n \in Int
  BY <1>4, <1>5, <1>6, <1>8
<1> QED
  BY <1>9

\* Whatever transactions run, and however many: a circle of waits goes through one
\* of the four places that leave the order of the locks (the sorted lock set of
\* CommitSales, the Upgrade's guard on it, the sale before its types in
\* reverseSalesTx).
THEOREM OrderBreaksCircles == Spec => []NoOtherDeadlock
<1>1. Spec => []IInv
  BY InvInit, InvStep, PTL DEF Spec
<1> QED
  BY <1>1, InvNoOtherDeadlock, PTL
=============================================================================
