------------------------ MODULE PayoutRequestsProofs ------------------------
(***************************************************************************)
(* Why the queue and the ledger agree.  The invariants of PayoutRequests   *)
(* are not inductive alone: Fulfilments says what an open transaction has  *)
(* written and holds, Saves what a caller about to save its profile has    *)
(* recorded.                                                               *)
(***************************************************************************)
EXTENDS PayoutRequests, TLAPS

IsOutstanding(r) == request[r].status \in {"pending", "processing"}

\* What an open fulfilment has: its own uncommitted Payout, naming its request, and,
\* once it swapped, the request's row lock and so an unanswered request.
Fulfilling(o) ==
    /\ operator[o].pc \in {"swap", "commit"}
    /\ operator[o].request \in Requests /\ operator[o].payout \in Payouts
    /\ request[operator[o].request].status # "absent"
    /\ payout[operator[o].payout].state = "inserted"
    /\ payout[operator[o].payout].answers = operator[o].request
    /\ operator[o].pc = "commit" => IsOutstanding(operator[o].request)

Fulfilments ==
    /\ \A o \in Operators : operator[o] = Free \/ Fulfilling(o)
    /\ \A o1, o2 \in Operators : o1 # o2 /\ operator[o1].pc # "idle" /\ operator[o2].pc # "idle"
          => operator[o1].payout # operator[o2].payout
    /\ \A o1, o2 \in Operators : operator[o1].pc = "commit" /\ operator[o2].pc = "commit"
          /\ operator[o1].request = operator[o2].request => o1 = o2

\* A caller about to save the profile holds the request it recorded.
Saves == \A a \in Askers : asker[a].pc = "save"
    => /\ asker[a].request \in Requests
       /\ request[asker[a].request].status # "absent"
       /\ request[asker[a].request].account = asker[a].account

IInv == /\ TypeOK /\ LedgerMatchesAnswers /\ OneOutstanding /\ FailedWasSubmitted
        /\ Fulfilments /\ Saves

----------------------------------------------------------------------------
\* The initial state satisfies it.
LEMMA InitSatisfies == Init => IInv
  <1>. SUFFICES ASSUME Init PROVE IInv
    OBVIOUS
  <1>1. /\ \A r \in Requests : request[r] = AbsentRequest
        /\ \A p \in Payouts : payout[p] = NoPayoutRow
        /\ \A a \in Askers : asker[a] = IdleAsker
        /\ \A o \in Operators : operator[o] = Free
    BY DEF Init
  <1>2. TypeOK
    <2>1. AbsentRequest \in Request /\ NoPayoutRow \in Payout
      BY AmountAssumption DEF AbsentRequest, Request, NoPayoutRow, Payout
    <2>2. IdleAsker \in Asker /\ Free \in Operator
      BY DEF IdleAsker, Asker, Free, Operator
    <2>3. sale \in [Sales -> Sale] /\ evening \in BOOLEAN /\ profile \in SUBSET Accounts
      BY DEF Init, Sale
    <2>4. \A r \in Requests : WholeRow(r)
      BY <1>1 DEF WholeRow, AbsentRequest
    <2>. QED
      BY <2>1, <2>2, <2>3, <2>4 DEF Init, TypeOK
  <1>3. LedgerMatchesAnswers /\ OneOutstanding /\ FailedWasSubmitted
    BY <1>1 DEF LedgerMatchesAnswers, OneOutstanding, FailedWasSubmitted, AbsentRequest,
                NoPayoutRow, Recorded
  <1>4. Fulfilments
    BY <1>1 DEF Fulfilments, Free
  <1>5. Saves
    BY <1>1 DEF Saves, IdleAsker
  <1>. QED
    BY <1>2, <1>3, <1>4, <1>5 DEF IInv

\* A step on the sales and the clock, or on the profile, leaves queue and ledger alone.
LEMMA MoneyAside ==
    ASSUME IInv, evening' \in BOOLEAN, sale' \in [Sales -> Sale], profile' \in SUBSET Accounts,
           UNCHANGED <<request, payout, asker, operator>>
    PROVE  IInv'
  BY DEF IInv, TypeOK, LedgerMatchesAnswers, OneOutstanding, FailedWasSubmitted,
      Fulfilments, Fulfilling, Saves, WholeRow, Recorded, IsOutstanding

\* A caller's own step: the queue and the ledger stay.
LEMMA CallerAside ==
    ASSUME IInv, NEW a \in Askers, NEW call \in Asker,
           asker' = [asker EXCEPT ![a] = call],
           profile' \in SUBSET Accounts,
           call.pc = "save" => asker[a].pc = "save" /\ call.request = asker[a].request
                               /\ call.account = asker[a].account,
           UNCHANGED <<evening, sale, request, payout, operator>>
    PROVE  IInv'
  <1>1. TypeOK'
    BY DEF IInv, TypeOK, WholeRow
  <1>2. Saves'
    BY DEF IInv, TypeOK, Saves
  <1>. QED
    BY <1>1, <1>2 DEF IInv, LedgerMatchesAnswers, OneOutstanding, FailedWasSubmitted,
      Fulfilments, Fulfilling, Recorded, IsOutstanding

\* A swap of an unlocked row that is neither absent nor paid, to neither.
LEMMA RowMoves ==
    ASSUME IInv, NEW r \in Requests, NEW row \in Request,
           request' = [request EXCEPT ![r] = row],
           ~Locked(r),
           request[r].status \in {"pending", "processing"},
           row.status \in {"processing", "declined", "failed", "cancelled"},
           row.account = request[r].account, row.payout = request[r].payout,
           row.status \in {"processing", "failed"} => row.submittedBy \in Operators,
           UNCHANGED <<evening, sale, payout, profile, asker, operator>>
    PROVE  IInv'
  <1>. USE DEF IInv
  <1>1. /\ request' \in [Requests -> Request] /\ request'[r] = row
        /\ \A q \in Requests : q # r => request'[q] = request[q]
    BY DEF TypeOK
  <1>2. \A q \in Requests : request'[q].account = request[q].account
                            /\ request'[q].payout = request[q].payout
    BY <1>1
  <1>3. TypeOK'
    <2>1. WholeRow(r)'
      BY <1>1, OperatorsAssumption DEF TypeOK, WholeRow
    <2>. QED
      BY <1>1, <2>1 DEF TypeOK, WholeRow
  <1>4. LedgerMatchesAnswers'
    BY <1>1 DEF LedgerMatchesAnswers, Recorded, TypeOK
  <1>5. OneOutstanding' /\ FailedWasSubmitted'
    BY <1>1 DEF OneOutstanding, FailedWasSubmitted, TypeOK
  <1>6. Fulfilments'
    <2>1. ASSUME NEW o \in Operators, Fulfilling(o) PROVE Fulfilling(o)'
      BY <1>1, <2>1 DEF Fulfilling, IsOutstanding, Locked, TypeOK
    <2>. QED
      BY <2>1 DEF Fulfilments
  <1>7. Saves'
    BY <1>1 DEF Saves, TypeOK
  <1>. QED
    BY <1>3, <1>4, <1>5, <1>6, <1>7

----------------------------------------------------------------------------
\* A recorded ask is the only outstanding one.
LEMMA AskRecorded ==
    ASSUME IInv, NEW a \in Askers, CreatePayoutRequest(a)
    PROVE  IInv'
  <1>. USE DEF IInv
  <1>0. IdleAsker \in Asker /\ IdleAsker.pc = "idle"
    BY DEF IdleAsker, Asker
  <1>1. CASE Outstanding # {}
    <2>1. asker' = [asker EXCEPT ![a] = IdleAsker] /\ UNCHANGED request
      BY <1>1 DEF CreatePayoutRequest
    <2>2. UNCHANGED <<evening, sale, payout, profile, operator>>
      BY DEF CreatePayoutRequest
    <2>. QED
      BY <1>0, <2>1, <2>2, CallerAside DEF TypeOK
  <1>2. CASE Outstanding = {}
    <2>1. PICK r \in FirstFree(FreeRequests) :
             /\ request' = [request EXCEPT ![r].status = "pending",
                                           ![r].account = asker[a].account]
             /\ asker' = [asker EXCEPT ![a] = IF asker[a].edited
                             THEN [asker[a] EXCEPT !.pc = "save", !.request = r]
                             ELSE IdleAsker]
      BY <1>2 DEF CreatePayoutRequest
    <2>2. UNCHANGED <<evening, sale, payout, profile, operator>>
      BY DEF CreatePayoutRequest
    <2>3. r \in Requests /\ request[r].status = "absent"
      BY DEF FirstFree, FreeRequests
    <2>4. asker[a] \in Asker /\ request[r] \in Request
      BY <2>3 DEF TypeOK
    <2>5. /\ request'[r] \in Request /\ request'[r].status = "pending"
          /\ request'[r].account = asker[a].account
          /\ request'[r].submittedBy = request[r].submittedBy
          /\ request'[r].payout = request[r].payout
          /\ \A q \in Requests : q # r => request'[q] = request[q]
          /\ request' \in [Requests -> Request]
      BY <2>1, <2>3, <2>4 DEF TypeOK, Request, Asker, Ended
    <2>6. /\ asker' \in [Askers -> Asker]
          /\ \A b \in Askers : b # a => asker'[b] = asker[b]
          /\ asker'[a].pc = "save" => asker'[a].request = r
                                      /\ asker'[a].account = asker[a].account
      BY <1>0, <2>1, <2>3, <2>4 DEF TypeOK, Asker
    <2>7. TypeOK'
      <3>1. WholeRow(r)'
        BY <2>3, <2>5 DEF TypeOK, WholeRow
      <3>. QED
        BY <2>2, <2>5, <2>6, <3>1 DEF TypeOK, WholeRow
    <2>8. LedgerMatchesAnswers'
      <3>1. \A p \in Payouts : payout[p].answers \in Requests \cup {NoRequest}
        BY DEF TypeOK, Payout
      <3>2. \A q \in Requests : request[q].status = "paid"
               => q # r /\ request'[q] = request[q]
        BY <2>3, <2>5
      <3>3. \A q \in Requests : request'[q].status = "paid" => q # r /\ request'[q] = request[q]
        BY <2>5
      <3>. QED
        BY <2>2, <3>1, <3>2, <3>3 DEF LedgerMatchesAnswers, Recorded
    <2>9. OneOutstanding' /\ FailedWasSubmitted'
      BY <1>2, <2>5 DEF OneOutstanding, FailedWasSubmitted, Outstanding
    <2>10. Fulfilments'
      <3>1. ASSUME NEW o \in Operators, Fulfilling(o) PROVE Fulfilling(o)'
        BY <2>2, <2>3, <2>5, <3>1 DEF Fulfilling, IsOutstanding
      <3>. QED
        BY <2>2, <3>1 DEF Fulfilments
    <2>11. Saves'
      BY <2>3, <2>5, <2>6 DEF Saves
    <2>. QED
      BY <2>7, <2>8, <2>9, <2>10, <2>11
  <1>. QED
    BY <1>1, <1>2

----------------------------------------------------------------------------
(* The ledger's steps *)

\* A Payout written on a free id, uncommitted or recorded directly.
LEMMA PayoutWritten ==
    ASSUME IInv, NEW p \in Payouts, NEW row \in Payout,
           payout[p].state = "absent",
           payout' = [payout EXCEPT ![p] = row],
           row.state = "inserted" \/ row.answers = NoRequest,
           UNCHANGED <<evening, sale, request, profile, asker>>
    PROVE  /\ payout' \in [Payouts -> Payout]
           /\ \A r \in Requests : WholeRow(r)'
           /\ LedgerMatchesAnswers' /\ OneOutstanding' /\ FailedWasSubmitted' /\ Saves'
           /\ \A o \in Operators : Fulfilling(o) /\ operator'[o] = operator[o] => Fulfilling(o)'
           /\ \A o \in Operators : Fulfilling(o) => operator[o].payout # p
  <1>. USE DEF IInv
  <1>1. /\ payout' \in [Payouts -> Payout] /\ payout'[p] = row
        /\ \A q \in Payouts : q # p => payout'[q] = payout[q]
    BY DEF TypeOK
  <1>2. LedgerMatchesAnswers'
    BY <1>1 DEF LedgerMatchesAnswers, Recorded
  <1>3. \A o \in Operators : Fulfilling(o) /\ operator'[o] = operator[o] => Fulfilling(o)'
    BY <1>1 DEF Fulfilling, IsOutstanding
  <1>. QED
    BY <1>1, <1>2, <1>3 DEF OneOutstanding, FailedWasSubmitted, Saves, WholeRow, TypeOK, Fulfilling

LEMMA DirectPayout ==
    ASSUME IInv, NEW amount \in Amounts, RecordPayout(amount)
    PROVE  IInv'
  <1>1. PICK p \in FirstFree(FreePayouts) : payout' = [payout EXCEPT ![p] =
             [state |-> "recorded", amount |-> amount, answers |-> NoRequest]]
    BY DEF RecordPayout
  <1>2. p \in Payouts /\ payout[p].state = "absent"
    BY DEF FirstFree, FreePayouts
  <1>3. PICK row : row = [state |-> "recorded", amount |-> amount, answers |-> NoRequest]
    OBVIOUS
  <1>4. row \in Payout /\ row.answers = NoRequest
    BY <1>3, AmountAssumption DEF Payout, Amounts
  <1>5. UNCHANGED <<evening, sale, request, profile, asker, operator>>
    BY DEF RecordPayout
  <1>6. payout' = [payout EXCEPT ![p] = row]
    BY <1>1, <1>3
  <1>7. /\ payout' \in [Payouts -> Payout]
        /\ \A r \in Requests : WholeRow(r)'
        /\ LedgerMatchesAnswers' /\ OneOutstanding' /\ FailedWasSubmitted' /\ Saves'
        /\ \A o \in Operators : Fulfilling(o) /\ operator'[o] = operator[o] => Fulfilling(o)'
    BY <1>2, <1>4, <1>5, <1>6, PayoutWritten
  <1>8. TypeOK'
    BY <1>5, <1>7 DEF TypeOK, IInv
  <1>9. Fulfilments'
    BY <1>5, <1>7 DEF Fulfilments, IInv
  <1>. QED
    BY <1>7, <1>8, <1>9 DEF IInv

LEMMA FulfilmentOpens ==
    ASSUME IInv, NEW o \in Operators, NEW r \in Requests, NEW amount \in Amounts,
           InsertPayout(o, r, amount)
    PROVE  IInv'
  <1>1. PICK p \in FirstFree(FreePayouts) :
          /\ payout' = [payout EXCEPT ![p] =
                [state |-> "inserted", amount |-> amount, answers |-> r]]
          /\ operator' = [operator EXCEPT ![o] = [pc |-> "swap", request |-> r, payout |-> p]]
    BY DEF InsertPayout
  <1>2. p \in Payouts /\ payout[p].state = "absent"
    BY DEF FirstFree, FreePayouts
  <1>3. PICK row : row = [state |-> "inserted", amount |-> amount, answers |-> r]
    OBVIOUS
  <1>4. row \in Payout /\ row.state = "inserted" /\ row.answers = r
    BY <1>3, AmountAssumption DEF Payout, Amounts
  <1>5. UNCHANGED <<evening, sale, request, profile, asker>> /\ request[r].status # "absent"
    BY DEF InsertPayout
  <1>6. payout' = [payout EXCEPT ![p] = row] /\ payout \in [Payouts -> Payout]
    BY <1>1, <1>3 DEF IInv, TypeOK
  <1>7. /\ payout' \in [Payouts -> Payout]
        /\ \A q \in Requests : WholeRow(q)'
        /\ LedgerMatchesAnswers' /\ OneOutstanding' /\ FailedWasSubmitted' /\ Saves'
        /\ \A w \in Operators : Fulfilling(w) /\ operator'[w] = operator[w] => Fulfilling(w)'
        /\ \A w \in Operators : Fulfilling(w) => operator[w].payout # p
    BY <1>2, <1>4, <1>5, <1>6, PayoutWritten
  <1>8. /\ operator' \in [Operators -> Operator]
        /\ operator'[o].pc = "swap" /\ operator'[o].request = r /\ operator'[o].payout = p
        /\ \A w \in Operators : w # o => operator'[w] = operator[w]
    BY <1>1, <1>2 DEF IInv, TypeOK, Operator
  <1>9. TypeOK'
    BY <1>5, <1>7, <1>8 DEF TypeOK, IInv
  <1>10. Fulfilments'
    <2>1. Fulfilling(o)'
      BY <1>2, <1>4, <1>5, <1>6, <1>8 DEF Fulfilling
    <2>2. \A w \in Operators : operator[w].pc # "idle" => Fulfilling(w)
      BY DEF IInv, Fulfilments, Free
    <2>. QED
      BY <1>7, <1>8, <2>1, <2>2 DEF Fulfilments, IInv
  <1>. QED
    BY <1>7, <1>9, <1>10 DEF IInv

LEMMA FulfilmentUndone ==
    ASSUME IInv, NEW o \in Operators, operator[o].pc # "idle", Undone(o),
           UNCHANGED <<evening, sale, request, profile, asker>>
    PROVE  IInv'
  <1>. USE DEF IInv
  <1>1. Fulfilling(o)
    BY DEF Fulfilments, Free
  <1>2. PICK p \in Payouts : p = operator[o].payout
    BY <1>1 DEF Fulfilling
  <1>3. NoPayoutRow \in Payout /\ NoPayoutRow.state = "absent" /\ Free \in Operator
    BY AmountAssumption DEF NoPayoutRow, Payout, Free, Operator
  <1>4. /\ payout' \in [Payouts -> Payout] /\ payout'[p] = NoPayoutRow
        /\ \A q \in Payouts : q # p => payout'[q] = payout[q]
        /\ operator' \in [Operators -> Operator] /\ operator'[o] = Free
        /\ \A w \in Operators : w # o => operator'[w] = operator[w]
    BY <1>2, <1>3 DEF Undone, TypeOK
  <1>5. payout[p].state = "inserted"
    BY <1>1, <1>2 DEF Fulfilling
  <1>6. TypeOK'
    BY <1>4 DEF TypeOK, WholeRow
  <1>7. LedgerMatchesAnswers'
    BY <1>3, <1>4, <1>5 DEF LedgerMatchesAnswers, Recorded
  <1>8. OneOutstanding' /\ FailedWasSubmitted' /\ Saves'
    BY DEF OneOutstanding, FailedWasSubmitted, Saves
  <1>9. Fulfilments'
    <2>1. \A w \in Operators : w # o /\ Fulfilling(w) => operator[w].payout # p
      BY <1>1, <1>2 DEF Fulfilments, Fulfilling
    <2>2. \A w \in Operators : w # o /\ Fulfilling(w) => Fulfilling(w)'
      BY <1>4, <2>1 DEF Fulfilling, IsOutstanding
    <2>. QED
      BY <1>4, <2>2 DEF Fulfilments, Free
  <1>. QED
    BY <1>6, <1>7, <1>8, <1>9

LEMMA FulfilmentSwaps ==
    ASSUME IInv, NEW o \in Operators, FulfilSwap(o)
    PROVE  IInv'
  <1>. USE DEF IInv
  <1>0. UNCHANGED <<evening, sale, request, profile, asker>> /\ operator[o].pc = "swap"
    BY DEF FulfilSwap
  <1>1. Fulfilling(o)
    BY <1>0 DEF Fulfilments, Free
  <1>2. CASE ~IsOutstanding(operator[o].request)
    BY <1>0, <1>2, FulfilmentUndone DEF FulfilSwap, IsOutstanding
  <1>3. CASE IsOutstanding(operator[o].request)
    <2>1. operator' = [operator EXCEPT ![o].pc = "commit"] /\ UNCHANGED payout
      BY <1>3 DEF FulfilSwap, IsOutstanding
    <2>2. /\ operator' \in [Operators -> Operator] /\ operator'[o].pc = "commit"
          /\ operator'[o].request = operator[o].request /\ operator'[o].payout = operator[o].payout
          /\ \A w \in Operators : w # o => operator'[w] = operator[w]
      BY <2>1 DEF TypeOK, Operator
    <2>3. TypeOK'
      BY <1>0, <2>1, <2>2 DEF TypeOK, WholeRow
    <2>4. Fulfilments'
      <3>1. Fulfilling(o)'
        BY <1>0, <1>1, <1>3, <2>1, <2>2 DEF Fulfilling, IsOutstanding
      <3>2. \A w \in Operators : w # o /\ Fulfilling(w) => Fulfilling(w)'
        BY <1>0, <2>1, <2>2 DEF Fulfilling, IsOutstanding
      <3>3. \A w \in Operators : operator[w].pc = "commit"
               => operator[w].request # operator[o].request
        BY DEF FulfilSwap, Locked
      <3>. QED
        BY <1>0, <2>2, <3>1, <3>2, <3>3 DEF Fulfilments
    <2>. QED
      BY <1>0, <2>1, <2>3, <2>4 DEF LedgerMatchesAnswers, OneOutstanding, FailedWasSubmitted,
                                    Saves, Recorded
  <1>. QED
    BY <1>2, <1>3

\* The request is paid by the Payout that answers it, and by no other.
LEMMA FulfilmentCommits ==
    ASSUME IInv, NEW o \in Operators, FulfilCommit(o)
    PROVE  IInv'
  <1>. USE DEF IInv
  <1>0. UNCHANGED <<evening, sale, profile, asker>> /\ operator[o].pc = "commit"
    BY DEF FulfilCommit
  <1>1. Fulfilling(o)
    BY <1>0 DEF Fulfilments, Free
  <1>2. PICK r \in Requests, p \in Payouts : r = operator[o].request /\ p = operator[o].payout
    BY <1>1 DEF Fulfilling
  <1>3. /\ request[r].status \in {"pending", "processing"}
        /\ payout[p].state = "inserted" /\ payout[p].answers = r
    BY <1>0, <1>1, <1>2 DEF Fulfilling, IsOutstanding
  <1>4. /\ request' = [request EXCEPT ![r].status = "paid", ![r].payout = p]
        /\ payout' = [payout EXCEPT ![p].state = "recorded"]
        /\ operator' = [operator EXCEPT ![o] = Free]
    BY <1>2 DEF FulfilCommit
  <1>5. /\ request' \in [Requests -> Request]
        /\ request'[r].status = "paid" /\ request'[r].payout = p
        /\ request'[r].account = request[r].account
        /\ request'[r].submittedBy = request[r].submittedBy
        /\ \A q \in Requests : q # r => request'[q] = request[q]
    BY <1>4 DEF TypeOK, Request, Ended
  <1>6. /\ payout' \in [Payouts -> Payout]
        /\ payout'[p].state = "recorded" /\ payout'[p].answers = r
        /\ \A q \in Payouts : q # p => payout'[q] = payout[q]
    BY <1>3, <1>4 DEF TypeOK, Payout
  <1>7. /\ operator' \in [Operators -> Operator] /\ operator'[o] = Free
        /\ \A w \in Operators : w # o => operator'[w] = operator[w]
    BY <1>4 DEF TypeOK, Operator, Free
  <1>8. TypeOK'
    <2>1. WholeRow(r)'
      BY <1>5, IdsAssumption DEF WholeRow
    <2>. QED
      BY <1>0, <1>5, <1>6, <1>7, <2>1 DEF TypeOK, WholeRow
  <1>9. LedgerMatchesAnswers'
    <2>1. \A q \in Payouts : payout[q].answers \in Requests \cup {NoRequest}
      BY DEF TypeOK, Payout
    <2>2. \A q \in Requests : request[q].status = "paid"
             => q # r /\ request'[q] = request[q] /\ request[q].payout # p
      BY <1>3, <1>5 DEF LedgerMatchesAnswers, Recorded
    <2>3. ASSUME NEW q \in Payouts, q \in Recorded', payout'[q].answers # NoRequest
          PROVE  request'[payout'[q].answers].status = "paid"
                 /\ request'[payout'[q].answers].payout = q
      BY <1>5, <1>6, <2>1, <2>2, <2>3 DEF LedgerMatchesAnswers, Recorded
    <2>4. ASSUME NEW q \in Requests, request'[q].status = "paid"
          PROVE  request'[q].payout \in Recorded' /\ payout'[request'[q].payout].answers = q
      BY <1>5, <1>6, <2>2, <2>4 DEF LedgerMatchesAnswers, Recorded
    <2>. QED
      BY <2>3, <2>4 DEF LedgerMatchesAnswers, Recorded
  <1>10. OneOutstanding' /\ FailedWasSubmitted'
    BY <1>5 DEF OneOutstanding, FailedWasSubmitted
  <1>11. Saves'
    BY <1>0, <1>5 DEF Saves
  <1>12. Fulfilments'
    <2>1. \A w \in Operators : w # o /\ Fulfilling(w)
             => operator[w].payout # p /\ (operator[w].pc = "commit" => operator[w].request # r)
      BY <1>0, <1>1, <1>2 DEF Fulfilments, Fulfilling
    <2>2. \A w \in Operators : w # o /\ Fulfilling(w) => Fulfilling(w)'
      BY <1>5, <1>6, <1>7, <2>1 DEF Fulfilling, IsOutstanding
    <2>. QED
      BY <1>7, <2>2 DEF Fulfilments, Free
  <1>. QED
    BY <1>8, <1>9, <1>10, <1>11, <1>12

----------------------------------------------------------------------------
\* Every step keeps it.
LEMMA StepPreserves == IInv /\ [Next]_vars => IInv'
  <1>. SUFFICES ASSUME IInv, [Next]_vars PROVE IInv'
    OBVIOUS
  <1>0. TypeOK
    BY DEF IInv
  <1>1. CASE UNCHANGED vars
    BY <1>0, <1>1, MoneyAside DEF vars, TypeOK
  <1>2. CASE SaleStep
    <2>1. UNCHANGED <<request, payout, profile, asker, operator>>
      BY <1>2 DEF SaleStep, Evening, Midnight, SellOnline, AskUndo, UndoAnswered,
                  ReverseSaleAsOperator
    <2>2. evening' \in BOOLEAN
      BY <1>0, <1>2 DEF SaleStep, Evening, Midnight, SellOnline, AskUndo, UndoAnswered,
                        ReverseSaleAsOperator, TypeOK
    <2>3. sale' \in [Sales -> Sale]
      BY <1>0, <1>2 DEF SaleStep, Evening, Midnight, SellOnline, AskUndo, UndoAnswered,
                        ReverseSaleAsOperator, TypeOK, Sale
    <2>4. profile' \in SUBSET Accounts
      BY <1>0, <2>1 DEF TypeOK
    <2>. QED
      BY <2>1, <2>2, <2>3, <2>4, MoneyAside
  <1>3. ASSUME NEW account \in Accounts, SavePayoutProfile(account) PROVE IInv'
    <2>1. UNCHANGED <<evening, sale, request, payout, asker, operator>>
      BY <1>3 DEF SavePayoutProfile
    <2>2. evening' \in BOOLEAN /\ sale' \in [Sales -> Sale] /\ profile' \in SUBSET Accounts
      BY <1>0, <1>3, <2>1 DEF SavePayoutProfile, TypeOK
    <2>. QED
      BY <2>1, <2>2, MoneyAside
  <1>4. ASSUME NEW a \in Askers,
               ReadBalance(a) \/ SaveWithRequest(a) \/ AskerDies(a)
        PROVE  IInv'
    <2>0. UNCHANGED <<evening, sale, request, payout, operator>>
      BY <1>4 DEF ReadBalance, SaveWithRequest, AskerDies
    <2>1. profile' \in SUBSET Accounts
      BY <1>0, <1>4 DEF ReadBalance, SaveWithRequest, AskerDies, TypeOK, Asker
    <2>2. PICK call \in Asker : call.pc # "save" /\ asker' = [asker EXCEPT ![a] = call]
      <3>1. CASE ReadBalance(a)
        <4>1. PICK account \in Accounts, edited \in BOOLEAN :
                 asker' = [asker EXCEPT ![a] = [pc |-> "insert", account |-> {account},
                              edited |-> edited, request |-> NoRequest]]
          BY <3>1 DEF ReadBalance
        <4>2. [pc |-> "insert", account |-> {account}, edited |-> edited,
               request |-> NoRequest] \in Asker
          BY DEF Asker
        <4>. QED
          BY <4>1, <4>2
      <3>2. CASE SaveWithRequest(a) \/ AskerDies(a)
        <4>1. IdleAsker \in Asker /\ IdleAsker.pc # "save"
          BY DEF IdleAsker, Asker
        <4>. QED
          BY <3>2, <4>1 DEF SaveWithRequest, AskerDies
      <3>. QED
        BY <1>4, <3>1, <3>2
    <2>. QED
      BY <2>0, <2>1, <2>2, CallerAside
  <1>5. ASSUME NEW r \in Requests, NEW from, NEW to,
               from \in {{"pending"}, {"processing"}},
               to \in {"declined", "failed", "cancelled"},
               to = "failed" => from = {"processing"},
               Swap(r, from, to)
        PROVE  IInv'
    <2>1. request[r] \in Request /\ WholeRow(r)
      BY <1>0 DEF TypeOK
    <2>2. PICK row : row = [request[r] EXCEPT !.status = to]
      OBVIOUS
    <2>3. row \in Request /\ row.status = to /\ row.account = request[r].account
          /\ row.payout = request[r].payout /\ row.submittedBy = request[r].submittedBy
      BY <1>5, <2>1, <2>2 DEF Request, Ended
    <2>4. request' = [request EXCEPT ![r] = row]
      BY <1>0, <1>5, <2>2 DEF Swap, TypeOK
    <2>5. row.status \in {"processing", "failed"} => row.submittedBy \in Operators
      BY <1>5, <2>1, <2>3 DEF WholeRow, Swap, Request
    <2>6. UNCHANGED <<evening, sale, payout, profile, asker, operator>> /\ ~Locked(r)
          /\ request[r].status \in {"pending", "processing"}
      BY <1>5 DEF Swap
    <2>. QED
      BY <1>5, <2>3, <2>4, <2>5, <2>6, RowMoves
  <1>6. ASSUME NEW o \in Operators, NEW r \in Requests, MarkPayoutRequestProcessing(o, r)
        PROVE  IInv'
    <2>1. request[r] \in Request
      BY <1>0 DEF TypeOK
    <2>2. PICK row : row = [request[r] EXCEPT !.status = "processing", !.submittedBy = o]
      OBVIOUS
    <2>3. row \in Request /\ row.status = "processing" /\ row.account = request[r].account
          /\ row.payout = request[r].payout /\ row.submittedBy = o
      BY <2>1, <2>2 DEF Request
    <2>4. request' = [request EXCEPT ![r] = row]
      BY <1>0, <1>6, <2>2 DEF MarkPayoutRequestProcessing, TypeOK
    <2>5. UNCHANGED <<evening, sale, payout, profile, asker, operator>> /\ ~Locked(r)
          /\ request[r].status = "pending"
      BY <1>6 DEF MarkPayoutRequestProcessing
    <2>. QED
      BY <2>3, <2>4, <2>5, RowMoves
  <1>7. CASE OrganizationStep
    <2>1. ASSUME NEW r \in Requests, CancelPayoutRequest(r) PROVE IInv'
      BY <1>5, <2>1 DEF CancelPayoutRequest
    <2>. QED
      BY <1>3, <1>4, <1>7, <2>1, AskRecorded DEF OrganizationStep
  <1>8. CASE OperatorStep
    <2>1. ASSUME NEW r \in Requests, DeclinePayoutRequest(r) PROVE IInv'
      BY <1>5, <2>1 DEF DeclinePayoutRequest
    <2>2. ASSUME NEW r \in Requests, MarkPayoutRequestFailed(r) PROVE IInv'
      BY <1>5, <2>2 DEF MarkPayoutRequestFailed
    <2>3. ASSUME NEW o \in Operators, FulfilRollback(o) PROVE IInv'
      BY <2>3, FulfilmentUndone DEF FulfilRollback
    <2>. QED
      BY <1>6, <1>8, <2>1, <2>2, <2>3, DirectPayout, FulfilmentOpens, FulfilmentSwaps,
         FulfilmentCommits DEF OperatorStep
  <1>. QED
    BY <1>1, <1>2, <1>7, <1>8 DEF Next

\* The inductive invariant holds throughout.
LEMMA IInvHolds == Spec => []IInv
  BY InitSatisfies, StepPreserves, PTL DEF Spec

----------------------------------------------------------------------------
(* Action properties *)

\* What a step may do to one request: an ended one stays, a submitted one keeps its
\* stamp and is paid or failed.
RequestMoves(r) ==
    /\ request[r].status \in Ended => request'[r] = request[r]
    /\ request[r].status = "processing"
          => /\ request'[r].status \in {"processing", "paid", "failed"}
             /\ request'[r].submittedBy = request[r].submittedBy

LEMMA StepMovesRequests ==
    ASSUME IInv, [Next]_vars, NEW r \in Requests
    PROVE  RequestMoves(r)
  <1>0. TypeOK
    BY DEF IInv
  <1>1. CASE UNCHANGED request
    BY <1>1 DEF RequestMoves
  <1>2. ASSUME NEW a \in Askers, CreatePayoutRequest(a) PROVE RequestMoves(r)
    <2>1. CASE Outstanding # {}
      BY <1>2, <2>1 DEF CreatePayoutRequest, RequestMoves
    <2>2. CASE Outstanding = {}
      <3>1. PICK q \in FirstFree(FreeRequests) : request' =
               [request EXCEPT ![q].status = "pending", ![q].account = asker[a].account]
        BY <1>2, <2>2 DEF CreatePayoutRequest
      <3>2. q \in Requests /\ request[q].status = "absent"
        BY DEF FirstFree, FreeRequests
      <3>. QED
        BY <1>0, <3>1, <3>2 DEF TypeOK, RequestMoves, Ended
    <2>. QED
      BY <2>1, <2>2
  <1>3. ASSUME NEW q \in Requests,
               CancelPayoutRequest(q) \/ DeclinePayoutRequest(q) \/ MarkPayoutRequestFailed(q)
        PROVE  RequestMoves(r)
    <2>1. request[q] \in Request
      BY <1>0 DEF TypeOK
    <2>. QED
      BY <1>0, <1>3, <2>1 DEF CancelPayoutRequest, DeclinePayoutRequest,
         MarkPayoutRequestFailed, Swap, TypeOK, Request, RequestMoves, Ended
  <1>4. ASSUME NEW o \in Operators, NEW q \in Requests, MarkPayoutRequestProcessing(o, q)
        PROVE  RequestMoves(r)
    BY <1>0, <1>4 DEF MarkPayoutRequestProcessing, TypeOK, RequestMoves, Ended
  <1>5. ASSUME NEW o \in Operators, FulfilCommit(o) PROVE RequestMoves(r)
    <2>1. Fulfilling(o) /\ operator[o].pc = "commit"
      BY <1>5 DEF FulfilCommit, IInv, Fulfilments, Free
    <2>2. PICK q \in Requests, p \in Payouts : q = operator[o].request /\ p = operator[o].payout
      BY <2>1 DEF Fulfilling
    <2>3. request' = [request EXCEPT ![q].status = "paid", ![q].payout = p]
      BY <1>5, <2>2 DEF FulfilCommit
    <2>4. request[q].status \in {"pending", "processing"} /\ request[q] \in Request
      BY <1>0, <2>1, <2>2 DEF Fulfilling, IsOutstanding, TypeOK
    <2>. QED
      BY <1>0, <2>3, <2>4 DEF TypeOK, Request, RequestMoves, Ended
  <1>6. CASE SaleStep
    BY <1>1, <1>6 DEF SaleStep, Evening, Midnight, SellOnline, AskUndo, UndoAnswered,
                      ReverseSaleAsOperator
  <1>7. CASE OrganizationStep
    BY <1>1, <1>2, <1>3, <1>7 DEF OrganizationStep, ReadBalance, SaveWithRequest, AskerDies,
                                  SavePayoutProfile
  <1>8. CASE OperatorStep
    BY <1>1, <1>3, <1>4, <1>5, <1>8 DEF OperatorStep, RecordPayout, InsertPayout, FulfilSwap,
                                        FulfilRollback
  <1>. QED
    BY <1>1, <1>6, <1>7, <1>8 DEF Next, vars

\* Only an ask opens a Reversal Request, and none is asked of a cleared sale.
LEMMA StepKeepsCleared ==
    ASSUME TypeOK, [Next]_vars, NEW s \in Cleared
    PROVE  sale'[s].undo # "live"
  <1>1. s \in Sales /\ sale[s].is = "earlier" /\ sale[s].undo # "live" /\ sale[s] \in Sale
    BY DEF Cleared, Active, TypeOK
  <1>2. CASE SaleStep
    <2>1. CASE Evening
      BY <1>1, <2>1 DEF Evening
    <2>2. CASE Midnight
      BY <1>1, <2>2 DEF Midnight, Sale, TypeOK
    <2>3. ASSUME NEW z \in Sales, SellOnline(z) \/ AskUndo(z) PROVE sale'[s].undo # "live"
      BY <1>1, <2>3 DEF SellOnline, AskUndo, WindowOpen, Sale, TypeOK
    <2>4. ASSUME NEW z \in Sales, UndoAnswered(z) \/ ReverseSaleAsOperator(z)
          PROVE  sale'[s].undo # "live"
      BY <1>1, <2>4 DEF UndoAnswered, ReverseSaleAsOperator, Sale, TypeOK
    <2>. QED
      BY <1>2, <2>1, <2>2, <2>3, <2>4 DEF SaleStep
  <1>3. CASE OrganizationStep
    BY <1>1, <1>3 DEF OrganizationStep, ReadBalance, CreatePayoutRequest, SaveWithRequest,
                      AskerDies, SavePayoutProfile, CancelPayoutRequest, Swap
  <1>4. CASE OperatorStep
    BY <1>1, <1>4 DEF OperatorStep, RecordPayout, InsertPayout, FulfilSwap, FulfilCommit,
                      FulfilRollback, Undone, DeclinePayoutRequest, MarkPayoutRequestFailed,
                      MarkPayoutRequestProcessing, Swap
  <1>. QED
    BY <1>1, <1>2, <1>3, <1>4 DEF Next, vars

\* A call that changes the profile is at its last statement, with its ask on file.
LEMMA StepKeepsProfile ==
    ASSUME IInv, [Next]_vars, NEW a \in Askers, asker'[a] # asker[a], profile' # profile
    PROVE  /\ asker[a].request # NoRequest
           /\ request[asker[a].request].account = profile'
  <1>1. CASE SaleStep
    BY <1>1 DEF SaleStep, Evening, Midnight, SellOnline, AskUndo, UndoAnswered,
                ReverseSaleAsOperator
  <1>2. CASE OperatorStep
    BY <1>2 DEF OperatorStep, RecordPayout, InsertPayout, FulfilSwap, FulfilCommit,
                FulfilRollback, Undone, DeclinePayoutRequest, MarkPayoutRequestFailed,
                MarkPayoutRequestProcessing, Swap
  <1>3. CASE OrganizationStep
    <2>1. PICK b \in Askers : SaveWithRequest(b)
      BY <1>3 DEF OrganizationStep, ReadBalance, CreatePayoutRequest, AskerDies,
                  SavePayoutProfile, CancelPayoutRequest, Swap
    <2>2. b = a
      BY <2>1 DEF SaveWithRequest, IInv, TypeOK
    <2>. QED
      BY <2>1, <2>2, IdsAssumption DEF SaveWithRequest, IInv, Saves
  <1>. QED
    BY <1>1, <1>2, <1>3 DEF Next, vars

----------------------------------------------------------------------------
(* Theorems *)

\* Every variable keeps its type and every request stays a row the schema accepts.
THEOREM TypeCorrect == Spec => []TypeOK
  <1>1. IInv => TypeOK
    BY DEF IInv
  <1>. QED
    BY <1>1, IInvHolds, PTL

\* However fulfilments, declines, cancellations and crashes interleave, the queue and the
\* ledger agree on which Payout answered which request.
THEOREM LedgerAgrees == Spec => []LedgerMatchesAnswers
  <1>1. IInv => LedgerMatchesAnswers
    BY DEF IInv
  <1>. QED
    BY <1>1, IInvHolds, PTL

\* However many callers ask at once, one request is outstanding.
THEOREM AtMostOneOutstanding == Spec => []OneOutstanding
  <1>1. IInv => OneOutstanding
    BY DEF IInv
  <1>. QED
    BY <1>1, IInvHolds, PTL

\* A failed request names who submitted the transfer that failed.
THEOREM FailuresWereSubmitted == Spec => []FailedWasSubmitted
  <1>1. IInv => FailedWasSubmitted
    BY DEF IInv
  <1>. QED
    BY <1>1, IInvHolds, PTL

\* An answer stands: no later call or commit rewrites it.
THEOREM AnswersStand == Spec => EndedStands
  <1>1. IInv /\ [Next]_vars => [\A r \in Requests :
           request[r].status \in Ended => request'[r] = request[r]]_vars
    BY StepMovesRequests DEF RequestMoves
  <1>. QED
    BY <1>1, IInvHolds, PTL DEF Spec, EndedStands

\* A submitted transfer ends only by the bank's answer, and keeps its stamp.
THEOREM TransfersAreAnswered == Spec => SubmittedTransferIsAnswered
  <1>1. IInv /\ [Next]_vars => [\A r \in Requests : request[r].status = "processing"
           => /\ request'[r].status \in {"processing", "paid", "failed"}
              /\ request'[r].submittedBy = request[r].submittedBy]_vars
    BY StepMovesRequests DEF RequestMoves
  <1>. QED
    BY <1>1, IInvHolds, PTL DEF Spec, SubmittedTransferIsAnswered

\* No Reversal Request opens on a sale the Payable Balance counts.
THEOREM ClearedStaysSafe == Spec => ClearedIsSafe
  <1>1. IInv /\ [Next]_vars => [\A s \in Cleared : sale'[s].undo # "live"]_vars
    BY StepKeepsCleared DEF IInv
  <1>. QED
    BY <1>1, IInvHolds, PTL DEF Spec, ClearedIsSafe

\* A call changes the profile only to the account of the ask it recorded.
THEOREM ProfileFollowsTheAsk == Spec => RefusedAskKeepsProfile
  <1>1. IInv /\ [Next]_vars => [\A a \in Askers :
           asker'[a] # asker[a] /\ profile' # profile
              => /\ asker[a].request # NoRequest
                 /\ request[asker[a].request].account = profile']_vars
    BY StepKeepsProfile
  <1>. QED
    BY <1>1, IInvHolds, PTL DEF Spec, RefusedAskKeepsProfile
=============================================================================
