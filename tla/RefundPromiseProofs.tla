------------------------ MODULE RefundPromiseProofs ------------------------
(***************************************************************************)
(* Reversal keeps what RefundPromise promises: the steps of presses, page   *)
(* loads, reconciler runs and operators are sorted by what they do to the   *)
(* rows of a sale, and each sort is a step of the promise or none at all.   *)
(***************************************************************************)
EXTENDS ReversalProofs

-----------------------------------------------------------------------------
(* What a step does to the rows.                                            *)

\* No request changes its status.
StatusesStay == \A r \in Sales, m \in Asks : request'[r][m].status = request[r][m].status

\* One request does.
Moves(s, n, to) ==
  /\ request'[s][n].status = to
  /\ \A r \in Sales, m \in Asks :
       r # s \/ m # n => request'[r][m].status = request[r][m].status

Aside == StatusesStay /\ UNCHANGED <<sale, refunded, free>>

Written(s, n) ==
  /\ Moves(s, n, "in_flight") /\ UNCHANGED <<sale, refunded, free>>
  /\ LiveAsks(s) = {} /\ request[s][n].status = "none"
  /\ sale[s] = "active" /\ s \notin free

Paid(s, n) ==
  /\ StatusesStay /\ UNCHANGED <<sale, free>>
  /\ refunded' = refunded \cup {s}
  /\ sale[s] = "active" /\ request[s][n].status \in {"in_flight", "needs_attention"}

RefusalHeard(s, n) ==
  /\ Moves(s, n, "refused") /\ UNCHANGED <<sale, refunded, free>>
  /\ request[s][n].status = "in_flight" /\ s \notin refunded

AgreementHeard(s, n) ==
  /\ Moves(s, n, "succeeded") /\ UNCHANGED <<sale, refunded, free>>
  /\ request[s][n].status = "in_flight" /\ sale[s] = "active"

GivenOver(s, n) ==
  /\ Moves(s, n, "needs_attention") /\ UNCHANGED <<sale, refunded, free>>
  /\ request[s][n].status \in Unfinished

\* n is 0 when the sale cost nothing.
Undone(s, n) ==
  /\ StatusesStay /\ UNCHANGED <<refunded, free>>
  /\ sale[s] = "active" /\ sale' = [sale EXCEPT ![s] = "customer"]
  /\ IF n = 0 THEN s \in free
     ELSE /\ s \in refunded /\ n \in Asks
          /\ request[s][n].status \in {"succeeded", "needs_attention"}

Voided(s, by) ==
  /\ StatusesStay /\ UNCHANGED <<refunded, free>>
  /\ sale[s] = "active" /\ sale' = [sale EXCEPT ![s] = by]
  /\ by = "operator" \/ by = "upgrade"

RowStep ==
  \/ Aside
  \/ \E s \in Sales, n \in Asks :
       Written(s, n) \/ Paid(s, n) \/ RefusalHeard(s, n) \/ AgreementHeard(s, n) \/ GivenOver(s, n)
  \/ \E s \in Sales, n \in 0..MaxAsks : Undone(s, n)
  \/ \E s \in Sales, by \in {"operator", "upgrade"} : Voided(s, by)

\* Whoever is about to void a sale for its Customer holds the agreement of the
\* provider, or what an impatient run has since made of it.
CommitsAgreed ==
  \A a \in Actors :
    At(a, "committing") /\ MyAsk(a) # 0 =>
      request[MySale(a)][MyAsk(a)].status \in {"succeeded", "needs_attention"}

\* At most one request of a sale is live: the partial unique index of
\* sale_reversals is never met.
OneLive == \A s \in Sales : \A n, m \in LiveAsks(s) : n = m

RInv == IInv /\ CommitsAgreed /\ OneLive

LEMMA AttemptMoves ==
  ASSUME TypeOK, NEW s \in Sales, NEW n \in Asks, NEW from \in Statuses, NEW to \in Statuses,
         NEW wait \in Nat, RecordAttempt(s, n, from, to, wait)
  PROVE  Moves(s, n, to) /\ request[s][n].status = from
<1>1. /\ request[s][n].status = from /\ request'[s][n].status = to
      /\ \A m \in Asks \ {n} : request'[s][m] = request[s][m]
      /\ \A r \in Sales \ {s} : request'[r] = request[r]
  BY RecordAttemptWrites
<1> QED
  BY <1>1 DEF Moves

LEMMA AttemptStays ==
  ASSUME TypeOK, NEW s \in Sales, NEW n \in Asks, NEW from \in Statuses,
         NEW wait \in Nat, RecordAttempt(s, n, from, from, wait)
  PROVE  StatusesStay
BY AttemptMoves DEF Moves, StatusesStay

LEMMA RowStays ==
  ASSUME TypeOK, NEW s \in Sales, NEW n \in Asks, NEW row, row.status = request[s][n].status,
         request' = [request EXCEPT ![s][n] = row]
  PROVE  StatusesStay
BY DEF TypeOK, StatusesStay

LEMMA StatusNames ==
  /\ {"none", "in_flight", "succeeded", "refused", "needs_attention"} \subseteq Statuses
  /\ Unfinished = {"in_flight", "succeeded"} /\ 0 \in Nat /\ Delays \subseteq Nat
BY ReversalAssumption DEF Statuses, LiveStatuses, Unfinished

\* The steps that write a request or ask about one.
LEMMA CreateRows ==
  ASSUME RInv, NEW a \in Actors, CreateReversalRequest(a) PROVE RowStep
<1>1. PICK s \in Sales : s = MySale(a) /\ sale[s] = "active" /\ s \notin free
  BY DEF RInv, IInv, InPlace, StillTrue, CreateReversalRequest, At
<1>2. UNCHANGED <<sale, refunded, free>>
  BY DEF CreateReversalRequest, terms
<1>3. CASE UNCHANGED request
  BY <1>2, <1>3 DEF RowStep, Aside, StatusesStay
<1>4. ASSUME NEW n \in Asks, LiveAsks(s) = {}, request[s][n].status = "none",
             request' = [request EXCEPT ![s][n].status = "in_flight"]
      PROVE  Written(s, n)
  <2>1. request[s][n] \in RequestRows
    BY RowTyped DEF RInv, IInv
  <2>2. Moves(s, n, "in_flight")
    BY <1>4, <2>1 DEF Moves, RInv, IInv, TypeOK, RequestRows
  <2> QED
    BY <1>1, <1>2, <1>4, <2>2 DEF Written
<1> QED
  BY <1>1, <1>3, <1>4 DEF CreateReversalRequest, RowStep

LEMMA ReverseRows ==
  ASSUME RInv, NEW a \in Actors, Reverse(a) PROVE RowStep
<1>1. PICK s \in Sales, n \in Asks :
        /\ s = MySale(a) /\ n = MyAsk(a) /\ sale[s] = "active"
        /\ request[s][n].status \in {"in_flight", "needs_attention"}
  BY DEF RInv, IInv, InPlace, StillTrue, Reverse, At, Pursuing
<1>2. StatusesStay /\ UNCHANGED <<sale, free>>
  BY DEF Reverse, terms, StatusesStay
<1>3. refunded' = refunded \/ refunded' = refunded \cup {s}
  BY <1>1 DEF Reverse
<1> QED
  BY <1>1, <1>2, <1>3 DEF RowStep, Aside, Paid

LEMMA AnswerRows ==
  ASSUME RInv, NEW a \in Actors, RecordAnswer(a) PROVE RowStep
<1>1. PICK s \in Sales, n \in Asks : s = MySale(a) /\ n = MyAsk(a)
  BY DEF RInv, IInv, InPlace, RecordAnswer, At, Pursuing
<1>2. /\ sale[s] = "active"
      /\ actor[a].answer = "refused" => s \notin refunded
  BY <1>1 DEF RInv, IInv, StillTrue, RecordAnswer
<1>3. UNCHANGED <<sale, refunded, free>> /\ TypeOK
  BY DEF RecordAnswer, terms, RInv, IInv
<1>4. CASE UNCHANGED request
  BY <1>3, <1>4 DEF RowStep, Aside, StatusesStay
<1>5. ASSUME NEW d \in Delays, RecordAttempt(s, n, "in_flight", "in_flight", d) PROVE Aside
  BY <1>3, <1>5, StatusNames, AttemptStays DEF Aside
<1>6. CASE RecordAttempt(s, n, "in_flight", "needs_attention", 0)
  BY <1>3, <1>6, StatusNames, AttemptMoves DEF GivenOver, RowStep
<1>7. CASE RecordAttempt(s, n, "in_flight", "refused", 0) /\ actor[a].answer = "refused"
  BY <1>2, <1>3, <1>7, StatusNames, AttemptMoves DEF RefusalHeard, RowStep
<1>8. CASE RecordAttempt(s, n, "in_flight", "succeeded", 0)
  BY <1>2, <1>3, <1>8, StatusNames, AttemptMoves DEF AgreementHeard, RowStep
<1> QED
  BY <1>1, <1>4, <1>5, <1>6, <1>7, <1>8 DEF RecordAnswer, RowStep

LEMMA RetryRows ==
  ASSUME RInv, NEW a \in Actors, RetryAgreedReversalLater(a) PROVE RowStep
<1>1. PICK s \in Sales, n \in Asks : s = MySale(a) /\ n = MyAsk(a)
  BY DEF RInv, IInv, InPlace, RetryAgreedReversalLater, At, Pursuing
<1>2. UNCHANGED <<sale, refunded, free>> /\ TypeOK
  BY DEF RetryAgreedReversalLater, terms, RInv, IInv
<1>3. CASE UNCHANGED request
  BY <1>2, <1>3 DEF RowStep, Aside, StatusesStay
<1>4. ASSUME NEW d \in Delays, RecordAttempt(s, n, "succeeded", "succeeded", d) PROVE Aside
  BY <1>2, <1>4, StatusNames, AttemptStays DEF Aside
<1>5. CASE RecordAttempt(s, n, "succeeded", "needs_attention", 0)
  BY <1>2, <1>5, StatusNames, AttemptMoves DEF GivenOver, RowStep
<1> QED
  BY <1>1, <1>3, <1>4, <1>5 DEF RetryAgreedReversalLater, RowStep

LEMMA HandOverRows ==
  ASSUME RInv, NEW a \in Actors, AgeUnaskable(a) \/ ReadLiveRequest(a) PROVE RowStep
<1>1. PICK s \in Sales, n \in Asks : s = MySale(a) /\ n = MyAsk(a)
  BY DEF RInv, IInv, InPlace, AgeUnaskable, ReadLiveRequest, At, Pursuing
<1>2. UNCHANGED <<sale, refunded, free>> /\ TypeOK
  BY DEF AgeUnaskable, ReadLiveRequest, terms, RInv, IInv
<1>3. CASE UNCHANGED request
  BY <1>2, <1>3 DEF RowStep, Aside, StatusesStay
<1>4. ASSUME NEW from \in Unfinished, RecordAttempt(s, n, from, "needs_attention", 0)
      PROVE  RowStep
  BY <1>2, <1>4, StatusNames, AttemptMoves DEF GivenOver, RowStep
<1>5. At(a, "aging") => actor[a].claimed \in Unfinished
  BY DEF RInv, IInv, InPlace
<1> QED
  BY <1>1, <1>3, <1>4, <1>5, StatusNames DEF AgeUnaskable, ReadLiveRequest

\* The steps that void a sale.
LEMMA CommitRows ==
  ASSUME RInv, NEW a \in Actors, CommitSaleReversal(a) PROVE RowStep
<1>1. PICK s \in Sales : s = MySale(a)
  BY DEF RInv, IInv, InPlace, CommitSaleReversal, At
<1>2. PICK n \in 0..MaxAsks : n = MyAsk(a)
  BY ActorTyped DEF RInv, IInv, MyAsk
<1>3. StatusesStay /\ UNCHANGED <<refunded, free>>
  BY DEF CommitSaleReversal, terms, StatusesStay
<1>4. CASE UNCHANGED sale
  BY <1>3, <1>4 DEF RowStep, Aside
<1>5. CASE sale[s] = "active" /\ Reversed(s, "customer")
  <2>1. IF n = 0 THEN s \in free ELSE s \in refunded
    BY <1>1, <1>2 DEF RInv, IInv, StillTrue, CommitSaleReversal
  <2>2. n # 0 => n \in Asks /\ request[s][n].status \in {"succeeded", "needs_attention"}
    BY <1>1, <1>2, ReversalAssumption DEF RInv, CommitsAgreed, CommitSaleReversal, Asks
  <2>3. Undone(s, n)
    BY <1>3, <1>5, <2>1, <2>2 DEF Undone, Reversed
  <2> QED
    BY <2>3 DEF RowStep
<1> QED
  BY <1>1, <1>4, <1>5 DEF CommitSaleReversal

LEMMA VoidRows ==
  ASSUME RInv, NEW a \in Actors, CommitOperatorReversal(a) PROVE RowStep
<1>1. PICK s \in Sales : s = MySale(a)
  BY DEF RInv, IInv, InPlace, CommitOperatorReversal, At
<1>2. StatusesStay /\ UNCHANGED <<refunded, free>>
  BY DEF CommitOperatorReversal, terms, StatusesStay
<1>3. CASE UNCHANGED sale
  BY <1>2, <1>3 DEF RowStep, Aside
<1>4. CASE sale[s] = "active" /\ Reversed(s, "operator")
  BY <1>2, <1>4 DEF RowStep, Voided, Reversed
<1> QED
  BY <1>1, <1>3, <1>4 DEF CommitOperatorReversal

\* The steps that write a request and leave its status.
LEMMA QuietRows ==
  ASSUME RInv, NEW a \in Actors,
         Claim(a) \/ MarkReversalSaleVoided(a) \/ ReleaseReversalRequestClaim(a)
  PROVE  RowStep
<1>1. UNCHANGED <<sale, refunded, free>> /\ TypeOK
  BY DEF Claim, ClaimDueReversalRequest, MarkReversalSaleVoided, ReleaseReversalRequestClaim,
     terms, RInv, IInv
<1>2. StatusesStay
  <2>1. CASE Claim(a)
    <3>1. PICK s \in Sales, n \in Asks : ClaimDueReversalRequest(a, s, n)
      BY <2>1 DEF Claim
    <3>2. request[s][n] \in RequestRows
      BY <1>1, RowTyped
    <3> QED
      BY <1>1, <3>1, <3>2, RowStays DEF ClaimDueReversalRequest, RequestRows
  <2>2. CASE ~Claim(a)
    <3>1. PICK s \in Sales, n \in Asks : s = MySale(a) /\ n = MyAsk(a)
      BY <2>2 DEF MarkReversalSaleVoided, ReleaseReversalRequestClaim, RInv, IInv, InPlace, At,
                  Pursuing
    <3>2. request[s][n] \in RequestRows
      BY <1>1, RowTyped
    <3>3. CASE UNCHANGED request
      BY <3>3 DEF StatusesStay
    <3>4. CASE request' = [request EXCEPT ![s][n].voided = TRUE]
      BY <1>1, <3>2, <3>4 DEF RequestRows, StatusesStay, TypeOK
    <3>5. CASE request' = [request EXCEPT ![s][n] =
                             [@ EXCEPT !.wait = ContendedDelay, !.lease = NoOne]]
      BY <1>1, <3>2, <3>5 DEF RequestRows, StatusesStay, TypeOK
    <3> QED
      BY <2>2, <3>1, <3>3, <3>4, <3>5 DEF MarkReversalSaleVoided, ReleaseReversalRequestClaim
  <2> QED
    BY <2>1, <2>2
<1> QED
  BY <1>1, <1>2 DEF RowStep, Aside

LEMMA EveryStepIsARowStep ==
  ASSUME RInv, [Next]_vars PROVE RowStep
<1>1. CASE UNCHANGED <<sale, request, refunded, free>>
  BY <1>1 DEF RowStep, Aside, StatusesStay
<1>2. ASSUME NEW a \in Actors, Continue(a) PROVE RowStep
  BY <1>1, <1>2, CreateRows, ReverseRows, AnswerRows, RetryRows, HandOverRows, CommitRows, VoidRows,
     QuietRows
  DEF Continue, Decide, Unlock, TryLock, terms
<1>3. ASSUME NEW a \in Workers, Arrive(a) PROVE RowStep
  BY <1>1, <1>3 DEF Arrive, Press, ReverseSaleAsOperator, ListDueReversalRequestsForCustomer, terms
<1>4. ASSUME NEW a \in Runs, Claim(a) PROVE RowStep
  BY <1>4, QuietRows DEF Actors
<1>5. ASSUME NEW s \in Sales, UpgradeOut(s) PROVE RowStep
  BY <1>5 DEF UpgradeOut, RowStep, Voided, Reversed, StatusesStay, terms
<1>6. CASE Tick
  <2>1. StatusesStay
    <3>1. \A r \in Sales, m \in Asks : request[r][m] \in RequestRows
      BY RowTyped DEF RInv, IInv
    <3> QED
      BY <1>6, <3>1 DEF Tick, StatusesStay, RequestRows
  <2> QED
    BY <1>6, <2>1 DEF Tick, RowStep, Aside, terms
<1>7. ASSUME NEW a \in Actors, Crash(a) PROVE RowStep
  BY <1>1, <1>7 DEF Crash, terms
<1>8. ASSUME NEW s \in Sales, CloseWindow(s) PROVE RowStep
  BY <1>1, <1>8 DEF CloseWindow
<1> QED
  BY <1>1, <1>2, <1>3, <1>4, <1>5, <1>6, <1>7, <1>8 DEF Next, vars, terms

-----------------------------------------------------------------------------
(* The strengthened invariant.                                              *)

LEMMA RInit == Init => CommitsAgreed /\ OneLive
BY StatusNames DEF Init, Idle, CommitsAgreed, OneLive, At, LiveAsks, LiveStatuses

LEMMA OneLiveStays ==
  ASSUME OneLive, RowStep PROVE OneLive'
<1> SUFFICES ASSUME NEW r \in Sales, NEW n \in Asks, NEW m \in Asks,
                    request'[r][n].status \in LiveStatuses, request'[r][m].status \in LiveStatuses
             PROVE  n = m
  BY DEF OneLive, LiveAsks
<1>1. CASE StatusesStay
  BY <1>1 DEF StatusesStay, OneLive, LiveAsks
<1>2. ASSUME NEW s \in Sales, NEW k \in Asks, LiveAsks(s) = {}, Moves(s, k, "in_flight")
      PROVE  n = m
  BY <1>2 DEF Moves, LiveAsks, OneLive
<1>3. ASSUME NEW s \in Sales, NEW k \in Asks, NEW to, Moves(s, k, to),
             request[s][k].status \in Unfinished
      PROVE  n = m
  BY <1>3 DEF Moves, LiveAsks, OneLive, LiveStatuses
<1> QED
  BY <1>1, <1>2, <1>3, StatusNames
  DEF RowStep, Aside, Written, Paid, RefusalHeard, AgreementHeard, GivenOver, Undone, Voided

\* Three steps lead to the commit, each on a free sale or on an agreement.
LEMMA CommitsStayAgreed ==
  ASSUME RInv, [Next]_vars PROVE CommitsAgreed'
<1>0. TypeOK /\ \A r \in Sales, m \in Asks : Stands(r, m)
  BY StepStands DEF RInv, IInv
<1> SUFFICES ASSUME NEW b \in Actors, At(b, "committing")', MyAsk(b)' # 0
             PROVE  request'[MySale(b)'][MyAsk(b)'].status \in {"succeeded", "needs_attention"}
  BY DEF CommitsAgreed
<1>1. CASE actor'[b] = actor[b]
  <2>1. PICK s \in Sales, n \in Asks : s = MySale(b) /\ n = MyAsk(b)
    BY <1>0, <1>1, ActorTyped, ReversalAssumption DEF RInv, IInv, InPlace, At, MyAsk, Asks
  <2>2. request[s][n].status \in {"succeeded", "needs_attention"}
    BY <1>1, <2>1 DEF RInv, CommitsAgreed, At, MyAsk
  <2> QED
    BY <1>0, <1>1, <2>1, <2>2 DEF Stands, MySale, MyAsk
<1>2. CASE RecordAnswer(b)
  <2>1. PICK s \in Sales, n \in Asks : s = MySale(b) /\ n = MyAsk(b)
    BY <1>2 DEF RInv, IInv, InPlace, RecordAnswer, At, Pursuing
  <2>2. RecordAttempt(s, n, "in_flight", "succeeded", 0) /\ Now(b, "committing")
    BY <1>0, <1>2, <2>1 DEF RecordAnswer, Now, Skip, At, TypeOK, ActorStates
  <2>3. request'[s][n].status = "succeeded"
    BY <1>0, <2>2, StatusNames, AttemptMoves DEF Moves
  <2>4. MySale(b)' = s /\ MyAsk(b)' = n
    BY <1>0, <2>1, <2>2 DEF Now, MySale, MyAsk, TypeOK, ActorStates
  <2> QED
    BY <2>3, <2>4
<1>3. CASE ReadLiveRequest(b)
  <2>1. /\ request[MySale(b)][MyAsk(b)].status = "succeeded" /\ request' = request
        /\ actor' = [actor EXCEPT ![b].pc = "committing", ![b].agreed = TRUE]
    <3>1. \A pc : Now(b, pc) \/ Skip(b, pc) => actor'[b].pc = pc
      BY <1>0 DEF Now, Skip, TypeOK, ActorStates
    <3>2. actor'[b].pc = "committing"
      BY DEF At
    <3> QED
      BY <1>3, <3>1, <3>2 DEF ReadLiveRequest
  <2>2. MySale(b)' = MySale(b) /\ MyAsk(b)' = MyAsk(b)
    BY <1>0, <2>1 DEF MySale, MyAsk, TypeOK, ActorStates
  <2> QED
    BY <2>1, <2>2
<1>4. CASE Decide(b)
  <2>1. MyAsk(b) = 0
    BY <1>4 DEF RInv, IInv, InPlace, Decide
  <2>2. MyAsk(b)' = MyAsk(b)
    BY <1>0, <1>4 DEF Decide, Now, MyAsk, TypeOK, ActorStates
  <2> QED
    BY <2>1, <2>2
<1>5. ASSUME NEW a \in Actors, NEW row, actor' = [actor EXCEPT ![a] = row],
             a = b => row.pc # "committing"
      PROVE  actor'[b] = actor[b]
  BY <1>0, <1>5 DEF TypeOK, At
<1>6. ASSUME NEW a \in Actors, NEW pc, Now(a, pc) \/ Skip(a, pc), pc # "committing"
      PROVE  actor'[b] = actor[b]
  BY <1>0, <1>6 DEF TypeOK, At, Now, Skip, ActorStates
<1>7. ASSUME NEW a \in Actors, Continue(a), a = b => ~RecordAnswer(b) /\ ~ReadLiveRequest(b) /\ ~Decide(b)
      PROVE  actor'[b] = actor[b]
  <2>1. CASE a # b
    BY <1>0, <1>7, <2>1
    DEF TypeOK, Continue, Decide, CreateReversalRequest, Reverse, RecordAnswer, CommitSaleReversal,
        MarkReversalSaleVoided, RetryAgreedReversalLater, Unlock, TryLock, AgeUnaskable,
        ReadLiveRequest, ReleaseReversalRequestClaim, CommitOperatorReversal, Now, Skip
  <2>2. CASE CreateReversalRequest(a) \/ Reverse(a)
    BY <1>0, <2>2, <1>6 DEF TypeOK, CreateReversalRequest, Reverse, At, ActorStates
  <2>3. CASE CommitSaleReversal(a) \/ MarkReversalSaleVoided(a) \/ RetryAgreedReversalLater(a)
             \/ TryLock(a) \/ CommitOperatorReversal(a)
    BY <1>6, <2>3 DEF CommitSaleReversal, MarkReversalSaleVoided, RetryAgreedReversalLater,
       TryLock, CommitOperatorReversal
  <2>4. CASE Unlock(a) \/ AgeUnaskable(a) \/ ReleaseReversalRequestClaim(a)
    BY <1>5, <1>6, <2>4 DEF Unlock, AgeUnaskable, ReleaseReversalRequestClaim, Idle
  <2> QED
    BY <1>7, <2>1, <2>2, <2>3, <2>4 DEF Continue
<1>8. ASSUME NEW a \in Actors, \/ Claim(a) \/ Crash(a)
                               \/ \E s \in Sales : Press(a, s) \/ ReverseSaleAsOperator(a, s)
                               \/ \E s \in Sales, n \in Asks : ListDueReversalRequestsForCustomer(a, s, n)
      PROVE  actor'[b] = actor[b]
  BY <1>5, <1>8 DEF Claim, ClaimDueReversalRequest, Crash, Press, ReverseSaleAsOperator,
     ListDueReversalRequestsForCustomer, Idle
<1>9. CASE UNCHANGED actor
  BY <1>1, <1>9
<1> QED
  BY <1>1, <1>2, <1>3, <1>4, <1>7, <1>8, <1>9
  DEF Next, Arrive, Actors, UpgradeOut, CloseWindow, Tick, vars

LEMMA RStep ==
  ASSUME RInv, [Next]_vars PROVE RInv'
<1>1. IInv'
  BY StepKeeps DEF RInv
<1>2. OneLive'
  BY EveryStepIsARowStep, OneLiveStays DEF RInv
<1> QED
  BY <1>1, <1>2, CommitsStayAgreed DEF RInv

-----------------------------------------------------------------------------
(* The refinement: each row step is a step of the promise, or none at all.  *)

tickets == [s \in Sales |-> IF sale[s] = "active" THEN "valid" ELSE "void"]
money == [s \in Sales |-> IF s \in refunded THEN "returned" ELSE "kept"]
promise == [s \in Sales |-> Promise(s)]
promised == <<free, tickets, money, promise>>

\* The promise of a sale, read off the one live request it may have.
PromiseMeans(s) ==
  /\ \A n \in Asks : request[s][n].status = "needs_attention" => Promise(s) = "operator"
  /\ (\A n \in Asks : request[s][n].status # "needs_attention") =>
       /\ (\A n \in Asks : request[s][n].status \notin Unfinished) => Promise(s) = "none"
       /\ \A n \in Asks :
            \/ request[s][n].status = "in_flight"
            \/ request[s][n].status = "succeeded" /\ sale[s] = "active"
            => Promise(s) = "open"
       /\ sale[s] # "active" /\ (\A n \in Asks : request[s][n].status # "in_flight")
            => Promise(s) = "none"

LEMMA PromisesMean == \A s : PromiseMeans(s) /\ PromiseMeans(s)'
BY DEF PromiseMeans, Promise, Unfinished

\* The row of the one live request says it all.
LEMMA OnlyLive ==
  ASSUME OneLive, NEW s \in Sales, NEW n \in Asks, request[s][n].status \in LiveStatuses
  PROVE  \A m \in Asks : m # n => request[s][m].status \notin LiveStatuses
BY DEF OneLive, LiveAsks

LEMMA SamePromise ==
  ASSUME NEW s \in Sales, \A m \in Asks : request'[s][m].status = request[s][m].status,
         sale'[s] = sale[s]
  PROVE  Promise(s)' = Promise(s)
BY DEF Promise

LEMMA PromiseBecomes ==
  ASSUME NEW s \in Sales, NEW p, Promise(s)' = p,
         \A r \in Sales : r # s => Promise(r)' = Promise(r)
  PROVE  promise' = [promise EXCEPT ![s] = p]
BY DEF promise

LEMMA MovesOnlyIts ==
  ASSUME NEW s \in Sales, NEW n \in Asks, NEW to, Moves(s, n, to), UNCHANGED sale
  PROVE  \A r \in Sales : r # s => Promise(r)' = Promise(r)
<1> SUFFICES ASSUME NEW r \in Sales, r # s PROVE Promise(r)' = Promise(r)
  OBVIOUS
<1>1. \A m \in Asks : request'[r][m].status = request[r][m].status
  BY DEF Moves
<1> QED
  BY <1>1, SamePromise

LEMMA VoidsOnlyIts ==
  ASSUME TypeOK, NEW s \in Sales, NEW by, StatusesStay, sale' = [sale EXCEPT ![s] = by],
         by # "active"
  PROVE  /\ sale'[s] = by
         /\ \A r \in Sales : r # s => Promise(r)' = Promise(r)
         /\ tickets' = [tickets EXCEPT ![s] = "void"]
<1>1. sale'[s] = by /\ \A r \in Sales : r # s => sale'[r] = sale[r]
  BY DEF TypeOK
<1>2. \A r \in Sales : r # s => Promise(r)' = Promise(r)
  BY <1>1, SamePromise DEF StatusesStay
<1>3. tickets' = [tickets EXCEPT ![s] = "void"]
  BY <1>1 DEF tickets
<1> QED
  BY <1>1, <1>2, <1>3

LEMMA AsideIsStutter ==
  ASSUME Aside PROVE UNCHANGED promised
<1>1. promise' = promise
  BY SamePromise DEF Aside, StatusesStay, promise
<1> QED
  BY <1>1 DEF Aside, promised, tickets, money

LEMMA WrittenIsAsk ==
  ASSUME RInv, NEW s \in Sales, NEW n \in Asks, Written(s, n) PROVE RP!Ask(s)
<1>1. \A m \in Asks : request[s][m].status \notin LiveStatuses
  BY DEF Written, LiveAsks
<1>2. s \notin refunded
  BY <1>1 DEF Written, RInv, IInv, RowsAgree, LiveStatuses, Unfinished
<1>3. Promise(s) = "none"
  BY <1>1, PromisesMean DEF PromiseMeans, LiveStatuses, Unfinished
<1>4. Promise(s)' = "open"
  <2>1. request'[s][n].status = "in_flight"
    BY DEF Written, Moves
  <2>2. \A m \in Asks : request'[s][m].status # "needs_attention"
    BY <1>1, <2>1 DEF Written, Moves, LiveStatuses, Unfinished
  <2> QED
    BY <2>1, <2>2, PromisesMean DEF PromiseMeans
<1>5. promise' = [promise EXCEPT ![s] = "open"]
  BY <1>4, MovesOnlyIts, PromiseBecomes DEF Written
<1>6. tickets[s] = "valid" /\ promise[s] = "none" /\ money[s] = "kept"
      /\ UNCHANGED <<free, tickets, money>>
  BY <1>2, <1>3 DEF Written, tickets, promise, money
<1> QED
  BY <1>5, <1>6 DEF RP!Ask, Written, tickets, promise, money

LEMMA PaidIsReturn ==
  ASSUME RInv, NEW s \in Sales, NEW n \in Asks, Paid(s, n)
  PROVE  RP!Return(s) \/ UNCHANGED promised
<1>1. promise' = promise /\ tickets' = tickets /\ free' = free
  BY SamePromise DEF Paid, StatusesStay, promise, tickets
<1>2. CASE s \in refunded
  <2>1. refunded' = refunded
    BY <1>2 DEF Paid
  <2> QED
    BY <1>1, <2>1 DEF promised, money
<1>3. CASE s \notin refunded
  <2>1. money' = [money EXCEPT ![s] = "returned"] /\ money[s] = "kept"
    BY <1>3 DEF money, Paid
  <2>2. Promise(s) \in {"open", "operator"}
    BY PromisesMean DEF PromiseMeans, Paid
  <2>3. tickets[s] = "valid" /\ promise[s] # "none"
    BY <2>2 DEF tickets, promise, Paid
  <2> QED
    BY <1>1, <2>1, <2>3 DEF RP!Return, tickets, promise, money
<1> QED
  BY <1>2, <1>3

LEMMA RefusalIsRefuse ==
  ASSUME RInv, NEW s \in Sales, NEW n \in Asks, RefusalHeard(s, n) PROVE RP!Refuse(s)
<1>1. \A m \in Asks : m # n => request[s][m].status \notin LiveStatuses
  BY OnlyLive DEF RInv, RefusalHeard, LiveStatuses, Unfinished
<1>2. Promise(s) = "open"
  <2>1. \A m \in Asks : request[s][m].status # "needs_attention"
    BY <1>1 DEF RefusalHeard, LiveStatuses
  <2> QED
    BY <2>1, PromisesMean DEF PromiseMeans, RefusalHeard
<1>3. Promise(s)' = "none"
  <2>1. \A m \in Asks : request'[s][m].status \notin LiveStatuses
    BY <1>1 DEF RefusalHeard, Moves, LiveStatuses, Unfinished
  <2> QED
    BY <2>1, PromisesMean DEF PromiseMeans, LiveStatuses, Unfinished
<1>4. promise' = [promise EXCEPT ![s] = "none"]
  BY <1>3, MovesOnlyIts, PromiseBecomes DEF RefusalHeard
<1>5. promise[s] = "open" /\ money[s] = "kept" /\ UNCHANGED <<free, tickets, money>>
  BY <1>2 DEF RefusalHeard, promise, money, tickets
<1> QED
  BY <1>4, <1>5 DEF RP!Refuse, tickets, promise, money

LEMMA AgreementIsStutter ==
  ASSUME RInv, NEW s \in Sales, NEW n \in Asks, AgreementHeard(s, n) PROVE UNCHANGED promised
<1>1. \A m \in Asks : m # n => request[s][m].status \notin LiveStatuses
  BY OnlyLive DEF RInv, AgreementHeard, LiveStatuses, Unfinished
<1>2. Promise(s) = "open"
  <2>1. \A m \in Asks : request[s][m].status # "needs_attention"
    BY <1>1 DEF AgreementHeard, LiveStatuses
  <2> QED
    BY <2>1, PromisesMean DEF PromiseMeans, AgreementHeard
<1>3. Promise(s)' = "open"
  <2>1. request'[s][n].status = "succeeded" /\ sale'[s] = "active"
    BY DEF AgreementHeard, Moves
  <2>2. \A m \in Asks : request'[s][m].status # "needs_attention"
    BY <1>1, <2>1 DEF AgreementHeard, Moves, LiveStatuses
  <2> QED
    BY <2>1, <2>2, PromisesMean DEF PromiseMeans
<1>4. promise' = promise
  <2>1. \A r \in Sales : r # s => Promise(r)' = Promise(r)
    BY MovesOnlyIts DEF AgreementHeard
  <2> QED
    BY <1>2, <1>3, <2>1 DEF promise
<1> QED
  BY <1>4 DEF AgreementHeard, promised, tickets, money

LEMMA GivenOverIsHandOver ==
  ASSUME RInv, NEW s \in Sales, NEW n \in Asks, GivenOver(s, n) PROVE RP!HandOver(s)
<1>1. \A m \in Asks : m # n => request[s][m].status \notin LiveStatuses
  BY OnlyLive DEF RInv, GivenOver, LiveStatuses
<1>2. \/ Promise(s) = "open"
      \/ Promise(s) = "none" /\ s \in refunded
  <2>1. \A m \in Asks : request[s][m].status # "needs_attention"
    BY <1>1 DEF GivenOver, LiveStatuses, Unfinished
  <2>2. CASE request[s][n].status = "in_flight" \/ sale[s] = "active"
    BY <2>1, <2>2, PromisesMean DEF PromiseMeans, GivenOver, Unfinished
  <2>3. CASE request[s][n].status # "in_flight" /\ sale[s] # "active"
    <3>1. request[s][n].status = "succeeded"
      BY <2>3 DEF GivenOver, Unfinished
    <3>2. \A m \in Asks : request[s][m].status # "in_flight"
      BY <1>1, <2>3 DEF LiveStatuses, Unfinished
    <3>3. s \in refunded
      BY <3>1 DEF RInv, IInv, RowsAgree
    <3> QED
      BY <2>1, <2>3, <3>2, <3>3, PromisesMean DEF PromiseMeans
  <2> QED
    BY <2>2, <2>3
<1>3. Promise(s)' = "operator"
  <2>1. request'[s][n].status = "needs_attention"
    BY DEF GivenOver, Moves
  <2> QED
    BY <2>1, PromisesMean DEF PromiseMeans
<1>4. promise' = [promise EXCEPT ![s] = "operator"]
  BY <1>3, MovesOnlyIts, PromiseBecomes DEF GivenOver
<1>5. /\ promise[s] = "open" \/ (promise[s] = "none" /\ money[s] = "returned")
      /\ UNCHANGED <<free, tickets, money>>
  BY <1>2 DEF GivenOver, promise, money, tickets
<1> QED
  BY <1>4, <1>5 DEF RP!HandOver, tickets, promise, money

LEMMA UndoneIsUndo ==
  ASSUME RInv, NEW s \in Sales, NEW n \in 0..MaxAsks, Undone(s, n) PROVE RP!Undo(s)
<1>1. /\ sale'[s] = "customer" /\ tickets' = [tickets EXCEPT ![s] = "void"]
      /\ \A r \in Sales : r # s => Promise(r)' = Promise(r)
  BY VoidsOnlyIts DEF Undone, RInv, IInv
<1>2. \A m \in Asks : request'[s][m].status = request[s][m].status
  BY DEF Undone, StatusesStay
<1>3. \/ Promise(s) = "open" /\ Promise(s)' = "none"
      \/ Promise(s) # "open" /\ Promise(s)' = Promise(s)
  <2>1. CASE n = 0
    <3>1. \A m \in Asks : request[s][m].status = "none"
      BY <2>1 DEF Undone, RInv, IInv, RowsAgree
    <3>2. Promise(s) = "none" /\ Promise(s)' = "none"
      BY <1>2, <3>1, PromisesMean DEF PromiseMeans, Unfinished
    <3> QED
      BY <3>2
  <2>2. CASE n # 0 /\ request[s][n].status = "needs_attention"
    <3>1. n \in Asks
      BY <2>2 DEF Undone
    <3>2. Promise(s) = "operator" /\ Promise(s)' = "operator"
      BY <1>2, <2>2, <3>1, PromisesMean DEF PromiseMeans
    <3> QED
      BY <3>2
  <2>3. CASE n # 0 /\ request[s][n].status = "succeeded"
    <3>1. n \in Asks /\ sale[s] = "active"
      BY <2>3 DEF Undone
    <3>2. \A m \in Asks : m # n => request[s][m].status \notin LiveStatuses
      BY <2>3, <3>1, OnlyLive DEF RInv, LiveStatuses, Unfinished
    <3>3. \A m \in Asks : request[s][m].status \notin {"needs_attention", "in_flight"}
      BY <2>3, <3>2 DEF LiveStatuses, Unfinished
    <3>4. Promise(s) = "open"
      BY <2>3, <3>1, <3>3, PromisesMean DEF PromiseMeans
    <3>5. Promise(s)' = "none"
      BY <1>1, <1>2, <3>3, PromisesMean DEF PromiseMeans
    <3> QED
      BY <3>4, <3>5
  <2> QED
    BY <2>1, <2>2, <2>3 DEF Undone
<1>4. \/ promise[s] = "open" /\ promise' = [promise EXCEPT ![s] = "none"]
      \/ promise[s] # "open" /\ promise' = promise
  BY <1>1, <1>3 DEF promise
<1>5. /\ tickets[s] = "valid" /\ (s \in free \/ money[s] = "returned")
      /\ UNCHANGED <<free, money>>
  BY DEF Undone, tickets, money
<1> QED
  BY <1>1, <1>4, <1>5 DEF RP!Undo, tickets, promise, money

LEMMA VoidedIsOperatorVoids ==
  ASSUME RInv, NEW s \in Sales, NEW by \in {"operator", "upgrade"}, Voided(s, by)
  PROVE  RP!OperatorVoids(s)
<1>1. /\ sale'[s] # "active" /\ tickets' = [tickets EXCEPT ![s] = "void"]
      /\ \A r \in Sales : r # s => Promise(r)' = Promise(r)
  BY VoidsOnlyIts DEF Voided, RInv, IInv
<1>2. \A m \in Asks : request'[s][m].status = request[s][m].status
  BY DEF Voided, StatusesStay
<1>3. \/ Promise(s)' = Promise(s)
      \/ Promise(s) = "open" /\ s \in refunded /\ Promise(s)' = "none"
  <2>1. CASE \E m \in Asks : request[s][m].status = "needs_attention"
    BY <1>2, <2>1, PromisesMean DEF PromiseMeans
  <2>2. CASE /\ \A m \in Asks : request[s][m].status # "needs_attention"
             /\ \E m \in Asks : request[s][m].status = "in_flight"
    BY <1>2, <2>2, PromisesMean DEF PromiseMeans
  <2>3. CASE /\ \A m \in Asks : request[s][m].status \notin {"needs_attention", "in_flight"}
             /\ \E m \in Asks : request[s][m].status = "succeeded"
    <3>1. Promise(s) = "open"
      BY <2>3, PromisesMean DEF PromiseMeans, Voided
    <3>2. Promise(s)' = "none"
      BY <1>1, <1>2, <2>3, PromisesMean DEF PromiseMeans
    <3> QED
      BY <2>3, <3>1, <3>2 DEF RInv, IInv, RowsAgree
  <2>4. CASE \A m \in Asks : request[s][m].status \notin {"needs_attention", "in_flight", "succeeded"}
    BY <1>2, <2>4, PromisesMean DEF PromiseMeans, Unfinished
  <2> QED
    BY <2>1, <2>2, <2>3, <2>4
<1>4. \/ promise' = promise
      \/ /\ promise[s] = "open" /\ money[s] = "returned"
         /\ promise' = [promise EXCEPT ![s] = "none"]
  BY <1>1, <1>3 DEF promise, money
<1>5. tickets[s] = "valid" /\ UNCHANGED <<free, money>>
  BY DEF Voided, tickets, money
<1> QED
  BY <1>1, <1>4, <1>5 DEF RP!OperatorVoids, tickets, promise, money

LEMMA RefinementStep ==
  ASSUME RInv, [Next]_vars PROVE [RP!Next]_promised
<1>1. RowStep
  BY EveryStepIsARowStep
<1>2. ASSUME NEW s \in Sales, NEW n \in Asks,
             \/ Written(s, n) \/ Paid(s, n) \/ RefusalHeard(s, n) \/ AgreementHeard(s, n)
             \/ GivenOver(s, n)
      PROVE  [RP!Next]_promised
  BY <1>2, WrittenIsAsk, PaidIsReturn, RefusalIsRefuse, AgreementIsStutter, GivenOverIsHandOver
  DEF RP!Next
<1>3. ASSUME NEW s \in Sales, NEW n \in 0..MaxAsks, Undone(s, n) PROVE RP!Next
  BY <1>3, UndoneIsUndo DEF RP!Next
<1>4. ASSUME NEW s \in Sales, NEW by \in {"operator", "upgrade"}, Voided(s, by) PROVE RP!Next
  BY <1>4, VoidedIsOperatorVoids DEF RP!Next
<1> QED
  BY <1>1, <1>2, <1>3, <1>4, AsideIsStutter DEF RowStep

LEMMA RefinementInit == Init => RP!Init
<1> SUFFICES ASSUME Init PROVE RP!Init
  OBVIOUS
<1>1. \A s \in Sales : Promise(s) = "none"
  BY PromisesMean DEF Init, PromiseMeans, Unfinished
<1> QED
  BY <1>1 DEF Init, RP!Init

-----------------------------------------------------------------------------
(* The theorems.                                                            *)

\* At most one request of a sale is live, and whoever is about to void a sale for
\* its Customer stands on that one: the two facts the refinement adds to IInv.
THEOREM OneLiveRequest == Spec => []RInv
<1>1. Init => RInv
  BY InitHolds, RInit DEF RInv
<1>2. RInv /\ [Next]_vars => RInv'
  BY RStep
<1> QED
  BY <1>1, <1>2, PTL DEF Spec

\* Whatever the provider answers, whoever asks, and wherever an instance dies:
\* an ask ends with the tickets void and the money back, or neither, or with an
\* operator who is told.
THEOREM RefundPromiseKept == Spec => ImplementsRefundPromise
<1>1. Init => RP!Init
  BY RefinementInit
<1>2. RInv /\ [Next]_vars => [RP!Next]_promised
  BY RefinementStep
<1> QED
  BY <1>1, <1>2, OneLiveRequest, PTL
  DEF Spec, ImplementsRefundPromise, RP!Spec, promised, tickets, money, promise
=============================================================================
