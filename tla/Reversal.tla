------------------------------ MODULE Reversal ------------------------------
(***************************************************************************)
(* Customer-initiated Sale Reversal: the Reversal Request written before    *)
(* the Payment Provider is asked, the two ways it is pursued afterwards     *)
(* (the Customer Area drain and the Reversal Reconciler), the Operator      *)
(* Reversal that can settle a sale meanwhile, and the per-sale session      *)
(* lock they all try to take.                                               *)
(*                                                                          *)
(* A Worker is one HTTP request (a press of Undo, a page load that drains,  *)
(* an Operator Reversal); a Run is one ReconcileReversalRequests.  Every    *)
(* SQL statement is a step; so is the provider call.  Times are kept as the *)
(* ticks that remain or have passed, so the clock needs no bound.           *)
(***************************************************************************)
EXTENDS Integers, FiniteSets

CONSTANTS
  Sales,           \* Online Sales
  Workers,         \* concurrent HTTP requests
  Runs,            \* concurrent reconciler runs
  NoOne,           \* nobody: a lock that is free, a wait no lease stands for
  MaxAsks,         \* Reversal Requests one sale may see (model bound)
  GiveUpAfter,     \* sales.ReversalGiveUpAfter, in ticks
  Delays,          \* what sales.ReversalRetryDelay may answer, in ticks
  Lease,           \* reversalClaimLease
  ContendedDelay,  \* reversalContendedRetryDelay
  Faults           \* "crash", "cancel", "record", "commit", "mark"

Actors == Workers \cup Runs
Asks == 1..MaxAsks
Waits == Delays \cup {0, Lease, ContendedDelay}

ASSUME ReversalAssumption ==
  /\ Workers \cap Runs = {} /\ NoOne \notin Actors
  /\ MaxAsks \in Nat /\ GiveUpAfter \in Nat
  /\ Delays \subseteq Nat /\ Lease \in Nat /\ ContendedDelay \in Nat
  /\ Faults \subseteq {"crash", "cancel", "record", "commit", "mark"}

VARIABLES
  sale,        \* ticket_sales.status, and which actor kind reversed it
  free,        \* the sales settled under the free Payment Method (never changes)
  windowOpen,  \* whether the Reversal Window of each sale is still open
  request,     \* sale_reversals rows, by sale and by the order of asking
  lock,        \* who holds the advisory lock of each sale
  refunded,    \* the sales whose money the provider has returned (external)
  actor        \* where each request and each reconciler run stands

terms == <<free, windowOpen>>
vars == <<sale, terms, request, lock, refunded, actor>>

Unfinished == {"in_flight", "succeeded"}
LiveStatuses == Unfinished \cup {"needs_attention"}
Statuses == LiveStatuses \cup {"none", "refused"}
Answers == {"none", "success", "refused", "unknown"}
Pcs == {"idle", "deciding", "creating", "locking", "aging", "reading", "asking",
        "answered", "committing", "retrying", "marking", "unlocking",
        "releasing", "voiding"}

Idle == [pc |-> "idle", sale |-> NoOne, ask |-> 0, claimed |-> "none",
         answer |-> "none", agreed |-> FALSE, skipped |-> FALSE]

RequestRows == [status : Statuses, age : 0..GiveUpAfter, wait : Nat,
                lease : Actors \cup {NoOne}, voided : BOOLEAN]
ActorStates == [pc : Pcs, sale : Sales \cup {NoOne}, ask : 0..MaxAsks,
                claimed : Statuses, answer : Answers,
                agreed : BOOLEAN, skipped : BOOLEAN]

TypeOK ==
  /\ sale \in [Sales -> {"active", "customer", "operator", "upgrade"}]
  /\ free \subseteq Sales /\ windowOpen \in [Sales -> BOOLEAN]
  /\ request \in [Sales -> [Asks -> RequestRows]]
  /\ lock \in [Sales -> Actors \cup {NoOne}]
  /\ refunded \subseteq Sales
  /\ actor \in [Actors -> ActorStates]

Init ==
  /\ sale = [s \in Sales |-> "active"]
  /\ free \in SUBSET Sales
  /\ windowOpen = [s \in Sales |-> TRUE]
  /\ request = [s \in Sales |-> [n \in Asks |->
       [status |-> "none", age |-> 0, wait |-> 0, lease |-> NoOne, voided |-> FALSE]]]
  /\ lock = [s \in Sales |-> NoOne]
  /\ refunded = {}
  /\ actor = [a \in Actors |-> Idle]

-----------------------------------------------------------------------------
(* The rows.                                                                *)

\* GetLiveReversalRequest: what the partial unique index lets stand at most once.
LiveAsks(s) == {n \in Asks : request[s][n].status \in LiveStatuses}

GivenUp(s, n) == request[s][n].age = GiveUpAfter

Due(s, n) == request[s][n].wait = 0

\* Mutant: the write of an attempt no longer names the status it moves from.
RecordUnguarded(s, n, from, to, wait) ==
  request' = [request EXCEPT ![s][n] = [@ EXCEPT !.status = to, !.wait = wait, !.lease = NoOne]]

\* recordReversalAttempt: guarded on the status it moves the row from.
RecordAttempt(s, n, from, to, wait) ==
  /\ request[s][n].status = from
  /\ request' = [request EXCEPT ![s][n] = [@ EXCEPT !.status = to, !.wait = wait, !.lease = NoOne]]

\* The pieces of an actor's step.
At(a, pc) == actor[a].pc = pc
Now(a, pc) == actor' = [actor EXCEPT ![a].pc = pc]
Skip(a, pc) == actor' = [actor EXCEPT ![a].pc = pc, ![a].skipped = TRUE]
MySale(a) == actor[a].sale
MyAsk(a) == actor[a].ask

\* ReverseSales over one sale, by one kind of actor; a sale no longer active
\* is left alone.
Reversed(s, by) == sale' = [sale EXCEPT ![s] = by]

-----------------------------------------------------------------------------
(* ReverseOwnSale.  The ownership read and a contended lock change nothing  *)
(* and answer ErrSaleAlreadyReversed, so a press starts at the lock it got. *)

\* Mutant: the lock is not taken for a press.
PressUnlocked(a, s) ==
  /\ At(a, "idle") /\ actor' = [actor EXCEPT ![a] = [Idle EXCEPT !.pc = "deciding", !.sale = s]]
  /\ UNCHANGED <<sale, terms, request, lock, refunded>>

Press(a, s) ==
  /\ At(a, "idle") /\ lock[s] = NoOne
  /\ lock' = [lock EXCEPT ![s] = a]
  /\ actor' = [actor EXCEPT ![a] = [Idle EXCEPT !.pc = "deciding", !.sale = s]]
  /\ UNCHANGED <<sale, terms, request, refunded>>

\* Under the lock: a live request over an active sale is answered, not repeated;
\* only then is eligibility judged, and a free sale needs no provider.
Decide(a) ==
  LET s == MySale(a)
      refusedHere == LiveAsks(s) # {} \/ sale[s] # "active" \/ ~windowOpen[s]
  IN /\ At(a, "deciding")
     /\ \/ refusedHere /\ Now(a, "unlocking")
        \/ ~refusedHere /\ s \in free /\ Now(a, "committing")
        \/ ~refusedHere /\ s \notin free /\ Now(a, "creating")
     /\ UNCHANGED <<sale, terms, request, lock, refunded>>

\* THE ORDER: the ask is written before the provider is called, due at once.
CreateReversalRequest(a) ==
  LET s == MySale(a) IN
  /\ At(a, "creating")
  /\ \/ /\ LiveAsks(s) = {}
        /\ \E n \in Asks :
             /\ request[s][n].status = "none"
             /\ \A m \in Asks : m < n => request[s][m].status # "none"
             /\ request' = [request EXCEPT ![s][n].status = "in_flight"]
             /\ actor' = [actor EXCEPT ![a].pc = "asking", ![a].ask = n]
     \/ /\ LiveAsks(s) # {} \/ "record" \in Faults
           \/ \A n \in Asks : request[s][n].status # "none"
        /\ Now(a, "unlocking")
        /\ UNCHANGED request
  /\ UNCHANGED <<sale, terms, lock, refunded>>

-----------------------------------------------------------------------------
(* pursueReversalRequest.                                                   *)

\* The provider (external).  It answers already-cancelled, a success, when the
\* money is back; a definite refusal when it is not and stays; and it may say
\* nothing whether or not it has acted.
Reverse(a) ==
  LET s == MySale(a) IN
  /\ At(a, "asking")
  /\ \E answer \in {"success", "refused", "unknown"} :
       /\ actor' = [actor EXCEPT ![a].pc = "answered", ![a].answer = answer]
       /\ \/ answer \in {"success", "unknown"} /\ refunded' = refunded \cup {s}
          \/ answer \in {"refused", "unknown"} /\ s \notin refunded /\ UNCHANGED refunded
  /\ UNCHANGED <<sale, terms, request, lock>>

\* Mutant: silence is read as a refusal.
RecordAnswerSilenceRefuses(a) ==
  LET s == MySale(a) n == MyAsk(a) IN
  /\ At(a, "answered")
  /\ \/ /\ actor[a].answer = "success"
        /\ RecordAttempt(s, n, "in_flight", "succeeded", 0) /\ Now(a, "committing")
     \/ /\ actor[a].answer # "success"
        /\ RecordAttempt(s, n, "in_flight", "refused", 0) /\ Now(a, "unlocking")
  /\ UNCHANGED <<sale, terms, lock, refunded>>

\* What the answer does to the row.  A caller that is gone records no failure
\* (and hands a claim back); a row that has moved on, or a failed write, leaves
\* what was learned unrecorded.
RecordAnswer(a) ==
  LET s == MySale(a) n == MyAsk(a) IN
  /\ At(a, "answered")
  /\ \/ /\ "cancel" \in Faults /\ actor[a].answer # "success"
        /\ Skip(a, "unlocking") /\ UNCHANGED request
     \/ /\ actor[a].answer = "unknown"
        /\ \/ GivenUp(s, n) /\ RecordAttempt(s, n, "in_flight", "needs_attention", 0)
           \/ ~GivenUp(s, n) /\ \E d \in Delays : RecordAttempt(s, n, "in_flight", "in_flight", d)
        /\ Now(a, "unlocking")
     \/ /\ actor[a].answer = "refused"
        /\ RecordAttempt(s, n, "in_flight", "refused", 0)
        /\ Now(a, "unlocking")
     \/ /\ actor[a].answer = "success"
        /\ RecordAttempt(s, n, "in_flight", "succeeded", 0)
        /\ Now(a, "committing")
     \/ /\ request[s][n].status # "in_flight" \/ "record" \in Faults
        /\ Now(a, "unlocking") /\ UNCHANGED request
  /\ UNCHANGED <<sale, terms, lock, refunded>>

\* commitSaleReversal: void the sale as the Customer's own reversal.  Failing
\* leaves the request succeeded over an active sale, and finishAgreedReversal
\* alone then schedules another try.
CommitSaleReversal(a) ==
  LET s == MySale(a) IN
  /\ At(a, "committing")
  /\ \/ /\ sale[s] = "active"
        /\ Reversed(s, "customer")
        /\ Now(a, IF MyAsk(a) = 0 THEN "unlocking" ELSE "marking")
     \/ /\ sale[s] # "active" \/ "commit" \in Faults
        /\ Now(a, IF actor[a].agreed THEN "retrying" ELSE "unlocking")
        /\ UNCHANGED sale
  /\ UNCHANGED <<terms, request, lock, refunded>>

\* recordTheSaleIsVoided: best-effort, and guarded on nothing.
MarkReversalSaleVoided(a) ==
  LET s == MySale(a) n == MyAsk(a) IN
  /\ At(a, "marking")
  /\ \/ request' = [request EXCEPT ![s][n].voided = TRUE]
     \/ "mark" \in Faults /\ UNCHANGED request
  /\ Now(a, "unlocking")
  /\ UNCHANGED <<sale, terms, lock, refunded>>

\* retryAgreedReversalLater: the refund is made and the sale still stands.
RetryAgreedReversalLater(a) ==
  LET s == MySale(a) n == MyAsk(a) IN
  /\ At(a, "retrying")
  /\ \/ GivenUp(s, n) /\ RecordAttempt(s, n, "succeeded", "needs_attention", 0)
     \/ ~GivenUp(s, n) /\ \E d \in Delays : RecordAttempt(s, n, "succeeded", "succeeded", d)
     \/ /\ request[s][n].status # "succeeded" \/ "record" \in Faults
        /\ UNCHANGED request
  /\ Now(a, "unlocking")
  /\ UNCHANGED <<sale, terms, lock, refunded>>

Unlock(a) ==
  /\ At(a, "unlocking")
  /\ lock' = [lock EXCEPT ![MySale(a)] = IF @ = a THEN NoOne ELSE @]
  /\ IF a \in Runs /\ actor[a].skipped THEN Now(a, "releasing")
     ELSE actor' = [actor EXCEPT ![a] = Idle]
  /\ UNCHANGED <<sale, terms, request, refunded>>

-----------------------------------------------------------------------------
(* Coming back to an ask: resolveReversalRequest, on a row a page load      *)
(* listed or a reconciler run claimed.                                      *)

\* A page load lists a due in-flight request and claims nothing.
ListDueReversalRequestsForCustomer(a, s, n) ==
  /\ At(a, "idle")
  /\ request[s][n].status = "in_flight" /\ Due(s, n)
  /\ actor' = [actor EXCEPT ![a] =
       [Idle EXCEPT !.pc = "locking", !.sale = s, !.ask = n, !.claimed = "in_flight"]]
  /\ UNCHANGED <<sale, terms, request, lock, refunded>>

\* Mutant: the lease ends before it begins.
ClaimInThePast(a, s, n) ==
  /\ At(a, "idle") /\ Due(s, n)
  /\ request[s][n].status = "in_flight"
  /\ request' = [request EXCEPT ![s][n] = [@ EXCEPT !.wait = 0 - Lease, !.lease = a]]
  /\ actor' = [actor EXCEPT ![a] =
       [Idle EXCEPT !.pc = "locking", !.sale = s, !.ask = n, !.claimed = "in_flight"]]
  /\ UNCHANGED <<sale, terms, lock, refunded>>

\* Mutant: an agreed reversal whose sale still stands is nobody's work.
ClaimInFlightOnly(a, s, n) ==
  /\ At(a, "idle") /\ Due(s, n) /\ request[s][n].status = "in_flight"
  /\ request' = [request EXCEPT ![s][n] = [@ EXCEPT !.wait = Lease, !.lease = a]]
  /\ actor' = [actor EXCEPT ![a] =
       [Idle EXCEPT !.pc = "locking", !.sale = s, !.ask = n, !.claimed = "in_flight"]]
  /\ UNCHANGED <<sale, terms, lock, refunded>>

\* A run leases the row it is about to pursue; an agreed reversal whose sale is
\* not yet known to be void is claimed too.
ClaimDueReversalRequest(a, s, n) ==
  /\ At(a, "idle") /\ Due(s, n)
  /\ \/ request[s][n].status = "in_flight"
     \/ request[s][n].status = "succeeded" /\ ~request[s][n].voided
  /\ request' = [request EXCEPT ![s][n] = [@ EXCEPT !.wait = Lease, !.lease = a]]
  /\ actor' = [actor EXCEPT ![a] =
       [Idle EXCEPT !.pc = "locking", !.sale = s, !.ask = n,
                    !.claimed = request[s][n].status]]
  /\ UNCHANGED <<sale, terms, lock, refunded>>

TryLock(a) ==
  LET s == MySale(a) IN
  /\ At(a, "locking")
  /\ \/ lock[s] = NoOne /\ lock' = [lock EXCEPT ![s] = a] /\ Now(a, "reading")
     \/ lock[s] # NoOne /\ UNCHANGED lock /\ Now(a, "aging")
  /\ UNCHANGED <<sale, terms, request, refunded>>

\* Mutant: a contended claim is only ever skipped.
AgeNever(a) ==
  /\ At(a, "aging")
  /\ IF a \in Runs THEN Skip(a, "releasing") ELSE actor' = [actor EXCEPT ![a] = Idle]
  /\ UNCHANGED <<sale, terms, request, lock, refunded>>

\* ageUnaskableReversalRequest: without the lock, guarded on the claimed status.
AgeUnaskable(a) ==
  LET s == MySale(a) n == MyAsk(a) IN
  /\ At(a, "aging")
  /\ \/ /\ GivenUp(s, n)
        /\ RecordAttempt(s, n, actor[a].claimed, "needs_attention", 0)
        /\ actor' = [actor EXCEPT ![a] = Idle]
     \/ /\ ~GivenUp(s, n) \/ request[s][n].status # actor[a].claimed
        /\ IF a \in Runs THEN Skip(a, "releasing") ELSE actor' = [actor EXCEPT ![a] = Idle]
        /\ UNCHANGED request
     \/ /\ GivenUp(s, n) /\ "record" \in Faults
        /\ actor' = [actor EXCEPT ![a] = Idle]
        /\ UNCHANGED request
  /\ UNCHANGED <<sale, terms, lock, refunded>>

\* Mutant: the provider is asked whatever became of the sale.
ReadLiveRequestOnly(a) ==
  LET s == MySale(a) n == MyAsk(a) IN
  /\ At(a, "reading")
  /\ \/ request[s][n].status = "in_flight" /\ Now(a, "asking")
     \/ request[s][n].status # "in_flight" /\ Skip(a, "unlocking")
  /\ UNCHANGED <<sale, terms, request, lock, refunded>>

\* Under the lock: the request must still be the live one; an agreed reversal is
\* finished, never asked again; and a sale somebody else has settled is handed to
\* the operator unasked.
ReadLiveRequest(a) ==
  LET s == MySale(a) n == MyAsk(a) status == request[s][n].status IN
  /\ At(a, "reading")
  /\ \/ /\ status \notin Unfinished
        /\ Skip(a, "unlocking") /\ UNCHANGED request
     \/ /\ status = "succeeded" /\ sale[s] = "active"
        /\ actor' = [actor EXCEPT ![a].pc = "committing", ![a].agreed = TRUE]
        /\ UNCHANGED request
     \/ /\ status = "succeeded" /\ sale[s] # "active"
        /\ Skip(a, "marking") /\ UNCHANGED request
     \/ /\ status = "in_flight" /\ sale[s] # "active"
        /\ Now(a, "unlocking")
        /\ \/ RecordAttempt(s, n, "in_flight", "needs_attention", 0)
           \/ "record" \in Faults /\ UNCHANGED request
     \/ /\ status = "in_flight" /\ sale[s] = "active"
        /\ Now(a, "asking") /\ UNCHANGED request
  /\ UNCHANGED <<sale, terms, lock, refunded>>

\* releaseReversalClaim: only the lease this run wrote, and only on a row that
\* is still unfinished.
ReleaseReversalRequestClaim(a) ==
  LET s == MySale(a) n == MyAsk(a) IN
  /\ At(a, "releasing")
  /\ IF request[s][n].status \in Unfinished /\ request[s][n].lease = a
     THEN request' = [request EXCEPT ![s][n] = [@ EXCEPT !.wait = ContendedDelay, !.lease = NoOne]]
     ELSE UNCHANGED request
  /\ actor' = [actor EXCEPT ![a] = Idle]
  /\ UNCHANGED <<sale, terms, lock, refunded>>

-----------------------------------------------------------------------------
(* Operator Reversal, the Upgrade of a free sale, the clock and the faults. *)

\* A contended lock is refused (ErrSaleReversalInProgress); the provider is
\* never called.
ReverseSaleAsOperator(a, s) ==
  /\ At(a, "idle") /\ sale[s] = "active" /\ lock[s] = NoOne
  /\ lock' = [lock EXCEPT ![s] = a]
  /\ actor' = [actor EXCEPT ![a] = [Idle EXCEPT !.pc = "voiding", !.sale = s]]
  /\ UNCHANGED <<sale, terms, request, refunded>>

CommitOperatorReversal(a) ==
  LET s == MySale(a) IN
  /\ At(a, "voiding")
  /\ \/ sale[s] = "active" /\ Reversed(s, "operator")
     \/ (sale[s] # "active" \/ "commit" \in Faults) /\ UNCHANGED sale
  /\ Now(a, "unlocking")
  /\ UNCHANGED <<terms, request, lock, refunded>>

\* The Upgrade reverses a free sale in a checkout's commit, without this lock.
UpgradeOut(s) ==
  /\ s \in free /\ sale[s] = "active"
  /\ Reversed(s, "upgrade")
  /\ UNCHANGED <<terms, request, lock, refunded, actor>>

CloseWindow(s) ==
  /\ windowOpen[s]
  /\ windowOpen' = [windowOpen EXCEPT ![s] = FALSE]
  /\ UNCHANGED <<sale, free, request, lock, refunded, actor>>

\* The instance dies, and with its connection its session lock.
Crash(a) ==
  /\ "crash" \in Faults /\ ~At(a, "idle")
  /\ lock' = [s \in Sales |-> IF lock[s] = a THEN NoOne ELSE lock[s]]
  /\ actor' = [actor EXCEPT ![a] = Idle]
  /\ UNCHANGED <<sale, terms, request, refunded>>

Tick ==
  /\ request' = [s \in Sales |-> [n \in Asks |->
       LET r == request[s][n] IN
       [r EXCEPT !.age = IF r.status # "none" /\ @ < GiveUpAfter THEN @ + 1 ELSE @,
                 !.wait = IF @ > 0 THEN @ - 1 ELSE 0]]]
  /\ UNCHANGED <<sale, terms, lock, refunded, actor>>

\* What an actor does next once it has begun: its own program order.
Continue(a) ==
  \/ Decide(a) \/ CreateReversalRequest(a) \/ Reverse(a) \/ RecordAnswer(a)
  \/ CommitSaleReversal(a) \/ MarkReversalSaleVoided(a) \/ RetryAgreedReversalLater(a)
  \/ Unlock(a) \/ TryLock(a) \/ AgeUnaskable(a) \/ ReadLiveRequest(a)
  \/ ReleaseReversalRequestClaim(a) \/ CommitOperatorReversal(a)

Claim(a) == \E s \in Sales, n \in Asks : ClaimDueReversalRequest(a, s, n)

Arrive(a) ==
  \/ \E s \in Sales : Press(a, s) \/ ReverseSaleAsOperator(a, s)
  \/ \E s \in Sales, n \in Asks : ListDueReversalRequestsForCustomer(a, s, n)

Next ==
  \/ \E a \in Workers : Arrive(a)
  \/ \E a \in Runs : Claim(a)
  \/ \E a \in Actors : Continue(a) \/ Crash(a)
  \/ \E s \in Sales : UpgradeOut(s) \/ CloseWindow(s)
  \/ Tick

Spec == Init /\ [][Next]_vars

\* A request or run that has begun goes on (every call in it is bounded by a
\* timeout), time passes, and Cloud Scheduler keeps starting runs.
Fairness ==
  /\ WF_vars(Tick)
  /\ \A a \in Actors : WF_vars(Continue(a))
  /\ \A a \in Runs : WF_vars(Claim(a))

FairSpec == Spec /\ Fairness

-----------------------------------------------------------------------------
(* Properties.                                                              *)

\* A Payment Provider is asked to reverse only while the tickets still stand and
\* only by one caller of a sale at a time: a press, a page load, a reconciler run
\* and an Operator Reversal never overlap inside or around the provider call
\* (LockTicketSaleForReversal, and the re-reads under it).
ProviderAskedSafely ==
  \A a \in Actors : At(a, "asking") =>
    /\ sale[MySale(a)] = "active"
    /\ \A b \in Actors \ {a} : ~(At(b, "asking") /\ MySale(b) = MySale(a))

\* Money that is back with the Customer while the tickets still stand is never
\* forgotten: a request pursues it, or waits for an operator, and a refused or
\* settled row never stands for it (the order of ReverseOwnSale, the guards of
\* recordReversalAttempt, sale_voided_at).
MoneyIsAccountedFor ==
  \A s \in refunded : sale[s] = "active" =>
    \E n \in Asks : \/ request[s][n].status \in {"in_flight", "needs_attention"}
                    \/ request[s][n].status = "succeeded" /\ ~request[s][n].voided

\* A paid sale the Customer reversed has had its money returned first
\* (commitSaleReversal runs only on the provider's agreement).
CustomerUndoReturnsMoney ==
  \A s \in Sales \ free : sale[s] = "customer" => s \in refunded

\* The unique index on live requests is never what stops a second ask: whoever
\* is about to write one has seen, and still sees, none (ReverseOwnSale).
NoSecondAsk == \A a \in Actors : At(a, "creating") => LiveAsks(MySale(a)) = {}

\* What a request has become stands: a refusal and an unresolved reversal are
\* never reopened, an agreed one never goes back to being asked or becomes a
\* refusal, however late a drain, a run or a press writes.
OutcomesStand ==
  [][\A s \in Sales, n \in Asks :
       LET from == request[s][n].status to == request[s][n].status' IN
       /\ from \in {"refused", "needs_attention"} => to = from
       /\ from = "succeeded" => to \in {"succeeded", "needs_attention"}]_vars

\* The platform keeps the promise RefundPromise states.
Promise(s) ==
  IF \E n \in Asks : request[s][n].status = "needs_attention" THEN "operator"
  ELSE IF \E n \in Asks : \/ request[s][n].status = "in_flight"
                          \/ request[s][n].status = "succeeded" /\ sale[s] = "active"
  THEN "open" ELSE "none"

RP == INSTANCE RefundPromise WITH
        tickets <- [s \in Sales |-> IF sale[s] = "active" THEN "valid" ELSE "void"],
        money <- [s \in Sales |-> IF s \in refunded THEN "returned" ELSE "kept"],
        promise <- [s \in Sales |-> Promise(s)]

ImplementsRefundPromise == RP!Spec

\* Silence is not for ever: with a provider that never answers and a lock that is
\* always taken, every ask still ends as a refusal, an agreement or a case for an
\* operator (pursueReversalRequest and ageUnaskableReversalRequest both consult
\* the age of the request).
EveryAskEnds ==
  \A s \in Sales, n \in Asks :
    request[s][n].status = "in_flight" ~> request[s][n].status # "in_flight"

\* Money the provider agreed to return is followed by the sale being void or by
\* a case for an operator, though every attempt to void it may fail
\* (finishAgreedReversal, retryAgreedReversalLater).
AgreedReversalLands ==
  \A s \in Sales, n \in Asks :
    request[s][n].status = "succeeded" ~>
      sale[s] # "active" \/ request[s][n].status = "needs_attention"

\* reversal.go: when a pass gives up on a request it could not work, "an actor
\* that reached a real answer in the meantime moved the row on, so the guard
\* matches nothing".
SettledIsNeverHandedOver ==
  [][\A s \in Sales, n \in Asks :
       request[s][n].status = "succeeded" /\ sale[s] = "customer" =>
         request[s][n].status' # "needs_attention"]_vars
=============================================================================
