--------------------------- MODULE PayoutRequests ---------------------------
(***************************************************************************)
(* How one Organization asks to be paid and Platform Operators answer: the *)
(* Payable Balance its ask is capped by, the single outstanding Payout     *)
(* Request, the bank transfer an operator submits and the bank confirms or *)
(* returns, and the ledger of Payouts a fulfilment writes in the same      *)
(* transaction as its compare-and-swap on the request.                     *)
(*                                                                         *)
(* RequestPayout is three steps (the balance is read, the ask inserted,    *)
(* the bank details saved) and a fulfilment three (the ledger row is       *)
(* inserted, the request swapped under its row lock, the transaction       *)
(* committed); every other handler is one statement.  A handler that finds *)
(* its guard false writes nothing, and is no step here.  Every sale leaves *)
(* one unit of Net Proceeds.  Notices, the answers' wording and the amount *)
(* of an ask (told apart by nothing once it passed the cap) are left out;  *)
(* the reversal of a sale is Reversal's, here only what moves money.       *)
(***************************************************************************)
EXTENDS Integers, FiniteSetsExt

CONSTANTS Requests,   \* payout_requests ids, in the order they are handed out
          Payouts,    \* ledger ids, in the same order
          NoPayout,   \* payout_id NULL
          NoRequest,  \* a Payout recorded directly
          Sales,      \* paid Online Sales of the Organization
          Accounts,   \* bank details
          Askers,     \* RequestPayout calls under way at once
          Operators,  \* Platform Operators
          NoOne,      \* transfer_submitted_by NULL
          MaxAmount   \* the largest amount an operator pays

ASSUME IdsAssumption == /\ Requests \subseteq Nat /\ Payouts \subseteq Nat
                        /\ NoPayout \notin Payouts /\ NoRequest \notin Requests
ASSUME AccountsAssumption == Accounts # {}
ASSUME OperatorsAssumption == NoOne \notin Operators
ASSUME AmountAssumption == MaxAmount \in Nat \ {0}

VARIABLES evening,   \* TRUE from 20:00 to midnight, Ecuador time
          sale,      \* ticket_sales of the Organization
          request,   \* payout_requests
          payout,    \* payouts, an uncommitted insert included
          profile,   \* the stored Payout Profile's account
          asker,     \* what each RequestPayout call is doing
          operator   \* what each operator's fulfilment is doing

vars == <<evening, sale, request, payout, profile, asker, operator>>

----------------------------------------------------------------------------
(* The balance *)

\* When an active sale was recorded; "undo" is its Reversal Request: none, live (every
\* state but refused), or refused.
Sale == [is: {"unsold", "today", "earlier", "reversed"}, undo: {"none", "live", "refused"}]

\* Net Proceeds count active sales; the cleared ones were recorded before today and
\* carry no live Reversal Request.
Active == {s \in Sales : sale[s].is \in {"today", "earlier"}}
Cleared == {s \in Active : sale[s].is = "earlier" /\ sale[s].undo # "live"}

Recorded == {p \in Payouts : payout[p].state = "recorded"}
PaidOut == MapThenSumSet(LAMBDA p : payout[p].amount, Recorded)

Payable == Cardinality(Cleared) - PaidOut
Withdrawable == Cardinality(Active) - PaidOut

SellOnline(s) ==
    /\ sale[s].is = "unsold"
    /\ sale' = [sale EXCEPT ![s].is = "today"]
    /\ UNCHANGED <<evening, request, payout, profile, asker, operator>>

\* Mutant: the window reopens every morning.
OpenByHour(s) == s \in Active /\ ~evening

\* The Reversal Window is open on the day of purchase until 20:00.
WindowOpen(s) == sale[s].is = "today" /\ ~evening

AskUndo(s) ==
    /\ WindowOpen(s) /\ sale[s].undo # "live"
    /\ sale' = [sale EXCEPT ![s].undo = "live"]
    /\ UNCHANGED <<evening, request, payout, profile, asker, operator>>

\* The provider answers a live request, the same minute or days later.
UndoAnswered(s) ==
    /\ s \in Active /\ sale[s].undo = "live"
    /\ sale' \in {[sale EXCEPT ![s].is = "reversed"], [sale EXCEPT ![s].undo = "refused"]}
    /\ UNCHANGED <<evening, request, payout, profile, asker, operator>>

ReverseSaleAsOperator(s) ==
    /\ s \in Active
    /\ sale' = [sale EXCEPT ![s].is = "reversed"]
    /\ UNCHANGED <<evening, request, payout, profile, asker, operator>>

\* 20:00, and midnight: today's sales become earlier ones.
Evening ==
    /\ ~evening /\ evening' = TRUE
    /\ UNCHANGED <<sale, request, payout, profile, asker, operator>>
Midnight ==
    /\ evening /\ evening' = FALSE
    /\ sale' = [s \in Sales |-> IF sale[s].is = "today" THEN [sale[s] EXCEPT !.is = "earlier"]
                                ELSE sale[s]]
    /\ UNCHANGED <<request, payout, profile, asker, operator>>

----------------------------------------------------------------------------
(* The ask *)

Ended == {"paid", "declined", "failed", "cancelled"}
Request == [status: {"absent", "pending", "processing"} \cup Ended, account: SUBSET Accounts,
            submittedBy: Operators \cup {NoOne}, payout: Payouts \cup {NoPayout}]
AbsentRequest == [status |-> "absent", account |-> {}, submittedBy |-> NoOne,
                  payout |-> NoPayout]

\* Mutant: the index still counts pending requests alone.
PendingOnly == {r \in Requests : request[r].status = "pending"}

\* The predicate of the partial unique index, of the queue, and of ON CONFLICT.
Outstanding == {r \in Requests : request[r].status \in {"pending", "processing"}}

\* The row lock an uncommitted swap holds; a statement on the row waits for it.
Locked(r) == \E o \in Operators : operator[o].pc = "commit" /\ operator[o].request = r

Asker == [pc: {"idle", "insert", "save"}, account: SUBSET Accounts, edited: BOOLEAN,
          request: Requests \cup {NoRequest}]
IdleAsker == [pc |-> "idle", account |-> {}, edited |-> FALSE, request |-> NoRequest]

\* Ids are handed out in order.
FirstFree(free) == {x \in free : \A y \in free : x <= y}
FreeRequests == {r \in Requests : request[r].status = "absent"}
FreePayouts == {p \in Payouts : payout[p].state = "absent"}

\* The account is the one on the form or the stored one; without either the call is
\* refused.  The balance is read once, and nothing above it may be asked for.
ReadBalance(a) ==
    /\ asker[a] = IdleAsker
    /\ Payable > 0
    /\ \E account \in Accounts, edited \in BOOLEAN :
          /\ edited \/ profile = {account}
          /\ asker' = [asker EXCEPT ![a] = [pc |-> "insert", account |-> {account},
                          edited |-> edited, request |-> NoRequest]]
    /\ UNCHANGED <<evening, sale, request, payout, profile, operator>>

\* Mutant: the profile is saved although the ask was not recorded.
CreateOrSave(a) ==
    /\ asker[a].pc = "insert"
    /\ IF Outstanding = {}
       THEN \E r \in FirstFree(FreeRequests) :
               /\ request' = [request EXCEPT ![r].status = "pending",
                                             ![r].account = asker[a].account]
               /\ asker' = [asker EXCEPT ![a] = [asker[a] EXCEPT !.pc = "save", !.request = r]]
       ELSE \E r \in Outstanding :
               /\ asker' = [asker EXCEPT ![a] = [asker[a] EXCEPT !.pc = "save", !.request = r]]
               /\ UNCHANGED request
    /\ UNCHANGED <<evening, sale, payout, profile, operator>>

\* The partial unique index decides: an ask beside an outstanding one writes nothing,
\* and is handed that one back.
CreatePayoutRequest(a) ==
    /\ asker[a].pc = "insert"
    /\ \A r \in Outstanding : ~Locked(r)
    /\ IF Outstanding = {}
       THEN \E r \in FirstFree(FreeRequests) :
               /\ request' = [request EXCEPT ![r].status = "pending",
                                             ![r].account = asker[a].account]
               /\ asker' = [asker EXCEPT ![a] = IF asker[a].edited
                               THEN [asker[a] EXCEPT !.pc = "save", !.request = r]
                               ELSE IdleAsker]
       ELSE asker' = [asker EXCEPT ![a] = IdleAsker] /\ UNCHANGED request
    /\ UNCHANGED <<evening, sale, payout, profile, operator>>

SaveWithRequest(a) ==
    /\ asker[a].pc = "save"
    /\ profile' = asker[a].account
    /\ asker' = [asker EXCEPT ![a] = IdleAsker]
    /\ UNCHANGED <<evening, sale, request, payout, operator>>

\* The call fails or its process dies before its next statement.
AskerDies(a) ==
    /\ asker[a] # IdleAsker
    /\ asker' = [asker EXCEPT ![a] = IdleAsker]
    /\ UNCHANGED <<evening, sale, request, payout, profile, operator>>

\* The profile editor.
SavePayoutProfile(account) ==
    /\ profile' = {account}
    /\ UNCHANGED <<evening, sale, request, payout, asker, operator>>

----------------------------------------------------------------------------
(* Compare-and-swaps on the request, each under its own guard *)

\* Mutant: the status is not in the WHERE.
SwapAnyway(r, from, to) ==
    /\ request[r].status # "absent" /\ ~Locked(r)
    /\ request' = [request EXCEPT ![r].status = to]
    /\ UNCHANGED <<evening, sale, payout, profile, asker, operator>>

Swap(r, from, to) ==
    /\ request[r].status \in from /\ ~Locked(r)
    /\ request' = [request EXCEPT ![r].status = to]
    /\ UNCHANGED <<evening, sale, payout, profile, asker, operator>>

CancelPayoutRequest(r) == Swap(r, {"pending"}, "cancelled")
DeclinePayoutRequest(r) == Swap(r, {"pending"}, "declined")
MarkPayoutRequestFailed(r) == Swap(r, {"processing"}, "failed")

\* Mutant: the stamp is forgotten.
ProcessUnstamped(o, r) == Swap(r, {"pending"}, "processing")
MarkPayoutRequestProcessing(o, r) ==
    /\ request[r].status = "pending" /\ ~Locked(r)
    /\ request' = [request EXCEPT ![r].status = "processing", ![r].submittedBy = o]
    /\ UNCHANGED <<evening, sale, payout, profile, asker, operator>>

----------------------------------------------------------------------------
(* The ledger *)

Amounts == 1..MaxAmount
Payout == [state: {"absent", "inserted", "recorded"}, amount: 0..MaxAmount,
           answers: Requests \cup {NoRequest}]
NoPayoutRow == [state |-> "absent", amount |-> 0, answers |-> NoRequest]
Operator == [pc: {"idle", "swap", "commit"}, request: Requests \cup {NoRequest},
             payout: Payouts \cup {NoPayout}]
Free == [pc |-> "idle", request |-> NoRequest, payout |-> NoPayout]

\* One statement outside any transaction, refused for no balance and no request.
RecordPayout(amount) ==
    /\ \E p \in FirstFree(FreePayouts) :
          payout' = [payout EXCEPT ![p] =
             [state |-> "recorded", amount |-> amount, answers |-> NoRequest]]
    /\ UNCHANGED <<evening, sale, request, profile, asker, operator>>

\* A fulfilment inserts its Payout whatever the request has become...
InsertPayout(o, r, amount) ==
    /\ operator[o] = Free /\ request[r].status # "absent"
    /\ \E p \in FirstFree(FreePayouts) :
          /\ payout' = [payout EXCEPT ![p] =
                [state |-> "inserted", amount |-> amount, answers |-> r]]
          /\ operator' = [operator EXCEPT ![o] = [pc |-> "swap", request |-> r, payout |-> p]]
    /\ UNCHANGED <<evening, sale, request, profile, asker>>

Undone(o) == /\ payout' = [payout EXCEPT ![operator[o].payout] = NoPayoutRow]
             /\ operator' = [operator EXCEPT ![o] = Free]

\* Mutant: a lost swap is reported and the Payout kept.
SwapOrKeep(o) ==
    /\ operator[o].pc = "swap" /\ ~Locked(operator[o].request)
    /\ IF request[operator[o].request].status \in {"pending", "processing"}
       THEN operator' = [operator EXCEPT ![o].pc = "commit"] /\ UNCHANGED payout
       ELSE /\ operator' = [operator EXCEPT ![o] = Free]
            /\ payout' = [payout EXCEPT ![operator[o].payout].state = "recorded"]
    /\ UNCHANGED <<evening, sale, request, profile, asker>>

\* ...and swaps the request, which decides: no row swapped, no Payout.
FulfilSwap(o) ==
    /\ operator[o].pc = "swap" /\ ~Locked(operator[o].request)
    /\ IF request[operator[o].request].status \in {"pending", "processing"}
       THEN operator' = [operator EXCEPT ![o].pc = "commit"] /\ UNCHANGED payout
       ELSE Undone(o)
    /\ UNCHANGED <<evening, sale, request, profile, asker>>

FulfilCommit(o) ==
    /\ operator[o].pc = "commit"
    /\ LET r == operator[o].request
           p == operator[o].payout
       IN /\ request' = [request EXCEPT ![r].status = "paid", ![r].payout = p]
          /\ payout' = [payout EXCEPT ![p].state = "recorded"]
    /\ operator' = [operator EXCEPT ![o] = Free]
    /\ UNCHANGED <<evening, sale, profile, asker>>

\* A statement or the commit fails, or the process dies: the transaction is undone.
FulfilRollback(o) ==
    /\ operator[o].pc \in {"swap", "commit"}
    /\ Undone(o)
    /\ UNCHANGED <<evening, sale, request, profile, asker>>

----------------------------------------------------------------------------
Init ==
    /\ evening = FALSE
    /\ sale = [s \in Sales |-> [is |-> "unsold", undo |-> "none"]]
    /\ request = [r \in Requests |-> AbsentRequest]
    /\ payout = [p \in Payouts |-> NoPayoutRow]
    /\ profile = {}
    /\ asker = [a \in Askers |-> IdleAsker]
    /\ operator = [o \in Operators |-> Free]

SaleStep == \/ Evening \/ Midnight
            \/ \E s \in Sales : SellOnline(s) \/ AskUndo(s) \/ UndoAnswered(s)
                                \/ ReverseSaleAsOperator(s)

OrganizationStep ==
    \/ \E a \in Askers : ReadBalance(a) \/ CreatePayoutRequest(a) \/ SaveWithRequest(a)
                         \/ AskerDies(a)
    \/ \E r \in Requests : CancelPayoutRequest(r)
    \/ \E account \in Accounts : SavePayoutProfile(account)

OperatorStep ==
    \/ \E amount \in Amounts : RecordPayout(amount)
    \/ \E r \in Requests : DeclinePayoutRequest(r) \/ MarkPayoutRequestFailed(r)
    \/ \E o \in Operators :
          \/ \E r \in Requests :
                \/ MarkPayoutRequestProcessing(o, r)
                \/ \E amount \in Amounts : InsertPayout(o, r, amount)
          \/ FulfilSwap(o) \/ FulfilCommit(o) \/ FulfilRollback(o)

Next == SaleStep \/ OrganizationStep \/ OperatorStep

Spec == Init /\ [][Next]_vars

----------------------------------------------------------------------------
\* A request's stamps agree with its status, as the schema checks: a submitted transfer
\* names who submitted it, an untouched ask names nobody, and only a paid one a Payout.
WholeRow(r) ==
    /\ request[r].status = "processing" => request[r].submittedBy # NoOne
    /\ request[r].status \in {"absent", "pending"} => request[r].submittedBy = NoOne
    /\ request[r].payout # NoPayout <=> request[r].status = "paid"

\* Every variable has its type, and every request is a row the schema accepts.
TypeOK ==
    /\ evening \in BOOLEAN
    /\ sale \in [Sales -> Sale]
    /\ request \in [Requests -> Request] /\ \A r \in Requests : WholeRow(r)
    /\ payout \in [Payouts -> Payout]
    /\ profile \in SUBSET Accounts
    /\ asker \in [Askers -> Asker]
    /\ operator \in [Operators -> Operator]

\* The queue and the ledger agree: a recorded Payout that answers a request is the one
\* that request was paid with, and a paid request has its Payout in the ledger, however
\* two operators' fulfilments, a decline and a crash interleave.
LedgerMatchesAnswers ==
    /\ \A p \in Recorded : payout[p].answers # NoRequest
          => request[payout[p].answers].status = "paid" /\ request[payout[p].answers].payout = p
    /\ \A r \in Requests : request[r].status = "paid"
          => request[r].payout \in Recorded /\ payout[request[r].payout].answers = r

\* At most one request of the Organization awaits an answer.
OneOutstanding == \A r1, r2 \in Requests :
    request[r1].status \in {"pending", "processing"} /\
    request[r2].status \in {"pending", "processing"} => r1 = r2

\* An answer stands: a request that ended never changes again.
EndedStands == [][\A r \in Requests :
    request[r].status \in Ended => request'[r] = request[r]]_vars

\* Once a transfer was submitted only the bank's answer ends the request, and the record
\* of who submitted it is never overwritten.
SubmittedTransferIsAnswered == [][\A r \in Requests : request[r].status = "processing"
    => /\ request'[r].status \in {"processing", "paid", "failed"}
       /\ request'[r].submittedBy = request[r].submittedBy]_vars

\* Every failed request carries the record of the transfer that failed.
FailedWasSubmitted == \A r \in Requests :
    request[r].status = "failed" => request[r].submittedBy \in Operators

\* Cleared money is the buyer's no longer: from the moment the Payable Balance counts a
\* sale, no Reversal Request of its buyer can open, whatever the clock does; only an
\* Operator Reversal takes it back out.
ClearedIsSafe == [][\A s \in Cleared : sale'[s].undo # "live"]_vars

\* An ask that was not recorded never changes where the Organization is paid: a call
\* changes the profile only to the account of the request it recorded itself.
RefusedAskKeepsProfile == [][\A a \in Askers :
    asker'[a] # asker[a] /\ profile' # profile
       => /\ asker[a].request # NoRequest
          /\ request[asker[a].request].account = profile']_vars
=============================================================================
