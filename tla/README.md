# A formal model of ticket_pos

TLA+ specifications of the ticket_pos backend (`src/backend`, Go over PostgreSQL), the TLC
configurations that check them on small instances, and proofs that TLAPS checks for every value
of the constants. File references are to the repository; `sales/...` is short for
`src/backend/internal/sales/...` and likewise for the other packages.

1. [The system](#1-the-system)
2. [Modules and what they model](#2-modules-and-what-they-model)
3. [Runs, bounds and what they show](#3-runs-bounds-and-what-they-show)
4. [Fairness](#4-fairness)
5. [Proofs](#5-proofs)
6. [Where the code and its comments disagree](#6-where-the-code-and-its-comments-disagree)
7. [What is not modelled](#7-what-is-not-modelled)
8. [Plan](#8-plan)
9. [Running it](#9-running-it)

## 1. The system

ticket_pos sells tickets of published Events. It is a stateless Go server (Cloud Run, several
instances), one PostgreSQL database reached through a pool at READ COMMITTED, and external
services: a Payment Provider reached by redirect (PayPhone), a tax authority (SRI), mail and
object storage. Everything that lasts is a row. Concurrency is between HTTP requests of any
instance, webhooks, and jobs that Cloud Scheduler starts and that may overlap. What keeps them
apart is, case by case: `FOR UPDATE` row locks, guarded `UPDATE ... WHERE status = ...` writes,
partial unique indexes, leases (`next_attempt_at` pushed into the future by the claim), and one
PostgreSQL session advisory lock per sale for reversals.

### Components

| Component | State | Operations | Interacts with | What is hard | What makes it correct |
|---|---|---|---|---|---|
| **Checkout, Payments, Capacity Holds** (`sales/service/checkout.go`, `sales/repository/payments.go`, `sales/holds.go`) | `payments`, `payment_lines`; a pending Payment younger than the hold window IS a Capacity Hold | BeginCheckout, ConfirmCheckout, free checkout, lazy expiry | provider (initiate, confirm), commit spine | BeginCheckout is a chain of unlocked statements; several confirms of one Payment race; the provider charges before we record; a commit whose acknowledgement is lost | a sale stands on an approved charge; an answer given stays true; a settled Payment never changes; holds of others survive a commit |
| **Commit spine and capacity** (`sales/repository/repository.go`) | `ticket_types.sold_count`, `capacity`, `ticket_sales`, lines, tickets | CommitSales, reverseSalesTx, capacity edits | every Sales Channel | many writers of one counter; order of row locks | `sold_count` = tickets on active sales; no deadlock |
| **Upgrade of a free ticket** (`sales/repository/upgrade*.go`, `self_held.go`) | `replaced_by_sale_id`, holder of a seat | same-basket drop, reversal of an earlier free sale inside the commit | commit spine, assignment | eligibility read before the locks and again under them | only one free single-ticket sale of the same buyer is given up, and only for a paid basket |
| **Customer-initiated Sale Reversal, Reversal Reconciler** (`sales/service/reversal.go`, `reconciler.go`, `sales/repository/reversal.go`) | `sale_reversals` rows, the advisory lock, `ticket_sales.status` | press of Undo, page-load drain, reconciler run, ageing, claims | provider (reverse), Operator Reversal | provider acts and says nothing; crash between refund and void; claim outlived; caller gone | the provider is asked by one caller at a time about a standing sale; money returned is never forgotten; every ask ends |
| **Operator Reversal** (`sales/service/operator.go`) | the sale, the shared lock | void without the provider | reversal lock | meets a press or a run on the same sale | never inside somebody's provider call |
| **Sale Imports, manual sales, single reversal, Correction** (`sales/service/service.go`, `import_row.go`, `sales/repository/sale_correct.go`) | batches, idempotency keys, imported sales | commit of a file, undo window, correction | commit spine | retried imports, reverse + commit in one transaction | a batch lands once; a correction gives back before it takes |
| **Seats: Assignment, links, Named Tickets** (`catalog/service/ticket_assignment.go`, `assignment_link.go`, `named_reassignment.go`) | holder, invitation, link of a ticket | assign, accept, revoke, rename | upgrade, reversal, mails | acceptance races revocation and reversal | one holder per ticket; a link accepted once |
| **Sale Re-Addressing** (`sales/service/re_addressing*.go`) | re-addressing record and link | offer, accept, withdraw | customers, seats | acceptance races a reversal | a sale has one buyer |
| **Owed mails, reminders, purges** (`sales/service/owedassignmentmail.go`, `answerreminder.go`, `assignmentreminder.go`) | queues with leases, sent ledgers | claim, send, record | mail | send before record, two sweeps | sent at most once per due date; nothing owed is lost |
| **Ticket Questions and Reviews** (`catalog/service/ticket_questions.go`, `question_review.go`) | questions, answers, reviews | edit, answer, review | checkout | answers held by a Payment while questions change | one outstanding review per Event |
| **Payout Requests** (`sales/service/payoutrequest.go`, `operatorpayoutrequest.go`) | requests, payouts ledger, balance (derived) | request, cancel, decline, fulfil, fail | reversals move the balance | balance read before the request; two operators | one outstanding request; a payout for each paid one |
| **Invoicing** (`invoicing/service/drainer.go`, `saleinvoice.go`, `reissue.go`, ...) | documents owed to dead, attempts, leases, deliveries | owe, sign, submit, poll, withdraw, reissue, annul | SRI, commit, reversal | SRI receives and says nothing; reversal before or after authorization; racing drains | at most one live factura per sale; a credit note only against an authorized one; an acknowledged document is never resubmitted |
| **Invoicing: encoding, RIDE, archive** | none of its own | signing, XML, PDF | invoicing | none a step could break | format |
| **Consent: capture, withdrawal, legal lineage** (`consent/service/*.go`) | answers, versions | capture, confirm, withdraw, publish | checkout, sign-in | double press; publication while a page is open | what is recorded is what was shown |
| **Consent: evidence, access log** | append-only | read, export | operator | none | append-only |
| **Customers** (`customers/service/*.go`) | sessions, pending consents, follows | sign in, gate, follow | OTP, consent | a pending consent used twice | single use |
| **Identity** (`identity/service/*.go`) | staff, organizations | sign in, settings | OTP | upserts only | row-level |
| **One-time passcodes** (`platform/otp`) | challenges and counters | issue, verify | sign-in | challenge superseded while verified; counters at a limit | bounded guesses |
| **Follow Digest** (`digest/`) | weekly queue, leases, sent ledger | claim, send, settle | mail | crash between send and record | at most one digest a week |
| **Catalog** (`catalog/`) | events, types, promotions, tags | publish, edit | checkout | a price or capacity edited during a checkout | a Payment keeps its prices |
| **Affiliates, trends** | counters | upsert, reports | checkout | none | counts |
| **Operator console** | none of its own | composes reads | all | none | forwards |
| **Fees and prices** (`sales/fees.go`, `catalog/promotion.go`) | none | arithmetic | checkout, payouts | rounding | sums agree |
| **Platform, server, integrations stub** | none of its own | I/O, wiring | all | none | wiring |
| **Applications, API client, terraform** | none on the server | UI, infrastructure | all | none | n/a |

`PROJECT.json` lists each with its sources and status, and the places where each one can go wrong
(`hazards`), with the properties that would catch it or why none does yet.

### Interactions that carry the risk

- BeginCheckout writes a Payment, which is a hold; the Customer leaves for the provider's page;
  ConfirmCheckout asks the provider and commits. The provider's decision and our rows are never in
  one transaction.
- Five kinds of transaction move `sold_count`: a checkout's commit (with an Upgrade's reversal
  inside it), a free checkout's, a staff sale or import, a correction, a reversal. All take the
  same row locks.
- A reversal is asked for by a Customer, pursued by that request, by any page load of the Customer
  Area, and by reconciler runs; an operator may settle it meanwhile, and an Upgrade may reverse a
  free sale without that lock.
- The Payable Balance an Organization asks against is a sum over sales; a sale clears at midnight, is
  undone by its buyer or by an operator, and none of them looks at the Payout Request that was
  judged against it.
- A checkout or a free claim owes a tax document in its own transaction; a reversal, an operator and
  two rounds of the Drainer then work on it, each asking the tax authority with no row locked.
- A seat is written by the buyer's save, by the reader of a mailed link, by the acceptance of a
  re-addressing of its sale and by a purge. Only the writes lock; every reader acts on what it read.

## 2. Modules and what they model

| Module | Kind | Extends / composes |
|---|---|---|
| `Checkout` | checkout, holds, commit spine, Upgrade | uses `PaymentOutcome` by refinement |
| `PaymentOutcome` | abstract: what one Payment may become | |
| `CheckoutProofs` | theorems about `Checkout` | EXTENDS `Checkout` |
| `PaymentOutcomeProofs` | that `Checkout` implements `PaymentOutcome`, with its two properties about other Payments | EXTENDS `CheckoutProofs` |
| `Reversal` | reversal requests, the lock, drain, reconciler, operator | uses `RefundPromise` by refinement |
| `RefundPromise` | abstract: what a Customer who presses Undo is promised | |
| `ReversalProofs` | theorems about `Reversal` | EXTENDS `Reversal` |
| `RefundPromiseProofs` | that `Reversal` implements `RefundPromise` | EXTENDS `ReversalProofs` |
| `CommitLocks` | row-lock order of the transactions of the commit spine | |
| `CommitLocksProofs` | theorems about `CommitLocks` | EXTENDS `CommitLocks` |
| `Invoicing` | the tax documents of one sale: Drainer rounds, operator's acts, reversal, the authority | uses `SaleDocuments` by refinement |
| `SaleDocuments` | abstract: which documents a sale owes, and when each may be declared | |
| `InvoicingProofs` | theorems about `Invoicing`, and that it implements `SaleDocuments` | EXTENDS `Invoicing` |
| `PayoutRequests` | the ask for money, its answers, the payouts ledger, the balance | uses the sales' reversals as its environment |
| `PayoutRequestsProofs` | theorems about `PayoutRequests` | EXTENDS `PayoutRequests` |
| `Seats` | holders of the tickets of one sale: saves, links, owed mails, re-addressing, purges | |
| `SeatsProofs` | theorems about `Seats` | EXTENDS `Seats` |
| `MCCheckout`, `MCReversal`, `MCCommitLocks`, `MCInvoicing`, `MCPayoutRequests`, `MCSeats` | instances for TLC | EXTEND the module they name |

Definitions whose comment begins with "Mutant:" are not part of any next-state relation:
they are plausible bugs (a dropped guard, a swallowed error) with which each property is shown to
be breakable.

### Checkout

State and code: `payment` is a `payments` row with its lines (`created` is the clock BeginCheckout
read, on which the hold's age is measured); `capacity` and `soldCount` are the columns of
`ticket_types`; `sale` and `replacedBy` are `ticket_sales` rows; `seated` says which online sales
still have their seat with the buyer (`holder_customer_id`), which is all the Upgrade asks of it.
`begin`, `room` are the local state of one BeginCheckout request, `confirm` that of each concurrent
ConfirmCheckout, `told` what those have answered. `verdict` belongs to the provider.

What is one statement on the pool is one action; what is one database transaction
(`ApprovePaymentAndCommitSale`, `ReverseSales`, `CorrectImportedSale`, `RecordBatchlessImportSale`)
is one action, because it decides under `FOR UPDATE` locks on the rows it moves. The invoice owed,
the consents and the checkout answers a commit writes are in the same transaction, and so cannot be
seen apart from it; they belong to other components. Tickets are counted as sets of
`<<sale, ordinal>>`, the rows `mintTickets` inserts, so that `sold_count` can be compared with what
exists instead of with itself.

Points of detail that are easy to miss in the code and are in the model:

- the capacity check of BeginCheckout uses two reads made at different moments, and the Purchase
  Limit a third; the commit re-checks capacity under the locks and never the Purchase Limit;
- a hold is live strictly after the cutoff, and lazy expiry may or may not run;
- a free checkout commits on the clock of its BeginCheckout, not on a new one;
- a commit may fail, and may land while its acknowledgement is lost (`lostAck`): the next statement
  then meets its own success;
- staff may set a capacity below `sold_count`, so "sold <= capacity" is NOT an invariant of this
  system; `CommitLeavesHoldsWhole` says what is kept instead;
- the Upgrade may be skipped: the lock set is chosen from a read made before the locks, and a
  candidate that appears afterwards is left alone (`UpgradesOutOf` therefore always admits `{}`);
- undoing an import batch may meet sales reversed meanwhile: any subset of the staff sales stands
  for a batch.

### Reversal

An actor is one request (press, page load, Operator Reversal) or one reconciler run, with a program
counter; every SQL statement and the provider call is a step. `lock` is the session advisory lock of
`LockTicketSaleForReversal`; a crash ends the actor and frees it, as PostgreSQL does when the
connection closes. `request` is the list of `sale_reversals` rows of each sale in the order of
asking; `age` is the time since the ask, cut at the give-up bound; `wait` is `next_attempt_at`
minus now; `lease` is the claim's ownership of that wait. `refunded` is the provider's own state: an
answer "unknown" may hide either a refund or none, and a refund already made is answered as a success.
`age` and `wait` are the only clocks, so the model needs no bound on time.

The write of an answer (`recordReversalAttempt`) is guarded on the status it moves from; it may fail
(`record`), it is not attempted for a failure when the caller has gone (`cancel`), the void may fail
(`commit`) and so may the note that the sale is void (`mark`). `attempt_count` is abstracted: the
retry delay is any member of `Delays`. A page load drains one due request of its customer per actor.

Abstractions: ownership of the sale, the sale-not-found branches and the mails change nothing the
properties mention; a contended press or operator action answers without touching state and is not a
step; the provider decides what it does with the money at the call; a session lock lost while its
holder lives on is not modelled.

### CommitLocks

Which row each transaction locks next, not what it writes there. `tx[t].plan` is the list of rows
still to be locked; plans are made from rows (which free sale an Upgrade would reverse, which sales
are still active) that may change before they are locked, as at READ COMMITTED. `share` is the `FOR
KEY SHARE` a foreign key takes. The row of its own Payment, which a commit takes first, is private to
one Payment and can be in no cycle. Every transaction may roll back at any point, the abort of a
deadlock victim included.

### Invoicing

`rows` is `invoicing_invoices`, one row per document of one Ticket Sale: the factura its checkout
owes, Credit Notes against a factura (`credits`), corrected facturas and facturas issued again
(`supersedes`). `next` is `next_attempt_at` (NULL, due, or later: a rung of the retry ladder or a
lease); `file` numbers the signed bytes on file; `last` and `acked` are what the ledger of attempts
says of the last one and of any submit acknowledged. `authority` is what the SRI holds under the
document's access key, known to the code only through the answers of `invoicing/sri/authority.go`.

A worker is a Drainer round or an operator's request, with a program counter. A round claims a due
document under a lease (`ClaimDueInvoice`), decides what is to be done of it (`FirstStep`: deliver,
judge, poll or submit), and each of judging, withdrawing, signing, submitting, polling, applying the
answer, settling, mailing and marking as delivered is a step, because each is a transaction or a call
of its own. Check status and Resend share the polling steps and race the rounds. Mark annulled,
Abandon, Reissue, Issue again and the settlement of a reversed sale are one transaction and one
action each. An answer of the authority may be lost before or after it acted, a mail be refused, a
document prove unsignable, a process die at any step or the database fail its write (`Crash`); these
are the `hitches`, counted against a bound. No mail can be made of a document in `Unmailable` (its Sale
facts are gone, or its RIDE does not render), which is no mishap but a fact of stored data, the same at
every try: a round that would deliver it takes it off the queue, authorized and undelivered, for an
operator to see (`DeliveryImpossible`, as `service/delivery.go:25-31` says).
Every write is guarded on the status its writer had read (`Reschedule`), as in the repository.

Abstractions and assumptions: a live round ends within its lease (five minutes) and within one rung
of the ladder, so a due time passes only for a document no round is at work on; the 24 hours after
which an undecided document is put before the operator pass without a step of their own (a write finds
it aged, which counts as a hitch); a number the authority refused (45) stays refused; before the
reversal every Credit Note is a reissue's; Mark annulled records an annulment that was made at the
portal; what makes a document unmailable is not repaired while the model runs. Left out: money,
recipients and texts, manual documents, the backfill, the recipient's warnings.

### PayoutRequests

`request` is `payout_requests`, `payout` the ledger (an uncommitted insert included, which nobody else
counts), `profile` the stored bank account, `sale` and the clock (`evening`: 20:00 to midnight) are what
the balances are computed from. `RequestPayout` is three steps of an asker (balance read, ask inserted
under the partial unique index, bank details saved); a fulfilment is three of an operator (ledger row,
swap of the request under its row lock, commit or rollback). Every other handler is one statement with
its own guard: cancel, decline, submit the transfer, fail, record a Payout directly, edit the profile.
A statement on a row whose lock an uncommitted swap holds waits (`Locked`). Sales clear, are undone and
are reversed by an operator while all of this goes on.

Abstractions: every sale leaves one unit of Net Proceeds; the amount of an ask is dropped once it has
passed the cap, as nothing afterwards reads it but the operator; the notices and the wording of answers
are left out. `WindowOpen` lets a buyer undo on the whole day of purchase, which includes every
shorter window of the code.

### Seats

`ticket` has the assignment columns of a ticket (address, `assigned_at` as the number of the
assignment, acceptance, Holder) and for whom its answers were given; `record` is `sale_re_addressings`,
`owed` and `ledger` the owed mails and the rows of mails sent. `AssignOwnTicket` is a read, a write
under the ticket's row lock, a mail after the commit, and a ledger row after the mail; a link is a read,
a guarded write and an answer; the sweep of owed mails a claim with a lease, a send, and a record; a
re-addressing a read and a transaction for the operator and for the reader of its link. Reversal, the
doors and the two purges may come between any of these. `links`, `copies`, `lost`, `told`, `held` and
`raced` are history that only properties read.

Assumptions and abstractions: a Customer is its address (`customers.email` is unique); no two
assignments of a ticket share an instant; the lease of an owed mail outlasts a live send; the claim of
an owed mail and the live read it is judged by are one step, as are the read of the ticket and of its
ledger count in a save; an Event that has started is not moved back into the future (staff could edit
it so; the proofs use nothing of this, the model checking does to stay bounded). Left out: the
buyer's hourly allowance, which only refuses more saves; names, locales and mail bodies; answers staff
or the Customer Area give. A save that dies between its write and its mail leaves an assignment nobody was
told of; that is the code, and no property denies it.

## 3. Runs, bounds and what they show

| Run (cfg) | Instance | Distinct states | Checks |
|---|---|---|---|
| `confirm` (`Checkout_confirm`) | one Payment, two concurrent confirms, two staff sales, one free and one paid type, capacity 1 or 2, two instants, all faults | 2,101,832 | `TypeOK`, `SoldCountMatchesTickets`, `SaleIsPaidFor`, `AnswersAreTrue`, implements `PaymentOutcome` |
| `upgrade` (`Checkout_upgrade`) | two buyers, three checkouts of free and paid tickets, Purchase Limit, Upgrade elected or not, seats given away and taken back, capacity lowered | 4,971,859 | `ReplacementIsSound`, `CommitLeavesHoldsWhole` |
| `lockOrder` (`CommitLocks_order`) | three transactions of any kind, two types, two customers, three sales | 1,000,476 | `TypeOK`, `NoOtherDeadlock` |
| `pursuit` (`Reversal_pursuit`) | one sale, two asks, two requests and one run, all faults | 344,514 | `TypeOK`, `ProviderAskedSafely`, `MoneyIsAccountedFor`, `OutcomesStand`, implements `RefundPromise` |
| `settles` (`Reversal_settles`) | one sale, one ask, one request, two runs, voiding may always fail | 76,122 | `EveryAskEnds`, `AgreedReversalLands` under `FairSpec` |
| `documents` (`Invoicing_documents`) | four documents, two Drainer rounds, every act of an operator but Check status and Resend, a reversal, one mishap, no mail to be made of the third | 1,186,686 | `TypeOK`, `OneFacturaAtTheAuthority`, `OneCreditPerFactura`, `NotesCreditAuthorized`, `ReversedSaleIsUndone`, `MailedOnce`, `DeadStayDead`, implements `SaleDocuments` |
| `requests` (`Invoicing_requests`) | one document, one round, one operator's Check status and two Resends, two mishaps | 268,709 | `HealedIsDelivered`, `QueueDrains` under `FairSpec` |
| `payoutQueue` (`PayoutRequests_queue`) | two requests, three payouts, one sale, two accounts, two askers, two operators | 2,631,152 | `TypeOK`, `LedgerMatchesAnswers`, `OneOutstanding`, `EndedStands`, `ClearedIsSafe`, `RefusedAskKeepsProfile` |
| `handover` (`Seats_handover`) | one ticket, two addresses, two saves, one reader of a link, two sweeps, one operator and one reader re-addressing, two records, all purges | 4,365,282 | `TypeOK`, `HolderProvedTheAddress`, `LedgerTellsTheSends`, `OneMailPerAssignment`, `RationHoldsWithoutARace`, `OnlyHoldersAreTold`, `AcceptanceHasItsLink`, `OnlyALiveSaleMoves` |
| `upgradeCycle`, `lateAging`, `lostReceipt` | small | | one statement each, refuted: section 6 |

Why the bounds are enough to meet the hard cases:

- **confirm**: two calls on one Payment give every race of settle against settle, reload after
  either, and an answer before and after a lost acknowledgement; a staff sale takes the last ticket
  between payment and commit and a second one corrects it while the hold is live; two instants let a
  hold of one tick be live and lapse.
- **upgrade**: three checkouts are the least in which an ambiguous pair of free sales can meet a paid
  one, and a replacement can itself be reversed; the other buyer's hold is what a commit must leave
  whole; a lowered capacity puts `sold_count` above it.
- **lockOrder**: a cycle of three needs three transactions; two types give both orders; one sale each
  of the kinds free, mixed and imported gives every plan. The lock sets are sets, so a third type
  or customer adds no new order.
- **pursuit**: two requests and a run are the least in which one holds the lock, one waits and one
  ages; two asks let a refusal be followed by a new ask; `GiveUpAfter` and `Lease` of two ticks let
  a claim lapse while its run lives and an ask age past its bound before, during or after the
  provider call. One sale is enough because the lock, the rows and the money of one sale are
  touched by no step about another.
- **settles**: two runs compete for the claim, with one request that may always hold the lock.
- **documents**: four rows are the least in which a factura is authorized, a note and its corrected
  factura owed against it, and a reversal or an Issue again adds a fourth; two rounds let every
  decision of one go stale under the other. One mishap separates what was done
  from what was recorded; once it has happened among four documents the rounds take turns
  (`CalmAfterMishap`, the run's CONSTRAINT), among three they still interleave. Check status and Resend are in `requests`; the theorems of section 5
  cover them with everything else. The refinement is the one property of the run in which the time
  between a round's judgement and its write shows: the promise is stated of the moment of the write.
  `MailedOnce` is the one property here that an operator's
  requests would break (section 6); its bound grows with every mishap, though only a crash between
  the mail and its record repeats a mail. The third document is the one no mail can be made of, so
  that a round also ends without one; the theorems let it be any.
- **requests**: an operator's request beside a round is the least that races it; the second Resend
  acts on the bytes the first one left; two mishaps let the answer of a submit be lost and the query
  after it too. Documents do not wait for one another except through notes, which `documents` covers.
- **payoutQueue**: two askers race for the unique index; two operators answer one request and one of
  them can pay it directly beside it, three ledger rows being both fulfilments and a direct Payout;
  the second request follows an answered first. A second sale only adds to a sum.
- **handover**: the shortest chains of hands are buyer, other, buyer and other, buyer, other: two
  addresses and one ticket; `PerTicket` of one is reached by the first mail; a second record replaces
  the first; the second sweep matters as soon as a claim does not exclude it.

`SYMMETRY` is used only in runs with no liveness property. `CHECK_DEADLOCK FALSE` is set where the
system really may stop: in `upgrade`, whose Payments run out; in the three `Invoicing` runs, where
everything is decided and delivered or an operator is awaited; in `handover`, where the doors are open
and what was owed is done. `MaxTime`, `MaxQuantity`, `MaxReseats`, `MaxAsks`, `MaxBytes`,
`MaxResends`, `MaxHitches`, `MaxAmount`, `MaxAssignments` and `MaxLost` are bounds of the models;
nothing in the code has them. Some invariants that the proofs of section 5 establish for every value
of the constants (`ReloadSeesSettled`, `CustomerUndoReturnsMoney`, `NoSecondAsk`,
`FailedWasSubmitted`, `SubmittedTransferIsAnswered`, `NamedTicketIsAnswered`, `PendingNamesTheSale`,
`AcceptedReAddressingStands`) are in no run.

## 4. Fairness

`Reversal` and `Invoicing` state liveness. `Checkout` cannot: nothing obliges a Customer to come back from
the payment page, and there is no job that settles a Payment, so a Payment may stay pending for ever
(it stops being a hold, which is a matter of the clock).

`FairSpec` of `Reversal` assumes, and no more:

- `WF(Tick)`: time passes;
- `WF(Continue(a))` for each actor: a request or run that has begun goes on to its next statement.
  Its provider call is bounded by `payPhoneTimeout` and the request by Cloud Run's own deadline; a
  timeout is one of the modelled outcomes (an unknown answer, a failed write, a crash);
- `WF(Claim(a))` for each run: Cloud Scheduler keeps starting the reconciler.

Nothing is assumed of the provider (it may never answer), of the void (it may always fail), of the
lock (it may always be taken) or of Customers. `EveryAskEnds` and `AgreedReversalLands` hold because
both the pursuit and a contended run consult the age of the request and give up.

`FairSpec` of `Invoicing` assumes:

- `WF(RoundStep(w))` and `WF(OperatorStep(w))` for each worker: Cloud Scheduler keeps starting the
  drain, and a round or request that has begun goes on to its next statement (mishaps, crashes
  included, are the model's other actions, and are owed to nobody);
- `WF(TimePasses(d))`: a due time comes;
- `WF(AuthorityDecides(d))`: the authority decides, some day, about what it has received. A submit or
  a query may still be lost, as often as the bound on mishaps allows.

No press of an operator and no reversal is ever assumed, which is why `QueueDrains` excuses a queue
that waits for an operator. The other modules state none: a Payout Request waits for people, and a
seat for whoever reads a link.

## 5. Proofs

The proof modules are checked by `tlapm` with no step left out. Every invariant, action property
and refinement of the passing runs is a theorem; liveness is not. They rest on the named assumptions
of the modules: the sets of payments and staff sales are finite and disjoint, Ticket Types finite in
number, documents and ids are natural numbers, bounds and delays too, `NoSale` and `NoOne` are not
ids, `Unmailable` is a set of documents; in `CommitLocks` a cart is a sequence of Ticket Types and a file's buyers one of Customers; in
`Seats` the saves and sweeps under way at any time are finitely many and the numbering of assignments
begins at 1. Nothing else is assumed of the sizes.

**Checkout.** `SoldCountMatchesTickets` is about a counter and the cardinality of a set, so the proof
begins with counting lemmas: the tickets of one line are as many as its quantity
(`TicketsOfOneLine`), voiding a set of active sales takes away exactly their tickets
(`VoidedTickets`), and `Record` and a reversal keep the equality (`RecordKeepsCount`,
`ReverseKeepsCount`). No state property of a Payment is inductive alone; `IInv` ties together

- `BeginTracksPayment`: how far BeginCheckout got tells whether there is a Payment row, and that a
  checkout which skips the provider costs nothing;
- `ConfirmTracksVerdict`: what a confirm stands on is what the provider decided, and a confirm
  reloads only what is settled;
- `PaymentTracksSale`: settled statuses agree with the sale and the charge (this is what makes
  a commit guarded on an unsettled Payment safe);
- `ToldTracksPayment`: "approved" was only said when there was a sale and "failed" when the row said so.

| Theorem | States |
|---|---|
| `Invariance` | `Spec => []IInv` |
| `TypeCorrect` | `TypeOK` |
| `SoldCountExact` | `SoldCountMatchesTickets` |
| `SaleStandsOnPayment` | `SaleIsPaidFor` |
| `AnswersStayTrue` | `AnswersAreTrue` |
| `ReloadsAreSettled` | `ReloadSeesSettled` |
| `HoldsStayWhole` (`PaymentOutcomeProofs`) | the action property `CommitLeavesHoldsWhole` |
| `ReplacementsAreSound` (`PaymentOutcomeProofs`) | `ReplacementIsSound` |
| `PaymentPromiseKept` (`PaymentOutcomeProofs`) | the refinement `ImplementsPaymentOutcome` |

`PaymentOutcomeProofs` begins by sorting the steps (`LedgerMoves`): a step sells for a Payment
(`Sells`), records a staff sale, reverses or corrects, or leaves the ledger alone. Only the first two
can raise `sold_count`, and both compare it under the lock with the capacity less everybody else's
holds; what carries `HoldsStayWhole` is that the holds left after the step are among
those it was compared with, so they are no more (`HeldShrinks`). `ReplacementIsSound` is inductive over `IInv` once tickets are known to grow with
their lines (`TicketsGrow`), which is how the one ticket of the sale given up is known to be its free
one (`OneIsGivenUp`).

The refinement maps the whole history of a Payment to one word (`Outcome`). One fact is missing from
`IInv`, that a Customer on the payment page has something to pay for (`PagesArePaid`): without it the
provider could approve a free basket, which the promise does not allow. Under `RInv` (both together)
each action is shown to be a step of `PaymentOutcome` on one Payment (`StartsOnce`,
`ChargesWhatIsOpen`, `SellsWhatIsPaidFor`, `DeclinesWhatIsOpen`, `StrandsWhatIsCharged`,
`ReversesWhatIsSold`) or no step at all. An Upgrade moves two Payments, selling one and reversing another in a single
transaction, and is one `Sell` of the promise, which allows for one earlier sale.

**Reversal.** `ProviderAskedSafely` is not inductive: a caller about to ask trusts what it read under
the lock. `IInv` therefore says of every actor (`InPlace`) that at each place between taking and
releasing the lock the lock is its own, (`StillTrue`) that what it read or was told there (an active
paid sale, no live request, money back or not) is still so, and of every sale (`RowsAgree`) what its
request rows say of its money: a succeeded row means a refund, a row marked void means a void sale,
and money back on a standing sale is answered for by some row. The frame lemma `OthersKeep` shows
that a step which leaves an actor's lock alone, and at most hands one of its requests to an operator
(which a run does without the lock), keeps all of it; `UnderItsLock` and `OnlyItself` reduce each
action to its own actor and its own sale. The one write made without the lock by somebody else,
the Upgrade of a free sale, is harmless because no request is ever about a free sale
(the first conjunct of `RowsAgree`).

| Theorem | States |
|---|---|
| `Invariance` | `Spec => []IInv` |
| `TypeCorrect` | `TypeOK` |
| `AskedSafely` | `ProviderAskedSafely` |
| `MoneyAccounted` | `MoneyIsAccountedFor` |
| `UndoReturnsMoney` | `CustomerUndoReturnsMoney` |
| `OneAsk` | `NoSecondAsk` |
| `OutcomesAreFinal` | the action property `OutcomesStand` |
| `OneLiveRequest` (`RefundPromiseProofs`) | its strengthening `RInv` |
| `RefundPromiseKept` (`RefundPromiseProofs`) | the refinement `ImplementsRefundPromise` |

The refinement is proved in two halves. `EveryStepIsARowStep` forgets the actors: of the many
places where a press, a page load, a run or an operator can be, only eight kinds of step show on the
rows of a sale (a request written, money returned, a refusal or an agreement heard, a request given
over to an operator, the sale undone, the sale voided by somebody else, or nothing; `RowStep`). The
second half maps each kind to the step of the promise it is. `RInv` adds to `IInv` that a sale has
one live request at most (`OneLive`), so that a step about one request is about the promise, and that
whoever is about to void a paid sale for its Customer holds the provider's agreement, or what an
impatient run has made of it since (`CommitsAgreed`).

**CommitLocks.** A deadlock among any number of transactions is a set in which each waits for
another one of the set. `Shape` says of every transaction, by the stage it is at, how what it has
still to lock lies to what it holds: a commit, a reversal or a correction that has reached the Ticket
Types climbs (`Climbing`: each row of the plan is above every one held and every earlier one of the
plan), one that has not holds nothing a plan could come back to (`Opening`), and the four exceptions
have a shape of their own. With `OwnMode` and `Exclusive` (locks are held in their own mode, and
no two conflict) a transaction that keeps the order and waits while it holds something waits for a Ticket
Type above all it holds (`WaitsAbove`). The largest type waited for in a circle is then held by one
who waits for a larger: there is no circle without one of the four.

That `ORDER BY id` sorts is a lemma here (`SortedExists`, `SortedRises`), for every finite set of ids:
the set of those that cannot be sorted has a least element by inclusion, and removing its largest id
gives a smaller one. The library's well-founded minimum gives the least element, so that no rule of
induction over an operator is needed.

| Theorem | States |
|---|---|
| `LocksTypes` | `TypeOK` |
| `OrderBreaksCircles` | `NoOtherDeadlock` |

**PayoutRequests.** The ledger and the queue are written in one transaction whose two writes are two
steps here, so what a fulfilment under way has done must be said: `Fulfilments` (its own uncommitted
Payout names its request; once it has swapped, it holds that row's lock and the request is still
outstanding; no two fulfilments share a Payout), and `Saves` (a caller about to save its profile has
recorded the request with that account). `IInv` joins them to `TypeOK`, `LedgerMatchesAnswers`,
`OneOutstanding` and `FailedWasSubmitted`.

| Theorem | States |
|---|---|
| `TypeCorrect` | `TypeOK` |
| `LedgerAgrees` | `LedgerMatchesAnswers` |
| `AtMostOneOutstanding` | `OneOutstanding` |
| `FailuresWereSubmitted` | `FailedWasSubmitted` |
| `AnswersStand` | the action property `EndedStands` |
| `TransfersAreAnswered` | the action property `SubmittedTransferIsAnswered` |
| `ClearedStaysSafe` | the action property `ClearedIsSafe` |
| `ProfileFollowsTheAsk` | the action property `RefusedAskKeepsProfile` |

**Seats.** Two invariants, one on top of the other. `AddressInv` (`TypeOK` with `PendingNamesTheSale`)
says that whatever re-addressing could still be accepted moves away from the address the sale has, so
that accepting it is what leaves a mark in the records. `SeatInv` adds `ClickersKnow` (a reader about to
accept carries the address of the assignment its write will name, or a re-addressing has moved the
seat since), `HolderKnown` and `DisplacedHeld` (who holds, and whom a save is about to tell, once
accepted).

| Theorem | States |
|---|---|
| `TypeCorrect` | `TypeOK` |
| `HolderProved` | `HolderProvedTheAddress` |
| `NamedAnswered` | `NamedTicketIsAnswered` |
| `ToldHeld` | `OnlyHoldersAreTold` |
| `OnePending` | `PendingNamesTheSale` |
| `AcceptedByItsLink` | the action property `AcceptanceHasItsLink` |
| `SaleMovesAlive` | the action property `OnlyALiveSaleMoves` |
| `AcceptedStands` | the action property `AcceptedReAddressingStands` |
| `RationBinds` | `RationHoldsWithoutARace` |
| `OneMailKept` | `OneMailPerAssignment` |
| `LedgerTells` | `LedgerTellsTheSends` |

The mails have invariants of their own. `RationInv` says that a ticket nobody raced for has one save
under way (`SavesAlone`), whose grant was judged by the count it will add to (`GrantedInTime`), so that
the ledger rows of saves, written or about to be, are within the allowance (`SavedWithinRation`). That
counts rows; `RationHoldsWithoutARace` is about the mails themselves and follows with `CountInv`, by
which a mail without a row is in the hands of its sender or is counted in `lost`.
`MailInv` follows an assignment from its number: numbers to come are unused
(`NumbersToCome`); a save about to mail is the only one to mail its number and has not
(`SavesUnsent`); a mark is in the hands of one sweep at most, which mails the assignment it marks
(`SweepsAlone`); and what is still owed, with no sweep at work on it, was mailed only by sweeps that
could not record it (`OwedOnce`). `CountInv` adds to it that mails and ledger agree. The mails about
a ticket are counted as a set of pairs, the i-th copy for the n-th assignment, so that sending
one adds an element; the pairs stay within `Numbers` because every save still to write was granted below
the bound, and there are no more of them than savers (`NumbersSuffice`).

**Invoicing.** Three facts carry `IInv`. What a document's status decides is decided for good
(`authorized` and the dead statuses are never left), so what refers to such a document stays right.
An unsigned document is worked by one round at a time (`LeaseHolds`), so what the round judged by is
still so when it signs (`JudgedRight`). And what the SRI may hold is *in play* on the platform's side,
signed and neither dead nor withdrawn (`HeldIsInPlay`), so it is enough to count what is in play:
of the notes against one factura one may be in play and one may wait (`NotesInOrder`), of the facturas
of the sale one may stand uncredited and one may wait, and then only for the one it supersedes
(`FacturasInOrder`). The two orders are inductive together and not apart: a reissue owes a note and a
factura at once, and a note that dies hands its factura back.

Most steps sign nothing and owe nothing, and only move documents on. The lemma `MovedOn` says that such
a step keeps `IInv`, from what it does to each row (`Moves`, `Heeds`, `Queues`) and each worker
(`Works`); every action but four is an instance of it. Signing (`SignHolds`), reissuing
(`ReissueHolds`), issuing again (`IssueAgainHolds`) and the reversal (`SettleHolds`) are proved by
themselves. The theorems assume nothing but `DocsAssumption` and the other assumptions on constants:
any number of documents, rounds, operators, resends and mishaps.

| Theorem | States |
|---|---|
| `TypeCorrect` | `TypeOK` |
| `OneLiveFactura` | `OneFacturaAtTheAuthority` |
| `OneCredit` | `OneCreditPerFactura` |
| `NotesFollowAuthorized` | `NotesCreditAuthorized` |
| `ReversalUndoes` | `ReversedSaleIsUndone` |
| `TheDeadStayDead` | the action property `DeadStayDead` |
| `HealedReachesTheQueue` | the action property `HealedIsDelivered` |
| `MailedOnceByRounds` | `MailedOnce`, where `Operators = {}` |
| `GivenUpForGood` | its strengthening by `GivenUp` |
| `SaleDocumentsKept` | the refinement `ImplementsSaleDocuments` |

`MailedOnce` needs more than `IInv`: a document under a round is not due and has no other
(`LeaseOfOne`), is not being delivered if it was (`DeliversOnce`), and every mail neither recorded
nor about to be was of a round that died (`MailedBefore`). The first of these is what an operator's
Check status or Resend breaks (section 6), so the theorem supposes that nobody makes one: `Operators`
are the workers who do. All the acts of an operator that are one transaction (Mark annulled,
Abandon, Reissue, Issue again) are still there, as in the run.

The promise of `SaleDocuments` is about what a document is (`Stage`: owed, declared, authorized,
withdrawn, disowned by hand) and forgets leases, ledgers, bytes and mails. It asks of the moment of a write
what a round knew when it judged. For a signature `JudgedRight` already says so; for a
withdrawal it says so of notes only. The refinement therefore adds `GivenUp`: a corrected factura about
to be withdrawn is `Forsaken` still, that is, what it supersedes is authorized and every note against that is
dead. What keeps it is that no act owes a note against that factura meanwhile: a reissue sees
the correction itself in flight, and a reversal withdraws it on the spot (`GivenUpHolds`). Of the steps, those that
move one document on are steps of the promise by what they do to that row
(`OneMovesIsStep`, from `OneMovesOn`, which every per-action lemma above also concludes). Signing,
Mark annulled, Reissue, Issue again and the reversal are mapped one by one; the reversal rests on
`SettlesWhatStands`: what it finds to credit is exactly the factura that stands, at most one.

**Only model-checked:** liveness (`EveryAskEnds`, `AgreedReversalLands`, `QueueDrains`), which TLAPS
cannot prove for want of ENABLED. The statements of the three runs that end in a counterexample
(section 6) are false of the code and have no proof.

The proofs corrected the models in three places. `Outcome` was a CASE whose guards overlapped for a
Payment that is settled and sold, which left its value to the order TLC tries them in; its cases are
now disjoint. `Sorted` and the offer of an Upgrade went through sequences built by recursion, of
which nothing can be proved; the first is now the rising enumeration of its set, the second the one
sale it always was. `Copies` was a recursive sum and is now the size of a set.

## 6. Where the code and its comments disagree

Each of the first three has a run that ends in a counterexample; `PROJECT.json` quotes the lines.

1. **`upgradeCycle`** (`sales/repository/upgrade.go:190`). An Upgrade asks for the free sale's row
   while it holds Ticket Types; a reversal of that sale takes them the other way round.
   PostgreSQL aborts one of them, which may be the commit of an approved Payment.
2. **`lateAging`** (`sales/service/reversal.go:871`). The guard of the ageing write names the claimed
   status, but voiding a sale leaves the status `succeeded`: a run that gives up late hands a settled
   reversal to an operator.
3. **`lostReceipt`** (`invoicing/service/invoice_actions.go:111`). "The artifact the platform holds is
   always the one the authority holds" fails when the answer to a Resend is lost, or the process dies,
   after the authority took the new bytes and before they replace those on file.

`NoOtherDeadlock` shows the complement of 1: every deadlock among these transactions contains
one of four out-of-order acquisitions, whatever the number of transactions and types (that one, a correction that takes a Customer and Ticket Types
after it has reversed, `sales/repository/sale_correct.go:64`, an import that names buyers in its
rows' order, and a cart that lists types in its own order).

The following came up while modelling and are in the models as the code has them; the properties say
what holds instead:

- `sales/service/checkout.go:511`: holds do not protect a Customer on the payment page from another
  BeginCheckout, since the capacity read and the insert are separate statements. Both are sent to
  pay for the last ticket, and the later approval ends as an approved charge without a sale
  (`CommitLeavesHoldsWhole` is what does hold).
- `catalog/service/assignment_link.go:255`: a link's answer is written after the acceptance and looks no
  second time, so an answer may land on a ticket that has meanwhile been given to somebody else
  (against `catalog/repository/ticket_assignment_repository.go:128-142`).
- `catalog/repository/assignment_link_repository.go:118-132`: a re-addressing moves a Self-held seat
  without a new `assigned_at`. A reader of its link who had read it before then seats the earlier
  Customer at the new address. This is the exception `HolderProvedTheAddress` makes; a save of the
  buyer's own address that began before the move does the same.
- `catalog/service/ticket_assignment.go:399`: the comment allows the ration to be off by one under a
  race. A save that read the address as unchanged is exempt from the count and may still change it
  after another save or a purge, as often as this happens; `RationHoldsWithoutARace` is therefore
  stated of tickets where neither occurred. A save that mails and then loses its ledger row leaves
  the count short, and the next save alone may mail one stranger more: each lost row (`lost`) raises
  the bound by one.
- `invoicing/repository/invoice.go:291`: a refusal writes NULL over `next_attempt_at`, which is also the
  lease of a round at work on the document. An operator's Resend or Check that is refused meanwhile
  takes the document out from under it; a later Check that finds it authorized makes it due
  (`DueForDelivery` looks for NULL alone); the round reads it authorized and mails it, and a second
  round claims it and mails it too, before either has marked it. Nothing need fail. This is against
  `invoicing/repository/drainer.go:245-246` ("or under a round's lease, is left exactly as it is").
  `MailedOnce` with `OneDoc`, `TwoRounds`, `OneOperator`, `MaxResends = 1` and `MaxHitches = 0` is
  violated in twenty states; it is therefore checked, and proved, where no operator asks the authority.
- `sales/service/payoutrequest.go:159`: the comment's step 3 saves the profile and its step 4 writes
  the ask; the code does it the other way round, and says why at line 217.
- `docs/adr/0026-...:95`: the cap of an ask is "a guardrail, not an invariant"; and indeed a balance
  may fall under an outstanding ask, so no property denies it.

## 7. What is not modelled

- Whatever `PROJECT.json` lists as `not_modelled`, with the reason; section 8 says what is planned.
- Inside what is modelled: amounts of money and prices (frozen into a Payment's lines, no property
  depends on them), mail bodies, the parsing of import files, authentication and ownership, and
  whatever section 2 names as left out of a module.
- A session lock whose connection dies while its holder's provider call goes on: `Crash` frees the
  lock and ends the holder together.
- Clock skew between instances: there is one clock per model.
- Isolation anomalies within one transaction: a transaction is one step unless a module says
  otherwise; what READ COMMITTED adds to the commit spine is looked at in `CommitLocks`, as plans that
  go stale, and to a fulfilment in `PayoutRequests`, as a row lock held over an uncommitted insert.
- An operator's process that dies between an authorization it polled and the write that makes the
  document due again leaves it off the queue, never mailed. `HealedIsDelivered` excuses such a crash
  (or the database failing the write), and a document in `Unmailable`, which leaves the queue by
  design; nothing else, so that a refused mail must leave its document on the ladder.
- The composition of the modules. The reversal of a sale is `Reversal`'s in full detail, one action of
  `Checkout`, `Invoicing`, `PayoutRequests` and `Seats`; the state they share is the sale's status, and
  each module lets it change at any moment the others could change it.

## 8. Plan

Done: `Checkout` with `PaymentOutcome`; `Reversal` with `RefundPromise`; `CommitLocks`; `Invoicing`
with `SaleDocuments`; `PayoutRequests`; `Seats`; the inductive invariants of all of them and the three refinements.
What comes next, in this order:

| Module | Abstract specification | Properties to state | To prove |
|---|---|---|---|
| `SaleImports`: batch, idempotency key, undo window, correction row by row | a file lands once | a key commits at most once; an undo takes back exactly its batch's active sales | the first |
| `MailQueues`: the weekly digest with its leases and attempts, the reminders that send before they record | at most once / at least once | as their comments say of each | the first |
| `Consent`: answers under racing presses, lineage published meanwhile, with the pending consents of sign-in | what is recorded is what was shown | no withdrawn consent comes back; a pending consent is used once | type and safety |
| `Passcodes`: counted allowances, a challenge superseded while it is verified | bounded guesses | guesses per address and hour | the bound |
| `Questions`: one outstanding review per Event, answers held by a Payment until its commit | | an answer belongs to a question that stood when it was given | |
| `Fees`: prices, fees and net proceeds over bounded amounts | exact reference arithmetic | sums agree to the cent | arithmetic lemmas |

And of what there is: the acceptance of a re-addressing (a sale row, then a Customer) in `CommitLocks`.

## 9. Running it

```
tlc -workers 2 -config Checkout_confirm.cfg MCCheckout
tlc -workers 2 -config Reversal_settles.cfg MCReversal
tlc -workers 2 -config CommitLocks_order.cfg MCCommitLocks
tlc -workers 2 -config Invoicing_documents.cfg MCInvoicing
tlc -workers 2 -config PayoutRequests_queue.cfg MCPayoutRequests
tlc -workers 2 -config Seats_handover.cfg MCSeats
tlapm CheckoutProofs.tla
tlapm PaymentOutcomeProofs.tla
tlapm ReversalProofs.tla
tlapm RefundPromiseProofs.tla
tlapm CommitLocksProofs.tla
tlapm InvoicingProofs.tla
tlapm PayoutRequestsProofs.tla
tlapm SeatsProofs.tla
```

No run takes more than five minutes on two workers. `PROJECT.json` holds the runs, the mutant that
breaks each property, the source lines behind every definition, the hazards and the theorems.
