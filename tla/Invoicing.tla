----------------------------- MODULE Invoicing -----------------------------
(***************************************************************************)
(* The tax documents of one Ticket Sale of a House Organization: the Sale  *)
(* Invoice (factura) owed by its checkout, the Credit Notes and corrected  *)
(* facturas owed afterwards, the Drainer's rounds that sign, submit, poll  *)
(* and mail them, the operator's Check status, Resend, Mark annulled,      *)
(* Abandon, Reissue and Issue again, and the Sale's reversal, which may    *)
(* come at any moment between two steps of any of them.                    *)
(*                                                                         *)
(* A transaction of the code is one action.  A round is several: it claims *)
(* a document under a lease, asks the Tax Authority with no row locked,    *)
(* and writes what it learnt guarded on the status it read.  The Tax       *)
(* Authority (the SRI) is modelled by what the adapter in sri/authority.go *)
(* reads of it.  Money, recipients and the texts of the messages are left  *)
(* out; of the messages only the refusal by number (45) is kept.           *)
(***************************************************************************)
EXTENDS Naturals, FiniteSets

CONSTANTS Docs,        \* document ids, in the order they are handed out
          NoDoc,       \* no document: a null reference
          Rounds,      \* Drainer rounds that may run at once
          Operators,   \* operators with a Check status or a Resend under way
          Unmailable,  \* documents no mail can be made of: no Sale facts, or no RIDE
          MaxBytes,    \* a document is signed at most this often (resends re-sign)
          MaxResends,  \* Resend is pressed at most this often
          MaxHitches   \* lost answers, refused mails, failed signings, crashes

ASSUME DocsAssumption == Docs \subseteq Nat /\ NoDoc \notin Docs /\ Unmailable \subseteq Docs
ASSUME WorkersAssumption == Rounds \cap Operators = {}
ASSUME BoundsAssumption == MaxBytes \in Nat \ {0} /\ MaxResends \in Nat /\ MaxHitches \in Nat

VARIABLES sale,       \* the Ticket Sale's status
          rows,       \* invoicing_invoices, one row per document
          authority,  \* what the SRI holds under each document's clave
          work,       \* what each round or operator's request is doing
          resends,    \* Check status and Resend so far
          mails,      \* how often each document was handed to the mail sender
          hitches     \* adverse events so far

vars == <<sale, rows, authority, work, resends, mails, hitches>>

Workers == Rounds \cup Operators

----------------------------------------------------------------------------
(* Rows.  "file" numbers the signed bytes on file, 0 while signed_xml is   *)
(* NULL; "next" is next_attempt_at: NULL, due, or later (a rung of the     *)
(* ladder or a lease); "last" is the newest attempt of the ledger and      *)
(* "acked" whether a submit of it came back received.                      *)

Undecided == {"owed", "pending", "needs_attention"}
Dead == {"withdrawn", "annulled", "abandoned"}
Statuses == {"absent", "authorized"} \cup Undecided \cup Dead

Attempts == {"none", "lost", "sent", "turned_down", "asked", "answered"}

Row == [kind: {"sale", "credit_note"}, status: Statuses, file: 0..MaxBytes,
        next: {"null", "due", "later"}, credits: Docs \cup {NoDoc},
        supersedes: Docs \cup {NoDoc}, acked: BOOLEAN, last: Attempts,
        byNumber: BOOLEAN, delivered: BOOLEAN, aged: BOOLEAN]

AbsentRow == [kind |-> "sale", status |-> "absent", file |-> 0, next |-> "null",
              credits |-> NoDoc, supersedes |-> NoDoc, acked |-> FALSE,
              last |-> "none", byNumber |-> FALSE, delivered |-> FALSE, aged |-> FALSE]

\* OweInvoice: a document minus everything that needs an Issuer, due at once.
OwedSale(old) == [AbsentRow EXCEPT !.status = "owed", !.next = "due", !.supersedes = old]
OwedNote(f) == [AbsentRow EXCEPT !.kind = "credit_note", !.status = "owed",
                                 !.next = "due", !.credits = f]

Signed(d) == rows[d].file # 0
NotesAgainst(f) == {c \in Docs : rows[c].kind = "credit_note" /\ rows[c].credits = f
                                 /\ rows[c].status # "absent"}
LiveNotesAgainst(f) == {c \in NotesAgainst(f) : rows[c].status \in Undecided}
CreditedByAuthorized(f) == \E c \in NotesAgainst(f) : rows[c].status = "authorized"
HasLiveSuccessor(f) == \E s \in Docs : /\ rows[s].supersedes = f
                                       /\ rows[s].status \notin Dead \cup {"absent"}

\* New ids: rows of status absent, the lowest first.
Fresh(S) == /\ S \subseteq {d \in Docs : rows[d].status = "absent"}
            /\ \A d \in S, e \in Docs \ S : rows[e].status = "absent" => d < e

----------------------------------------------------------------------------
(* Workers *)

Idle == [pc |-> "idle", doc |-> NoDoc, from |-> "absent", bytes |-> 0, answer |-> "none"]
Steps == {"idle", "judge", "withdraw", "sign", "submit", "poll", "apply", "replace",
          "settle", "deliver", "mark", "due"}
Answers == {"none", "received", "already_held", "unknown", "authorized", "refused", "number"}

Worker == [pc: Steps, doc: Docs \cup {NoDoc}, from: Statuses, bytes: 0..MaxBytes,
           answer: Answers]

At(w, pc) == work[w].pc = pc
Doc(w) == work[w].doc
Goes(w, pc) == work' = [work EXCEPT ![w].pc = pc]
Ends(w) == work' = [work EXCEPT ![w] = Idle]

\* After its answer a round settles the row; an operator's request makes a healed
\* document due.
Wraps(w) == IF w \in Rounds THEN "settle" ELSE "due"

Hitch == hitches < MaxHitches /\ hitches' = hitches + 1

----------------------------------------------------------------------------
(* The Tax Authority, as the adapter reads it: nothing under the clave     *)
(* ("none", also after a DEVUELTA), taken and undecided, authorized,       *)
(* NO AUTORIZADO ("denied"), annulled at its portal, or the number refused.*)

AuthorityStates == {"none", "held", "authorized", "denied", "annulled", "number"}

\* What recepcion answers to these bytes, and what it then holds.
SubmitAnswers(d, bytes) ==
    CASE authority[d].state \in {"none", "denied"} ->
            {<<"received", [state |-> "held", bytes |-> bytes]>>,
             <<"refused", authority[d]>>}
            \cup IF authority[d].state = "none"
                 THEN {<<"number", [state |-> "number", bytes |-> 0]>>} ELSE {}
      [] authority[d].state = "number" -> {<<"number", authority[d]>>}
      [] OTHER -> {<<"already_held", authority[d]>>}

\* What autorizacion answers about the clave.  An annulled document is a state the
\* adapter does not know and reads as an error.
QueryAnswer(d) == CASE authority[d].state \in {"none", "number"} -> "unknown"
                    [] authority[d].state = "held" -> "received"
                    [] authority[d].state = "authorized" -> "authorized"
                    [] authority[d].state = "denied" -> "refused"
                    [] OTHER -> "error"

\* The SRI decides about a document it holds.
AuthorityDecides(d) ==
    /\ authority[d].state = "held"
    /\ \E verdict \in {"authorized", "denied"} :
          authority' = [authority EXCEPT ![d].state = verdict]
    /\ UNCHANGED <<sale, rows, work, mails, hitches, resends>>

\* An operator annuls, by hand at the SRI's portal, a document it holds and the
\* platform does not know to be authorized: what Mark annulled then records.
PortalAnnuls(d) ==
    /\ authority[d].state \in {"held", "authorized"}
    /\ rows[d].status \in {"pending", "needs_attention"}
    /\ authority' = [authority EXCEPT ![d].state = "annulled"]
    /\ UNCHANGED <<sale, rows, work, mails, hitches, resends>>

----------------------------------------------------------------------------
(* Writes of the repository.  Each is guarded on the status the writer     *)
(* read; a write that finds the row moved changes nothing.                 *)

\* undecidedStatus: pending, or needs_attention once 24 h have passed since signing.
\* The hours pass without a step of their own: a write finds the document aged, which
\* is a hitch the first time.
Ageing(d, aged) == IF rows[d].aged THEN aged /\ UNCHANGED hitches
                   ELSE IF aged THEN Hitch ELSE UNCHANGED hitches
UndecidedRow(row, aged) ==
    [row EXCEPT !.status = IF aged THEN "needs_attention" ELSE "pending",
                !.aged = aged, !.next = "later"]

\* Mutant: the write no longer names the status it moves from.
RescheduleUnguarded(d, from, row) == rows' = [rows EXCEPT ![d] = row]

Reschedule(d, from, row) ==
    rows' = IF rows[d].status = from THEN [rows EXCEPT ![d] = row] ELSE rows

\* Mutant: the authority's own word is filed as the status.
OutcomeAsAnswered(row, answer, aged) ==
    CASE answer = "authorized" -> [row EXCEPT !.status = "authorized", !.byNumber = FALSE]
      [] answer \in {"refused", "number"} ->
            [row EXCEPT !.status = answer, !.next = "null", !.byNumber = (answer = "number")]
      [] OTHER -> [UndecidedRow(row, aged) EXCEPT !.byNumber = FALSE]

\* Mutant: the lease is let go with the authorization, before the mail.
OutcomeReleasesLease(row, answer, aged) ==
    CASE answer = "authorized" ->
            [row EXCEPT !.status = "authorized", !.next = "due", !.byNumber = FALSE]
      [] answer \in {"refused", "number"} ->
            [row EXCEPT !.status = "needs_attention", !.next = "null",
                        !.byNumber = (answer = "number")]
      [] OTHER -> [UndecidedRow(row, aged) EXCEPT !.byNumber = FALSE]

\* What applyOutcome makes of the row.  An authorized document keeps its due time.
OutcomeRow(row, answer, aged) ==
    CASE answer = "authorized" -> [row EXCEPT !.status = "authorized", !.byNumber = FALSE]
      [] answer \in {"refused", "number"} ->
            [row EXCEPT !.status = "needs_attention", !.next = "null",
                        !.byNumber = (answer = "number")]
      [] OTHER -> [UndecidedRow(row, aged) EXCEPT !.byNumber = FALSE]

\* Mutant: a query counts as an acknowledgement too.
RecordAttemptAcksQueries(d, attempt) ==
    [rows EXCEPT ![d].last = attempt, ![d].acked = @ \/ attempt \in {"sent", "asked"}]

RecordAttempt(d, attempt) ==
    [rows EXCEPT ![d].last = attempt, ![d].acked = @ \/ attempt = "sent"]

----------------------------------------------------------------------------
(* The Drainer's rounds *)

\* A note waits for its factura to be terminal and for its sibling's answer.
NoteMayBeWorked(d) ==
    /\ rows[rows[d].credits].status \in Dead \cup {"authorized"}
    /\ \A o \in NotesAgainst(rows[d].credits) \ {d} :
          rows[o].status \notin {"pending", "needs_attention"}

\* A corrected factura waits until no note against what it supersedes is undecided.
CorrectedMayBeWorked(d) == LiveNotesAgainst(rows[d].supersedes) = {}

Claimable(d) ==
    /\ rows[d].next = "due"
    /\ rows[d].status \in Undecided \/ (rows[d].status = "authorized" /\ ~rows[d].delivered)
    /\ rows[d].kind = "credit_note" /\ ~Signed(d) => NoteMayBeWorked(d)
    /\ rows[d].supersedes # NoDoc /\ ~Signed(d) => CorrectedMayBeWorked(d)

\* A due time passes.  A round ends within its lease, and within a rung of the ladder.
TimePasses(d) ==
    /\ rows[d].next = "later"
    /\ \A w \in Rounds : Doc(w) # d
    /\ rows' = [rows EXCEPT ![d].next = "due"]
    /\ UNCHANGED <<sale, authority, work, mails, hitches, resends>>

\* workSaleInvoice: deliver what is authorized, judge what is unsigned, poll what
\* a submit acknowledged, send the rest again.
FirstStep(d) == CASE rows[d].status = "authorized" -> "deliver"
                  [] rows[d].status # "authorized" /\ ~Signed(d) -> "judge"
                  [] rows[d].status # "authorized" /\ Signed(d) /\ rows[d].acked -> "poll"
                  [] OTHER -> "submit"

ClaimDueInvoice(w, d) ==
    /\ w \in Rounds /\ At(w, "idle")
    /\ Claimable(d)
    /\ rows' = [rows EXCEPT ![d].next = "later"]
    /\ work' = [work EXCEPT ![w] =
          [Idle EXCEPT !.pc = FirstStep(d), !.doc = d, !.from = rows[d].status,
                       !.bytes = IF FirstStep(d) = "submit" THEN rows[d].file ELSE 0]]
    /\ UNCHANGED <<sale, authority, mails, hitches, resends>>

\* Mutant: the other notes against the factura are not looked at.
JudgedByFactura(d) ==
    CASE rows[rows[d].credits].status \in Dead -> "withdraw"
      [] rows[rows[d].credits].status = "authorized" -> "sign"
      [] OTHER -> "idle"

\* Mutant: nor is the factura.
JudgedBySiblings(d) ==
    LET siblings == {rows[o].status : o \in NotesAgainst(rows[d].credits) \ {d}} IN
    CASE siblings \cap {"pending", "needs_attention"} # {} -> "idle"
      [] siblings \cap {"pending", "needs_attention", "authorized"} = {"authorized"} -> "withdraw"
      [] OTHER -> "sign"

\* What a round decides about an unsigned note: from its factura, then from the other
\* notes against it.
JudgedNote(d) ==
    LET factura == rows[rows[d].credits].status
        siblings == {rows[o].status : o \in NotesAgainst(rows[d].credits) \ {d}}
        unanswered == siblings \cap {"pending", "needs_attention"} # {}
        credited == "authorized" \in siblings
    IN CASE factura \in Dead -> "withdraw"
         [] factura = "authorized" /\ ~unanswered /\ credited -> "withdraw"
         [] factura = "authorized" /\ ~unanswered /\ ~credited -> "sign"
         [] OTHER -> "idle"

\* Mutant: one that replaces a dead document is read as a correction whose note died.
JudgedAsCorrection(d) ==
    LET old == rows[d].supersedes IN
    CASE old = NoDoc -> "sign"
      [] old # NoDoc /\ CreditedByAuthorized(old) -> "sign"
      [] old # NoDoc /\ ~CreditedByAuthorized(old) /\ LiveNotesAgainst(old) # {} -> "idle"
      [] OTHER -> "withdraw"

\* About an unsigned factura that supersedes another: one that replaces a dead
\* document waits for nothing, one that corrects a factura follows its note.
JudgedFactura(d) ==
    LET old == rows[d].supersedes IN
    CASE old = NoDoc -> "sign"
      [] old # NoDoc /\ rows[old].status \in Dead -> "sign"
      [] old # NoDoc /\ rows[old].status \notin Dead /\ CreditedByAuthorized(old) -> "sign"
      [] old # NoDoc /\ rows[old].status \notin Dead /\ ~CreditedByAuthorized(old)
            /\ LiveNotesAgainst(old) # {} -> "idle"
      [] OTHER -> "withdraw"

Judge(w) ==
    /\ At(w, "judge")
    /\ LET d == Doc(w)
           next == IF rows[d].kind = "credit_note" THEN JudgedNote(d) ELSE JudgedFactura(d)
       IN IF next = "idle" THEN Ends(w) ELSE Goes(w, next)
    /\ UNCHANGED <<sale, rows, authority, mails, hitches, resends>>

WithdrawUnsigned(w) ==
    /\ At(w, "withdraw")
    /\ Reschedule(Doc(w), work[w].from,
                  [rows[Doc(w)] EXCEPT !.status = "withdrawn", !.next = "null"])
    /\ Ends(w)
    /\ UNCHANGED <<sale, authority, mails, hitches, resends>>

\* One transaction allocates the number and signs.  A row that is signed or withdrawn
\* by then takes its number back with it.
SignOwedInvoice(w) ==
    /\ At(w, "sign")
    /\ LET d == Doc(w) IN
       IF ~Signed(d) /\ rows[d].status \in {"owed", "needs_attention"}
       THEN /\ rows' = [rows EXCEPT ![d].status = "pending", ![d].file = 1]
            /\ work' = [work EXCEPT ![w].pc = "submit", ![w].from = "pending", ![w].bytes = 1]
       ELSE UNCHANGED rows /\ Ends(w)
    /\ UNCHANGED <<sale, authority, mails, hitches, resends>>

\* No Issuer, no certificate, an expired one: parked, unsigned, and tried again.
ParkUnsignable(w) ==
    /\ At(w, "sign") /\ Hitch
    /\ Reschedule(Doc(w), work[w].from,
                  [rows[Doc(w)] EXCEPT !.status = "needs_attention", !.next = "later"])
    /\ Ends(w)
    /\ UNCHANGED <<sale, authority, mails, resends>>

\* The document reaches the authority, and its answer the ledger.
Submit(w) ==
    /\ At(w, "submit")
    /\ \E answer \in SubmitAnswers(Doc(w), work[w].bytes) :
          /\ authority' = [authority EXCEPT ![Doc(w)] = answer[2]]
          /\ rows' = RecordAttempt(Doc(w), IF answer[1] \in {"received", "already_held"}
                                           THEN "sent" ELSE "turned_down")
          /\ work' = [work EXCEPT ![w].pc = "apply", ![w].answer = answer[1]]
    /\ UNCHANGED <<sale, mails, hitches, resends>>

\* The call dies before the authority or after it: the ledger holds an error.
SubmitLost(w) ==
    /\ At(w, "submit") /\ Hitch
    /\ \E taken \in {authority[Doc(w)]}
                    \cup {a[2] : a \in SubmitAnswers(Doc(w), work[w].bytes)} :
          authority' = [authority EXCEPT ![Doc(w)] = taken]
    /\ rows' = RecordAttempt(Doc(w), "lost")
    /\ Goes(w, Wraps(w))
    /\ UNCHANGED <<sale, mails, resends>>

\* One query.  A decision is applied.  An undecided answer is applied only by the
\* round that came to poll: after a submit it is the next ask's, in a check nobody's.
Poll(w) ==
    /\ At(w, "poll")
    /\ QueryAnswer(Doc(w)) # "error"
    /\ LET answer == QueryAnswer(Doc(w))
           decided == answer \in {"authorized", "refused"}
       IN /\ rows' = RecordAttempt(Doc(w), IF decided THEN "answered" ELSE "asked")
          /\ work' = [work EXCEPT
                ![w].pc = IF decided \/ (w \in Rounds /\ work[w].bytes = 0)
                          THEN "apply" ELSE Wraps(w),
                ![w].answer = answer]
    /\ UNCHANGED <<sale, authority, mails, hitches, resends>>

PollLost(w) ==
    /\ At(w, "poll")
    /\ IF QueryAnswer(Doc(w)) = "error" THEN UNCHANGED hitches ELSE Hitch
    /\ rows' = RecordAttempt(Doc(w), "lost")
    /\ Goes(w, Wraps(w))
    /\ UNCHANGED <<sale, authority, mails, resends>>

\* ApplyOutcome: guarded on the status the worker last read or wrote.
ApplyOutcome(w) ==
    /\ At(w, "apply")
    /\ LET d == Doc(w)
           answer == work[w].answer
           taken == answer = "received" /\ work[w].bytes # 0
           next == CASE taken /\ w \in Operators -> "replace"
                     [] taken /\ w \in Rounds -> "poll"
                     [] answer = "already_held" -> "poll"
                     [] OTHER -> Wraps(w)
       IN \E aged \in BOOLEAN :
             LET row == OutcomeRow(rows[d], answer, aged) IN
             /\ Ageing(d, aged)
             /\ Reschedule(d, work[w].from, row)
             /\ work' = [work EXCEPT ![w].pc = next,
                   ![w].from = IF rows[d].status = @ THEN row.status ELSE @]
    /\ UNCHANGED <<sale, authority, mails, resends>>

\* settleRound: an undecided document goes on the ladder, an authorized one is
\* delivered, and whatever was refused or killed is left as it is.
SettleRound(w) ==
    /\ At(w, "settle")
    /\ LET d == Doc(w)
           undecided == \/ rows[d].status = "pending"
                        \/ /\ rows[d].status = "needs_attention"
                           /\ rows[d].last \in {"lost", "sent", "asked"}
       IN /\ \/ /\ undecided
                /\ \E aged \in BOOLEAN :
                      /\ Ageing(d, aged)
                      /\ rows' = [rows EXCEPT ![d] = UndecidedRow(rows[d], aged)]
             \/ ~undecided /\ UNCHANGED <<rows, hitches>>
          /\ IF rows[d].status = "authorized" /\ ~rows[d].delivered
             THEN Goes(w, "deliver") ELSE Ends(w)
    /\ UNCHANGED <<sale, authority, mails, resends>>

\* The mail is handed over; the record of it is a later write.
DeliverDocument(w) ==
    /\ At(w, "deliver") /\ Doc(w) \notin Unmailable
    /\ mails' = [mails EXCEPT ![Doc(w)] = @ + 1]
    /\ Goes(w, "mark")
    /\ UNCHANGED <<sale, rows, authority, hitches, resends>>

\* The mail server refuses: delivery alone is tried again, on the ladder.
DeliveryRefused(w) ==
    /\ At(w, "deliver") /\ Doc(w) \notin Unmailable /\ Hitch
    /\ Reschedule(Doc(w), "authorized", [rows[Doc(w)] EXCEPT !.next = "later"])
    /\ Ends(w)
    /\ UNCHANGED <<sale, authority, mails, resends>>

\* Nothing a retry would change: the document stays authorized and leaves the queue.
DeliveryImpossible(w) ==
    /\ At(w, "deliver") /\ Doc(w) \in Unmailable
    /\ Reschedule(Doc(w), "authorized", [rows[Doc(w)] EXCEPT !.next = "null"])
    /\ Ends(w)
    /\ UNCHANGED <<sale, authority, mails, hitches, resends>>

MarkDelivered(w) ==
    /\ At(w, "mark")
    /\ rows' = IF rows[Doc(w)].delivered THEN rows
               ELSE [rows EXCEPT ![Doc(w)].delivered = TRUE, ![Doc(w)].next = "null"]
    /\ Ends(w)
    /\ UNCHANGED <<sale, authority, mails, hitches, resends>>

\* The process dies between two steps, or the database fails it; what it wrote stays.
Crash(w) ==
    /\ ~At(w, "idle") /\ Hitch
    /\ Ends(w)
    /\ UNCHANGED <<sale, rows, authority, mails, resends>>

----------------------------------------------------------------------------
(* The operator's acts *)

Actionable(d) == /\ rows[d].status \in {"pending", "needs_attention"}
                 /\ Signed(d)

CheckInvoice(w, d) ==
    /\ w \in Operators /\ At(w, "idle")
    /\ Actionable(d)
    /\ work' = [work EXCEPT ![w] = [Idle EXCEPT !.pc = "poll", !.doc = d,
                                                !.from = rows[d].status]]
    /\ UNCHANGED <<sale, rows, authority, mails, hitches, resends>>

\* Signed afresh under the same number; never where the number was refused.
ResendInvoice(w, d) ==
    /\ w \in Operators /\ At(w, "idle")
    /\ Actionable(d) /\ ~rows[d].byNumber
    /\ rows[d].file < MaxBytes
    /\ resends < MaxResends /\ resends' = resends + 1
    /\ work' = [work EXCEPT ![w] = [Idle EXCEPT !.pc = "submit", !.doc = d,
                   !.from = rows[d].status, !.bytes = rows[d].file + 1]]
    /\ UNCHANGED <<sale, rows, authority, mails, hitches>>

\* The bytes on file are replaced once the authority took the resend.
ReplaceSignedDocument(w) ==
    /\ At(w, "replace")
    /\ rows' = [rows EXCEPT ![Doc(w)].file = work[w].bytes]
    /\ Goes(w, "poll")
    /\ UNCHANGED <<sale, authority, mails, hitches, resends>>

\* Mutant: a healed document is left off the queue.
HealedStaysOff(w) ==
    /\ At(w, "due")
    /\ Ends(w)
    /\ UNCHANGED <<sale, rows, authority, mails, hitches, resends>>

\* A healed document that is off the queue is made due for its delivery.
DueForDelivery(w) ==
    /\ At(w, "due")
    /\ LET row == rows[Doc(w)] IN
       rows' = IF row.status = "authorized" /\ ~row.delivered /\ row.next = "null"
               THEN [rows EXCEPT ![Doc(w)].next = "due"] ELSE rows
    /\ Ends(w)
    /\ UNCHANGED <<sale, authority, mails, hitches, resends>>

\* Mark annulled records what was done at the portal.  A dead note takes the unsigned
\* successor of its factura with it.
Successors(d) == {s \in Docs : /\ rows[s].kind = "sale" /\ rows[s].supersedes = rows[d].credits
                               /\ rows[s].status \in {"owed", "needs_attention"} /\ ~Signed(s)}

Annullable(d) == Actionable(d) /\ ~(rows[d].byNumber /\ rows[d].status = "needs_attention")

AnnulInvoice(d) ==
    /\ Annullable(d)
    /\ authority[d].state = "annulled"
    /\ LET taken == IF rows[d].kind = "credit_note" THEN Successors(d) ELSE {} IN
       rows' = [e \in Docs |->
          IF e = d THEN [rows[e] EXCEPT !.status = "annulled", !.next = "null"]
          ELSE IF e \in taken THEN [rows[e] EXCEPT !.status = "withdrawn", !.next = "null"]
          ELSE rows[e]]
    /\ UNCHANGED <<sale, authority, work, mails, hitches, resends>>

\* Abandon: refused by number, and the newest attempt a query that was answered.
Abandonable(d) == /\ rows[d].status = "needs_attention" /\ Signed(d)
                  /\ rows[d].byNumber
                  /\ rows[d].last \in {"asked", "answered"}

AbandonInvoice(d) ==
    /\ Abandonable(d)
    /\ rows' = [rows EXCEPT ![d].status = "abandoned", ![d].next = "null"]
    /\ UNCHANGED <<sale, authority, work, mails, hitches, resends>>

\* A reissue in flight: a corrected factura, or a note, still undecided.  Before the
\* Sale is reversed every note is a reissue's.
ReissueInFlight ==
    \E x \in Docs : /\ rows[x].status \in Undecided
                    /\ rows[x].kind = "credit_note" \/ rows[x].supersedes # NoDoc

Reissuable(f) == /\ rows[f].kind = "sale" /\ rows[f].status = "authorized"
                 /\ sale = "committed"
                 /\ ~ReissueInFlight /\ ~HasLiveSuccessor(f) /\ ~CreditedByAuthorized(f)

ReissueSaleInvoice(f) ==
    /\ Reissuable(f)
    /\ \E note, corrected \in Docs :
          /\ note < corrected /\ Fresh({note, corrected})
          /\ rows' = [rows EXCEPT ![note] = OwedNote(f), ![corrected] = OwedSale(f)]
    /\ UNCHANGED <<sale, authority, work, mails, hitches, resends>>

\* Mutant: only the document's own successor is asked for.
NoOtherFacturaLooked == FALSE

\* One factura stands for the Sale: not dead, not succeeded, not credited.
SaleHasLiveFactura ==
    \E f \in Docs : /\ rows[f].kind = "sale" /\ rows[f].status \notin Dead \cup {"absent"}
                    /\ ~HasLiveSuccessor(f) /\ ~CreditedByAuthorized(f)

IssuableAgain(f) == /\ rows[f].kind = "sale" /\ rows[f].status \in {"abandoned", "annulled"}
                    /\ sale = "committed"
                    /\ ~HasLiveSuccessor(f) /\ ~SaleHasLiveFactura

IssueSaleInvoiceAgain(f) ==
    /\ IssuableAgain(f)
    /\ \E d \in Docs : Fresh({d}) /\ rows' = [rows EXCEPT ![d] = OwedSale(f)]
    /\ UNCHANGED <<sale, authority, work, mails, hitches, resends>>

----------------------------------------------------------------------------
(* The Sale's reversal settles its documents in its own transaction. *)

\* Sent, and neither disowned nor given up: a factura there may be something to credit.
ToSettle == {f \in Docs : /\ rows[f].kind = "sale" /\ Signed(f)
                          /\ rows[f].status \notin {"annulled", "abandoned"}}
NeverSent == {d \in Docs : /\ rows[d].status # "absent" /\ ~Signed(d)
                           /\ rows[d].kind = "sale" \/ rows[d].credits \in ToSettle}
\* Mutant: any note against a factura spares it another, an unsent one too.
ToCreditWithoutNotes == {f \in ToSettle : NotesAgainst(f) = {}}

ToCredit == {f \in ToSettle : ~CreditedByAuthorized(f)}

SettleReversedSale ==
    /\ sale = "committed"
    /\ sale' = "reversed"
    /\ \E noteOf \in [ToCredit -> Docs] :
          /\ Fresh({noteOf[f] : f \in ToCredit})
          /\ \A f, g \in ToCredit : f # g => noteOf[f] # noteOf[g]
          /\ rows' = [d \in Docs |->
                IF d \in NeverSent THEN [rows[d] EXCEPT !.status = "withdrawn", !.next = "null"]
                ELSE IF \E f \in ToCredit : noteOf[f] = d
                THEN OwedNote(CHOOSE f \in ToCredit : noteOf[f] = d)
                ELSE rows[d]]
    /\ UNCHANGED <<authority, work, mails, hitches, resends>>

----------------------------------------------------------------------------
\* The checkout's transaction owes the first factura (OwePaidOnlineSale).
Init ==
    /\ sale = "committed"
    /\ \E first \in Docs :
          /\ \A d \in Docs : first <= d
          /\ rows = [d \in Docs |-> IF d = first THEN OwedSale(NoDoc) ELSE AbsentRow]
    /\ authority = [d \in Docs |-> [state |-> "none", bytes |-> 0]]
    /\ work = [w \in Workers |-> Idle]
    /\ resends = 0
    /\ mails = [d \in Docs |-> 0]
    /\ hitches = 0

RoundStep(w) ==
    \/ \E d \in Docs : ClaimDueInvoice(w, d)
    \/ Judge(w) \/ WithdrawUnsigned(w) \/ SignOwedInvoice(w)
    \/ Submit(w) \/ Poll(w) \/ PollLost(w) \/ ApplyOutcome(w)
    \/ SettleRound(w) \/ DeliverDocument(w) \/ DeliveryImpossible(w) \/ MarkDelivered(w)

OperatorStep(w) == ReplaceSignedDocument(w) \/ DueForDelivery(w)

Mishap(w) == \/ ParkUnsignable(w) \/ SubmitLost(w) \/ DeliveryRefused(w) \/ Crash(w)

OperatorPress ==
    \/ \E w \in Operators, d \in Docs : CheckInvoice(w, d) \/ ResendInvoice(w, d)
    \/ \E d \in Docs : \/ AnnulInvoice(d) \/ AbandonInvoice(d)
                       \/ ReissueSaleInvoice(d) \/ IssueSaleInvoiceAgain(d)

Next ==
    \/ \E w \in Workers : RoundStep(w) \/ OperatorStep(w) \/ Mishap(w)
    \/ \E d \in Docs : AuthorityDecides(d) \/ PortalAnnuls(d) \/ TimePasses(d)
    \/ OperatorPress
    \/ SettleReversedSale

Spec == Init /\ [][Next]_vars

\* The scheduler ticks the drain and a round runs to its end; a due time passes; the
\* authority decides what it holds.  No press and no reversal is ever owed.
Fairness ==
    /\ \A w \in Workers : WF_vars(RoundStep(w)) /\ WF_vars(OperatorStep(w))
    /\ \A d \in Docs : WF_vars(TimePasses(d)) /\ WF_vars(AuthorityDecides(d))

FairSpec == Spec /\ Fairness

----------------------------------------------------------------------------
(* What must hold *)

\* Every row, authority record and worker has the shape the schema and code give it.
TypeOK ==
    /\ sale \in {"committed", "reversed"}
    /\ rows \in [Docs -> Row]
    /\ authority \in [Docs -> [state: AuthorityStates, bytes: 0..MaxBytes]]
    /\ work \in [Workers -> Worker]
    /\ resends \in 0..MaxResends
    /\ mails \in [Docs -> Nat]
    /\ hitches \in 0..MaxHitches

HeldThere(d) == authority[d].state \in {"held", "authorized"}

\* The SRI sees the cancellation before the replacement (drainer.go, ADR 0061): of two
\* facturas of one Sale it holds or authorized, the platform knows one credited.
OneFacturaAtTheAuthority ==
    \A f, g \in Docs :
        f # g /\ rows[f].kind = "sale" /\ rows[g].kind = "sale" /\ HeldThere(f) /\ HeldThere(g)
        => CreditedByAuthorized(f) \/ CreditedByAuthorized(g)

\* One Credit Note per factura reaches the authority, whatever a reversal and a reissue
\* owe against it at once.
OneCreditPerFactura ==
    \A f \in Docs : \A c, e \in NotesAgainst(f) : HeldThere(c) /\ HeldThere(e) => c = e

\* A signed Credit Note names a factura that is authorized and stays so.
NotesCreditAuthorized ==
    \A f \in Docs : \A c \in NotesAgainst(f) : Signed(c) => rows[f].status = "authorized"

\* A reversed Sale is never declared again: nothing unsigned of it is a live factura, and
\* what was signed is dead, credited, being credited, or its note was disowned by hand.
ReversedSaleIsUndone ==
    sale = "reversed" =>
        \A f \in Docs : rows[f].kind = "sale" /\ rows[f].status \notin Dead \cup {"absent"} =>
            /\ Signed(f)
            /\ \E c \in NotesAgainst(f) : rows[c].status # "withdrawn"

\* Whoever lets go of an authorized document that nobody mailed leaves it on the queue,
\* unless it dies or no mail can be made of the document (delivery.go:25-31): what is
\* healed off the queue would else never be delivered.
HealedIsDelivered ==
    [][\A w \in Workers, d \in Docs :
          Doc(w) = d /\ Doc(w)' # d /\ d \notin Unmailable /\ ~Crash(w)
          => ~(rows'[d].status = "authorized" /\ ~rows'[d].delivered /\ rows'[d].next = "null")]_vars

\* The buyer is mailed a document once, but for a crash between the mail and its record:
\* the lease keeps an authorized document with the round that is to deliver it, as long as
\* no operator asks the authority about it.  (Any mishap raises the bound, though only
\* that crash needs it.)
MailedOnce == \A d \in Docs : mails[d] <= 1 + hitches

\* The document on file is always the one the authority holds (invoice_actions.go:28), once
\* no operator's request is at work on it.
ArtifactIsTheOneHeld ==
    \A d \in Docs : rows[d].status = "authorized" /\ (\A w \in Operators : Doc(w) # d)
                    => rows[d].file = authority[d].bytes

\* A dead document is never resurrected, by whatever round or request began before it died.
DeadStayDead ==
    [][\A d \in Docs : rows[d].status \in Dead => rows'[d].status = rows[d].status]_vars

\* The documents keep the promise SaleDocuments states, whatever was judged in one step
\* of a round and signed or withdrawn in a later one.
Stage(d) ==
    CASE rows[d].status \in Undecided -> IF Signed(d) THEN "declared" ELSE "owed"
      [] rows[d].status = "absent" -> "blank"
      [] rows[d].status \in {"annulled", "abandoned"} -> "disowned"
      [] OTHER -> rows[d].status

SD == INSTANCE SaleDocuments WITH
        stage <- [d \in Docs |-> Stage(d)],
        credits <- [d \in Docs |-> rows[d].credits],
        replaces <- [d \in Docs |-> rows[d].supersedes]

ImplementsSaleDocuments == SD!Spec

\* The operator's turn: a refusal parked for them, or an annulment at the portal that
\* nobody recorded.
OperatorsTurn ==
    \E d \in Docs : \/ rows[d].status = "needs_attention" /\ rows[d].next = "null"
                    \/ authority[d].state = "annulled" /\ rows[d].status \in Undecided

\* What is on the queue leaves it, decided and delivered, unless an operator is awaited.
QueueDrains ==
    \A d \in Docs : rows[d].next # "null" ~> rows[d].next = "null" \/ OperatorsTurn
=============================================================================
