-------------------------------- MODULE Seats --------------------------------
(***************************************************************************)
(* Who holds the tickets of one sale: the buyer names a Holder for each    *)
(* ticket, an Assignment Link mailed to the address makes its reader the   *)
(* Holder, a Platform Operator re-addresses the sale when the buyer's own  *)
(* address was mistyped, the sale may be reversed, and once the doors open *)
(* the addresses nobody proved are purged.                                 *)
(*                                                                         *)
(* AssignOwnTicket is a read, a transaction, a mail and a ledger row; the  *)
(* link a read, a guarded write and an answer; a re-addressing a read and  *)
(* a transaction at each end; the sweep of owed mails a claim, a send and  *)
(* a record.  Everything else is one statement.  A handler that finds its  *)
(* guard false writes nothing, and is no step here.                        *)
(*                                                                         *)
(* A Customer is its address (customers.email is unique, and a proof of an *)
(* address mints or matches its Customer); assigned_at is the number of    *)
(* the ticket's assignment, so two assignments never share an instant.     *)
(* The answers are one, and stand for whom they were given.  Left out: the *)
(* buyer's hourly window, which only refuses more saves; names, locales    *)
(* and the bodies of mails; the answers staff and Customer Area give.      *)
(***************************************************************************)
EXTENDS Integers, FiniteSets

CONSTANTS Tickets, Addresses,
          SoldTo,          \* the address the sale was sold to
          NoOne,           \* a NULL address, Customer or answer
          Savers,          \* AssignOwnTicket calls of the buyer's under way at once
          Clickers,        \* readers of Assignment Links
          Sweepers,        \* runs of the owed assignment mail sweep
          Operators, Openers,  \* operators re-addressing, readers of Re-addressing Links
          Records,         \* sale_re_addressings ids, in the order they are handed out
          PerTicket,       \* AssignmentMailLimits.PerTicket
          NamedTickets,    \* the Event requires Named Tickets
          MaxAssignments, MaxLost  \* bounds: assignments of a ticket, lost ledger rows

ASSUME AddressAssumption == SoldTo \in Addresses /\ NoOne \notin Addresses
ASSUME ActorsAssumption == /\ Cardinality(Addresses) > 1
                           /\ IsFiniteSet(Savers) /\ IsFiniteSet(Sweepers)
ASSUME NumberAssumption == /\ Records \subseteq Nat /\ PerTicket \in Nat \ {0}
                           /\ NamedTickets \in BOOLEAN /\ MaxAssignments \in Nat \ {0}

VARIABLES sale,      \* status, and the Customer and address the sale belongs to
          doors,     \* TRUE once the Event has started
          ticket,    \* the assignment columns of tickets, and the answer's subject
          record,    \* sale_re_addressings
          owed,      \* owed_assignment_mails
          ledger,    \* rows of ticket_assignment_mails, by checkout_named
          saver, clicker, sweeper, operator, opener,
          \* history, read by the properties alone:
          links,     \* Assignment Links mailed
          copies,    \* how often the link of each assignment was mailed
          lost,      \* mails sent whose ledger row never came
          told,      \* who was told they no longer hold a ticket
          held,      \* who ever accepted a ticket
          raced      \* tickets two saves were under way for at once, or changed by a save
                     \* that read them unchanged

store == <<sale, doors, ticket, record, owed, ledger>>
actors == <<saver, clicker, sweeper, operator, opener>>
history == <<links, copies, lost, told, held, raced>>
vars == <<store, actors, history>>

Numbers == 0 .. MaxAssignments + Cardinality(Savers)
Someone == Addresses \cup {NoOne}

Ticket == [address: Someone, at: Nat, last: Nat, accepted: BOOLEAN,
           holder: Someone, answers: Someone]
Link == [ticket: Tickets, at: Nat, address: Addresses]
Record == [state: {"none", "pending", "accepted", "withdrawn"},
           previous: Someone, corrected: Someone]

Open == sale.status = "active" /\ ~doors   \* AssignmentWindow, AnswerWindow

\* A seat as an assignment to a leaves it, not accepted.
Assigned(t, a, whose) ==
    [address |-> a, at |-> ticket[t].last + 1, last |-> ticket[t].last + 1,
     accepted |-> FALSE, holder |-> NoOne, answers |-> whose]

\* The buyer is the Holder at once; assigned_at moves only with the address.
AcceptForBuyer(t, row, by, a) ==
    [row EXCEPT !.address = a, !.accepted = TRUE, !.holder = by,
                !.at = IF ticket[t].address = a /\ ticket[t].at # 0
                       THEN ticket[t].at ELSE row.last]

----------------------------------------------------------------------------
(* AssignOwnTicket *)

\* CountAssignmentMailsForTicket counts every row; only checkout's are marked.
Sent(t) == ledger[t].saved + ledger[t].checkout

\* Mutant: one more than the allowance.
MayMailOneMore(n) == n <= PerTicket

MayMailAssignment(n) == n < PerTicket

Idle == "idle"
Rest == [pc |-> Idle]

\* The scoped read finds a ticket of the session Customer's own sale; the window, the
\* Named Tickets verdict and the ration are judged on it.  An unchanged address is not
\* rationed, nor is the buyer's own.
ReadOwnTicket(s, t, a, answered) ==
    LET changes == ticket[t].address # a
    IN  /\ saver[s].pc = Idle /\ Open
        /\ ticket[t].last < MaxAssignments
        /\ changes /\ NamedTickets => answered
        /\ changes /\ a # sale.address => MayMailAssignment(Sent(t))
        /\ saver' = [saver EXCEPT ![s] =
               [pc |-> "write", ticket |-> t, address |-> a, by |-> sale.address,
                answered |-> answered, rationed |-> changes]]
        /\ raced' = IF \E z \in Savers \ {s} : saver[z].pc # Idle /\ saver[z].ticket = t
                    THEN raced \cup {t} ELSE raced
        /\ UNCHANGED <<store, clicker, sweeper, operator, opener,
                       links, copies, lost, told, held>>

\* The answers a change of address leaves: another person's are deleted, and where the
\* Event requires them the new Holder's are written.
AnswersAfter(t, s) ==
    IF NamedTickets /\ saver[s].answered THEN saver[s].address
    ELSE IF ticket[t].address # NoOne THEN NoOne ELSE ticket[t].answers

\* Mutant: every previous address is told, accepted or not.
DisplacedAddress(t) == ticket[t].address

\* A previous address is not a previous Holder.
DisplacedHolder(t) == IF ticket[t].accepted THEN ticket[t].address ELSE NoOne

\* AssignTicketToHolder, under the ticket's row lock.
AssignTicketToHolder(s) ==
    LET t == saver[s].ticket
        a == saver[s].address
        own == a = saver[s].by
        changes == ticket[t].address # a
        row == IF changes THEN Assigned(t, a, AnswersAfter(t, s)) ELSE ticket[t]
        displaced == DisplacedHolder(t)
    IN  /\ saver[s].pc = "write"
        /\ IF changes THEN NamedTickets => saver[s].answered
           ELSE own /\ ~ticket[t].accepted
        /\ ticket' = [ticket EXCEPT ![t] =
               IF own THEN AcceptForBuyer(t, row, saver[s].by, a) ELSE row]
        /\ held' = IF own THEN held \cup {<<t, a>>} ELSE held
        /\ saver' = [saver EXCEPT ![s] =
               IF changes /\ (~own \/ displaced # NoOne)
               THEN [pc |-> IF own THEN "tell" ELSE "mail", ticket |-> t, address |-> a,
                     at |-> row.last, displaced |-> displaced]
               ELSE Rest]
        /\ raced' = IF changes /\ ~saver[s].rationed THEN raced \cup {t} ELSE raced
        /\ UNCHANGED <<sale, doors, record, owed, ledger, clicker, sweeper, operator, opener,
                       links, copies, lost, told>>

\* Nothing was written: the same address again, or answers still owed.
AssignNothing(s) ==
    LET t == saver[s].ticket
    IN  /\ saver[s].pc = "write"
        /\ IF ticket[t].address # saver[s].address THEN NamedTickets /\ ~saver[s].answered
           ELSE saver[s].address # saver[s].by \/ ticket[t].accepted
        /\ saver' = [saver EXCEPT ![s] = Rest]
        /\ UNCHANGED <<store, clicker, sweeper, operator, opener, history>>

Mailed(t, n, a) ==
    /\ links' = links \cup {[ticket |-> t, at |-> n, address |-> a]}
    /\ copies' = [copies EXCEPT ![t][n] = @ + 1]

\* told keeps whom the notice was for: an undelivered one tells nobody.
Tell(s) ==
    told' = IF saver[s].displaced # NoOne
            THEN told \cup {<<saver[s].ticket, saver[s].displaced>>} ELSE told

\* mailAssignedTicket: both ends, after the commit, each mail best effort.
MailAssignedTicket(s, sent) ==
    LET t == saver[s].ticket
    IN  /\ saver[s].pc = "mail"
        /\ IF sent THEN Mailed(t, saver[s].at, saver[s].address)
           ELSE UNCHANGED <<links, copies>>
        /\ Tell(s)
        /\ saver' = [saver EXCEPT ![s] = IF sent THEN [pc |-> "record", ticket |-> t] ELSE Rest]
        /\ UNCHANGED <<store, clicker, sweeper, operator, opener, lost, held, raced>>

TellDisplacedHolder(s) ==
    /\ saver[s].pc = "tell"
    /\ Tell(s)
    /\ saver' = [saver EXCEPT ![s] = Rest]
    /\ UNCHANGED <<store, clicker, sweeper, operator, opener, links, copies, lost, held, raced>>

RecordAssignmentMailSent(s) ==
    /\ saver[s].pc = "record"
    /\ ledger' = [ledger EXCEPT ![saver[s].ticket].saved = @ + 1]
    /\ saver' = [saver EXCEPT ![s] = Rest]
    /\ UNCHANGED <<sale, doors, ticket, record, owed, clicker, sweeper, operator, opener, history>>

\* The ledger row could not be written, or the process died: logged at most.
SaverStops(s) ==
    /\ saver[s].pc # Idle
    /\ saver[s].pc = "record" => lost[saver[s].ticket] < MaxLost
    /\ lost' = IF saver[s].pc = "record" THEN [lost EXCEPT ![saver[s].ticket] = @ + 1] ELSE lost
    /\ saver' = [saver EXCEPT ![s] = Rest]
    /\ UNCHANGED <<store, clicker, sweeper, operator, opener, links, copies, told, held, raced>>

----------------------------------------------------------------------------
(* Assignment Links *)

\* The signature names the assignment, by its instant and its address.
NamesAssignment(l) == ticket[l.ticket].at = l.at /\ ticket[l.ticket].address = l.address

OpenAssignmentLink(k, l) ==
    /\ clicker[k].pc = Idle /\ Open
    /\ NamesAssignment(l)
    /\ clicker' = [clicker EXCEPT ![k] =
           [pc |-> "accept", ticket |-> l.ticket, at |-> l.at, address |-> l.address]]
    /\ UNCHANGED <<store, saver, sweeper, operator, opener, history>>

\* Mutant: the write looks for any assignment.
StillNamed(t, n) == ticket[t].address # NoOne

\* The write names the assignment it was read from, and keeps the first acceptance.
StillAssigned(t, n) == ticket[t].at = n /\ ticket[t].address # NoOne

AcceptTicketAssignment(k, answers) ==
    LET t == clicker[k].ticket
    IN  /\ clicker[k].pc = "accept"
        /\ StillAssigned(t, clicker[k].at)
        /\ ticket' = [ticket EXCEPT ![t].accepted = TRUE, ![t].holder = clicker[k].address]
        /\ held' = held \cup {<<t, clicker[k].address>>}
        /\ clicker' = [clicker EXCEPT ![k] = IF answers THEN [@ EXCEPT !.pc = "answer"] ELSE Rest]
        /\ UNCHANGED <<sale, doors, record, owed, ledger, saver, sweeper, operator, opener,
                       links, copies, lost, told, raced>>

\* AnswerByAssignmentLink writes after the acceptance, and looks no second time.
AnswerTicketQuestion(k) ==
    /\ clicker[k].pc = "answer"
    /\ ticket' = [ticket EXCEPT ![clicker[k].ticket].answers = clicker[k].address]
    /\ clicker' = [clicker EXCEPT ![k] = Rest]
    /\ UNCHANGED <<sale, doors, record, owed, ledger, saver, sweeper, operator, opener, history>>

\* The assignment moved under the reader, or the reader went away.
ClickerStops(k) ==
    /\ clicker[k].pc # Idle
    /\ clicker' = [clicker EXCEPT ![k] = Rest]
    /\ UNCHANGED <<store, saver, sweeper, operator, opener, history>>

----------------------------------------------------------------------------
(* The sweep of the mails a checkout owes the Holders it named *)

\* DecideOwedAssignmentMail: the window first, then the staleness of this mail.
MailStillOwed(t) ==
    Open /\ ticket[t].address # NoOne /\ ticket[t].at = owed[t].at /\ ~ticket[t].accepted

\* Mutant: a claimed mail is due as well.
DueClaimed(t) == owed[t].at # 0

Due(t) == owed[t].at # 0 /\ ~owed[t].claimed

\* ClaimDueOwedAssignmentMail and the live read it is judged by.
ClaimOwedMail(w, t) ==
    /\ sweeper[w].pc = Idle
    /\ Due(t)
    /\ MailStillOwed(t)
    /\ owed' = [owed EXCEPT ![t].claimed = TRUE]
    /\ sweeper' = [sweeper EXCEPT ![w] =
           [pc |-> "send", ticket |-> t, at |-> ticket[t].at, address |-> ticket[t].address]]
    /\ UNCHANGED <<sale, doors, ticket, record, ledger, saver, clicker, operator, opener, history>>

NotOwed == [at |-> 0, claimed |-> FALSE]

\* Owed no longer: dropped, or left to its lease when the delete fails.
DropOwedMail(w, t, deleted) ==
    /\ sweeper[w].pc = Idle
    /\ Due(t)
    /\ ~MailStillOwed(t)
    /\ owed' = [owed EXCEPT ![t] = IF deleted THEN NotOwed ELSE [@ EXCEPT !.claimed = TRUE]]
    /\ UNCHANGED <<sale, doors, ticket, record, ledger, actors, history>>

SendOwedMail(w) ==
    /\ sweeper[w].pc = "send"
    /\ Mailed(sweeper[w].ticket, sweeper[w].at, sweeper[w].address)
    /\ sweeper' = [sweeper EXCEPT ![w].pc = "record"]
    /\ UNCHANGED <<store, saver, clicker, operator, opener, lost, told, held, raced>>

\* A refused mail stays owed and is due again after its backoff.
BackOff(w) ==
    /\ sweeper[w].pc = "send"
    /\ owed' = [owed EXCEPT ![sweeper[w].ticket].claimed = FALSE]
    /\ sweeper' = [sweeper EXCEPT ![w] = Rest]
    /\ UNCHANGED <<sale, doors, ticket, record, ledger, saver, clicker, operator, opener, history>>

\* Mutant: the mark is cleared and no row written.
ClearOwedMail(w) ==
    /\ sweeper[w].pc = "record"
    /\ owed' = [owed EXCEPT ![sweeper[w].ticket] = NotOwed]
    /\ sweeper' = [sweeper EXCEPT ![w] = Rest]
    /\ UNCHANGED <<sale, doors, ticket, record, ledger, saver, clicker, operator, opener, history>>

\* The ledger row and the mark, in one transaction.
RecordOwedAssignmentMailSent(w) ==
    LET t == sweeper[w].ticket
    IN  /\ sweeper[w].pc = "record"
        /\ ledger' = [ledger EXCEPT ![t].checkout = @ + 1]
        /\ owed' = [owed EXCEPT ![t] = NotOwed]
        /\ sweeper' = [sweeper EXCEPT ![w] = Rest]
        /\ UNCHANGED <<sale, doors, ticket, record, saver, clicker, operator, opener, history>>

\* That transaction failed: the mark is cleared on its own, if it can be.  Or the run
\* died, at any point, and the mark waits for its lease.
SweeperStops(w, dropped) ==
    LET t == sweeper[w].ticket
    IN  /\ sweeper[w].pc # Idle
        /\ dropped => sweeper[w].pc = "record"
        /\ sweeper[w].pc = "record" => lost[t] < MaxLost
        /\ lost' = IF sweeper[w].pc = "record" THEN [lost EXCEPT ![t] = @ + 1] ELSE lost
        /\ owed' = IF dropped THEN [owed EXCEPT ![t] = NotOwed] ELSE owed
        /\ sweeper' = [sweeper EXCEPT ![w] = Rest]
        /\ UNCHANGED <<sale, doors, ticket, record, ledger, saver, clicker, operator, opener,
                       links, copies, told, held, raced>>

\* OwedAssignmentMailClaimLease outlasts every live send.
LeaseLapses(t) ==
    /\ owed[t].claimed
    /\ \A w \in Sweepers : sweeper[w].pc # Idle => sweeper[w].ticket # t
    /\ owed' = [owed EXCEPT ![t].claimed = FALSE]
    /\ UNCHANGED <<sale, doors, ticket, record, ledger, actors, history>>

----------------------------------------------------------------------------
(* Re-addressing *)

Pending == {r \in Records : record[r].state = "pending"}
Unused == {r \in Records : record[r].state = "none"}
First(S) == {r \in S : \A q \in S : r <= q}

\* ReAddressSaleAsOperator judges the sale it read...
ReAddressSale(o, a) ==
    /\ operator[o].pc = Idle
    /\ Open /\ a # sale.address
    /\ operator' = [operator EXCEPT ![o] = [pc |-> "record", address |-> a]]
    /\ UNCHANGED <<store, saver, clicker, sweeper, opener, history>>

\* withdrawPendingSaleReAddressing
Withdrawn == [r \in Records |-> IF r \in Pending THEN [record[r] EXCEPT !.state = "withdrawn"]
                                ELSE record[r]]

\* ... and RecordSaleReAddressing again, under the sale's row lock.
RecordSaleReAddressing(o) ==
    /\ operator[o].pc = "record"
    /\ sale.status = "active"
    /\ \E r \in First(Unused) :
         record' = [Withdrawn EXCEPT ![r] = [state |-> "pending", previous |-> sale.address,
                                             corrected |-> operator[o].address]]
    /\ operator' = [operator EXCEPT ![o] = Rest]
    /\ UNCHANGED <<sale, doors, ticket, owed, ledger, saver, clicker, sweeper, opener, history>>

OperatorStops(o) ==
    /\ operator[o].pc # Idle
    /\ operator' = [operator EXCEPT ![o] = Rest]
    /\ UNCHANGED <<store, saver, clicker, sweeper, opener, history>>

WithdrawSaleReAddressing ==
    /\ Open /\ Pending # {}
    /\ record' = Withdrawn
    /\ UNCHANGED <<sale, doors, ticket, owed, ledger, actors, history>>

\* Mutant: the columns alone, blind to the sale and the doors.
StoredState(r) == record[r].state

\* DeriveReAddressingState: no column says expired.
ReAddressingState(r) ==
    IF record[r].state = "pending" /\ ~Open THEN "expired" ELSE record[r].state

\* Purged, a record is pending in name only.
Acceptable(r) == ReAddressingState(r) = "pending" /\ record[r].corrected # NoOne

OpenReAddressingLink(q, r) ==
    /\ opener[q].pc = Idle
    /\ Acceptable(r)
    /\ opener' = [opener EXCEPT ![q] = [pc |-> "accept", record |-> r]]
    /\ UNCHANGED <<store, saver, clicker, sweeper, operator, history>>

\* The seats the buyer holds at the address the sale moves away from.
SelfHeld(t) == ticket[t].address = sale.address /\ ticket[t].holder = sale.address

\* Under the sale's row lock the state is derived again; the sale, its Self-held tickets
\* and the record move together.
AcceptSaleReAddressing(q) ==
    LET r == opener[q].record
        a == record[r].corrected
    IN  /\ opener[q].pc = "accept"
        /\ Acceptable(r)
        /\ sale' = [sale EXCEPT !.address = a]
        /\ ticket' = [t \in Tickets |-> IF SelfHeld(t)
                         THEN [ticket[t] EXCEPT !.address = a, !.holder = a] ELSE ticket[t]]
        /\ held' = held \cup {<<t, a>> : t \in {u \in Tickets : SelfHeld(u)}}
        /\ record' = [record EXCEPT ![r].state = "accepted"]
        /\ opener' = [opener EXCEPT ![q] = Rest]
        /\ UNCHANGED <<doors, owed, ledger, saver, clicker, sweeper, operator,
                       links, copies, lost, told, raced>>

OpenerStops(q) ==
    /\ opener[q].pc # Idle
    /\ opener' = [opener EXCEPT ![q] = Rest]
    /\ UNCHANGED <<store, saver, clicker, sweeper, operator, history>>

----------------------------------------------------------------------------
(* The end of the sale *)

ReverseSale ==
    /\ sale.status = "active"
    /\ sale' = [sale EXCEPT !.status = "reversed"]
    /\ UNCHANGED <<doors, ticket, record, owed, ledger, actors, history>>

OpenDoors ==
    /\ ~doors
    /\ doors' = TRUE
    /\ UNCHANGED <<sale, ticket, record, owed, ledger, actors, history>>

Unaccepted == {t \in Tickets : ticket[t].address # NoOne /\ ~ticket[t].accepted}

\* Mutant: assigned_at stays.
PurgedAddress(t) == [ticket[t] EXCEPT !.address = NoOne]

\* The answers stay; assigned_at goes with the address.
Purged(t) == [ticket[t] EXCEPT !.address = NoOne, !.at = 0]

PurgeUnacceptedHolderAddresses ==
    /\ doors /\ Unaccepted # {}
    /\ ticket' = [t \in Tickets |-> IF t \in Unaccepted THEN Purged(t) ELSE ticket[t]]
    /\ UNCHANGED <<sale, doors, record, owed, ledger, actors, history>>

\* Pending and withdrawn records alike: nobody proved the address.
Unproved == {r \in Records : record[r].state # "accepted" /\ record[r].corrected # NoOne}

PurgeUnacceptedCorrectedAddresses ==
    /\ doors /\ Unproved # {}
    /\ record' = [r \in Records |-> IF r \in Unproved
                     THEN [record[r] EXCEPT !.corrected = NoOne] ELSE record[r]]
    /\ UNCHANGED <<sale, doors, ticket, owed, ledger, actors, history>>

----------------------------------------------------------------------------
(* The specification *)

Unassigned == [address |-> NoOne, at |-> 0, last |-> 0, accepted |-> FALSE,
               holder |-> NoOne, answers |-> NoOne]

\* How a commit leaves a ticket: unnamed, the buyer's own, or named for somebody else
\* and owed a mail; answered where the Event requires it.
Minted(a) == [address |-> a, at |-> 1, last |-> 1, accepted |-> a = SoldTo,
              holder |-> IF a = SoldTo THEN SoldTo ELSE NoOne,
              answers |-> IF NamedTickets THEN a ELSE NoOne]

Init ==
    /\ sale = [status |-> "active", address |-> SoldTo]
    /\ doors = FALSE
    /\ ticket \in [Tickets -> {Unassigned} \cup {Minted(a) : a \in Addresses}]
    /\ record = [r \in Records |-> [state |-> "none", previous |-> NoOne, corrected |-> NoOne]]
    /\ owed = [t \in Tickets |-> IF ticket[t].address \in {NoOne, SoldTo} THEN NotOwed
                                 ELSE [at |-> 1, claimed |-> FALSE]]
    /\ ledger = [t \in Tickets |-> [saved |-> 0, checkout |-> 0]]
    /\ saver = [s \in Savers |-> Rest]
    /\ clicker = [k \in Clickers |-> Rest]
    /\ sweeper = [w \in Sweepers |-> Rest]
    /\ operator = [o \in Operators |-> Rest]
    /\ opener = [q \in Openers |-> Rest]
    /\ links = {} /\ told = {} /\ raced = {}
    /\ copies = [t \in Tickets |-> [n \in Numbers |-> 0]]
    /\ lost = [t \in Tickets |-> 0]
    /\ held = {<<t, ticket[t].address>> : t \in {u \in Tickets : ticket[u].accepted}}

Save(s) ==
    \/ \E t \in Tickets, a \in Addresses, answered \in BOOLEAN : ReadOwnTicket(s, t, a, answered)
    \/ AssignTicketToHolder(s) \/ AssignNothing(s)
    \/ \E sent \in BOOLEAN : MailAssignedTicket(s, sent)
    \/ TellDisplacedHolder(s) \/ RecordAssignmentMailSent(s) \/ SaverStops(s)

Click(k) ==
    \/ \E l \in links : OpenAssignmentLink(k, l)
    \/ \E answers \in BOOLEAN : AcceptTicketAssignment(k, answers)
    \/ AnswerTicketQuestion(k) \/ ClickerStops(k)

Sweep(w) ==
    \/ \E t \in Tickets : ClaimOwedMail(w, t)
    \/ \E t \in Tickets, deleted \in BOOLEAN : DropOwedMail(w, t, deleted)
    \/ SendOwedMail(w) \/ BackOff(w) \/ RecordOwedAssignmentMailSent(w)
    \/ \E dropped \in BOOLEAN : SweeperStops(w, dropped)

ReAddress ==
    \/ \E o \in Operators, a \in Addresses : ReAddressSale(o, a)
    \/ \E o \in Operators : RecordSaleReAddressing(o) \/ OperatorStops(o)
    \/ WithdrawSaleReAddressing
    \/ \E q \in Openers, r \in Records : OpenReAddressingLink(q, r)
    \/ \E q \in Openers : AcceptSaleReAddressing(q) \/ OpenerStops(q)

Next ==
    \/ \E s \in Savers : Save(s)
    \/ \E k \in Clickers : Click(k)
    \/ \E w \in Sweepers : Sweep(w)
    \/ \E t \in Tickets : LeaseLapses(t)
    \/ ReAddress
    \/ ReverseSale \/ OpenDoors
    \/ PurgeUnacceptedHolderAddresses \/ PurgeUnacceptedCorrectedAddresses

Spec == Init /\ [][Next]_vars

----------------------------------------------------------------------------
(* Properties *)

\* The CHECKs on tickets and a little more: a seat is accepted exactly when it has a Holder
\* (the schema asks one direction), assigned exactly when it has an address, and an accepted
\* seat has one.
WholeSeat(t) ==
    /\ ticket[t].accepted <=> ticket[t].holder # NoOne
    /\ ticket[t].address = NoOne <=> ticket[t].at = 0
    /\ ticket[t].accepted => ticket[t].address # NoOne
    /\ ticket[t].at <= ticket[t].last

StoreOK ==
    /\ sale \in [status: {"active", "reversed"}, address: Addresses] /\ doors \in BOOLEAN
    /\ ticket \in [Tickets -> Ticket] /\ \A t \in Tickets : WholeSeat(t)
    /\ record \in [Records -> Record]
    /\ owed \in [Tickets -> [at: {0, 1}, claimed: BOOLEAN]]
    /\ ledger \in [Tickets -> [saved: Nat, checkout: Nat]]

SaverState ==
    {Rest} \cup [pc: {"write"}, ticket: Tickets, address: Addresses, by: Addresses,
                 answered: BOOLEAN, rationed: BOOLEAN]
           \cup [pc: {"mail", "tell"}, ticket: Tickets, address: Addresses, at: Nat,
                 displaced: Someone]
           \cup [pc: {"record"}, ticket: Tickets]
ClickerState ==
    {Rest} \cup [pc: {"accept", "answer"}, ticket: Tickets, at: Nat, address: Addresses]
SweeperState ==
    {Rest} \cup [pc: {"send", "record"}, ticket: Tickets, at: Nat, address: Addresses]
OperatorState == {Rest} \cup [pc: {"record"}, address: Addresses]
OpenerState == {Rest} \cup [pc: {"accept"}, record: Records]

ActorsOK ==
    /\ saver \in [Savers -> SaverState] /\ clicker \in [Clickers -> ClickerState]
    /\ sweeper \in [Sweepers -> SweeperState]
    /\ operator \in [Operators -> OperatorState] /\ opener \in [Openers -> OpenerState]

HistoryOK ==
    /\ links \subseteq Link /\ copies \in [Tickets -> [Numbers -> Nat]]
    /\ lost \in [Tickets -> Nat] /\ raced \subseteq Tickets
    /\ told \subseteq Tickets \X Addresses /\ held \subseteq Tickets \X Addresses

\* Every variable has its type, and every seat satisfies the table's CHECKs, whichever of
\* assignment, link, re-addressing and purge wrote it last.
TypeOK == StoreOK /\ ActorsOK /\ HistoryOK

\* The Holder of an accepted seat is the Customer of the address on it, whatever raced:
\* a stale link never seats the previous address's Customer (AcceptTicketAssignment's
\* WHERE).  The one exception is a seat a re-addressing moved, address and Customer,
\* without moving assigned_at, under a reader of its link.
HolderProvedTheAddress ==
    \A t \in Tickets : ticket[t].accepted =>
        \/ ticket[t].holder = ticket[t].address
        \/ \E r \in Records : /\ record[r].state = "accepted"
                              /\ record[r].previous = ticket[t].holder

\* Where the Event requires Named Tickets no seat is ever named without answers, not even
\* between a reassignment's delete and its inserts.
NamedTicketIsAnswered ==
    NamedTickets => \A t \in Tickets : ticket[t].address # NoOne => ticket[t].answers # NoOne

\* Mails gone whose ledger row is still to come.
Saved(t) == Cardinality({s \in Savers : saver[s].pc = "record" /\ saver[s].ticket = t})
Swept(t) == Cardinality({w \in Sweepers : sweeper[w].pc = "record" /\ sweeper[w].ticket = t})

\* The mails about a ticket one by one: the i-th of its n-th assignment.
MailsOf(t) == UNION {{<<n, i>> : i \in 1 .. copies[t][n]} : n \in Numbers}
Copies(t) == Cardinality(MailsOf(t))

\* The ration counts sends: every mail is on the ledger once, in the hands of the call
\* that sent it, or lost with it, whichever of save and sweep sent it and however they
\* interleave.
LedgerTellsTheSends == \A t \in Tickets : Copies(t) = Sent(t) + Saved(t) + Swept(t) + lost[t]

\* The Holder of one assignment is mailed once; again only when the record of the first
\* mail was lost.  Two sweeps never send the same owed mail, and no save repeats it.
OneMailPerAssignment ==
    \A t \in Tickets, n \in Numbers : copies[t][n] <= 1 + lost[t]

\* The lifetime ration binds: of the mails about one ticket all but its allowance are the
\* sweep's, or lost their ledger row, which is what the next save counts by; unless two
\* saves were under way at once, or one wrote what it had judged unchanged.
RationHoldsWithoutARace ==
    \A t \in Tickets \ raced :
        Copies(t) <= PerTicket + lost[t] + ledger[t].checkout + Swept(t)

\* Only somebody who accepted a ticket is told they lost it, whatever happened between
\* the buyer's read and the write (AssignTicketResult.DisplacedHolderEmail).
OnlyHoldersAreTold == told \subseteq held

\* A sale has one re-addressing under way at most, and it moves away from the address the
\* sale carries.
PendingNamesTheSale ==
    \A r \in Pending : Pending = {r} /\ record[r].previous = sale.address

\* A seat becomes accepted by the link of that very assignment, or by the buyer naming
\* themself: a link to an earlier assignment of the same address stays dead.
AcceptanceHasItsLink ==
    [][\A t \in Tickets : ticket'[t].accepted /\ ~ticket[t].accepted =>
         \/ [ticket |-> t, at |-> ticket[t].at, address |-> ticket[t].address] \in links
         \/ \E s \in Savers : /\ saver[s].pc = "write" /\ saver'[s] # saver[s]
                              /\ saver[s].ticket = t /\ saver[s].by = ticket'[t].address]_vars

\* A sale moves only while it is active and the doors are closed, and only as one pending
\* re-addressing of it becomes accepted: not after a reversal, a withdrawal or a
\* replacement that came between the link's reading and its write.
OnlyALiveSaleMoves ==
    [][sale'.address # sale.address =>
         /\ Open
         /\ \E r \in Pending : /\ record'[r].state = "accepted"
                               /\ record[r].corrected = sale'.address]_vars

\* An accepted re-addressing is history: never withdrawn, replaced or purged.
AcceptedReAddressingStands ==
    [][\A r \in Records : record[r].state = "accepted" => record'[r] = record[r]]_vars
=============================================================================
