----------------------------- MODULE SeatsProofs -----------------------------
(***************************************************************************)
(* Why a seat is held by who proved its address, however the buyer, the    *)
(* readers of links, the operator and the purge interleave.                *)
(***************************************************************************)
EXTENDS Seats, FiniteSetTheorems, TLAPS

----------------------------------------------------------------------------
(* Types *)

\* What an actor carries at each of its steps.
LEMMA SaverFields ==
    ASSUME NEW call \in SaverState
    PROVE  /\ call.pc = "write" => /\ call.ticket \in Tickets /\ call.address \in Addresses
                                   /\ call.by \in Addresses /\ call.answered \in BOOLEAN
                                   /\ call.rationed \in BOOLEAN
           /\ call.pc \in {"mail", "tell"} =>
                 /\ call.ticket \in Tickets /\ call.address \in Addresses
                 /\ call.at \in Nat /\ call.displaced \in Someone
           /\ call.pc = "record" => call.ticket \in Tickets
  BY DEF SaverState, Rest, Idle

LEMMA ReaderFields ==
    ASSUME NEW call \in ClickerState \cup SweeperState, call.pc # Idle
    PROVE  /\ call.ticket \in Tickets /\ call.address \in Addresses /\ call.at \in Nat
           /\ call.pc \in {"accept", "answer", "send", "record"}
  BY DEF ClickerState, SweeperState, Rest, Idle

LEMMA RestIsAState ==
    /\ Rest \in SaverState /\ Rest \in ClickerState /\ Rest \in SweeperState
    /\ Rest \in OperatorState /\ Rest \in OpenerState /\ Rest.pc = Idle
  BY DEF SaverState, ClickerState, SweeperState, OperatorState, OpenerState, Rest

\* An address is never NULL, and a Customer is an address.
LEMMA SomeoneOrNoOne == Addresses \subseteq Someone /\ NoOne \in Someone
  BY DEF Someone

LEMMA NumbersAreNat == Numbers \subseteq Nat
  BY DEF Numbers

LEMMA InitTyped == Init => TypeOK
  <1>. SUFFICES ASSUME Init PROVE TypeOK
    OBVIOUS
  <1>1. ASSUME NEW a \in Addresses
        PROVE  /\ Minted(a) \in Ticket /\ Minted(a).address = a
               /\ Minted(a).at = 1 /\ Minted(a).last = 1
               /\ a = SoldTo => Minted(a).accepted /\ Minted(a).holder = SoldTo
               /\ a # SoldTo => ~Minted(a).accepted /\ Minted(a).holder = NoOne
    BY AddressAssumption DEF Minted, Ticket, Someone
  <1>2. Unassigned \in Ticket
    BY DEF Unassigned, Ticket, Someone
  <1>3. ticket \in [Tickets -> Ticket]
    BY <1>1, <1>2 DEF Init
  <1>4. ASSUME NEW t \in Tickets PROVE WholeSeat(t)
    <2>1. CASE ticket[t] = Unassigned
      BY <2>1 DEF WholeSeat, Unassigned
    <2>2. CASE \E a \in Addresses : ticket[t] = Minted(a)
      <3>1. PICK a \in Addresses : ticket[t] = Minted(a)
        BY <2>2
      <3>2. /\ ticket[t].address = a /\ ticket[t].at = 1 /\ ticket[t].last = 1 /\ a # NoOne
            /\ SoldTo # NoOne
        BY <3>1, <1>1, AddressAssumption
      <3>3. CASE a = SoldTo
        BY <1>1, <3>1, <3>2, <3>3 DEF WholeSeat
      <3>4. CASE a # SoldTo
        BY <1>1, <3>1, <3>2, <3>4 DEF WholeSeat
      <3>. QED
        BY <3>3, <3>4
    <2>. QED
      BY <2>1, <2>2 DEF Init
  <1>5. StoreOK
    BY <1>3, <1>4, AddressAssumption DEF Init, StoreOK, Record, Someone, NotOwed
  <1>6. ActorsOK
    BY RestIsAState DEF Init, ActorsOK
  <1>7. HistoryOK
    <2>1. held \subseteq Tickets \X Addresses
      <3>1. \A t \in Tickets : ticket[t].accepted => ticket[t].address \in Addresses
        BY <1>3, <1>4 DEF Ticket, WholeSeat, Someone
      <3>. QED
        BY <3>1 DEF Init
    <2>. QED
      BY <2>1 DEF Init, HistoryOK, Link
  <1>. QED
    BY <1>5, <1>6, <1>7 DEF TypeOK

\* One more row on the ledger, a mark claimed or let go, one more copy.
LEMMA LedgerMoves ==
    ASSUME ledger \in [Tickets -> [saved: Nat, checkout: Nat]], NEW t \in Tickets,
           \/ ledger' = [ledger EXCEPT ![t].saved = @ + 1]
           \/ ledger' = [ledger EXCEPT ![t].checkout = @ + 1]
    PROVE  ledger' \in [Tickets -> [saved: Nat, checkout: Nat]]
  <1>1. ledger[t] \in [saved: Nat, checkout: Nat]
    OBVIOUS
  <1>2. PICK row \in [saved: Nat, checkout: Nat] : ledger' = [ledger EXCEPT ![t] = row]
    <2>1. CASE ledger' = [ledger EXCEPT ![t].saved = @ + 1]
      <3>1. [ledger[t] EXCEPT !.saved = @ + 1] \in [saved: Nat, checkout: Nat]
        BY <1>1
      <3>. QED
        BY <2>1, <3>1
    <2>2. CASE ledger' = [ledger EXCEPT ![t].checkout = @ + 1]
      <3>1. [ledger[t] EXCEPT !.checkout = @ + 1] \in [saved: Nat, checkout: Nat]
        BY <1>1
      <3>. QED
        BY <2>2, <3>1
    <2>. QED
      BY <2>1, <2>2
  <1>. QED
    BY <1>2

LEMMA MarkMovesTyped ==
    ASSUME owed \in [Tickets -> [at: {0, 1}, claimed: BOOLEAN]], NEW t \in Tickets,
           NEW c \in BOOLEAN, owed' = [owed EXCEPT ![t].claimed = c]
    PROVE  owed' \in [Tickets -> [at: {0, 1}, claimed: BOOLEAN]]
  <1>1. [owed[t] EXCEPT !.claimed = c] \in [at: {0, 1}, claimed: BOOLEAN]
    OBVIOUS
  <1>. QED
    BY <1>1

LEMMA CopiesMove ==
    ASSUME copies \in [Tickets -> [Numbers -> Nat]], NEW t \in Tickets, NEW n,
           copies' = [copies EXCEPT ![t][n] = @ + 1]
    PROVE  copies' \in [Tickets -> [Numbers -> Nat]]
  <1>1. copies[t] \in [Numbers -> Nat]
    OBVIOUS
  <1>2. [copies[t] EXCEPT ![n] = @ + 1] \in [Numbers -> Nat]
    <2>1. CASE n \in Numbers
      <3>1. copies[t][n] + 1 \in Nat
        BY <1>1, <2>1
      <3>. QED
        BY <1>1, <3>1
    <2>2. CASE n \notin Numbers
      BY <1>1, <2>2
    <2>. QED
      BY <2>1, <2>2
  <1>. QED
    BY <1>2

\* One seat rewritten, to a row the CHECKs accept.
LEMMA SeatWritten ==
    ASSUME StoreOK, NEW t \in Tickets, NEW row \in Ticket,
           row.accepted <=> row.holder # NoOne, row.address = NoOne <=> row.at = 0,
           row.accepted => row.address # NoOne, row.at <= row.last,
           ticket' = [ticket EXCEPT ![t] = row],
           UNCHANGED <<sale, doors, record, owed, ledger>>
    PROVE  StoreOK'
  <1>1. ticket' \in [Tickets -> Ticket] /\ ticket'[t] = row
        /\ \A u \in Tickets : u # t => ticket'[u] = ticket[u]
    BY DEF StoreOK
  <1>2. \A u \in Tickets : WholeSeat(u)'
    BY <1>1 DEF StoreOK, WholeSeat
  <1>. QED
    BY <1>1, <1>2 DEF StoreOK

\* What naming and accepting make of a seat.
LEMMA AssignedSeat ==
    ASSUME NEW t \in Tickets, ticket[t] \in Ticket, NEW a \in Addresses, NEW whose \in Someone
    PROVE  /\ Assigned(t, a, whose) \in Ticket
           /\ Assigned(t, a, whose).address = a
           /\ Assigned(t, a, whose).at = ticket[t].last + 1
           /\ Assigned(t, a, whose).last = ticket[t].last + 1
           /\ ~Assigned(t, a, whose).accepted
           /\ Assigned(t, a, whose).holder = NoOne
           /\ Assigned(t, a, whose).answers = whose
  BY DEF Assigned, Ticket, Someone

LEMMA AcceptedSeat ==
    ASSUME NEW t \in Tickets, ticket[t] \in Ticket, NEW row \in Ticket,
           NEW by \in Addresses, NEW a \in Addresses
    PROVE  /\ AcceptForBuyer(t, row, by, a) \in Ticket
           /\ AcceptForBuyer(t, row, by, a).address = a
           /\ AcceptForBuyer(t, row, by, a).accepted
           /\ AcceptForBuyer(t, row, by, a).holder = by
           /\ AcceptForBuyer(t, row, by, a).last = row.last
           /\ AcceptForBuyer(t, row, by, a).answers = row.answers
           /\ AcceptForBuyer(t, row, by, a).at = IF ticket[t].address = a /\ ticket[t].at # 0
                                                 THEN ticket[t].at ELSE row.last
  BY DEF AcceptForBuyer, Ticket, Someone

LEMMA SaveTyped ==
    ASSUME TypeOK, NEW s \in Savers, Save(s)
    PROVE  TypeOK'
  <1>. USE DEF TypeOK
  <1>0. saver[s] \in SaverState /\ saver \in [Savers -> SaverState]
    BY DEF ActorsOK
  <1>1. ASSUME NEW t \in Tickets, NEW a \in Addresses, NEW answered \in BOOLEAN,
               ReadOwnTicket(s, t, a, answered)
        PROVE  TypeOK'
    <2>1. PICK call : call = [pc |-> "write", ticket |-> t, address |-> a, by |-> sale.address,
                              answered |-> answered, rationed |-> ticket[t].address # a]
      OBVIOUS
    <2>2. call \in SaverState
      BY <2>1 DEF SaverState, StoreOK
    <2>3. saver' = [saver EXCEPT ![s] = call]
      BY <1>1, <2>1 DEF ReadOwnTicket
    <2>4. ActorsOK'
      BY <1>0, <1>1, <2>2, <2>3 DEF ReadOwnTicket, ActorsOK
    <2>5. StoreOK'
      BY <1>1 DEF ReadOwnTicket, StoreOK, store, WholeSeat
    <2>6. HistoryOK'
      BY <1>1 DEF ReadOwnTicket, HistoryOK
    <2>. QED
      BY <2>4, <2>5, <2>6
  <1>2. CASE AssignTicketToHolder(s)
    <2>1. PICK t \in Tickets, a \in Addresses :
             t = saver[s].ticket /\ a = saver[s].address /\ saver[s].by \in Addresses
      BY <1>0, <1>2, SaverFields DEF AssignTicketToHolder
    <2>. DEFINE own == a = saver[s].by
                changes == ticket[t].address # a
                row == IF changes THEN Assigned(t, a, AnswersAfter(t, s)) ELSE ticket[t]
                seat == IF own THEN AcceptForBuyer(t, row, saver[s].by, a) ELSE row
                call == IF changes /\ (~own \/ DisplacedHolder(t) # NoOne)
                        THEN [pc |-> IF own THEN "tell" ELSE "mail", ticket |-> t,
                              address |-> a, at |-> row.last, displaced |-> DisplacedHolder(t)]
                        ELSE Rest
    <2>2. ticket[t] \in Ticket /\ WholeSeat(t) /\ a # NoOne /\ a \in Someone
          /\ AnswersAfter(t, s) \in Someone
      BY <2>1, AddressAssumption DEF StoreOK, AnswersAfter, Ticket, Someone
    <2>3. row \in Ticket /\ row.last \in Nat /\ row.last >= ticket[t].last /\ row.address = a
          /\ row.at # 0 /\ row.at <= row.last /\ row.last # 0
          /\ (row.accepted <=> row.holder # NoOne)
      <3>1. CASE changes
        <4>1. row = Assigned(t, a, AnswersAfter(t, s))
          BY <3>1
        <4>2. ticket[t].last \in Nat
          BY <2>2 DEF Ticket
        <4>. QED
          BY <2>1, <2>2, <4>1, <4>2, AssignedSeat DEF Ticket
      <3>2. CASE ~changes
        BY <2>2, <3>2 DEF WholeSeat, Ticket
      <3>. QED
        BY <3>1, <3>2
    <2>. HIDE DEF row
    <2>4. seat \in Ticket /\ seat.address = a /\ seat.at # 0 /\ seat.at <= seat.last
          /\ (seat.accepted <=> seat.holder # NoOne)
      <3>1. CASE ~own
        BY <2>3, <3>1
      <3>2. CASE own
        <4>1. seat = AcceptForBuyer(t, row, saver[s].by, a)
          BY <3>2
        <4>2. seat.at = IF ticket[t].address = a /\ ticket[t].at # 0
                        THEN ticket[t].at ELSE row.last
          BY <2>1, <2>2, <2>3, <4>1, AcceptedSeat
        <4>3. ticket[t].at \in Nat /\ ticket[t].last \in Nat /\ ticket[t].at <= ticket[t].last
          BY <2>2 DEF WholeSeat, Ticket
        <4>4. seat.at # 0 /\ seat.at <= row.last
          BY <2>3, <4>2, <4>3
        <4>. QED
          BY <2>1, <2>2, <2>3, <4>1, <4>4, AcceptedSeat, AddressAssumption
      <3>. QED
        BY <3>1, <3>2
    <2>5. call \in SaverState
      BY <2>1, <2>2, <2>3, RestIsAState DEF DisplacedHolder, SaverState, Ticket, Someone
    <2>6. ticket' = [ticket EXCEPT ![t] = seat] /\ saver' = [saver EXCEPT ![s] = call]
      BY <1>2, <2>1 DEF AssignTicketToHolder, row
    <2>7. /\ UNCHANGED <<sale, doors, record, owed, ledger, clicker, sweeper, operator, opener,
                         links, copies, lost, told>>
          /\ held' \subseteq held \cup {<<t, a>>} /\ raced' \subseteq raced \cup {t}
      BY <1>2, <2>1 DEF AssignTicketToHolder
    <2>. HIDE DEF seat, call
    <2>8. StoreOK'
      BY <2>2, <2>4, <2>6, <2>7, SeatWritten
    <2>9. ActorsOK'
      BY <1>0, <2>5, <2>6, <2>7 DEF ActorsOK
    <2>10. HistoryOK'
      BY <2>1, <2>7 DEF HistoryOK
    <2>. QED
      BY <2>8, <2>9, <2>10
  <1>3. CASE \/ AssignNothing(s) \/ TellDisplacedHolder(s) \/ RecordAssignmentMailSent(s)
             \/ SaverStops(s) \/ \E sent \in BOOLEAN : MailAssignedTicket(s, sent)
    <2>0. saver[s].pc \in {"mail", "tell", "record"} => saver[s].ticket \in Tickets
      BY <1>0, SaverFields
    <2>1. StoreOK'
      <3>1. ledger' \in [Tickets -> [saved: Nat, checkout: Nat]]
        <4>1. CASE RecordAssignmentMailSent(s)
          <5>1. PICK t \in Tickets : t = saver[s].ticket
            BY <2>0, <4>1 DEF RecordAssignmentMailSent
          <5>2. ledger' = [ledger EXCEPT ![t].saved = @ + 1]
            BY <4>1, <5>1 DEF RecordAssignmentMailSent
          <5>. QED
            BY <5>2, LedgerMoves DEF StoreOK
        <4>2. CASE ~RecordAssignmentMailSent(s)
          BY <1>3, <4>2 DEF AssignNothing, TellDisplacedHolder, SaverStops, MailAssignedTicket,
             store, StoreOK
        <4>. QED
          BY <4>1, <4>2
      <3>2. UNCHANGED <<sale, doors, ticket, record, owed>>
        BY <1>3 DEF AssignNothing, TellDisplacedHolder, RecordAssignmentMailSent, SaverStops,
             MailAssignedTicket, store
      <3>. QED
        BY <3>1, <3>2 DEF StoreOK, WholeSeat
    <2>2. ActorsOK'
      <3>1. \/ saver' = [saver EXCEPT ![s] = Rest]
            \/ /\ saver[s].pc = "mail"
               /\ saver' = [saver EXCEPT ![s] = [pc |-> "record", ticket |-> saver[s].ticket]]
        BY <1>3 DEF AssignNothing, TellDisplacedHolder, RecordAssignmentMailSent, SaverStops,
             MailAssignedTicket
      <3>2. saver' \in [Savers -> SaverState]
        <4>1. saver[s].pc = "mail" => [pc |-> "record", ticket |-> saver[s].ticket] \in SaverState
          BY <2>0 DEF SaverState
        <4>. QED
          BY <1>0, <3>1, <4>1, RestIsAState
      <3>3. UNCHANGED <<clicker, sweeper, operator, opener>>
        BY <1>3 DEF AssignNothing, TellDisplacedHolder, RecordAssignmentMailSent, SaverStops,
             MailAssignedTicket
      <3>. QED
        BY <3>2, <3>3 DEF ActorsOK
    <2>3. HistoryOK'
      <3>1. CASE AssignNothing(s) \/ RecordAssignmentMailSent(s) \/ SaverStops(s)
        BY <2>0, <3>1 DEF AssignNothing, RecordAssignmentMailSent, SaverStops, history, HistoryOK
      <3>2. saver[s].pc \in {"mail", "tell"} => /\ saver[s].address \in Addresses
                 /\ saver[s].at \in Nat /\ saver[s].displaced \in Someone
        BY <1>0, SaverFields
      <3>3. saver[s].pc \in {"mail", "tell"} /\ Tell(s) => told' \subseteq Tickets \X Addresses
        BY <2>0, <3>2 DEF Tell, Someone, HistoryOK
      <3>4. CASE TellDisplacedHolder(s)
        BY <3>3, <3>4 DEF TellDisplacedHolder, HistoryOK
      <3>5. CASE \E sent \in BOOLEAN : MailAssignedTicket(s, sent)
        <4>1. told' \subseteq Tickets \X Addresses /\ UNCHANGED <<lost, held, raced>>
          BY <3>3, <3>5 DEF MailAssignedTicket
        <4>2. links' \subseteq Link /\ copies' \in [Tickets -> [Numbers -> Nat]]
          <5>1. /\ saver[s].pc = "mail" /\ saver[s].ticket \in Tickets
                /\ saver[s].address \in Addresses /\ saver[s].at \in Nat
            BY <2>0, <3>2, <3>5 DEF MailAssignedTicket
          <5>2. CASE UNCHANGED <<links, copies>>
            BY <5>2 DEF HistoryOK
          <5>3. CASE Mailed(saver[s].ticket, saver[s].at, saver[s].address)
            <6>1. copies' \in [Tickets -> [Numbers -> Nat]]
              BY <5>1, <5>3, CopiesMove DEF Mailed, HistoryOK
            <6>2. links' \subseteq Link
              BY <5>1, <5>3 DEF Mailed, Link, HistoryOK
            <6>. QED
              BY <6>1, <6>2
          <5>. QED
            BY <3>5, <5>2, <5>3 DEF MailAssignedTicket
        <4>. QED
          BY <4>1, <4>2 DEF HistoryOK
      <3>. QED
        BY <1>3, <3>1, <3>4, <3>5
    <2>. QED
      BY <2>1, <2>2, <2>3
  <1>. QED
    BY <1>1, <1>2, <1>3 DEF Save
LEMMA ClickTyped ==
    ASSUME TypeOK, NEW k \in Clickers, Click(k)
    PROVE  TypeOK'
  <1>. USE DEF TypeOK
  <1>0. clicker[k] \in ClickerState /\ clicker \in [Clickers -> ClickerState]
    BY DEF ActorsOK
  <1>1. ASSUME NEW l \in links, OpenAssignmentLink(k, l)
        PROVE  TypeOK'
    <2>1. PICK call : call = [pc |-> "accept", ticket |-> l.ticket, at |-> l.at,
                              address |-> l.address]
      OBVIOUS
    <2>2. call \in ClickerState
      BY <2>1, NumbersAreNat DEF ClickerState, HistoryOK, Link
    <2>3. clicker' = [clicker EXCEPT ![k] = call]
      BY <1>1, <2>1 DEF OpenAssignmentLink
    <2>4. ActorsOK'
      BY <1>0, <1>1, <2>2, <2>3 DEF OpenAssignmentLink, ActorsOK
    <2>5. StoreOK' /\ HistoryOK'
      BY <1>1 DEF OpenAssignmentLink, StoreOK, store, WholeSeat, HistoryOK, history
    <2>. QED
      BY <2>4, <2>5
  <1>2. ASSUME NEW answers \in BOOLEAN, AcceptTicketAssignment(k, answers)
        PROVE  TypeOK'
    <2>1. PICK t \in Tickets, a \in Addresses :
             t = clicker[k].ticket /\ a = clicker[k].address /\ clicker[k].pc = "accept"
      BY <1>0, <1>2, ReaderFields DEF AcceptTicketAssignment, Idle
    <2>2. ticket[t].address # NoOne /\ ticket[t] \in Ticket /\ WholeSeat(t) /\ a # NoOne
      BY <1>2, <2>1, AddressAssumption DEF AcceptTicketAssignment, StillAssigned, StoreOK
    <2>3. PICK row : row = [ticket[t] EXCEPT !.accepted = TRUE, !.holder = a]
      OBVIOUS
    <2>4. row \in Ticket /\ row.accepted /\ row.holder = a /\ row.address = ticket[t].address
          /\ row.at = ticket[t].at /\ row.last = ticket[t].last
      BY <2>2, <2>3, SomeoneOrNoOne DEF Ticket
    <2>5. ticket' = [ticket EXCEPT ![t] = row]
      BY <1>2, <2>1, <2>3 DEF AcceptTicketAssignment, StoreOK
    <2>6. StoreOK'
      BY <1>2, <2>2, <2>4, <2>5, SeatWritten DEF AcceptTicketAssignment, WholeSeat
    <2>7. [clicker[k] EXCEPT !.pc = "answer"] \in ClickerState
      BY <1>0, <2>1 DEF ClickerState, Rest, Idle
    <2>8. ActorsOK'
      BY <1>0, <1>2, <2>7, RestIsAState DEF AcceptTicketAssignment, ActorsOK
    <2>9. HistoryOK'
      BY <1>2, <2>1 DEF AcceptTicketAssignment, HistoryOK
    <2>. QED
      BY <2>6, <2>8, <2>9
  <1>3. CASE AnswerTicketQuestion(k)
    <2>1. PICK t \in Tickets, a \in Addresses : t = clicker[k].ticket /\ a = clicker[k].address
      BY <1>0, <1>3, ReaderFields DEF AnswerTicketQuestion, Idle
    <2>2. ticket[t] \in Ticket /\ WholeSeat(t)
      BY DEF StoreOK
    <2>3. PICK row : row = [ticket[t] EXCEPT !.answers = a]
      OBVIOUS
    <2>4. row \in Ticket /\ row.accepted = ticket[t].accepted /\ row.holder = ticket[t].holder
          /\ row.address = ticket[t].address /\ row.at = ticket[t].at
          /\ row.last = ticket[t].last
      BY <2>2, <2>3, SomeoneOrNoOne DEF Ticket
    <2>5. ticket' = [ticket EXCEPT ![t] = row]
      BY <1>3, <2>1, <2>3 DEF AnswerTicketQuestion, StoreOK
    <2>6. StoreOK'
      BY <1>3, <2>2, <2>4, <2>5, SeatWritten DEF AnswerTicketQuestion, WholeSeat
    <2>7. ActorsOK' /\ HistoryOK'
      BY <1>0, <1>3, RestIsAState DEF AnswerTicketQuestion, ActorsOK, HistoryOK, history
    <2>. QED
      BY <2>6, <2>7
  <1>4. CASE ClickerStops(k)
    <2>1. StoreOK' /\ HistoryOK'
      BY <1>4 DEF ClickerStops, StoreOK, WholeSeat, store, HistoryOK, history
    <2>2. ActorsOK'
      BY <1>0, <1>4, RestIsAState DEF ClickerStops, ActorsOK
    <2>. QED
      BY <2>1, <2>2
  <1>. QED
    BY <1>1, <1>2, <1>3, <1>4 DEF Click

LEMMA SweepTyped ==
    ASSUME TypeOK, NEW w \in Sweepers, Sweep(w)
    PROVE  TypeOK'
  <1>. USE DEF TypeOK
  <1>0. /\ sweeper[w] \in SweeperState /\ sweeper \in [Sweepers -> SweeperState]
        /\ sweeper[w].pc # Idle => sweeper[w].ticket \in Tickets
                                   /\ sweeper[w].at \in Nat /\ sweeper[w].address \in Addresses
    BY ReaderFields DEF ActorsOK
  <1>1. \A t \in Tickets : owed[t] \in [at: {0, 1}, claimed: BOOLEAN]
    BY DEF StoreOK
  <1>2. NotOwed \in [at: {0, 1}, claimed: BOOLEAN]
    BY DEF NotOwed
  <1>3. ASSUME NEW t \in Tickets, ClaimOwedMail(w, t)
        PROVE  TypeOK'
    <2>1. ticket[t].address \in Addresses /\ ticket[t].at \in Nat
      BY <1>3 DEF ClaimOwedMail, MailStillOwed, StoreOK, Ticket, Someone
    <2>2. PICK call : call = [pc |-> "send", ticket |-> t, at |-> ticket[t].at,
                              address |-> ticket[t].address]
      OBVIOUS
    <2>3. call \in SweeperState
      BY <2>1, <2>2 DEF SweeperState
    <2>4. sweeper' = [sweeper EXCEPT ![w] = call]
      BY <1>3, <2>2 DEF ClaimOwedMail
    <2>5. ActorsOK'
      BY <1>0, <1>3, <2>3, <2>4 DEF ClaimOwedMail, ActorsOK
    <2>6. StoreOK'
      BY <1>1, <1>3 DEF ClaimOwedMail, StoreOK, WholeSeat
    <2>7. HistoryOK'
      BY <1>3 DEF ClaimOwedMail, HistoryOK, history
    <2>. QED
      BY <2>5, <2>6, <2>7
  <1>4. ASSUME NEW t \in Tickets, NEW deleted \in BOOLEAN, DropOwedMail(w, t, deleted)
        PROVE  TypeOK'
    <2>1. owed' \in [Tickets -> [at: {0, 1}, claimed: BOOLEAN]]
      BY <1>1, <1>2, <1>4 DEF DropOwedMail, StoreOK
    <2>. QED
      BY <1>4, <2>1 DEF DropOwedMail, StoreOK, WholeSeat, ActorsOK, actors, HistoryOK, history
  <1>5. CASE SendOwedMail(w)
    <2>1. [sweeper[w] EXCEPT !.pc = "record"] \in SweeperState
      BY <1>0, <1>5 DEF SendOwedMail, SweeperState, Rest, Idle
    <2>2. ActorsOK'
      BY <1>0, <1>5, <2>1 DEF SendOwedMail, ActorsOK
    <2>0. PICK t \in Tickets, a \in Addresses, n \in Nat :
             t = sweeper[w].ticket /\ a = sweeper[w].address /\ n = sweeper[w].at
      BY <1>0, <1>5 DEF SendOwedMail, Idle
    <2>3. links' \subseteq Link /\ copies' \in [Tickets -> [Numbers -> Nat]]
      <3>1. Mailed(t, n, a)
        BY <1>5, <2>0 DEF SendOwedMail
      <3>2. links' \subseteq Link
        BY <3>1 DEF Mailed, HistoryOK, Link
      <3>3. copies' \in [Tickets -> [Numbers -> Nat]]
        BY <3>1, CopiesMove DEF Mailed, HistoryOK
      <3>. QED
        BY <3>2, <3>3
    <2>4. StoreOK' /\ HistoryOK'
      BY <1>5, <2>3 DEF SendOwedMail, StoreOK, WholeSeat, store, HistoryOK
    <2>. QED
      BY <2>2, <2>4
  <1>6. CASE \/ BackOff(w) \/ RecordOwedAssignmentMailSent(w)
             \/ \E dropped \in BOOLEAN : SweeperStops(w, dropped)
    <2>1. sweeper[w].pc # Idle
      BY <1>6 DEF BackOff, RecordOwedAssignmentMailSent, SweeperStops, Idle
    <2>2. PICK t \in Tickets : t = sweeper[w].ticket
      BY <1>0, <2>1
    <2>3. owed' \in [Tickets -> [at: {0, 1}, claimed: BOOLEAN]]
      <3>1. \/ owed' = [owed EXCEPT ![t].claimed = FALSE]
            \/ owed' = [owed EXCEPT ![t] = NotOwed]
            \/ owed' = owed
        BY <1>6, <2>2 DEF BackOff, RecordOwedAssignmentMailSent, SweeperStops
      <3>2. CASE owed' = [owed EXCEPT ![t].claimed = FALSE]
        BY <3>2, MarkMovesTyped DEF StoreOK
      <3>3. CASE owed' = [owed EXCEPT ![t] = NotOwed] \/ owed' = owed
        BY <1>2, <3>3 DEF StoreOK
      <3>. QED
        BY <3>1, <3>2, <3>3
    <2>4. ledger' \in [Tickets -> [saved: Nat, checkout: Nat]]
      <3>1. \/ ledger' = [ledger EXCEPT ![t].checkout = @ + 1]
            \/ ledger' = ledger
        BY <1>6, <2>2 DEF BackOff, RecordOwedAssignmentMailSent, SweeperStops
      <3>. QED
        BY <3>1, LedgerMoves DEF StoreOK
    <2>5. UNCHANGED <<sale, doors, ticket, record>>
      BY <1>6 DEF BackOff, RecordOwedAssignmentMailSent, SweeperStops
    <2>6. StoreOK'
      BY <2>3, <2>4, <2>5 DEF StoreOK, WholeSeat
    <2>7. ActorsOK'
      BY <1>0, <1>6, RestIsAState DEF BackOff, RecordOwedAssignmentMailSent, SweeperStops, ActorsOK
    <2>8. HistoryOK'
      <3>1. lost' \in [Tickets -> Nat]
        BY <1>6, <2>2 DEF BackOff, RecordOwedAssignmentMailSent, SweeperStops, HistoryOK, history
      <3>2. UNCHANGED <<links, copies, told, held, raced>>
        BY <1>6 DEF BackOff, RecordOwedAssignmentMailSent, SweeperStops, history
      <3>. QED
        BY <3>1, <3>2 DEF HistoryOK
    <2>. QED
      BY <2>6, <2>7, <2>8
  <1>. QED
    BY <1>3, <1>4, <1>5, <1>6 DEF Sweep
\* Withdrawing only moves a state.
LEMMA WithdrawnRecords ==
    ASSUME record \in [Records -> Record]
    PROVE  /\ Withdrawn \in [Records -> Record]
           /\ \A r \in Records : /\ Withdrawn[r].previous = record[r].previous
                                 /\ Withdrawn[r].state # "pending"
                                 /\ record[r].state # "pending" => Withdrawn[r] = record[r]
  <1>1. ASSUME NEW r \in Records
        PROVE  /\ [record[r] EXCEPT !.state = "withdrawn"] \in Record
               /\ [record[r] EXCEPT !.state = "withdrawn"].previous = record[r].previous
               /\ [record[r] EXCEPT !.state = "withdrawn"].state = "withdrawn"
    BY DEF Record
  <1>. QED
    BY <1>1 DEF Withdrawn, Pending

LEMMA ReAddressTyped ==
    ASSUME TypeOK, ReAddress
    PROVE  TypeOK'
  <1>. USE DEF TypeOK
  <1>0. /\ operator \in [Operators -> OperatorState] /\ opener \in [Openers -> OpenerState]
        /\ record \in [Records -> Record] /\ sale.address \in Addresses
    BY DEF ActorsOK, StoreOK
  <1>1. ASSUME NEW o \in Operators, NEW a \in Addresses, ReAddressSale(o, a)
        PROVE  TypeOK'
    <2>1. [pc |-> "record", address |-> a] \in OperatorState
      BY DEF OperatorState
    <2>2. ActorsOK'
      BY <1>0, <1>1, <2>1 DEF ReAddressSale, ActorsOK
    <2>. QED
      BY <1>1, <2>2 DEF ReAddressSale, StoreOK, WholeSeat, store, HistoryOK, history
  <1>2. ASSUME NEW o \in Operators, RecordSaleReAddressing(o)
        PROVE  TypeOK'
    <2>1. operator[o].address \in Addresses
      BY <1>0, <1>2 DEF RecordSaleReAddressing, OperatorState, Rest, Idle
    <2>2. PICK row : row = [state |-> "pending", previous |-> sale.address,
                            corrected |-> operator[o].address]
      OBVIOUS
    <2>3. row \in Record
      BY <1>0, <2>1, <2>2, SomeoneOrNoOne DEF Record
    <2>4. PICK r \in Records : record' = [Withdrawn EXCEPT ![r] = row]
      BY <1>2, <2>2 DEF RecordSaleReAddressing, First, Unused
    <2>5. StoreOK'
      BY <1>0, <1>2, <2>3, <2>4, WithdrawnRecords DEF RecordSaleReAddressing, StoreOK, WholeSeat
    <2>6. ActorsOK'
      BY <1>0, <1>2, RestIsAState DEF RecordSaleReAddressing, ActorsOK
    <2>. QED
      BY <1>2, <2>5, <2>6 DEF RecordSaleReAddressing, HistoryOK, history
  <1>3. CASE WithdrawSaleReAddressing
    <2>1. record' \in [Records -> Record]
      BY <1>0, <1>3, WithdrawnRecords DEF WithdrawSaleReAddressing
    <2>. QED
      BY <1>3, <2>1 DEF WithdrawSaleReAddressing, StoreOK, WholeSeat, ActorsOK, actors,
           HistoryOK, history
  <1>4. ASSUME NEW q \in Openers, NEW r \in Records, OpenReAddressingLink(q, r)
        PROVE  TypeOK'
    <2>1. [pc |-> "accept", record |-> r] \in OpenerState
      BY DEF OpenerState
    <2>2. ActorsOK'
      BY <1>0, <1>4, <2>1 DEF OpenReAddressingLink, ActorsOK
    <2>. QED
      BY <1>4, <2>2 DEF OpenReAddressingLink, StoreOK, WholeSeat, store, HistoryOK, history
  <1>5. ASSUME NEW q \in Openers, AcceptSaleReAddressing(q)
        PROVE  TypeOK'
    <2>0. PICK r \in Records : r = opener[q].record
      <3>1. opener[q] \in OpenerState /\ opener[q].pc = "accept"
        BY <1>0, <1>5 DEF AcceptSaleReAddressing
      <3>. QED
        BY <3>1 DEF OpenerState, Rest, Idle
    <2>1. PICK a \in Addresses : a = record[r].corrected
      BY <1>0, <1>5, <2>0 DEF AcceptSaleReAddressing, Acceptable, Record, Someone
    <2>2. ASSUME NEW t \in Tickets
          PROVE  ticket'[t] \in Ticket /\ WholeSeat(t)'
      <3>1. ticket[t] \in Ticket /\ WholeSeat(t) /\ sale.address # NoOne /\ a # NoOne
        BY <1>0, AddressAssumption DEF StoreOK
      <3>2. PICK row : row = [ticket[t] EXCEPT !.address = a, !.holder = a]
        OBVIOUS
      <3>3. /\ row \in Ticket /\ row.accepted = ticket[t].accepted /\ row.at = ticket[t].at
            /\ row.last = ticket[t].last /\ row.address = a /\ row.holder = a
        BY <3>1, <3>2, SomeoneOrNoOne DEF Ticket
      <3>4. ticket'[t] = IF SelfHeld(t) THEN row ELSE ticket[t]
        BY <1>5, <2>0, <2>1, <3>2 DEF AcceptSaleReAddressing
      <3>. QED
        BY <3>1, <3>3, <3>4 DEF SelfHeld, WholeSeat
    <2>3. ticket' \in [Tickets -> Ticket]
      <3>1. ticket' = [t \in Tickets |-> ticket'[t]]
        BY <1>5 DEF AcceptSaleReAddressing
      <3>. QED
        BY <2>2, <3>1
    <2>4. record' \in [Records -> Record]
      <3>1. [record[r] EXCEPT !.state = "accepted"] \in Record
        BY <1>0 DEF Record
      <3>2. record' = [record EXCEPT ![r] = [record[r] EXCEPT !.state = "accepted"]]
        BY <1>5, <2>0 DEF AcceptSaleReAddressing
      <3>. QED
        BY <1>0, <3>1, <3>2
    <2>5. sale' \in [status: {"active", "reversed"}, address: Addresses]
      BY <1>5, <2>0, <2>1 DEF AcceptSaleReAddressing, StoreOK
    <2>6. StoreOK'
      BY <1>5, <2>2, <2>3, <2>4, <2>5 DEF AcceptSaleReAddressing, StoreOK
    <2>7. ActorsOK'
      BY <1>0, <1>5, RestIsAState DEF AcceptSaleReAddressing, ActorsOK
    <2>8. HistoryOK'
      <3>1. held' = held \cup {<<t, a>> : t \in {u \in Tickets : SelfHeld(u)}}
        BY <1>5, <2>0, <2>1 DEF AcceptSaleReAddressing
      <3>2. held' \subseteq Tickets \X Addresses
        BY <3>1 DEF HistoryOK
      <3>. QED
        BY <1>5, <3>2 DEF AcceptSaleReAddressing, HistoryOK
    <2>. QED
      BY <2>6, <2>7, <2>8
  <1>6. ASSUME NEW o \in Operators, OperatorStops(o)
        PROVE  TypeOK'
    <2>1. ActorsOK'
      BY <1>0, <1>6, RestIsAState DEF OperatorStops, ActorsOK
    <2>. QED
      BY <1>6, <2>1 DEF OperatorStops, StoreOK, WholeSeat, store, HistoryOK, history
  <1>7. ASSUME NEW q \in Openers, OpenerStops(q)
        PROVE  TypeOK'
    <2>1. ActorsOK'
      BY <1>0, <1>7, RestIsAState DEF OpenerStops, ActorsOK
    <2>. QED
      BY <1>7, <2>1 DEF OpenerStops, StoreOK, WholeSeat, store, HistoryOK, history
  <1>. QED
    BY <1>1, <1>2, <1>3, <1>4, <1>5, <1>6, <1>7 DEF ReAddress
LEMMA EndTyped ==
    ASSUME TypeOK,
           \/ \E t \in Tickets : LeaseLapses(t)
           \/ ReverseSale \/ OpenDoors
           \/ PurgeUnacceptedHolderAddresses \/ PurgeUnacceptedCorrectedAddresses
    PROVE  TypeOK'
  <1>. USE DEF TypeOK
  <1>1. ASSUME NEW t \in Tickets, LeaseLapses(t)
        PROVE  TypeOK'
    <2>1. owed' \in [Tickets -> [at: {0, 1}, claimed: BOOLEAN]]
      BY <1>1 DEF LeaseLapses, StoreOK
    <2>. QED
      BY <1>1, <2>1 DEF LeaseLapses, StoreOK, WholeSeat, ActorsOK, actors, HistoryOK, history
  <1>2. CASE ReverseSale
    <2>1. sale' \in [status: {"active", "reversed"}, address: Addresses]
      BY <1>2 DEF ReverseSale, StoreOK
    <2>. QED
      BY <1>2, <2>1 DEF ReverseSale, StoreOK, WholeSeat, ActorsOK, actors, HistoryOK, history
  <1>3. CASE OpenDoors
    BY <1>3 DEF OpenDoors, StoreOK, WholeSeat, ActorsOK, actors, HistoryOK, history
  <1>4. CASE PurgeUnacceptedHolderAddresses
    <2>1. ASSUME NEW t \in Tickets
          PROVE  ticket'[t] \in Ticket /\ WholeSeat(t)'
      <3>1. ticket[t] \in Ticket /\ WholeSeat(t)
        BY DEF StoreOK
      <3>2. /\ Purged(t) \in Ticket /\ Purged(t).address = NoOne /\ Purged(t).at = 0
            /\ Purged(t).last = ticket[t].last /\ Purged(t).accepted = ticket[t].accepted
            /\ Purged(t).holder = ticket[t].holder
        BY <3>1, SomeoneOrNoOne DEF Purged, Ticket
      <3>3. ticket'[t] = IF t \in Unaccepted THEN Purged(t) ELSE ticket[t]
        BY <1>4 DEF PurgeUnacceptedHolderAddresses
      <3>4. ticket[t].last \in Nat
        BY <3>1 DEF Ticket
      <3>. QED
        BY <3>1, <3>2, <3>3, <3>4 DEF Unaccepted, WholeSeat
    <2>2. ticket' \in [Tickets -> Ticket]
      <3>1. ticket' = [t \in Tickets |-> ticket'[t]]
        BY <1>4 DEF PurgeUnacceptedHolderAddresses
      <3>. QED
        BY <2>1, <3>1
    <2>. QED
      BY <1>4, <2>1, <2>2 DEF PurgeUnacceptedHolderAddresses, StoreOK, ActorsOK, actors,
           HistoryOK, history
  <1>5. CASE PurgeUnacceptedCorrectedAddresses
    <2>1. ASSUME NEW r \in Records
          PROVE  [record[r] EXCEPT !.corrected = NoOne] \in Record
      BY SomeoneOrNoOne DEF StoreOK, Record
    <2>2. record' \in [Records -> Record]
      BY <1>5, <2>1 DEF PurgeUnacceptedCorrectedAddresses, StoreOK
    <2>. QED
      BY <1>5, <2>2 DEF PurgeUnacceptedCorrectedAddresses, StoreOK, WholeSeat, ActorsOK, actors,
           HistoryOK, history
  <1>. QED
    BY <1>1, <1>2, <1>3, <1>4, <1>5

----------------------------------------------------------------------------
(* Re-addressing *)

\* Of the re-addressings of a sale one is pending at most, and it moves away from the
\* address the sale carries.
AddressInv == TypeOK /\ PendingNamesTheSale

\* Steps that touch neither the sale's address nor its records.
LEMMA RecordsUntouched ==
    ASSUME AddressInv, TypeOK', record' = record, sale'.address = sale.address
    PROVE  AddressInv'
  BY DEF AddressInv, PendingNamesTheSale, Pending

LEMMA AddressInit == Init => AddressInv
  BY InitTyped DEF Init, AddressInv, PendingNamesTheSale, Pending
\* Which actions leave the sale and its records alone.
LEMMA SeatStepsKeepRecords ==
    ASSUME \/ \E s \in Savers : Save(s)
           \/ \E k \in Clickers : Click(k)
           \/ \E w \in Sweepers : Sweep(w)
           \/ \E t \in Tickets : LeaseLapses(t)
           \/ OpenDoors \/ PurgeUnacceptedHolderAddresses
           \/ UNCHANGED vars
    PROVE  record' = record /\ sale' = sale
  <1>1. ASSUME NEW s \in Savers, Save(s)
        PROVE  UNCHANGED <<sale, doors, record>>
    BY <1>1 DEF Save, ReadOwnTicket, AssignTicketToHolder, AssignNothing, MailAssignedTicket,
       TellDisplacedHolder, RecordAssignmentMailSent, SaverStops, store
  <1>2. ASSUME NEW k \in Clickers, Click(k)
        PROVE  UNCHANGED <<sale, doors, record>>
    BY <1>2 DEF Click, OpenAssignmentLink, AcceptTicketAssignment, AnswerTicketQuestion,
       ClickerStops, store
  <1>3. ASSUME NEW w \in Sweepers, Sweep(w)
        PROVE  UNCHANGED <<sale, doors, record>>
    BY <1>3 DEF Sweep, ClaimOwedMail, DropOwedMail, SendOwedMail, BackOff,
       RecordOwedAssignmentMailSent, SweeperStops, store
  <1>. QED
    BY <1>1, <1>2, <1>3 DEF LeaseLapses, OpenDoors, PurgeUnacceptedHolderAddresses, vars, store

\* What the acceptance of a re-addressing does to the sale and its record.
LEMMA AcceptMoves ==
    ASSUME AddressInv, NEW q \in Openers, AcceptSaleReAddressing(q)
    PROVE  \E r \in Pending :
             /\ Open /\ r = opener[q].record /\ record[r].corrected # NoOne
             /\ sale'.address = record[r].corrected /\ sale'.status = sale.status
             /\ record' = [record EXCEPT ![r].state = "accepted"]
             /\ record'[r].state = "accepted"
             /\ \A p \in Records \ {r} : record'[p] = record[p]
  <1>1. /\ record \in [Records -> Record] /\ opener[q] \in OpenerState
        /\ sale \in [status: {"active", "reversed"}, address: Addresses]
    BY DEF AddressInv, TypeOK, StoreOK, ActorsOK
  <1>2. opener[q].pc = "accept"
    BY DEF AcceptSaleReAddressing
  <1>3. PICK r \in Records : r = opener[q].record
    BY <1>1, <1>2 DEF OpenerState, Rest, Idle
  <1>4. r \in Pending /\ Open /\ record[r].corrected # NoOne
    BY <1>3 DEF AcceptSaleReAddressing, Acceptable, ReAddressingState, Pending
  <1>5. record' = [record EXCEPT ![r].state = "accepted"]
        /\ sale' = [sale EXCEPT !.address = record[r].corrected]
    BY <1>3 DEF AcceptSaleReAddressing
  <1>6. record[r] \in Record
    BY <1>1
  <1>. QED
    BY <1>1, <1>3, <1>4, <1>5, <1>6 DEF Record

\* A step keeps the invariant: only the operator's record and the reader's acceptance move
\* records, and both under the sale's row lock.
LEMMA AddressStep ==
    ASSUME AddressInv, [Next]_vars
    PROVE  AddressInv'
  <1>0. TypeOK /\ PendingNamesTheSale /\ record \in [Records -> Record]
    BY DEF AddressInv, TypeOK, StoreOK
  <1>1. TypeOK'
    <2>1. CASE UNCHANGED vars
      BY <1>0, <2>1 DEF vars, store, actors, history, TypeOK, StoreOK, WholeSeat, ActorsOK, HistoryOK
    <2>. QED
      BY <1>0, <2>1, SaveTyped, ClickTyped, SweepTyped, ReAddressTyped, EndTyped DEF Next
  <1>2. CASE \/ \E s \in Savers : Save(s)
             \/ \E k \in Clickers : Click(k)
             \/ \E w \in Sweepers : Sweep(w)
             \/ \E t \in Tickets : LeaseLapses(t)
             \/ OpenDoors \/ PurgeUnacceptedHolderAddresses
             \/ UNCHANGED vars
    BY <1>1, <1>2, SeatStepsKeepRecords, RecordsUntouched
  <1>3. CASE ReverseSale
    <2>1. sale'.address = sale.address
      BY <1>0, <1>3 DEF ReverseSale, TypeOK, StoreOK
    <2>. QED
      BY <1>1, <1>3, <2>1, RecordsUntouched DEF ReverseSale
  <1>4. CASE PurgeUnacceptedCorrectedAddresses
    <2>1. \A r \in Records : [record[r] EXCEPT !.corrected = NoOne].state = record[r].state
                           /\ [record[r] EXCEPT !.corrected = NoOne].previous = record[r].previous
      BY <1>0 DEF Record
    <2>2. /\ sale' = sale
          /\ \A r \in Records : /\ record'[r].state = record[r].state
                                /\ record'[r].previous = record[r].previous
      BY <1>4, <2>1 DEF PurgeUnacceptedCorrectedAddresses
    <2>. QED
      BY <1>0, <1>1, <2>2 DEF AddressInv, PendingNamesTheSale, Pending
  <1>5. ASSUME NEW o \in Operators, RecordSaleReAddressing(o)
        PROVE  AddressInv'
    <2>1. operator[o] \in OperatorState /\ operator[o].pc = "record"
      BY <1>0, <1>5 DEF RecordSaleReAddressing, TypeOK, ActorsOK
    <2>2. operator[o].address \in Addresses
      BY <2>1 DEF OperatorState, Rest, Idle
    <2>3. PICK r \in Records :
             record' = [Withdrawn EXCEPT ![r] = [state |-> "pending", previous |-> sale.address,
                                                 corrected |-> operator[o].address]]
      BY <1>5 DEF RecordSaleReAddressing, First, Unused
    <2>4. /\ record'[r].previous = sale.address /\ record'[r].corrected \in Addresses
          /\ \A p \in Records \ {r} : record'[p].state # "pending"
          /\ sale' = sale
      BY <1>0, <1>5, <2>2, <2>3, WithdrawnRecords DEF RecordSaleReAddressing
    <2>. QED
      BY <1>1, <2>4 DEF AddressInv, PendingNamesTheSale, Pending
  <1>6. CASE WithdrawSaleReAddressing
    <2>1. Pending' = {}
      BY <1>0, <1>6, WithdrawnRecords DEF WithdrawSaleReAddressing, Pending
    <2>. QED
      BY <1>1, <2>1 DEF AddressInv, PendingNamesTheSale
  <1>7. ASSUME NEW q \in Openers, AcceptSaleReAddressing(q)
        PROVE  AddressInv'
    <2>1. Pending' = {}
      BY <1>0, <1>7, AcceptMoves DEF PendingNamesTheSale, Pending
    <2>. QED
      BY <1>1, <2>1 DEF AddressInv, PendingNamesTheSale
  <1>8. CASE \/ \E o \in Operators, a \in Addresses : ReAddressSale(o, a)
             \/ \E o \in Operators : OperatorStops(o)
             \/ \E q \in Openers, r \in Records : OpenReAddressingLink(q, r)
             \/ \E q \in Openers : OpenerStops(q)
    BY <1>1, <1>8, RecordsUntouched DEF ReAddressSale, OperatorStops, OpenReAddressingLink,
       OpenerStops, store
  <1>. QED
    BY <1>2, <1>3, <1>4, <1>5, <1>6, <1>7, <1>8 DEF Next, ReAddress

\* The invariant of the sale's address and its records (RecordSaleReAddressing,
\* AcceptSaleReAddressing and the purge keep it).
THEOREM AddressHolds == Spec => []AddressInv
  BY AddressInit, AddressStep, PTL DEF Spec

\* Every variable has its type and every seat satisfies the CHECKs of tickets, for any
\* number of tickets, savers, readers, sweeps and operators.
THEOREM TypeCorrect == Spec => []TypeOK
  <1>1. AddressInv => TypeOK
    BY DEF AddressInv
  <1>. QED
    BY <1>1, AddressHolds, PTL

\* RecordSaleReAddressing replaces what was pending: there is one at most, and it moves away
\* from the address the sale carries.
THEOREM OnePending == Spec => []PendingNamesTheSale
  <1>1. AddressInv => PendingNamesTheSale
    BY DEF AddressInv
  <1>. QED
    BY <1>1, AddressHolds, PTL
\* AcceptSaleReAddressing derives the state again under the sale's row lock: the sale moves
\* only while it may, and only along its one pending record.
THEOREM SaleMovesAlive == Spec => OnlyALiveSaleMoves
  <1>. DEFINE Moved == sale'.address # sale.address =>
                 /\ Open
                 /\ \E r \in Pending : /\ record'[r].state = "accepted"
                                       /\ record[r].corrected = sale'.address
  <1>1. ASSUME AddressInv, [Next]_vars, sale'.address # sale.address
        PROVE  Moved
    <2>1. sale \in [status: {"active", "reversed"}, address: Addresses]
      BY <1>1 DEF AddressInv, TypeOK, StoreOK
    <2>2. PICK q \in Openers : AcceptSaleReAddressing(q)
      <3>1. ASSUME ~\E q \in Openers : AcceptSaleReAddressing(q)
            PROVE  sale' = sale \/ ReverseSale
        BY <1>1, <3>1, SeatStepsKeepRecords
           DEF Next, ReAddress, ReAddressSale, RecordSaleReAddressing, OperatorStops,
               WithdrawSaleReAddressing, OpenReAddressingLink, OpenerStops, store,
               PurgeUnacceptedCorrectedAddresses
      <3>2. ReverseSale => sale'.address = sale.address
        BY <2>1 DEF ReverseSale
      <3>. QED
        BY <1>1, <3>1, <3>2
    <2>. QED
      BY <1>1, <2>2, AcceptMoves
  <1>2. AddressInv /\ [Next]_vars => [Moved]_vars
    BY <1>1
  <1>. QED
    BY <1>2, AddressHolds, PTL DEF Spec, OnlyALiveSaleMoves

\* Withdrawing, replacing and purging look at the state first.
LEMMA AcceptedKept ==
    ASSUME AddressInv, [Next]_vars
    PROVE  \A r \in Records : record[r].state = "accepted" => record'[r] = record[r]
  <1>. DEFINE Stands == \A r \in Records : record[r].state = "accepted" => record'[r] = record[r]
  <1>0. record \in [Records -> Record]
    BY DEF AddressInv, TypeOK, StoreOK
  <1>1. ASSUME NEW q \in Openers, AcceptSaleReAddressing(q)
        PROVE  Stands
    BY <1>1, AcceptMoves DEF Pending
  <1>2. ASSUME NEW o \in Operators, RecordSaleReAddressing(o)
        PROVE  Stands
    <2>1. PICK r \in Unused :
             record' = [Withdrawn EXCEPT ![r] = [state |-> "pending", previous |-> sale.address,
                                                 corrected |-> operator[o].address]]
      BY <1>2 DEF RecordSaleReAddressing, First
    <2>. QED
      BY <1>0, <2>1, WithdrawnRecords DEF Unused
  <1>3. CASE WithdrawSaleReAddressing
    BY <1>0, <1>3, WithdrawnRecords DEF WithdrawSaleReAddressing
  <1>4. CASE PurgeUnacceptedCorrectedAddresses
    BY <1>4 DEF PurgeUnacceptedCorrectedAddresses, Unproved
  <1>5. CASE record' = record
    BY <1>5
  <1>6. \/ record' = record \/ WithdrawSaleReAddressing \/ PurgeUnacceptedCorrectedAddresses
        \/ \E q \in Openers : AcceptSaleReAddressing(q)
        \/ \E o \in Operators : RecordSaleReAddressing(o)
    BY SeatStepsKeepRecords
       DEF Next, ReAddress, ReAddressSale, OperatorStops, OpenReAddressingLink, OpenerStops,
           store, ReverseSale
  <1>. QED
    BY <1>1, <1>2, <1>3, <1>4, <1>5, <1>6

\* What was accepted stands, whatever the operator and the purge do to the rest.
THEOREM AcceptedStands == Spec => AcceptedReAddressingStands
  <1>. DEFINE Stands == \A r \in Records : record[r].state = "accepted" => record'[r] = record[r]
  <1>1. AddressInv /\ [Next]_vars => [Stands]_vars
    BY AcceptedKept
  <1>. QED
    BY <1>1, AddressHolds, PTL DEF Spec, AcceptedReAddressingStands

----------------------------------------------------------------------------
(* Seats *)

\* A re-addressing took the sale away from a.
MovedFrom(a) == \E r \in Records : record[r].state = "accepted" /\ record[r].previous = a

\* What a reader of a link still knows when it comes to write: the assignment it read was
\* mailed, and while that assignment lasts the seat is at its address, or a re-addressing
\* carried the accepted seat away from it.
ClickerKnows(k) ==
    LET t == clicker[k].ticket
        n == clicker[k].at
        a == clicker[k].address
    IN  /\ 0 < n /\ n <= ticket[t].last
        /\ [ticket |-> t, at |-> n, address |-> a] \in links
        /\ ticket[t].at = n => ticket[t].address = a \/ (ticket[t].accepted /\ MovedFrom(a))

ClickersKnow == \A k \in Clickers : clicker[k].pc = "accept" => ClickerKnows(k)

\* Who holds a seat accepted it, and so did whom a save is about to tell they lost it.
HolderKnown == \A t \in Tickets : ticket[t].accepted => <<t, ticket[t].address>> \in held

ToTell(s) == saver[s].pc \in {"mail", "tell"} /\ saver[s].displaced # NoOne

DisplacedHeld ==
    \A s \in Savers : ToTell(s) => <<saver[s].ticket, saver[s].displaced>> \in held

SeatInv ==
    /\ AddressInv /\ NamedTicketIsAnswered
    /\ ClickersKnow /\ HolderProvedTheAddress
    /\ HolderKnown /\ DisplacedHeld /\ OnlyHoldersAreTold

LEMMA SeatInit == Init => SeatInv
  <1>. SUFFICES ASSUME Init PROVE SeatInv
    OBVIOUS
  <1>1. AddressInv
    BY AddressInit
  <1>2. ASSUME NEW t \in Tickets
        PROVE  /\ ticket[t].accepted => ticket[t].holder = ticket[t].address
               /\ NamedTickets /\ ticket[t].address # NoOne => ticket[t].answers # NoOne
    <2>1. ticket[t] = Unassigned \/ \E a \in Addresses : ticket[t] = Minted(a)
      BY DEF Init
    <2>2. CASE ticket[t] = Unassigned
      BY <2>2 DEF Unassigned
    <2>3. ASSUME NEW a \in Addresses, ticket[t] = Minted(a)
          PROVE  /\ ticket[t].accepted => ticket[t].holder = ticket[t].address
                 /\ NamedTickets /\ ticket[t].address # NoOne => ticket[t].answers # NoOne
      <3>1. /\ Minted(a).address = a /\ Minted(a).answers = (IF NamedTickets THEN a ELSE NoOne)
            /\ Minted(a).accepted = (a = SoldTo)
            /\ Minted(a).holder = (IF a = SoldTo THEN SoldTo ELSE NoOne)
        BY DEF Minted
      <3>. QED
        BY <2>3, <3>1, AddressAssumption
    <2>. QED
      BY <2>1, <2>2, <2>3
  <1>3. ClickersKnow /\ DisplacedHeld /\ OnlyHoldersAreTold
    BY DEF Init, Rest, Idle, ClickersKnow, ToTell, DisplacedHeld, OnlyHoldersAreTold
  <1>4. HolderKnown
    BY DEF Init, HolderKnown
  <1>. QED
    BY <1>1, <1>2, <1>3, <1>4 DEF SeatInv, NamedTicketIsAnswered, HolderProvedTheAddress

\* A step that rewrites no seat, brings no reader to its write and displaces nobody.
LEMMA SeatsUntouched ==
    ASSUME SeatInv, AddressInv',
           \A r \in Records : record[r].state = "accepted" => record'[r] = record[r],
           \A t \in Tickets :
              /\ ticket'[t].address = ticket[t].address /\ ticket'[t].holder = ticket[t].holder
              /\ ticket'[t].at = ticket[t].at /\ ticket'[t].last = ticket[t].last
              /\ ticket'[t].accepted = ticket[t].accepted
              /\ ticket'[t].answers \in {ticket[t].answers} \cup Addresses,
           \A k \in Clickers : clicker'[k] = clicker[k] \/ clicker'[k].pc # "accept",
           \A s \in Savers : saver'[s] = saver[s] \/ saver'[s].pc \notin {"mail", "tell"},
           links \subseteq links', held' = held,
           told' \subseteq told \cup {<<saver[s].ticket, saver[s].displaced>> :
                                    s \in {z \in Savers : ToTell(z)}}
    PROVE  SeatInv'
  <1>1. NamedTicketIsAnswered'
    BY AddressAssumption DEF SeatInv, NamedTicketIsAnswered
  <1>2. \A a : MovedFrom(a) => MovedFrom(a)'
    BY DEF MovedFrom
  <1>3. ASSUME NEW k \in Clickers, clicker'[k].pc = "accept"
        PROVE  ClickerKnows(k)'
    <2>1. clicker'[k] = clicker[k]
      BY <1>3
    <2>2. ClickerKnows(k)
      BY <1>3, <2>1 DEF SeatInv, ClickersKnow
    <2>3. clicker[k].ticket \in Tickets
      BY <1>3, <2>1, ReaderFields DEF SeatInv, AddressInv, TypeOK, ActorsOK, Idle
    <2>. QED
      BY <1>2, <2>1, <2>2, <2>3 DEF ClickerKnows
  <1>4. HolderProvedTheAddress'
    BY DEF SeatInv, HolderProvedTheAddress
  <1>5. HolderKnown'
    BY DEF SeatInv, HolderKnown
  <1>6. DisplacedHeld'
    BY DEF SeatInv, DisplacedHeld, ToTell
  <1>7. OnlyHoldersAreTold'
    BY DEF SeatInv, DisplacedHeld, OnlyHoldersAreTold
  <1>. QED
    BY <1>1, <1>3, <1>4, <1>5, <1>6, <1>7 DEF SeatInv, ClickersKnow
\* A save writes one seat under its lock: a new assignment outruns every link read before,
\* and whom it displaces had accepted.
LEMMA SaveSeats ==
    ASSUME SeatInv, AddressInv', NEW s \in Savers, AssignTicketToHolder(s)
    PROVE  SeatInv'
  <1>0. /\ TypeOK /\ saver[s] \in SaverState /\ saver \in [Savers -> SaverState]
        /\ NamedTicketIsAnswered /\ ClickersKnow /\ HolderProvedTheAddress
        /\ HolderKnown /\ DisplacedHeld /\ OnlyHoldersAreTold
    BY DEF SeatInv, AddressInv, TypeOK, ActorsOK
  <1>1. PICK t \in Tickets, a \in Addresses, by \in Addresses :
           t = saver[s].ticket /\ a = saver[s].address /\ by = saver[s].by
    BY <1>0, SaverFields DEF AssignTicketToHolder
  <1>. DEFINE own == a = by
              changes == ticket[t].address # a
              row == IF changes THEN Assigned(t, a, AnswersAfter(t, s)) ELSE ticket[t]
              seat == IF own THEN AcceptForBuyer(t, row, by, a) ELSE row
              call == IF changes /\ (~own \/ DisplacedHolder(t) # NoOne)
                      THEN [pc |-> IF own THEN "tell" ELSE "mail", ticket |-> t,
                            address |-> a, at |-> row.last, displaced |-> DisplacedHolder(t)]
                      ELSE Rest
  <1>2. /\ ticket[t] \in Ticket /\ WholeSeat(t) /\ ticket \in [Tickets -> Ticket]
        /\ a # NoOne /\ AnswersAfter(t, s) \in Someone
    BY <1>0, <1>1, AddressAssumption DEF TypeOK, StoreOK, AnswersAfter, Ticket, Someone
  <1>3. ticket[t].last \in Nat /\ ticket[t].at \in Nat /\ ticket[t].at <= ticket[t].last
    BY <1>2 DEF Ticket, WholeSeat
  <1>4. changes => /\ row \in Ticket /\ row.address = a /\ row.at = ticket[t].last + 1
                   /\ row.last = ticket[t].last + 1 /\ ~row.accepted
                   /\ NamedTickets => row.answers = a
    <2>1. NamedTickets /\ changes => AnswersAfter(t, s) = a
      BY <1>1 DEF AssignTicketToHolder, AnswersAfter
    <2>. QED
      BY <1>2, <2>1, AssignedSeat
  <1>5. ~changes => row = ticket[t] /\ row.at # 0
    BY <1>2 DEF WholeSeat
  <1>. HIDE DEF row
  <1>6. row \in Ticket
    BY <1>2, <1>4, <1>5
  <1>7. own => /\ seat.address = a /\ seat.accepted /\ seat.holder = a /\ seat.last = row.last
               /\ seat.answers = row.answers
               /\ seat.at = IF ticket[t].address = a /\ ticket[t].at # 0
                            THEN ticket[t].at ELSE row.last
    BY <1>2, <1>6, AcceptedSeat
  <1>8. ~own => seat = row /\ changes
    BY <1>1 DEF AssignTicketToHolder
  <1>9. ticket' = [ticket EXCEPT ![t] = seat] /\ saver' = [saver EXCEPT ![s] = call]
        /\ held' = (IF own THEN held \cup {<<t, a>>} ELSE held)
        /\ UNCHANGED <<record, clicker, links, told>>
    BY <1>1 DEF AssignTicketToHolder, row
  <1>10. ticket'[t] = seat /\ \A u \in Tickets : u # t => ticket'[u] = ticket[u]
    BY <1>2, <1>9
  <1>11. seat.address = a /\ seat.last >= ticket[t].last
         /\ (changes => seat.at = ticket[t].last + 1 /\ seat.at = seat.last)
         /\ (~changes => seat.at = ticket[t].at /\ seat.accepted)
    BY <1>2, <1>3, <1>4, <1>5, <1>7, <1>8
  <1>12. NamedTicketIsAnswered'
    <2>1. NamedTickets => seat.answers # NoOne
      <3>1. NamedTickets => row.answers # NoOne
        BY <1>0, <1>2, <1>4, <1>5 DEF NamedTicketIsAnswered
      <3>. QED
        BY <1>7, <1>8, <3>1
    <2>. QED
      BY <1>0, <1>10, <2>1 DEF NamedTicketIsAnswered
  <1>. HIDE DEF seat, call
  <1>13. ASSUME NEW k \in Clickers, clicker[k].pc = "accept"
         PROVE  ClickerKnows(k)'
    <2>1. ClickerKnows(k) /\ clicker[k].ticket \in Tickets /\ clicker[k].at \in Nat
      BY <1>0, <1>13, ReaderFields DEF ClickersKnow, TypeOK, ActorsOK, Idle
    <2>2. MovedFrom(clicker[k].address) <=> MovedFrom(clicker[k].address)'
      BY <1>9 DEF MovedFrom
    <2>3. CASE clicker[k].ticket # t
      BY <1>9, <1>10, <2>1, <2>2, <2>3 DEF ClickerKnows
    <2>4. CASE clicker[k].ticket = t
      <3>1. changes => clicker[k].at # seat.at
        BY <1>3, <1>11, <2>1, <2>4 DEF ClickerKnows
      <3>2. seat.last \in Nat
        BY <1>4, <1>5, <1>6, <1>7, <1>8 DEF Ticket, seat
      <3>3. clicker[k].at <= seat.last
        BY <1>3, <1>11, <2>1, <2>4, <3>2 DEF ClickerKnows
      <3>4. ~changes => seat.address = ticket[t].address
        BY <1>11
      <3>. QED
        BY <1>9, <1>10, <1>11, <2>1, <2>2, <2>4, <3>1, <3>3, <3>4 DEF ClickerKnows
    <2>. QED
      BY <2>3, <2>4
  <1>14. HolderProvedTheAddress'
    <2>1. seat.accepted => seat.holder = seat.address
      BY <1>4, <1>7, <1>8, <1>11 DEF seat
    <2>. QED
      BY <1>0, <1>9, <1>10, <2>1 DEF HolderProvedTheAddress
  <1>15. HolderKnown'
    <2>1. seat.accepted => own
      BY <1>4, <1>8
    <2>. QED
      BY <1>0, <1>9, <1>10, <1>11, <2>1 DEF HolderKnown
  <1>16. DisplacedHeld'
    <2>1. call.pc \in {"mail", "tell"} /\ call.displaced # NoOne
            => <<call.ticket, call.displaced>> \in held
      BY <1>0, RestIsAState DEF call, HolderKnown, DisplacedHolder, Idle
    <2>2. saver'[s] = call /\ \A z \in Savers : z # s => saver'[z] = saver[z]
      BY <1>0, <1>9
    <2>. QED
      BY <1>0, <1>9, <2>1, <2>2 DEF DisplacedHeld, ToTell
  <1>17. OnlyHoldersAreTold' /\ ClickersKnow'
    BY <1>0, <1>9, <1>13 DEF OnlyHoldersAreTold, ClickersKnow
  <1>. QED
    BY <1>12, <1>14, <1>15, <1>16, <1>17 DEF SeatInv
\* The reader of a link takes the assignment it read, and nobody else's.
LEMMA OpenSeats ==
    ASSUME SeatInv, AddressInv', NEW k \in Clickers, NEW l \in links, OpenAssignmentLink(k, l)
    PROVE  SeatInv'
  <1>0. /\ TypeOK /\ NamedTicketIsAnswered /\ ClickersKnow /\ HolderProvedTheAddress
        /\ HolderKnown /\ DisplacedHeld /\ OnlyHoldersAreTold
    BY DEF SeatInv, AddressInv
  <1>1. /\ ticket' = ticket /\ record' = record /\ saver' = saver
        /\ links' = links /\ held' = held /\ told' = told
    BY DEF OpenAssignmentLink, store, history
  <1>2. PICK t \in Tickets, n \in Nat, a \in Addresses :
           l = [ticket |-> t, at |-> n, address |-> a]
    BY <1>0, NumbersAreNat DEF TypeOK, HistoryOK, Link
  <1>3. clicker' = [clicker EXCEPT ![k] = [pc |-> "accept", ticket |-> t, at |-> n, address |-> a]]
    BY <1>2 DEF OpenAssignmentLink
  <1>4. /\ clicker'[k].ticket = t /\ clicker'[k].at = n /\ clicker'[k].address = a
        /\ \A j \in Clickers : j # k => clicker'[j] = clicker[j]
    BY <1>0, <1>3 DEF TypeOK, ActorsOK
  <1>5. ticket[t].at = n /\ ticket[t].address = a /\ a # NoOne /\ n # 0 /\ n <= ticket[t].last
    <2>1. ticket[t].at = n /\ ticket[t].address = a
      BY <1>2 DEF OpenAssignmentLink, NamesAssignment
    <2>. QED
      BY <1>0, <2>1, AddressAssumption DEF TypeOK, StoreOK, WholeSeat
  <1>6. ClickerKnows(k)'
    BY <1>1, <1>2, <1>4, <1>5 DEF ClickerKnows
  <1>7. ClickersKnow'
    <2>1. ASSUME NEW j \in Clickers, j # k, clicker[j].pc = "accept"
          PROVE  ClickerKnows(j)'
      BY <1>0, <1>1, <1>4, <2>1 DEF ClickersKnow, ClickerKnows, MovedFrom
    <2>. QED
      BY <1>4, <1>6, <2>1 DEF ClickersKnow
  <1>. QED
    BY <1>0, <1>1, <1>7 DEF SeatInv, NamedTicketIsAnswered, HolderProvedTheAddress, HolderKnown,
       DisplacedHeld, ToTell, OnlyHoldersAreTold

\* AcceptTicketAssignment seats whom the link named: while the assignment it read lasts,
\* that is the address on the seat, unless a re-addressing carried it away.
LEMMA AcceptSeats ==
    ASSUME SeatInv, AddressInv', NEW k \in Clickers, NEW answers \in BOOLEAN,
           AcceptTicketAssignment(k, answers)
    PROVE  SeatInv'
  <1>0. /\ TypeOK /\ NamedTicketIsAnswered /\ ClickersKnow /\ HolderProvedTheAddress
        /\ HolderKnown /\ DisplacedHeld /\ OnlyHoldersAreTold
    BY DEF SeatInv, AddressInv
  <1>1. PICK t \in Tickets, a \in Addresses :
           t = clicker[k].ticket /\ a = clicker[k].address /\ clicker[k].pc = "accept"
    BY <1>0, ReaderFields DEF TypeOK, ActorsOK, AcceptTicketAssignment, Idle
  <1>2. ticket[t].at = clicker[k].at /\ ticket[t] \in Ticket /\ ticket \in [Tickets -> Ticket]
    BY <1>0, <1>1 DEF AcceptTicketAssignment, StillAssigned, TypeOK, StoreOK
  <1>3. ticket[t].address = a \/ (ticket[t].accepted /\ MovedFrom(a))
    BY <1>0, <1>1, <1>2 DEF ClickersKnow, ClickerKnows
  <1>4. PICK row : row = [ticket[t] EXCEPT !.accepted = TRUE, !.holder = a]
    OBVIOUS
  <1>5. /\ row.accepted /\ row.holder = a /\ row.address = ticket[t].address
        /\ row.at = ticket[t].at /\ row.last = ticket[t].last /\ row.answers = ticket[t].answers
    BY <1>2, <1>4 DEF Ticket
  <1>6. ticket' = [ticket EXCEPT ![t] = row]
    BY <1>1, <1>2, <1>4 DEF AcceptTicketAssignment
  <1>7. ticket'[t] = row /\ \A u \in Tickets : u # t => ticket'[u] = ticket[u]
    BY <1>2, <1>6
  <1>8. /\ record' = record /\ saver' = saver /\ links' = links /\ told' = told
        /\ held' = held \cup {<<t, a>>}
        /\ \A j \in Clickers : clicker'[j].pc = "accept" => clicker'[j] = clicker[j]
    <2>1. clicker \in [Clickers -> ClickerState] /\ clicker[k] \in ClickerState
      BY <1>0 DEF TypeOK, ActorsOK
    <2>2. [clicker[k] EXCEPT !.pc = "answer"].pc = "answer" /\ Rest.pc = "idle"
      BY <1>1, <2>1 DEF ClickerState, Rest, Idle
    <2>. QED
      BY <1>1, <2>1, <2>2 DEF AcceptTicketAssignment
  <1>9. MovedFrom(a) <=> MovedFrom(a)'
    BY <1>8 DEF MovedFrom
  <1>10. NamedTicketIsAnswered'
    BY <1>0, <1>5, <1>7 DEF NamedTicketIsAnswered
  <1>11. ClickersKnow'
    <2>1. ASSUME NEW j \in Clickers, clicker'[j].pc = "accept"
          PROVE  ClickerKnows(j)'
      <3>1. ClickerKnows(j) /\ clicker[j].ticket \in Tickets /\ clicker'[j] = clicker[j]
        BY <1>0, <1>8, <2>1, ReaderFields DEF ClickersKnow, TypeOK, ActorsOK, Idle
      <3>. QED
        BY <1>5, <1>7, <1>8, <3>1 DEF ClickerKnows, MovedFrom
    <2>. QED
      BY <2>1 DEF ClickersKnow
  <1>12. HolderProvedTheAddress'
    BY <1>0, <1>3, <1>5, <1>7, <1>8 DEF HolderProvedTheAddress, MovedFrom
  <1>13. HolderKnown'
    BY <1>0, <1>3, <1>5, <1>7, <1>8 DEF HolderKnown
  <1>14. DisplacedHeld' /\ OnlyHoldersAreTold'
    BY <1>0, <1>8 DEF DisplacedHeld, ToTell, OnlyHoldersAreTold
  <1>. QED
    BY <1>10, <1>11, <1>12, <1>13, <1>14 DEF SeatInv

\* A re-addressing carries the buyer's own seats, address and Customer together, to the
\* address its reader proved.
LEMMA MoveSeats ==
    ASSUME SeatInv, AddressInv', NEW q \in Openers, AcceptSaleReAddressing(q),
           \A r \in Records : record[r].state = "accepted" => record'[r] = record[r]
    PROVE  SeatInv'
  <1>0. /\ TypeOK /\ AddressInv /\ NamedTicketIsAnswered /\ ClickersKnow
        /\ HolderProvedTheAddress /\ HolderKnown /\ DisplacedHeld /\ OnlyHoldersAreTold
    BY DEF SeatInv, AddressInv
  <1>1. PICK r \in Pending : /\ Open /\ r = opener[q].record /\ record[r].corrected # NoOne
                             /\ sale'.address = record[r].corrected
                             /\ record' = [record EXCEPT ![r].state = "accepted"]
                             /\ record'[r].state = "accepted"
    BY <1>0, AcceptMoves
  <1>2. PICK a \in Addresses : a = record[r].corrected
    BY <1>0, <1>1 DEF TypeOK, StoreOK, Record, Someone, Pending
  <1>. PICK from : from = sale.address
    OBVIOUS
  <1>3. MovedFrom(from)' /\ \A b : MovedFrom(b) => MovedFrom(b)'
    <2>1. record \in [Records -> Record] /\ r \in Records
      BY <1>0, <1>1 DEF TypeOK, StoreOK, Pending
    <2>2. record'[r].previous = from
      BY <1>0, <1>1, <2>1 DEF AddressInv, PendingNamesTheSale, Record
    <2>3. MovedFrom(from)'
      BY <1>1, <2>1, <2>2 DEF MovedFrom
    <2>4. \A b : MovedFrom(b) => MovedFrom(b)'
      BY DEF MovedFrom
    <2>. QED
      BY <2>3, <2>4
  <1>4. ASSUME NEW t \in Tickets
        PROVE  /\ ticket'[t].at = ticket[t].at /\ ticket'[t].last = ticket[t].last
               /\ ticket'[t].accepted = ticket[t].accepted
               /\ ticket'[t].answers = ticket[t].answers
               /\ SelfHeld(t) => ticket'[t].address = a /\ ticket'[t].holder = a
               /\ ~SelfHeld(t) => ticket'[t] = ticket[t]
    <2>1. PICK row : row = [ticket[t] EXCEPT !.address = a, !.holder = a]
      OBVIOUS
    <2>2. ticket[t] \in Ticket
      BY <1>0 DEF TypeOK, StoreOK
    <2>3. /\ row.accepted = ticket[t].accepted /\ row.at = ticket[t].at
          /\ row.last = ticket[t].last /\ row.address = a /\ row.holder = a
          /\ row.answers = ticket[t].answers
      BY <2>1, <2>2 DEF Ticket
    <2>4. ticket'[t] = IF SelfHeld(t) THEN row ELSE ticket[t]
      BY <1>1, <1>2, <2>1 DEF AcceptSaleReAddressing
    <2>5. CASE SelfHeld(t)
      BY <2>3, <2>4, <2>5
    <2>6. CASE ~SelfHeld(t)
      BY <2>4, <2>6
    <2>. QED
      BY <2>5, <2>6
  <1>5. /\ saver' = saver /\ clicker' = clicker /\ links' = links /\ told' = told
        /\ held' = held \cup {<<t, a>> : t \in {u \in Tickets : SelfHeld(u)}}
    <2>1. held' = held \cup {<<t, a>> : t \in {u \in Tickets : SelfHeld(u)}}
      BY <1>1, <1>2 DEF AcceptSaleReAddressing
    <2>. QED
      BY <2>1 DEF AcceptSaleReAddressing
  <1>6. \A t \in Tickets : SelfHeld(t) => /\ ticket[t].address = sale.address
                                          /\ ticket[t].address # NoOne /\ ticket[t].accepted
    BY <1>0, AddressAssumption DEF SelfHeld, TypeOK, StoreOK, WholeSeat
  <1>7. NamedTicketIsAnswered'
    BY <1>0, <1>4, <1>6 DEF NamedTicketIsAnswered
  <1>8. ClickersKnow'
    <2>1. ASSUME NEW k \in Clickers, clicker[k].pc = "accept"
          PROVE  ClickerKnows(k)'
      <3>1. ClickerKnows(k) /\ clicker[k].ticket \in Tickets
        BY <1>0, <2>1, ReaderFields DEF ClickersKnow, TypeOK, ActorsOK, Idle
      <3>2. clicker[k].ticket \in Tickets /\ clicker'[k] = clicker[k] /\ links' = links
        BY <1>5, <3>1
      <3>3. CASE SelfHeld(clicker[k].ticket)
        BY <1>3, <1>4, <1>6, <3>1, <3>2, <3>3 DEF ClickerKnows
      <3>4. CASE ~SelfHeld(clicker[k].ticket)
        BY <1>3, <1>4, <3>1, <3>2, <3>4 DEF ClickerKnows
      <3>. QED
        BY <3>3, <3>4
    <2>. QED
      BY <1>5, <2>1 DEF ClickersKnow
  <1>9. HolderProvedTheAddress'
    BY <1>0, <1>3, <1>4 DEF HolderProvedTheAddress, MovedFrom
  <1>10. HolderKnown'
    BY <1>0, <1>4, <1>5 DEF HolderKnown
  <1>11. DisplacedHeld' /\ OnlyHoldersAreTold'
    BY <1>0, <1>5 DEF DisplacedHeld, ToTell, OnlyHoldersAreTold
  <1>. QED
    BY <1>7, <1>8, <1>9, <1>10, <1>11 DEF SeatInv

\* The purge empties unaccepted seats: their links name an assignment that is no more.
LEMMA PurgeSeats ==
    ASSUME SeatInv, AddressInv', PurgeUnacceptedHolderAddresses
    PROVE  SeatInv'
  <1>0. /\ TypeOK /\ NamedTicketIsAnswered /\ ClickersKnow /\ HolderProvedTheAddress
        /\ HolderKnown /\ DisplacedHeld /\ OnlyHoldersAreTold
    BY DEF SeatInv, AddressInv
  <1>1. ASSUME NEW t \in Tickets
        PROVE  /\ ticket'[t].last = ticket[t].last /\ ticket'[t].accepted = ticket[t].accepted
               /\ ticket'[t].answers = ticket[t].answers
               /\ t \in Unaccepted => ticket'[t].address = NoOne /\ ticket'[t].at = 0
               /\ t \notin Unaccepted => ticket'[t] = ticket[t]
    <2>1. ticket[t] \in Ticket
      BY <1>0 DEF TypeOK, StoreOK
    <2>2. /\ Purged(t).address = NoOne /\ Purged(t).at = 0 /\ Purged(t).last = ticket[t].last
          /\ Purged(t).accepted = ticket[t].accepted /\ Purged(t).answers = ticket[t].answers
      BY <2>1 DEF Purged, Ticket
    <2>. QED
      BY <2>2 DEF PurgeUnacceptedHolderAddresses
  <1>2. UNCHANGED <<record, saver, clicker, links, held, told>>
    BY DEF PurgeUnacceptedHolderAddresses, actors, history
  <1>3. ClickersKnow'
    <2>1. ASSUME NEW k \in Clickers, clicker[k].pc = "accept"
          PROVE  ClickerKnows(k)'
      <3>1. ClickerKnows(k) /\ clicker[k].ticket \in Tickets
        BY <1>0, <2>1, ReaderFields DEF ClickersKnow, TypeOK, ActorsOK, Idle
      <3>. QED
        BY <1>1, <1>2, <3>1 DEF ClickerKnows, MovedFrom
    <2>. QED
      BY <1>2, <2>1 DEF ClickersKnow
  <1>4. NamedTicketIsAnswered' /\ HolderProvedTheAddress' /\ HolderKnown'
    BY <1>0, <1>1, <1>2 DEF NamedTicketIsAnswered, HolderProvedTheAddress, HolderKnown, Unaccepted
  <1>5. DisplacedHeld' /\ OnlyHoldersAreTold'
    BY <1>0, <1>2 DEF DisplacedHeld, ToTell, OnlyHoldersAreTold
  <1>. QED
    BY <1>3, <1>4, <1>5 DEF SeatInv
\* Every other step leaves the seats alone, but for an answer written late.
LEMMA SaveAside ==
    ASSUME NEW s \in Savers, Save(s), TypeOK, ~AssignTicketToHolder(s)
    PROVE  /\ ticket' = ticket /\ clicker' = clicker /\ links \subseteq links' /\ held' = held
           /\ \A z \in Savers : saver'[z] = saver[z] \/ saver'[z].pc \notin {"mail", "tell"}
           /\ \/ told' = told
              \/ ToTell(s) /\ told' = told \cup {<<saver[s].ticket, saver[s].displaced>>}
  <1>0. saver \in [Savers -> SaverState]
    BY DEF TypeOK, ActorsOK
  <1>1. ticket' = ticket /\ clicker' = clicker /\ held' = held /\ links \subseteq links'
    BY DEF Save, ReadOwnTicket, AssignNothing, MailAssignedTicket, TellDisplacedHolder,
       RecordAssignmentMailSent, SaverStops, store, history, Mailed
  <1>2. \E call : saver' = [saver EXCEPT ![s] = call] /\ call.pc \notin {"mail", "tell"}
    <2>1. ASSUME NEW t \in Tickets, NEW a \in Addresses, NEW answered \in BOOLEAN,
                 ReadOwnTicket(s, t, a, answered)
          PROVE  \E call : saver' = [saver EXCEPT ![s] = call] /\ call.pc \notin {"mail", "tell"}
      <3>1. PICK call : call = [pc |-> "write", ticket |-> t, address |-> a, by |-> sale.address,
                                answered |-> answered, rationed |-> ticket[t].address # a]
        OBVIOUS
      <3>2. saver' = [saver EXCEPT ![s] = call] /\ call.pc = "write"
        BY <2>1, <3>1 DEF ReadOwnTicket
      <3>. QED
        BY <3>2
    <2>2. ASSUME NEW sent \in BOOLEAN, MailAssignedTicket(s, sent)
          PROVE  \E call : saver' = [saver EXCEPT ![s] = call] /\ call.pc \notin {"mail", "tell"}
      <3>1. PICK call : call = IF sent THEN [pc |-> "record", ticket |-> saver[s].ticket] ELSE Rest
        OBVIOUS
      <3>2. saver' = [saver EXCEPT ![s] = call] /\ call.pc \in {"record", "idle"}
        BY <2>2, <3>1 DEF MailAssignedTicket, Rest, Idle
      <3>. QED
        BY <3>2
    <2>3. Rest.pc \notin {"mail", "tell"}
      BY DEF Rest, Idle
    <2>. QED
      BY <2>1, <2>2, <2>3 DEF Save, AssignNothing, TellDisplacedHolder,
         RecordAssignmentMailSent, SaverStops
  <1>3. \A z \in Savers : saver'[z] = saver[z] \/ saver'[z].pc \notin {"mail", "tell"}
    BY <1>0, <1>2
  <1>4. \/ told' = told
        \/ ToTell(s) /\ told' = told \cup {<<saver[s].ticket, saver[s].displaced>>}
    BY DEF Save, ReadOwnTicket, AssignNothing, MailAssignedTicket, TellDisplacedHolder,
       RecordAssignmentMailSent, SaverStops, history, Tell, ToTell
  <1>. QED
    BY <1>1, <1>3, <1>4

LEMMA ElseAside ==
    ASSUME [Next]_vars, ~\E s \in Savers : Save(s), ~\E k \in Clickers : Click(k),
           ~\E q \in Openers : AcceptSaleReAddressing(q), ~PurgeUnacceptedHolderAddresses
    PROVE  /\ ticket' = ticket /\ clicker' = clicker /\ saver' = saver
           /\ links \subseteq links' /\ held' = held /\ told' = told
  <1>1. ASSUME NEW w \in Sweepers, Sweep(w)
        PROVE  /\ ticket' = ticket /\ clicker' = clicker /\ saver' = saver
               /\ links \subseteq links' /\ held' = held /\ told' = told
    BY <1>1 DEF Sweep, ClaimOwedMail, DropOwedMail, SendOwedMail, BackOff, Mailed,
       RecordOwedAssignmentMailSent, SweeperStops, store, actors, history
  <1>2. ASSUME ReAddress
        PROVE  /\ ticket' = ticket /\ clicker' = clicker /\ saver' = saver
               /\ links \subseteq links' /\ held' = held /\ told' = told
    BY <1>2 DEF ReAddress, ReAddressSale, RecordSaleReAddressing, OperatorStops,
       WithdrawSaleReAddressing, OpenReAddressingLink, OpenerStops, store, actors, history
  <1>. QED
    BY <1>1, <1>2 DEF Next, LeaseLapses, ReverseSale, OpenDoors,
       PurgeUnacceptedCorrectedAddresses, vars, store, actors, history

LEMMA ClickAside ==
    ASSUME NEW k \in Clickers, AnswerTicketQuestion(k) \/ ClickerStops(k), TypeOK
    PROVE  /\ \A t \in Tickets :
                /\ ticket'[t].address = ticket[t].address /\ ticket'[t].holder = ticket[t].holder
                /\ ticket'[t].at = ticket[t].at /\ ticket'[t].last = ticket[t].last
                /\ ticket'[t].accepted = ticket[t].accepted
                /\ ticket'[t].answers \in {ticket[t].answers} \cup Addresses
           /\ \A j \in Clickers : clicker'[j] = clicker[j] \/ clicker'[j].pc # "accept"
           /\ saver' = saver /\ links' = links /\ held' = held /\ told' = told
  <1>1. /\ clicker \in [Clickers -> ClickerState] /\ ticket \in [Tickets -> Ticket]
        /\ clicker[k].pc # Idle
    BY DEF TypeOK, ActorsOK, StoreOK, AnswerTicketQuestion, ClickerStops, Idle
  <1>2. PICK t \in Tickets, a \in Addresses : t = clicker[k].ticket /\ a = clicker[k].address
    BY <1>1, ReaderFields
  <1>3. PICK row : row = [ticket[t] EXCEPT !.answers = a]
    OBVIOUS
  <1>4. /\ row.address = ticket[t].address /\ row.holder = ticket[t].holder
        /\ row.at = ticket[t].at /\ row.last = ticket[t].last
        /\ row.accepted = ticket[t].accepted /\ row.answers = a
    BY <1>1, <1>3 DEF Ticket
  <1>5. ticket' = ticket \/ ticket' = [ticket EXCEPT ![t] = row]
    BY <1>1, <1>2, <1>3 DEF AnswerTicketQuestion, ClickerStops, store
  <1>6. clicker' = [clicker EXCEPT ![k] = Rest] /\ Rest.pc # "accept"
    BY DEF AnswerTicketQuestion, ClickerStops, Rest, Idle
  <1>. QED
    BY <1>1, <1>4, <1>5, <1>6 DEF AnswerTicketQuestion, ClickerStops, history

LEMMA SeatStep ==
    ASSUME SeatInv, [Next]_vars
    PROVE  SeatInv'
  <1>1. AddressInv /\ AddressInv' /\ TypeOK
    BY AddressStep DEF SeatInv, AddressInv
  <1>2. \A r \in Records : record[r].state = "accepted" => record'[r] = record[r]
    BY <1>1, AcceptedKept
  <1>3. ASSUME NEW s \in Savers, Save(s), ~AssignTicketToHolder(s)
        PROVE  SeatInv'
    BY <1>1, <1>2, <1>3, SaveAside, SeatsUntouched
  <1>4. ASSUME NEW k \in Clickers, AnswerTicketQuestion(k) \/ ClickerStops(k)
        PROVE  SeatInv'
    BY <1>1, <1>2, <1>4, ClickAside, SeatsUntouched
  <1>5. ASSUME NEW k \in Clickers, Click(k)
        PROVE  SeatInv'
    BY <1>1, <1>4, <1>5, OpenSeats, AcceptSeats DEF Click
  <1>6. ASSUME ~\E s \in Savers : Save(s), ~\E k \in Clickers : Click(k),
               ~\E q \in Openers : AcceptSaleReAddressing(q), ~PurgeUnacceptedHolderAddresses
        PROVE  SeatInv'
    BY <1>1, <1>2, <1>6, ElseAside, SeatsUntouched
  <1>. QED
    BY <1>1, <1>2, <1>3, <1>5, <1>6, SaveSeats, MoveSeats, PurgeSeats

\* The invariant of the seats: what readers of links and savers know when they write
\* (AcceptTicketAssignment, AssignTicketToHolder).
THEOREM SeatsHold == Spec => []SeatInv
  BY SeatInit, SeatStep, PTL DEF Spec

\* A stale link never seats the previous address's Customer: the Holder of an accepted seat
\* is the Customer of its address, or a re-addressing carried the seat away from them.
THEOREM HolderProved == Spec => []HolderProvedTheAddress
  <1>1. SeatInv => HolderProvedTheAddress
    BY DEF SeatInv
  <1>. QED
    BY <1>1, SeatsHold, PTL

\* A Named Ticket is never without answers, across reassignments, links and purges.
THEOREM NamedAnswered == Spec => []NamedTicketIsAnswered
  <1>1. SeatInv => NamedTicketIsAnswered
    BY DEF SeatInv
  <1>. QED
    BY <1>1, SeatsHold, PTL

\* The displaced Holder is captured under the ticket's lock: whoever is told accepted once.
THEOREM ToldHeld == Spec => []OnlyHoldersAreTold
  <1>1. SeatInv => OnlyHoldersAreTold
    BY DEF SeatInv
  <1>. QED
    BY <1>1, SeatsHold, PTL
\* A seat becomes accepted by a link of that very assignment, or by the buyer's own save.
THEOREM AcceptedByItsLink == Spec => AcceptanceHasItsLink
  <1>. DEFINE Linked(t) ==
                [ticket |-> t, at |-> ticket[t].at, address |-> ticket[t].address] \in links
              Own(t) == \E s \in Savers : /\ saver[s].pc = "write" /\ saver'[s] # saver[s]
                                         /\ saver[s].ticket = t /\ saver[s].by = ticket'[t].address
              Proved == \A t \in Tickets : ticket'[t].accepted /\ ~ticket[t].accepted =>
                 \/ [ticket |-> t, at |-> ticket[t].at, address |-> ticket[t].address] \in links
                 \/ \E s \in Savers : /\ saver[s].pc = "write" /\ saver'[s] # saver[s]
                                      /\ saver[s].ticket = t /\ saver[s].by = ticket'[t].address
  <1>1. ASSUME SeatInv, [Next]_vars, NEW t \in Tickets, ticket'[t].accepted, ~ticket[t].accepted
        PROVE  Linked(t) \/ Own(t)
    <2>0. TypeOK /\ ClickersKnow /\ ticket \in [Tickets -> Ticket] /\ ticket[t] \in Ticket
      BY <1>1 DEF SeatInv, AddressInv, TypeOK, StoreOK
    <2>1. ASSUME NEW s \in Savers, AssignTicketToHolder(s)
          PROVE  Own(t)
      <3>1. saver[s] \in SaverState /\ saver \in [Savers -> SaverState] /\ saver[s].pc = "write"
        BY <2>0, <2>1 DEF TypeOK, ActorsOK, AssignTicketToHolder
      <3>2. PICK u \in Tickets, a \in Addresses, by \in Addresses :
               u = saver[s].ticket /\ a = saver[s].address /\ by = saver[s].by
        BY <3>1, SaverFields
      <3>. DEFINE row == IF ticket[u].address # a THEN Assigned(u, a, AnswersAfter(u, s))
                         ELSE ticket[u]
      <3>3. ticket' = [ticket EXCEPT ![u] = IF a = by THEN AcceptForBuyer(u, row, by, a) ELSE row]
        BY <2>1, <3>2 DEF AssignTicketToHolder
      <3>4. ticket[u] \in Ticket /\ AnswersAfter(u, s) \in Someone
        BY <2>0, <3>2, SomeoneOrNoOne DEF AnswersAfter, Ticket
      <3>5. row \in Ticket /\ (~row.accepted \/ row = ticket[u])
        BY <3>4, AssignedSeat
      <3>. HIDE DEF row
      <3>6. u = t /\ a = by
        BY <1>1, <2>0, <3>3, <3>5
      <3>7. ticket'[t].address = by
        BY <2>0, <3>3, <3>5, <3>6, <3>4, AcceptedSeat
      <3>8. saver'[s].pc # "write"
        <4>1. Rest.pc # "write"
          BY DEF Rest, Idle
        <4>. DEFINE call == [pc |-> IF a = by THEN "tell" ELSE "mail", ticket |-> u,
                              address |-> a, at |-> row.last, displaced |-> DisplacedHolder(u)]
        <4>2. call.pc # "write"
          OBVIOUS
        <4>3. saver' = [saver EXCEPT ![s] = call] \/ saver' = [saver EXCEPT ![s] = Rest]
          BY <2>1, <3>2 DEF AssignTicketToHolder, row
        <4>. HIDE DEF call
        <4>. QED
          BY <3>1, <4>1, <4>2, <4>3
      <3>. QED
        BY <3>1, <3>2, <3>6, <3>7, <3>8
    <2>2. ASSUME NEW k \in Clickers, NEW answers \in BOOLEAN, AcceptTicketAssignment(k, answers)
          PROVE  Linked(t)
      <3>1. PICK u \in Tickets : u = clicker[k].ticket /\ clicker[k].pc = "accept"
        BY <2>0, <2>2, ReaderFields DEF TypeOK, ActorsOK, AcceptTicketAssignment, Idle
      <3>2. u = t
        BY <1>1, <2>0, <2>2, <3>1 DEF AcceptTicketAssignment
      <3>3. ticket[t].at = clicker[k].at
        BY <2>2, <3>1, <3>2 DEF AcceptTicketAssignment, StillAssigned
      <3>. QED
        BY <1>1, <2>0, <3>1, <3>2, <3>3 DEF ClickersKnow, ClickerKnows
    <2>3. ASSUME NEW q \in Openers, AcceptSaleReAddressing(q)
          PROVE  FALSE
      <3>1. PICK a : a = record[opener[q].record].corrected
        OBVIOUS
      <3>2. PICK row : row = [ticket[t] EXCEPT !.address = a, !.holder = a]
        OBVIOUS
      <3>3. row.accepted = ticket[t].accepted
        BY <2>0, <3>2 DEF Ticket
      <3>4. ticket'[t] = IF SelfHeld(t) THEN row ELSE ticket[t]
        BY <2>3, <3>1, <3>2 DEF AcceptSaleReAddressing
      <3>. QED
        BY <1>1, <3>3, <3>4
    <2>4. ASSUME PurgeUnacceptedHolderAddresses
          PROVE  FALSE
      <3>1. Purged(t).accepted = ticket[t].accepted
        BY <2>0 DEF Purged, Ticket
      <3>. QED
        BY <1>1, <2>4, <3>1 DEF PurgeUnacceptedHolderAddresses
    <2>5. ASSUME NEW s \in Savers, Save(s), ~AssignTicketToHolder(s)
          PROVE  FALSE
      BY <1>1, <2>0, <2>5, SaveAside
    <2>6. ASSUME NEW k \in Clickers, Click(k)
          PROVE  Linked(t)
      <3>1. ASSUME NEW l \in links, OpenAssignmentLink(k, l)
            PROVE  FALSE
        BY <1>1, <3>1 DEF OpenAssignmentLink, store
      <3>2. ASSUME AnswerTicketQuestion(k) \/ ClickerStops(k)
            PROVE  FALSE
        BY <1>1, <2>0, <3>2, ClickAside
      <3>. QED
        BY <2>2, <2>6, <3>1, <3>2 DEF Click
    <2>. QED
      BY <1>1, <2>1, <2>3, <2>4, <2>5, <2>6, ElseAside
  <1>2. SeatInv /\ [Next]_vars => [Proved]_vars
    BY <1>1
  <1>. QED
    BY <1>2, SeatsHold, PTL DEF Spec, AcceptanceHasItsLink

----------------------------------------------------------------------------
(* Mails: what each step of a save and of the sweep does to the ledger, the *)
(* marks and the copies sent                                                *)

\* What the ration, the marks and the mails are told from.
Numbered == \A t \in Tickets : ticket'[t].last = ticket[t].last

Quiet == UNCHANGED <<saver, sweeper, owed, ledger, copies, lost, raced>>

\* The readers of links, the re-addressings and the end of the sale mail nothing.
LEMMA ElseQuiet ==
    ASSUME TypeOK, [Next]_vars, ~\E s \in Savers : Save(s), ~\E w \in Sweepers : Sweep(w),
           ~\E t \in Tickets : LeaseLapses(t)
    PROVE  Quiet /\ Numbered
  <1>0. ticket \in [Tickets -> Ticket]
    BY DEF TypeOK, StoreOK
  <1>1. ASSUME NEW k \in Clickers, Click(k)
        PROVE  Quiet /\ Numbered
    <2>1. Quiet
      BY <1>1 DEF Click, OpenAssignmentLink, AcceptTicketAssignment, AnswerTicketQuestion,
         ClickerStops, store, history, Quiet
    <2>2. ASSUME NEW l \in links, OpenAssignmentLink(k, l)
          PROVE  Numbered
      BY <2>2 DEF OpenAssignmentLink, store, Numbered
    <2>3. ASSUME NEW answers \in BOOLEAN, AcceptTicketAssignment(k, answers)
          PROVE  Numbered
      <3>1. PICK u, a : u = clicker[k].ticket /\ a = clicker[k].address
        OBVIOUS
      <3>2. PICK row : row = [ticket[u] EXCEPT !.accepted = TRUE, !.holder = a]
        OBVIOUS
      <3>3. ticket' = [ticket EXCEPT ![u].accepted = TRUE, ![u].holder = a]
        BY <2>3, <3>1 DEF AcceptTicketAssignment
      <3>4. \A t \in Tickets : ticket'[t] = IF t = u THEN row ELSE ticket[t]
        BY <1>0, <3>2, <3>3
      <3>5. u \in Tickets => row.last = ticket[u].last
        BY <1>0, <3>2 DEF Ticket
      <3>. QED
        BY <3>4, <3>5 DEF Numbered
    <2>4. CASE AnswerTicketQuestion(k) \/ ClickerStops(k)
      BY <2>1, <2>4, ClickAside DEF Numbered
    <2>. QED
      BY <1>1, <2>1, <2>2, <2>3, <2>4 DEF Click
  <1>2. CASE ReAddress
    <2>1. Quiet
      BY <1>2 DEF ReAddress, ReAddressSale, RecordSaleReAddressing, OperatorStops,
         WithdrawSaleReAddressing, OpenReAddressingLink, AcceptSaleReAddressing, OpenerStops,
         store, actors, history, Quiet
    <2>2. ASSUME NEW q \in Openers, AcceptSaleReAddressing(q)
          PROVE  Numbered
      <3>1. PICK a : a = record[opener[q].record].corrected
        OBVIOUS
      <3>2. ASSUME NEW t \in Tickets PROVE ticket'[t].last = ticket[t].last
        <4>1. PICK row : row = [ticket[t] EXCEPT !.address = a, !.holder = a]
          OBVIOUS
        <4>2. row.last = ticket[t].last
          BY <1>0, <4>1 DEF Ticket
        <4>3. ticket'[t] = IF SelfHeld(t) THEN row ELSE ticket[t]
          BY <2>2, <3>1, <4>1 DEF AcceptSaleReAddressing
        <4>. QED
          BY <4>2, <4>3
      <3>. QED
        BY <3>2 DEF Numbered
    <2>3. CASE ticket' = ticket
      BY <2>1, <2>3 DEF Numbered
    <2>. QED
      BY <1>2, <2>1, <2>2, <2>3 DEF ReAddress, ReAddressSale, RecordSaleReAddressing,
         OperatorStops, WithdrawSaleReAddressing, OpenReAddressingLink, OpenerStops, store
  <1>3. CASE PurgeUnacceptedHolderAddresses
    <2>1. \A t \in Tickets : Purged(t).last = ticket[t].last
      BY <1>0 DEF Purged, Ticket
    <2>. QED
      BY <1>3, <2>1 DEF PurgeUnacceptedHolderAddresses, actors, history, Quiet, Numbered
  <1>4. CASE \/ ReverseSale \/ OpenDoors \/ PurgeUnacceptedCorrectedAddresses \/ UNCHANGED vars
    BY <1>4 DEF ReverseSale, OpenDoors, PurgeUnacceptedCorrectedAddresses, vars, store, actors,
       history, Quiet, Numbered
  <1>. QED
    BY <1>1, <1>2, <1>3, <1>4 DEF Next

\* One save at work: the steps of AssignOwnTicket as the ration and the mails see them.
Granting(s, t) ==
    /\ saver[s].pc = Idle /\ saver'[s].pc = "write" /\ saver'[s].ticket = t
    /\ ticket[t].last < MaxAssignments
    /\ saver'[s].rationed /\ saver'[s].address # saver'[s].by => Sent(t) < PerTicket
    /\ raced' = IF \E z \in Savers \ {s} : saver[z].pc # Idle /\ saver[z].ticket = t
                THEN raced \cup {t} ELSE raced
    /\ Numbered /\ UNCHANGED <<owed, ledger, copies, lost>>

Writes(s, t) ==
    /\ saver[s].pc = "write" /\ saver[s].ticket = t
    /\ saver'[s].pc \in {Idle, "mail", "tell"}
    /\ \A u \in Tickets \ {t} : ticket'[u].last = ticket[u].last
    /\ ticket'[t].last \in {ticket[t].last, ticket[t].last + 1}
    /\ saver'[s].pc = "mail" => /\ saver'[s].ticket = t /\ saver'[s].at = ticket[t].last + 1
                                /\ ticket'[t].last = ticket[t].last + 1
                                /\ saver[s].address # saver[s].by
                                /\ saver[s].rationed \/ t \in raced'
    /\ saver'[s].pc = "tell" => saver'[s].ticket = t
    /\ raced \subseteq raced' /\ UNCHANGED <<owed, ledger, copies, lost>>

Mails(s, t) ==
    /\ saver[s].pc = "mail" /\ saver[s].ticket = t
    /\ saver'[s].pc = "record" /\ saver'[s].ticket = t
    /\ copies' = [copies EXCEPT ![t][saver[s].at] = @ + 1]
    /\ Numbered /\ UNCHANGED <<owed, ledger, lost, raced>>

Ledgers(s, t) ==
    /\ saver[s].pc = "record" /\ saver[s].ticket = t /\ saver'[s] = Rest
    /\ ledger' = [ledger EXCEPT ![t].saved = @ + 1]
    /\ Numbered /\ UNCHANGED <<owed, copies, lost, raced>>

Loses(s, t) ==
    /\ saver[s].pc = "record" /\ saver[s].ticket = t /\ saver'[s] = Rest
    /\ lost' = [lost EXCEPT ![t] = @ + 1]
    /\ Numbered /\ UNCHANGED <<owed, ledger, copies, raced>>

Leaves(s) ==
    /\ saver[s].pc \notin {Idle, "record"} /\ saver'[s] = Rest
    /\ Numbered /\ UNCHANGED <<owed, ledger, copies, lost, raced>>

LEMMA SaveMoves ==
    ASSUME TypeOK, NEW s \in Savers, Save(s)
    PROVE  /\ \A z \in Savers : z # s => saver'[z] = saver[z]
           /\ sweeper' = sweeper
           /\ \/ Leaves(s)
              \/ \E t \in Tickets :
                   \/ Granting(s, t) \/ Writes(s, t) \/ Mails(s, t)
                   \/ Ledgers(s, t) \/ Loses(s, t)
  <1>. DEFINE Others == /\ \A z \in Savers : z # s => saver'[z] = saver[z]
                        /\ sweeper' = sweeper
              Moves == \/ Leaves(s)
                       \/ \E t \in Tickets :
                            \/ Granting(s, t) \/ Writes(s, t) \/ Mails(s, t)
                            \/ Ledgers(s, t) \/ Loses(s, t)
  <1>0. /\ saver \in [Savers -> SaverState] /\ saver[s] \in SaverState
        /\ ticket \in [Tickets -> Ticket] /\ Rest.pc = Idle
    BY RestIsAState DEF TypeOK, ActorsOK, StoreOK
  <1>1. ASSUME NEW t \in Tickets, NEW a \in Addresses, NEW answered \in BOOLEAN,
               ReadOwnTicket(s, t, a, answered)
        PROVE  Others /\ Granting(s, t)
    <2>1. PICK call : call = [pc |-> "write", ticket |-> t, address |-> a, by |-> sale.address,
                              answered |-> answered, rationed |-> ticket[t].address # a]
      OBVIOUS
    <2>2. /\ call.pc = "write" /\ call.ticket = t /\ call.address = a /\ call.by = sale.address
          /\ call.rationed = (ticket[t].address # a)
      BY <2>1
    <2>3. saver' = [saver EXCEPT ![s] = call]
      BY <1>1, <2>1 DEF ReadOwnTicket
    <2>4. saver'[s] = call /\ \A z \in Savers : z # s => saver'[z] = saver[z]
      BY <1>0, <2>3
    <2>5. /\ UNCHANGED <<sweeper, owed, ledger, copies, lost, ticket>>
          /\ saver[s].pc = Idle /\ ticket[t].last < MaxAssignments
          /\ ticket[t].address # a /\ a # sale.address => Sent(t) < PerTicket
          /\ raced' = IF \E z \in Savers \ {s} : saver[z].pc # Idle /\ saver[z].ticket = t
                      THEN raced \cup {t} ELSE raced
      BY <1>1 DEF ReadOwnTicket, store, MayMailAssignment
    <2>. QED
      BY <2>2, <2>4, <2>5 DEF Granting, Numbered
  <1>2. ASSUME AssignTicketToHolder(s)
        PROVE  Others /\ \E t \in Tickets : Writes(s, t)
    <2>1. PICK t \in Tickets, a \in Addresses, by \in Addresses :
             t = saver[s].ticket /\ a = saver[s].address /\ by = saver[s].by
      BY <1>0, <1>2, SaverFields DEF AssignTicketToHolder
    <2>. DEFINE own == a = by
                changes == ticket[t].address # a
                row == IF changes THEN Assigned(t, a, AnswersAfter(t, s)) ELSE ticket[t]
                seat == IF own THEN AcceptForBuyer(t, row, by, a) ELSE row
                call == IF changes /\ (~own \/ DisplacedHolder(t) # NoOne)
                        THEN [pc |-> IF own THEN "tell" ELSE "mail", ticket |-> t,
                              address |-> a, at |-> row.last, displaced |-> DisplacedHolder(t)]
                        ELSE Rest
    <2>2. ticket[t] \in Ticket /\ AnswersAfter(t, s) \in Someone
      BY <1>0, <2>1, SomeoneOrNoOne DEF AnswersAfter, Ticket
    <2>3. /\ row \in Ticket
          /\ changes => row.last = ticket[t].last + 1
          /\ ~changes => row = ticket[t]
      BY <2>1, <2>2, AssignedSeat
    <2>. HIDE DEF row
    <2>4. seat.last = row.last
      BY <2>2, <2>3, AcceptedSeat
    <2>5. /\ call.pc \in {Idle, "mail", "tell"}
          /\ call.pc = "mail" => changes /\ ~own /\ call.ticket = t /\ call.at = row.last
          /\ call.pc = "tell" => call.ticket = t
      <3>1. CASE changes /\ (~own \/ DisplacedHolder(t) # NoOne)
        BY <3>1
      <3>2. CASE ~(changes /\ (~own \/ DisplacedHolder(t) # NoOne))
        BY <1>0, <3>2 DEF Idle
      <3>. QED
        BY <3>1, <3>2
    <2>6. ticket' = [ticket EXCEPT ![t] = seat] /\ saver' = [saver EXCEPT ![s] = call]
          /\ raced' = (IF changes /\ ~saver[s].rationed THEN raced \cup {t} ELSE raced)
          /\ saver[s].pc = "write"
          /\ UNCHANGED <<sweeper, owed, ledger, copies, lost>>
      BY <1>2, <2>1 DEF AssignTicketToHolder, row
    <2>. HIDE DEF seat, call
    <2>7. /\ ticket'[t] = seat /\ \A u \in Tickets : u # t => ticket'[u] = ticket[u]
          /\ saver'[s] = call /\ \A z \in Savers : z # s => saver'[z] = saver[z]
      BY <1>0, <2>6
    <2>8. Writes(s, t)
      BY <2>1, <2>3, <2>4, <2>5, <2>6, <2>7 DEF Writes
    <2>. QED
      BY <2>6, <2>7, <2>8
  <1>3. ASSUME NEW call, saver' = [saver EXCEPT ![s] = call], sweeper' = sweeper
        PROVE  Others /\ saver'[s] = call
    BY <1>0, <1>3
  <1>4. ASSUME ticket' = ticket PROVE Numbered
    BY <1>4 DEF Numbered
  <1>5. saver[s].pc \in {"mail", "record"} => saver[s].ticket \in Tickets
    BY <1>0, SaverFields
  <1>6. ASSUME AssignNothing(s) \/ TellDisplacedHolder(s)
        PROVE  Others /\ Leaves(s)
    <2>1. /\ saver' = [saver EXCEPT ![s] = Rest] /\ sweeper' = sweeper /\ ticket' = ticket
          /\ saver[s].pc \in {"write", "tell"} /\ UNCHANGED <<owed, ledger, copies, lost, raced>>
      BY <1>6 DEF AssignNothing, TellDisplacedHolder, store, history
    <2>. QED
      BY <1>3, <1>4, <2>1 DEF Leaves, Idle
  <1>7. ASSUME NEW sent \in BOOLEAN, MailAssignedTicket(s, sent)
        PROVE  Others /\ Moves
    <2>1. /\ sweeper' = sweeper /\ ticket' = ticket
          /\ saver[s].pc = "mail" /\ UNCHANGED <<owed, ledger, lost, raced>>
      BY <1>7 DEF MailAssignedTicket, store
    <2>2. CASE ~sent
      <3>1. saver' = [saver EXCEPT ![s] = Rest] /\ copies' = copies
        BY <1>7, <2>2 DEF MailAssignedTicket
      <3>. QED
        BY <1>3, <1>4, <2>1, <3>1 DEF Leaves, Idle
    <2>3. CASE sent
      <3>1. PICK t \in Tickets : t = saver[s].ticket
        BY <1>5, <2>1
      <3>2. PICK call : call = [pc |-> "record", ticket |-> t]
        OBVIOUS
      <3>3. saver' = [saver EXCEPT ![s] = call] /\ call.pc = "record" /\ call.ticket = t
        BY <1>7, <2>3, <3>1, <3>2 DEF MailAssignedTicket
      <3>4. copies' = [copies EXCEPT ![t][saver[s].at] = @ + 1]
        BY <1>7, <2>3, <3>1 DEF MailAssignedTicket, Mailed
      <3>5. Mails(s, t)
        BY <1>3, <1>4, <2>1, <3>1, <3>3, <3>4 DEF Mails
      <3>. QED
        BY <1>3, <2>1, <3>3, <3>5
    <2>. QED
      BY <2>2, <2>3
  <1>8. ASSUME RecordAssignmentMailSent(s)
        PROVE  Others /\ \E t \in Tickets : Ledgers(s, t)
    <2>1. /\ saver' = [saver EXCEPT ![s] = Rest] /\ sweeper' = sweeper /\ ticket' = ticket
          /\ saver[s].pc = "record" /\ UNCHANGED <<owed, copies, lost, raced>>
          /\ ledger' = [ledger EXCEPT ![saver[s].ticket].saved = @ + 1]
      BY <1>8 DEF RecordAssignmentMailSent, history
    <2>. QED
      BY <1>3, <1>4, <1>5, <2>1 DEF Ledgers
  <1>9. ASSUME SaverStops(s)
        PROVE  Others /\ Moves
    <2>1. /\ saver' = [saver EXCEPT ![s] = Rest] /\ sweeper' = sweeper /\ ticket' = ticket
          /\ saver[s].pc # Idle /\ UNCHANGED <<owed, ledger, copies, raced>>
          /\ lost' = (IF saver[s].pc = "record" THEN [lost EXCEPT ![saver[s].ticket] = @ + 1]
                      ELSE lost)
      BY <1>9 DEF SaverStops, store
    <2>2. CASE saver[s].pc = "record"
      BY <1>3, <1>4, <1>5, <2>1, <2>2 DEF Loses
    <2>3. CASE saver[s].pc # "record"
      BY <1>3, <1>4, <2>1, <2>3 DEF Leaves
    <2>. QED
      BY <2>2, <2>3
  <1>. QED
    BY <1>1, <1>2, <1>6, <1>7, <1>8, <1>9 DEF Save

\* One sweep at work, as the marks and the mails see it.
MarkMoves(t, at, claimed) ==
    /\ owed'[t].at = at /\ owed'[t].claimed = claimed
    /\ \A u \in Tickets : u # t => owed'[u] = owed[u]

Claims(w, t) ==
    /\ sweeper[w].pc = Idle /\ owed[t].at # 0 /\ ~owed[t].claimed
    /\ sweeper'[w].pc = "send" /\ sweeper'[w].ticket = t /\ sweeper'[w].at = owed[t].at
    /\ MarkMoves(t, owed[t].at, TRUE)
    /\ UNCHANGED <<ledger, copies, lost>>

Drops(w, t) ==
    /\ ~owed[t].claimed /\ sweeper'[w] = sweeper[w]
    /\ MarkMoves(t, 0, FALSE) \/ MarkMoves(t, owed[t].at, TRUE)
    /\ UNCHANGED <<ledger, copies, lost>>

Sends(w, t) ==
    /\ sweeper[w].pc = "send" /\ sweeper[w].ticket = t
    /\ sweeper'[w].pc = "record" /\ sweeper'[w].ticket = t /\ sweeper'[w].at = sweeper[w].at
    /\ copies' = [copies EXCEPT ![t][sweeper[w].at] = @ + 1]
    /\ UNCHANGED <<owed, ledger, lost>>

Quits(w, t) ==
    /\ sweeper[w].pc = "send" /\ sweeper[w].ticket = t /\ sweeper'[w] = Rest
    /\ MarkMoves(t, owed[t].at, FALSE) \/ UNCHANGED owed
    /\ UNCHANGED <<ledger, copies, lost>>

Enters(w, t) ==
    /\ sweeper[w].pc = "record" /\ sweeper[w].ticket = t /\ sweeper'[w] = Rest
    /\ ledger' = [ledger EXCEPT ![t].checkout = @ + 1]
    /\ MarkMoves(t, 0, FALSE)
    /\ UNCHANGED <<copies, lost>>

Fails(w, t) ==
    /\ sweeper[w].pc = "record" /\ sweeper[w].ticket = t /\ sweeper'[w] = Rest
    /\ lost' = [lost EXCEPT ![t] = @ + 1]
    /\ MarkMoves(t, 0, FALSE) \/ UNCHANGED owed
    /\ UNCHANGED <<ledger, copies>>

LEMMA SweepMoves ==
    ASSUME TypeOK, NEW w \in Sweepers, Sweep(w)
    PROVE  /\ \A v \in Sweepers : v # w => sweeper'[v] = sweeper[v]
           /\ Numbered /\ UNCHANGED <<saver, raced>>
           /\ \E t \in Tickets : \/ Claims(w, t) \/ Drops(w, t) \/ Sends(w, t)
                                 \/ Quits(w, t) \/ Enters(w, t) \/ Fails(w, t)
  <1>. DEFINE Others == \A v \in Sweepers : v # w => sweeper'[v] = sweeper[v]
  <1>0. /\ sweeper \in [Sweepers -> SweeperState] /\ sweeper[w] \in SweeperState
        /\ owed \in [Tickets -> [at: {0, 1}, claimed: BOOLEAN]]
    BY DEF TypeOK, ActorsOK, StoreOK
  <1>1. Numbered /\ UNCHANGED <<saver, raced>>
    BY DEF Sweep, ClaimOwedMail, DropOwedMail, SendOwedMail, BackOff,
       RecordOwedAssignmentMailSent, SweeperStops, store, actors, history, Numbered
  <1>2. ASSUME NEW call, sweeper' = [sweeper EXCEPT ![w] = call]
        PROVE  Others /\ sweeper'[w] = call
    BY <1>0, <1>2
  <1>3. sweeper[w].pc # Idle =>
           sweeper[w].ticket \in Tickets /\ sweeper[w].pc \in {"send", "record"}
    BY <1>0 DEF SweeperState, Rest, Idle
  <1>4. ASSUME NEW t \in Tickets, owed' = [owed EXCEPT ![t] = NotOwed]
        PROVE  MarkMoves(t, 0, FALSE)
    BY <1>0, <1>4 DEF MarkMoves, NotOwed
  <1>5. ASSUME NEW t \in Tickets, NEW c \in BOOLEAN, owed' = [owed EXCEPT ![t].claimed = c]
        PROVE  MarkMoves(t, owed[t].at, c)
    <2>1. owed[t] \in [at: {0, 1}, claimed: BOOLEAN]
      BY <1>0
    <2>2. owed' = [owed EXCEPT ![t] = [owed[t] EXCEPT !.claimed = c]]
      BY <1>0, <1>5
    <2>. QED
      BY <1>0, <2>1, <2>2 DEF MarkMoves
  <1>6. ASSUME NEW t \in Tickets, ClaimOwedMail(w, t)
        PROVE  Others /\ Claims(w, t)
    <2>1. PICK call : call = [pc |-> "send", ticket |-> t, at |-> ticket[t].at,
                              address |-> ticket[t].address]
      OBVIOUS
    <2>2. sweeper' = [sweeper EXCEPT ![w] = call] /\ owed' = [owed EXCEPT ![t].claimed = TRUE]
      BY <1>6, <2>1 DEF ClaimOwedMail
    <2>3. /\ sweeper[w].pc = Idle /\ owed[t].at # 0 /\ ~owed[t].claimed
          /\ ticket[t].at = owed[t].at /\ UNCHANGED <<ledger, copies, lost>>
      BY <1>6 DEF ClaimOwedMail, Due, MailStillOwed, history
    <2>4. call.pc = "send" /\ call.ticket = t /\ call.at = owed[t].at
      BY <2>1, <2>3
    <2>5. MarkMoves(t, owed[t].at, TRUE)
      BY <1>5, <2>2
    <2>. QED
      BY <1>2, <2>2, <2>3, <2>4, <2>5 DEF Claims
  <1>7. ASSUME NEW t \in Tickets, NEW deleted \in BOOLEAN, DropOwedMail(w, t, deleted)
        PROVE  Others /\ Drops(w, t)
    <2>1. /\ ~owed[t].claimed /\ sweeper' = sweeper /\ UNCHANGED <<ledger, copies, lost>>
      BY <1>7 DEF DropOwedMail, Due, actors, history
    <2>2. \/ owed' = [owed EXCEPT ![t] = NotOwed]
          \/ owed' = [owed EXCEPT ![t].claimed = TRUE]
      BY <1>7 DEF DropOwedMail
    <2>3. MarkMoves(t, 0, FALSE) \/ MarkMoves(t, owed[t].at, TRUE)
      BY <1>4, <1>5, <2>2
    <2>. QED
      BY <2>1, <2>3 DEF Drops
  <1>8. ASSUME SendOwedMail(w)
        PROVE  Others /\ \E t \in Tickets : Sends(w, t)
    <2>1. /\ sweeper[w].pc = "send" /\ sweeper' = [sweeper EXCEPT ![w].pc = "record"]
          /\ copies' = [copies EXCEPT ![sweeper[w].ticket][sweeper[w].at] = @ + 1]
          /\ UNCHANGED <<owed, ledger, lost>>
      BY <1>8 DEF SendOwedMail, Mailed, store
    <2>2. PICK call : call = [sweeper[w] EXCEPT !.pc = "record"]
      OBVIOUS
    <2>3. call.pc = "record" /\ call.ticket = sweeper[w].ticket /\ call.at = sweeper[w].at
      BY <1>0, <2>1, <2>2 DEF SweeperState, Rest, Idle
    <2>4. sweeper' = [sweeper EXCEPT ![w] = call]
      BY <1>0, <2>1, <2>2
    <2>5. Others /\ sweeper'[w] = call
      BY <1>2, <2>4
    <2>6. sweeper[w].ticket \in Tickets
      BY <1>3, <2>1 DEF Idle
    <2>7. Sends(w, sweeper[w].ticket)
      BY <2>1, <2>3, <2>5 DEF Sends
    <2>. QED
      BY <2>5, <2>6, <2>7
  <1>9. ASSUME BackOff(w)
        PROVE  Others /\ \E t \in Tickets : Quits(w, t)
    <2>1. /\ sweeper[w].pc = "send" /\ sweeper' = [sweeper EXCEPT ![w] = Rest]
          /\ owed' = [owed EXCEPT ![sweeper[w].ticket].claimed = FALSE]
          /\ UNCHANGED <<ledger, copies, lost>>
      BY <1>9 DEF BackOff, history
    <2>2. PICK t \in Tickets : t = sweeper[w].ticket
      BY <1>3, <2>1 DEF Idle
    <2>3. MarkMoves(t, owed[t].at, FALSE)
      BY <1>5, <2>1, <2>2
    <2>. QED
      BY <1>2, <2>1, <2>2, <2>3 DEF Quits
  <1>10. ASSUME RecordOwedAssignmentMailSent(w)
         PROVE  Others /\ \E t \in Tickets : Enters(w, t)
    <2>1. /\ sweeper[w].pc = "record" /\ sweeper' = [sweeper EXCEPT ![w] = Rest]
          /\ owed' = [owed EXCEPT ![sweeper[w].ticket] = NotOwed]
          /\ ledger' = [ledger EXCEPT ![sweeper[w].ticket].checkout = @ + 1]
          /\ UNCHANGED <<copies, lost>>
      BY <1>10 DEF RecordOwedAssignmentMailSent, history
    <2>2. PICK t \in Tickets : t = sweeper[w].ticket
      BY <1>3, <2>1 DEF Idle
    <2>. QED
      BY <1>2, <1>4, <2>1, <2>2 DEF Enters
  <1>11. ASSUME NEW dropped \in BOOLEAN, SweeperStops(w, dropped)
         PROVE  Others /\ \E t \in Tickets : Quits(w, t) \/ Fails(w, t)
    <2>1. /\ sweeper[w].pc # Idle /\ sweeper' = [sweeper EXCEPT ![w] = Rest]
          /\ dropped => sweeper[w].pc = "record"
          /\ lost' = (IF sweeper[w].pc = "record"
                      THEN [lost EXCEPT ![sweeper[w].ticket] = @ + 1] ELSE lost)
          /\ owed' = (IF dropped THEN [owed EXCEPT ![sweeper[w].ticket] = NotOwed] ELSE owed)
          /\ UNCHANGED <<ledger, copies>>
      BY <1>11 DEF SweeperStops
    <2>2. PICK t \in Tickets : t = sweeper[w].ticket
      BY <1>3, <2>1
    <2>3. MarkMoves(t, 0, FALSE) \/ (UNCHANGED owed /\ ~dropped)
      BY <1>4, <2>1, <2>2
    <2>4. CASE sweeper[w].pc = "record"
      BY <1>2, <2>1, <2>2, <2>3, <2>4 DEF Fails
    <2>5. CASE sweeper[w].pc = "send"
      BY <1>2, <2>1, <2>2, <2>3, <2>5 DEF Quits
    <2>. QED
      BY <1>3, <2>1, <2>4, <2>5
  <1>. QED
    BY <1>1, <1>6, <1>7, <1>8, <1>9, <1>10, <1>11 DEF Sweep

LEMMA LapseMoves ==
    ASSUME TypeOK, NEW t \in Tickets, LeaseLapses(t)
    PROVE  /\ MarkMoves(t, owed[t].at, FALSE)
           /\ \A w \in Sweepers : sweeper[w].pc # Idle => sweeper[w].ticket # t
           /\ Numbered /\ UNCHANGED <<saver, sweeper, ledger, copies, lost, raced>>
  <1>1. owed[t] \in [at: {0, 1}, claimed: BOOLEAN] /\ owed \in [Tickets -> [at: {0, 1}, claimed: BOOLEAN]]
    BY DEF TypeOK, StoreOK
  <1>2. owed' = [owed EXCEPT ![t] = [owed[t] EXCEPT !.claimed = FALSE]]
    BY <1>1 DEF LeaseLapses
  <1>3. MarkMoves(t, owed[t].at, FALSE)
    BY <1>1, <1>2 DEF MarkMoves
  <1>. QED
    BY <1>3 DEF LeaseLapses, actors, history, Numbered

----------------------------------------------------------------------------
(* Counting *)

Writing(t) == {s \in Savers : saver[s].pc = "write" /\ saver[s].ticket = t}
Saving(t) == {s \in Savers : saver[s].pc = "record" /\ saver[s].ticket = t}
Sweeping(t) == {w \in Sweepers : sweeper[w].pc = "record" /\ sweeper[w].ticket = t}

\* Two sets of calls that differ in one call at most.
LEMMA OneMoves ==
    ASSUME NEW S, NEW T, NEW x, IsFiniteSet(S), IsFiniteSet(T), S \ {x} = T \ {x}
    PROVE  /\ Cardinality(S) \in Nat /\ Cardinality(T) \in Nat
           /\ x \notin S /\ x \notin T => T = S
           /\ x \in S /\ x \notin T => Cardinality(T) = Cardinality(S) - 1
           /\ x \notin S /\ x \in T => Cardinality(T) = Cardinality(S) + 1
           /\ x \in S /\ x \in T => T = S
  <1>1. Cardinality(S) \in Nat /\ Cardinality(T) \in Nat
    BY FS_CardinalityType
  <1>2. x \notin S /\ x \notin T => T = S
    OBVIOUS
  <1>3. ASSUME x \in S, x \notin T
        PROVE  Cardinality(T) = Cardinality(S) - 1
    <2>1. T = S \ {x}
      BY <1>3
    <2>. QED
      BY <1>3, <2>1, FS_RemoveElement
  <1>4. ASSUME x \notin S, x \in T
        PROVE  Cardinality(T) = Cardinality(S) + 1
    <2>1. T = S \cup {x}
      BY <1>4
    <2>. QED
      BY <1>4, <2>1, FS_AddElement
  <1>5. ASSUME x \in S, x \in T
        PROVE  T = S
    <2>1. \A y : y \in S <=> y \in T
      BY <1>5
    <2>. QED
      BY <2>1
  <1>. QED
    BY <1>1, <1>2, <1>3, <1>4, <1>5

LEMMA CallsFinite ==
    \A t : /\ IsFiniteSet(Writing(t)) /\ IsFiniteSet(Saving(t)) /\ IsFiniteSet(Sweeping(t))
           /\ IsFiniteSet(Writing(t)') /\ IsFiniteSet(Saving(t)') /\ IsFiniteSet(Sweeping(t)')
  <1>1. ASSUME NEW t
        PROVE  /\ Writing(t) \in SUBSET Savers /\ Saving(t) \in SUBSET Savers
               /\ Sweeping(t) \in SUBSET Sweepers
               /\ Writing(t)' \in SUBSET Savers /\ Saving(t)' \in SUBSET Savers
               /\ Sweeping(t)' \in SUBSET Sweepers
    BY DEF Writing, Saving, Sweeping
  <1>. QED
    BY <1>1, FS_Subset, ActorsAssumption

LEMMA SaverSetsMove ==
    ASSUME NEW s \in Savers, \A z \in Savers : z # s => saver'[z] = saver[z], NEW t
    PROVE  /\ Writing(t)' \ {s} = Writing(t) \ {s} /\ Saving(t)' \ {s} = Saving(t) \ {s}
           /\ s \in Writing(t) <=> saver[s].pc = "write" /\ saver[s].ticket = t
           /\ s \in Writing(t)' <=> saver'[s].pc = "write" /\ saver'[s].ticket = t
           /\ s \in Saving(t) <=> saver[s].pc = "record" /\ saver[s].ticket = t
           /\ s \in Saving(t)' <=> saver'[s].pc = "record" /\ saver'[s].ticket = t
  BY DEF Writing, Saving

LEMMA SweeperSetsMove ==
    ASSUME NEW w \in Sweepers, \A v \in Sweepers : v # w => sweeper'[v] = sweeper[v], NEW t
    PROVE  /\ Sweeping(t)' \ {w} = Sweeping(t) \ {w}
           /\ w \in Sweeping(t) <=> sweeper[w].pc = "record" /\ sweeper[w].ticket = t
           /\ w \in Sweeping(t)' <=> sweeper'[w].pc = "record" /\ sweeper'[w].ticket = t
  BY DEF Sweeping

----------------------------------------------------------------------------
(* The ration *)

\* No two saves are under way for a ticket that was never raced for.
SavesAlone ==
    \A t \in Tickets \ raced : \A s, z \in Savers :
        saver[s].pc # Idle /\ saver[z].pc # Idle /\ saver[s].ticket = t /\ saver[z].ticket = t
            => s = z

\* A save that may still mail a stranger was granted it.
Granted(s) ==
    \/ saver[s].pc = "write" /\ saver[s].rationed /\ saver[s].address # saver[s].by
    \/ saver[s].pc = "mail"

GrantedInTime ==
    \A s \in Savers : Granted(s) /\ saver[s].ticket \notin raced =>
        ledger[saver[s].ticket].saved < PerTicket

\* The rows saves wrote on the ledger, and those they are about to, are within the
\* allowance.
SavedWithinRation == \A t \in Tickets \ raced : ledger[t].saved + Saved(t) <= PerTicket

RationInv == TypeOK /\ SavesAlone /\ GrantedInTime /\ SavedWithinRation

LEMMA RationInit == Init => RationInv
  <1>. SUFFICES ASSUME Init PROVE RationInv
    OBVIOUS
  <1>1. \A s \in Savers : saver[s].pc = Idle
    BY DEF Init, Rest
  <1>2. SavesAlone /\ GrantedInTime
    BY <1>1 DEF SavesAlone, GrantedInTime, Granted, Idle
  <1>3. ASSUME NEW t \in Tickets PROVE Saved(t) = 0 /\ ledger[t].saved = 0
    <2>1. Saving(t) = {}
      BY <1>1 DEF Saving, Idle
    <2>. QED
      BY <2>1, FS_EmptySet DEF Saved, Saving, Init
  <1>. QED
    BY <1>2, <1>3, InitTyped, NumberAssumption DEF RationInv, SavedWithinRation

\* Where no save moves and the ledger's saved rows stand, so does the ration.
LEMMA RationStands ==
    ASSUME RationInv, TypeOK', UNCHANGED <<saver, raced>>,
           \A t \in Tickets : ledger'[t].saved = ledger[t].saved
    PROVE  RationInv'
  <1>1. \A t : Saved(t)' = Saved(t)
    BY DEF Saved
  <1>2. SavesAlone' /\ SavedWithinRation'
    BY <1>1 DEF RationInv, SavesAlone, SavedWithinRation
  <1>3. ASSUME NEW s \in Savers, Granted(s) PROVE saver[s].ticket \in Tickets
    BY <1>3, SaverFields DEF RationInv, TypeOK, ActorsOK, Granted
  <1>4. GrantedInTime'
    BY <1>3 DEF RationInv, GrantedInTime, Granted
  <1>. QED
    BY <1>2, <1>4 DEF RationInv

\* Each step of a save keeps the ration: the grant is judged on every row, and while it is
\* out nobody else writes one.
LEMMA RationSaves ==
    ASSUME RationInv, TypeOK', NEW s \in Savers, Save(s)
    PROVE  RationInv'
  <1>0. /\ TypeOK /\ SavesAlone /\ GrantedInTime /\ SavedWithinRation
        /\ PerTicket \in Nat /\ Rest.pc = Idle
        /\ \A t \in Tickets : ledger[t].saved \in Nat /\ ledger[t].checkout \in Nat
        /\ \A t \in Tickets : ledger'[t].saved \in Nat
    BY NumberAssumption, RestIsAState DEF RationInv, TypeOK, StoreOK
  <1>1. \A z \in Savers : z # s => saver'[z] = saver[z]
    BY <1>0, SaveMoves
  <1>2. ASSUME NEW t \in Tickets
        PROVE  /\ Saved(t) \in Nat /\ Saved(t)' \in Nat
               /\ s \notin Saving(t) /\ s \notin Saving(t)' => Saved(t)' = Saved(t)
               /\ s \in Saving(t) /\ s \notin Saving(t)' => Saved(t)' = Saved(t) - 1
               /\ s \notin Saving(t) /\ s \in Saving(t)' => Saved(t)' = Saved(t) + 1
    <2>1. Saved(t) = Cardinality(Saving(t)) /\ Saved(t)' = Cardinality(Saving(t)')
      BY DEF Saved, Saving
    <2>. QED
      BY <1>1, <2>1, CallsFinite, SaverSetsMove, OneMoves
  <1>3. /\ \A t : s \in Saving(t) <=> saver[s].pc = "record" /\ saver[s].ticket = t
        /\ \A t : s \in Saving(t)' <=> saver'[s].pc = "record" /\ saver'[s].ticket = t
    BY DEF Saving
  <1>4. ASSUME NEW z \in Savers, saver[z].pc # Idle PROVE saver[z].ticket \in Tickets
    <2>1. saver[z] \in SaverState
      BY <1>0 DEF TypeOK, ActorsOK
    <2>. QED
      BY <1>4, <2>1 DEF SaverState, Rest, Idle
  <1>5. ASSUME NEW t \in Tickets, Granting(s, t)
        PROVE  RationInv'
    <2>1. /\ saver'[s].pc = "write" /\ saver'[s].ticket = t /\ saver[s].pc = Idle
          /\ ledger' = ledger /\ raced \subseteq raced'
          /\ t \notin raced' => \A z \in Savers \ {s} : saver[z].pc = Idle \/ saver[z].ticket # t
      BY <1>5 DEF Granting
    <2>2. SavesAlone'
      BY <1>0, <1>1, <2>1 DEF SavesAlone
    <2>3. Granted(s)' => ledger[t].saved < PerTicket
      <3>1. Granted(s)' => Sent(t) < PerTicket
        BY <1>5, <2>1 DEF Granted, Granting
      <3>. QED
        BY <1>0, <3>1 DEF Sent
    <2>4. GrantedInTime'
      BY <1>0, <1>1, <2>1, <2>3 DEF GrantedInTime, Granted
    <2>5. SavedWithinRation'
      BY <1>0, <1>2, <1>3, <2>1 DEF SavedWithinRation, Idle
    <2>. QED
      BY <2>2, <2>4, <2>5 DEF RationInv
  <1>6. ASSUME NEW t \in Tickets, Writes(s, t)
        PROVE  RationInv'
    <2>1. /\ saver[s].pc = "write" /\ saver[s].ticket = t /\ saver'[s].pc \in {Idle, "mail", "tell"}
          /\ saver'[s].pc # Idle => saver'[s].ticket = t
          /\ ledger' = ledger /\ raced \subseteq raced'
      BY <1>6 DEF Writes
    <2>2. SavesAlone'
      BY <1>0, <1>1, <2>1 DEF SavesAlone, Idle
    <2>3. Granted(s)' /\ t \notin raced' => ledger[t].saved < PerTicket
      BY <1>0, <1>6, <2>1 DEF Granted, Writes, GrantedInTime, Idle
    <2>4. GrantedInTime'
      BY <1>0, <1>1, <2>1, <2>3 DEF GrantedInTime, Granted, Idle
    <2>5. SavedWithinRation'
      BY <1>0, <1>2, <1>3, <2>1 DEF SavedWithinRation, Idle
    <2>. QED
      BY <2>2, <2>4, <2>5 DEF RationInv
  <1>7. ASSUME NEW t \in Tickets, Mails(s, t)
        PROVE  RationInv'
    <2>1. /\ saver[s].pc = "mail" /\ saver[s].ticket = t
          /\ saver'[s].pc = "record" /\ saver'[s].ticket = t
          /\ ledger' = ledger /\ raced' = raced
      BY <1>7 DEF Mails
    <2>2. SavesAlone'
      BY <1>0, <1>1, <2>1 DEF SavesAlone, Idle
    <2>3. GrantedInTime'
      BY <1>0, <1>1, <2>1 DEF GrantedInTime, Granted
    <2>4. t \notin raced => Saved(t) = 0 /\ ledger[t].saved < PerTicket
      <3>1. ASSUME t \notin raced PROVE Saving(t) = {}
        BY <1>0, <2>1, <3>1 DEF SavesAlone, Saving, Idle
      <3>. QED
        BY <1>0, <2>1, <3>1, FS_EmptySet DEF Saved, Saving, GrantedInTime, Granted
    <2>5. SavedWithinRation'
      <3>1. ASSUME NEW u \in Tickets, u \notin raced
            PROVE  ledger[u].saved + Saved(u)' <= PerTicket
        <4>1. CASE u = t
          <5>1. Saved(t)' = Saved(t) + 1
            BY <1>2, <1>3, <2>1
          <5>. QED
            BY <1>0, <2>4, <3>1, <4>1, <5>1
        <4>2. CASE u # t
          <5>1. Saved(u)' = Saved(u)
            BY <1>2, <1>3, <2>1, <4>2
          <5>. QED
            BY <1>0, <3>1, <5>1 DEF SavedWithinRation
        <4>. QED
          BY <4>1, <4>2
      <3>. QED
        BY <2>1, <3>1 DEF SavedWithinRation
    <2>. QED
      BY <2>2, <2>3, <2>5 DEF RationInv
  <1>8. ASSUME NEW t \in Tickets, Ledgers(s, t) \/ Loses(s, t)
        PROVE  RationInv'
    <2>1. /\ saver[s].pc = "record" /\ saver[s].ticket = t /\ saver'[s] = Rest /\ raced' = raced
      BY <1>8 DEF Ledgers, Loses
    <2>2. /\ \A u \in Tickets : u # t => ledger'[u].saved = ledger[u].saved
          /\ ledger'[t].saved <= ledger[t].saved + 1
      <3>1. ledger \in [Tickets -> [saved: Nat, checkout: Nat]]
        BY <1>0 DEF TypeOK, StoreOK
      <3>2. CASE ledger' = [ledger EXCEPT ![t].saved = @ + 1]
        BY <1>0, <3>1, <3>2
      <3>3. CASE ledger' = ledger
        BY <1>0, <3>3
      <3>. QED
        BY <1>8, <3>2, <3>3 DEF Ledgers, Loses
    <2>3. SavesAlone'
      BY <1>0, <1>1, <2>1 DEF SavesAlone
    <2>4. GrantedInTime'
      <3>1. ASSUME NEW z \in Savers, Granted(z)', saver'[z].ticket \notin raced
            PROVE  ledger'[saver'[z].ticket].saved < PerTicket
        <4>1. z # s /\ saver'[z] = saver[z] /\ Granted(z)
          BY <1>0, <1>1, <2>1, <3>1 DEF Granted, Idle
        <4>2. saver[z].ticket \in Tickets /\ saver[z].ticket # t
          BY <1>0, <1>4, <2>1, <3>1, <4>1 DEF Granted, SavesAlone, Idle
        <4>. QED
          BY <1>0, <2>2, <3>1, <4>1, <4>2 DEF GrantedInTime
      <3>. QED
        BY <2>1, <3>1 DEF GrantedInTime
    <2>5. SavedWithinRation'
      <3>1. ASSUME NEW u \in Tickets, u \notin raced
            PROVE  ledger'[u].saved + Saved(u)' <= PerTicket
        <4>0. ledger[u].saved + Saved(u) <= PerTicket
          BY <1>0, <3>1 DEF SavedWithinRation
        <4>1. CASE u = t
          <5>1. Saved(t)' = Saved(t) - 1
            BY <1>0, <1>2, <1>3, <2>1 DEF Idle
          <5>. QED
            BY <1>0, <1>2, <2>2, <4>0, <4>1, <5>1
        <4>2. CASE u # t
          <5>1. Saved(u)' = Saved(u)
            BY <1>0, <1>2, <1>3, <2>1, <4>2 DEF Idle
          <5>. QED
            BY <1>0, <2>2, <4>0, <4>2, <5>1
        <4>. QED
          BY <4>1, <4>2
      <3>. QED
        BY <2>1, <3>1 DEF SavedWithinRation
    <2>. QED
      BY <2>3, <2>4, <2>5 DEF RationInv
  <1>9. ASSUME Leaves(s)
        PROVE  RationInv'
    <2>1. /\ saver[s].pc # "record" /\ saver'[s] = Rest /\ raced' = raced /\ ledger' = ledger
      BY <1>9 DEF Leaves
    <2>2. SavesAlone' /\ GrantedInTime'
      BY <1>0, <1>1, <2>1 DEF SavesAlone, GrantedInTime, Granted, Idle
    <2>3. SavedWithinRation'
      BY <1>0, <1>2, <1>3, <2>1 DEF SavedWithinRation, Idle
    <2>. QED
      BY <2>2, <2>3 DEF RationInv
  <1>. QED
    BY <1>0, <1>5, <1>6, <1>7, <1>8, <1>9, SaveMoves

LEMMA TypeKept ==
    ASSUME TypeOK, [Next]_vars
    PROVE  TypeOK'
  <1>1. CASE UNCHANGED vars
    BY <1>1 DEF vars, store, actors, history, TypeOK, StoreOK, WholeSeat, ActorsOK, HistoryOK
  <1>. QED
    BY <1>1, SaveTyped, ClickTyped, SweepTyped, ReAddressTyped, EndTyped DEF Next

LEMMA RationStep ==
    ASSUME RationInv, [Next]_vars
    PROVE  RationInv'
  <1>0. TypeOK /\ TypeOK'
    BY TypeKept DEF RationInv
  <1>1. ASSUME NEW s \in Savers, Save(s)
        PROVE  RationInv'
    BY <1>0, <1>1, RationSaves
  <1>2. ASSUME NEW w \in Sweepers, Sweep(w)
        PROVE  RationInv'
    <2>1. UNCHANGED <<saver, raced>>
      BY <1>0, <1>2, SweepMoves
    <2>2. \A t \in Tickets : ledger'[t].saved = ledger[t].saved
      <3>1. ledger \in [Tickets -> [saved: Nat, checkout: Nat]]
        BY <1>0 DEF TypeOK, StoreOK
      <3>2. ledger' = ledger \/ \E t \in Tickets : ledger' = [ledger EXCEPT ![t].checkout = @ + 1]
        BY <1>0, <1>2, SweepMoves DEF Claims, Drops, Sends, Quits, Enters, Fails
      <3>3. ASSUME NEW t \in Tickets, ledger' = [ledger EXCEPT ![t].checkout = @ + 1]
            PROVE  \A u \in Tickets : ledger'[u].saved = ledger[u].saved
        BY <3>1, <3>3
      <3>. QED
        BY <3>2, <3>3
    <2>. QED
      BY <1>0, <2>1, <2>2, RationStands
  <1>3. ASSUME NEW t \in Tickets, LeaseLapses(t)
        PROVE  RationInv'
    BY <1>0, <1>3, LapseMoves, RationStands
  <1>4. ASSUME ~\E s \in Savers : Save(s), ~\E w \in Sweepers : Sweep(w),
               ~\E t \in Tickets : LeaseLapses(t)
        PROVE  RationInv'
    <2>1. Quiet
      BY <1>0, <1>4, ElseQuiet
    <2>. QED
      BY <1>0, <2>1, RationStands DEF Quiet
  <1>. QED
    BY <1>1, <1>2, <1>3, <1>4

----------------------------------------------------------------------------
(* One mail for an assignment *)

\* A mark is claimed by one sweep at most, which mails the assignment it marks.
SweepsAlone ==
    \A w \in Sweepers : sweeper[w].pc # Idle =>
        /\ owed[sweeper[w].ticket].at = sweeper[w].at /\ sweeper[w].at # 0
        /\ owed[sweeper[w].ticket].claimed
        /\ \A v \in Sweepers :
              sweeper[v].pc # Idle /\ sweeper[v].ticket = sweeper[w].ticket => v = w

\* The numbers to come are unused, and a mark is of an assignment made.
NumbersToCome ==
    \A t \in Tickets :
        /\ owed[t].at <= ticket[t].last
        /\ \A n \in Numbers : n > ticket[t].last => copies[t][n] = 0

\* A save about to mail is the only one to mail its assignment, and has not yet.
Unsent(s) ==
    LET t == saver[s].ticket
        n == saver[s].at
    IN  /\ 0 < n /\ n <= ticket[t].last /\ owed[t].at # n
        /\ n \in Numbers => copies[t][n] = 0
        /\ \A z \in Savers :
              saver[z].pc = "mail" /\ saver[z].ticket = t /\ saver[z].at = n => z = s

SavesUnsent == \A s \in Savers : saver[s].pc = "mail" => Unsent(s)

\* What is still owed was mailed by a sweep yet to record it, or by one that could not.
OwedOnce ==
    \A t \in Tickets : owed[t].at \in Numbers \ {0} /\ Sweeping(t) = {} =>
        copies[t][owed[t].at] <= lost[t]

MailInv ==
    TypeOK /\ SweepsAlone /\ NumbersToCome /\ SavesUnsent /\ OwedOnce /\ OneMailPerAssignment

LEMMA MailInit == Init => MailInv
  <1>. SUFFICES ASSUME Init PROVE MailInv
    OBVIOUS
  <1>1. /\ \A s \in Savers : saver[s].pc = Idle
        /\ \A w \in Sweepers : sweeper[w].pc = Idle
        /\ \A t \in Tickets, n \in Numbers : copies[t][n] = 0
        /\ \A t \in Tickets : lost[t] = 0
    BY DEF Init, Rest
  <1>2. SweepsAlone /\ SavesUnsent
    BY <1>1 DEF SweepsAlone, SavesUnsent, Idle
  <1>3. OwedOnce /\ OneMailPerAssignment
    BY <1>1 DEF OwedOnce, OneMailPerAssignment
  <1>4. ASSUME NEW t \in Tickets PROVE owed[t].at <= ticket[t].last
    <2>1. ticket[t] = Unassigned \/ \E a \in Addresses : ticket[t] = Minted(a)
      BY DEF Init
    <2>2. owed[t].at = IF ticket[t].address \in {NoOne, SoldTo} THEN 0 ELSE 1
      BY DEF Init, NotOwed
    <2>3. CASE ticket[t] = Unassigned
      BY <2>2, <2>3 DEF Unassigned
    <2>4. CASE \E a \in Addresses : ticket[t] = Minted(a)
      <3>1. ticket[t].last = 1
        BY <2>4 DEF Minted
      <3>. QED
        BY <2>2, <3>1
    <2>. QED
      BY <2>1, <2>3, <2>4
  <1>5. NumbersToCome
    BY <1>1, <1>4 DEF NumbersToCome
  <1>. QED
    BY <1>2, <1>3, <1>5, InitTyped DEF MailInv

\* One more copy of the mail about one assignment.
OneMoreCopy(t, n) == copies' = [copies EXCEPT ![t][n] = @ + 1]

LEMMA CopyBumps ==
    ASSUME TypeOK, NEW t \in Tickets, NEW n, OneMoreCopy(t, n)
    PROVE  /\ \A u \in Tickets, m \in Numbers :
                 copies'[u][m] = IF u = t /\ m = n THEN copies[u][m] + 1 ELSE copies[u][m]
           /\ \A u \in Tickets, m \in Numbers : copies[u][m] \in Nat
  <1>1. copies \in [Tickets -> [Numbers -> Nat]] /\ copies[t] \in [Numbers -> Nat]
    BY DEF TypeOK, HistoryOK
  <1>2. PICK sent : sent = [copies[t] EXCEPT ![n] = @ + 1]
    OBVIOUS
  <1>3. copies' = [copies EXCEPT ![t] = sent]
    BY <1>1, <1>2 DEF OneMoreCopy
  <1>4. \A m \in Numbers : sent[m] = IF m = n THEN copies[t][m] + 1 ELSE copies[t][m]
    BY <1>1, <1>2
  <1>5. \A u \in Tickets : copies'[u] = IF u = t THEN sent ELSE copies[u]
    BY <1>1, <1>3
  <1>. QED
    BY <1>1, <1>4, <1>5

LEMMA MailFacts ==
    ASSUME TypeOK
    PROVE  /\ \A t \in Tickets : /\ ticket[t].last \in Nat /\ owed[t].at \in {0, 1}
                                 /\ lost[t] \in Nat
                                 /\ \A n \in Numbers : copies[t][n] \in Nat
           /\ \A s \in Savers : saver[s].pc = "mail" =>
                 saver[s].ticket \in Tickets /\ saver[s].at \in Nat
           /\ \A w \in Sweepers : sweeper[w].pc # Idle =>
                 /\ sweeper[w].ticket \in Tickets /\ sweeper[w].at \in Nat
                 /\ sweeper[w].pc \in {"send", "record"}
           /\ Numbers \subseteq Nat /\ Rest.pc = Idle
  <1>1. ASSUME NEW s \in Savers, saver[s].pc = "mail"
        PROVE  saver[s].ticket \in Tickets /\ saver[s].at \in Nat
    BY <1>1, SaverFields DEF TypeOK, ActorsOK
  <1>2. ASSUME NEW w \in Sweepers, sweeper[w].pc # Idle
        PROVE  /\ sweeper[w].ticket \in Tickets /\ sweeper[w].at \in Nat
               /\ sweeper[w].pc \in {"send", "record"}
    <2>1. sweeper[w] \in SweeperState
      BY DEF TypeOK, ActorsOK
    <2>. QED
      BY <1>2, <2>1 DEF SweeperState, Rest, Idle
  <1>. QED
    BY <1>1, <1>2, NumbersAreNat, RestIsAState DEF TypeOK, StoreOK, HistoryOK, Ticket

\* A save mails the assignment it made, whose number nobody had before.
LEMMA MailSaves ==
    ASSUME MailInv, TypeOK', NEW s \in Savers, Save(s)
    PROVE  MailInv'
  <1>0. /\ TypeOK /\ SweepsAlone /\ NumbersToCome /\ SavesUnsent /\ OwedOnce
        /\ OneMailPerAssignment
    BY DEF MailInv
  <1>1. /\ \A z \in Savers : z # s => saver'[z] = saver[z]
        /\ sweeper' = sweeper
    BY <1>0, SaveMoves
  <1>2. /\ \A t \in Tickets : /\ ticket[t].last \in Nat /\ owed[t].at \in {0, 1}
                              /\ lost[t] \in Nat
                              /\ \A n \in Numbers : copies[t][n] \in Nat
        /\ \A z \in Savers : saver[z].pc = "mail" =>
              saver[z].ticket \in Tickets /\ saver[z].at \in Nat
        /\ Numbers \subseteq Nat /\ Rest.pc = Idle
    BY <1>0, MailFacts
  <1>3. owed' = owed
    BY <1>0, SaveMoves DEF Granting, Writes, Mails, Ledgers, Loses, Leaves
  <1>4. SweepsAlone'
    BY <1>0, <1>1, <1>3 DEF SweepsAlone
  <1>5. \A t : Sweeping(t)' = Sweeping(t)
    BY <1>1 DEF Sweeping
  <1>6. ASSUME copies' = copies, Numbered, saver'[s].pc # "mail",
               \A t \in Tickets : lost'[t] \in Nat /\ lost'[t] >= lost[t]
        PROVE  MailInv'
    <2>1. NumbersToCome'
      BY <1>0, <1>3, <1>6 DEF NumbersToCome, Numbered
    <2>2. ASSUME NEW z \in Savers, saver'[z].pc = "mail" PROVE Unsent(z)'
      <3>1. z # s /\ saver'[z] = saver[z] /\ saver[z].pc = "mail" /\ Unsent(z)
            /\ saver[z].ticket \in Tickets
        BY <1>0, <1>1, <1>2, <1>6, <2>2 DEF SavesUnsent
      <3>2. \A y \in Savers : saver'[y].pc = "mail" => saver'[y] = saver[y]
        BY <1>1, <1>6
      <3>. QED
        BY <1>3, <1>6, <3>1, <3>2 DEF Unsent, Numbered
    <2>3. OwedOnce' /\ OneMailPerAssignment'
      BY <1>0, <1>2, <1>3, <1>5, <1>6 DEF OwedOnce, OneMailPerAssignment
    <2>. QED
      BY <1>4, <2>1, <2>2, <2>3 DEF MailInv, SavesUnsent
  <1>7. ASSUME NEW t \in Tickets, Granting(s, t) \/ Ledgers(s, t) \/ Leaves(s) \/ Loses(s, t)
        PROVE  MailInv'
    <2>1. \A u \in Tickets : lost'[u] \in Nat /\ lost'[u] >= lost[u]
      <3>1. lost \in [Tickets -> Nat]
        BY <1>0 DEF TypeOK, HistoryOK
      <3>2. lost' = lost \/ lost' = [lost EXCEPT ![t] = @ + 1]
        BY <1>7 DEF Granting, Ledgers, Leaves, Loses
      <3>. QED
        BY <3>1, <3>2
    <2>2. copies' = copies /\ Numbered /\ saver'[s].pc # "mail"
      BY <1>2, <1>7 DEF Granting, Ledgers, Leaves, Loses, Idle
    <2>. QED
      BY <1>6, <2>1, <2>2
  <1>8. ASSUME NEW t \in Tickets, Writes(s, t)
        PROVE  MailInv'
    <2>1. /\ saver[s].pc = "write" /\ copies' = copies /\ lost' = lost
          /\ \A u \in Tickets \ {t} : ticket'[u].last = ticket[u].last
          /\ ticket'[t].last \in {ticket[t].last, ticket[t].last + 1}
          /\ saver'[s].pc = "mail" => /\ saver'[s].ticket = t /\ saver'[s].at = ticket[t].last + 1
                                      /\ ticket'[t].last = ticket[t].last + 1
      BY <1>8 DEF Writes
    <2>2. \A u \in Tickets : ticket'[u].last >= ticket[u].last /\ ticket'[u].last \in Nat
      BY <1>2, <2>1
    <2>3. NumbersToCome'
      BY <1>0, <1>2, <1>3, <2>1, <2>2 DEF NumbersToCome
    <2>4. ASSUME NEW z \in Savers, z # s, saver[z].pc = "mail"
          PROVE  /\ Unsent(z) /\ saver[z].ticket \in Tickets /\ saver[z].at \in Nat
                 /\ saver[z].at <= ticket[saver[z].ticket].last
      BY <1>0, <1>2, <2>4 DEF SavesUnsent, Unsent
    <2>5. ASSUME saver'[s].pc = "mail" PROVE Unsent(s)'
      <3>1. /\ saver'[s].ticket = t /\ saver'[s].at = ticket[t].last + 1
            /\ ticket'[t].last = ticket[t].last + 1
        BY <2>1, <2>5
      <3>2. ticket[t].last + 1 \in Numbers => copies'[t][ticket[t].last + 1] = 0
        BY <1>0, <1>2, <2>1 DEF NumbersToCome
      <3>3. owed'[t].at # ticket[t].last + 1
        BY <1>0, <1>2, <1>3 DEF NumbersToCome
      <3>4. \A z \in Savers : saver'[z].pc = "mail" /\ saver'[z].ticket = t
                              /\ saver'[z].at = ticket[t].last + 1 => z = s
        BY <1>1, <1>2, <2>4
      <3>. QED
        BY <1>2, <3>1, <3>2, <3>3, <3>4 DEF Unsent
    <2>6. ASSUME NEW z \in Savers, z # s, saver'[z].pc = "mail" PROVE Unsent(z)'
      <3>1. saver'[z] = saver[z] /\ saver[z].pc = "mail"
        BY <1>1, <2>6
      <3>2. /\ Unsent(z) /\ saver[z].ticket \in Tickets /\ saver[z].at \in Nat
            /\ saver[z].at <= ticket[saver[z].ticket].last
        BY <2>4, <2>6, <3>1
      <3>3. saver[z].at <= ticket'[saver[z].ticket].last
        BY <1>2, <2>2, <3>2
      <3>4. \A y \in Savers : saver'[y].pc = "mail" /\ saver'[y].ticket = saver[z].ticket
                              /\ saver'[y].at = saver[z].at => y = z
        <4>1. \A y \in Savers : y # s => saver'[y] = saver[y]
          BY <1>1
        <4>2. ~(saver'[s].pc = "mail" /\ saver'[s].ticket = saver[z].ticket
                /\ saver'[s].at = saver[z].at)
          BY <1>2, <2>1, <3>2
        <4>. QED
          BY <3>2, <4>1, <4>2 DEF Unsent
      <3>. QED
        BY <1>3, <2>1, <3>1, <3>2, <3>3, <3>4 DEF Unsent
    <2>7. OwedOnce' /\ OneMailPerAssignment'
      BY <1>0, <1>3, <1>5, <2>1 DEF OwedOnce, OneMailPerAssignment
    <2>. QED
      BY <1>4, <2>3, <2>5, <2>6, <2>7 DEF MailInv, SavesUnsent
  <1>9. ASSUME NEW t \in Tickets, Mails(s, t)
        PROVE  MailInv'
    <2>1. /\ saver[s].pc = "mail" /\ saver[s].ticket = t /\ saver'[s].pc = "record"
          /\ lost' = lost /\ Numbered
          /\ copies' = [copies EXCEPT ![t][saver[s].at] = @ + 1]
      BY <1>9 DEF Mails
    <2>2. PICK n \in Nat : n = saver[s].at
      BY <1>2, <2>1
    <2>3. /\ 0 < n /\ n <= ticket[t].last /\ owed[t].at # n
          /\ n \in Numbers => copies[t][n] = 0
          /\ \A z \in Savers : saver[z].pc = "mail" /\ saver[z].ticket = t /\ saver[z].at = n => z = s
      BY <1>0, <2>1, <2>2 DEF SavesUnsent, Unsent
    <2>4. \A u \in Tickets, m \in Numbers :
             copies'[u][m] = IF u = t /\ m = n THEN copies[u][m] + 1 ELSE copies[u][m]
      <3>1. OneMoreCopy(t, n)
        BY <2>1, <2>2 DEF OneMoreCopy
      <3>. QED
        BY <1>0, <3>1, CopyBumps
    <2>5. NumbersToCome'
      BY <1>0, <1>2, <1>3, <2>1, <2>3, <2>4 DEF NumbersToCome, Numbered
    <2>6. ASSUME NEW z \in Savers, saver'[z].pc = "mail" PROVE Unsent(z)'
      <3>1. z # s /\ saver'[z] = saver[z] /\ saver[z].pc = "mail" /\ Unsent(z)
            /\ saver[z].ticket \in Tickets
        BY <1>0, <1>1, <1>2, <2>1, <2>6 DEF SavesUnsent
      <3>2. saver[z].ticket # t \/ saver[z].at # n
        BY <2>3, <3>1
      <3>3. saver[z].at \in Numbers =>
               copies'[saver[z].ticket][saver[z].at] = copies[saver[z].ticket][saver[z].at]
        BY <2>4, <3>1, <3>2
      <3>4. \A y \in Savers : saver'[y].pc = "mail" => saver'[y] = saver[y]
        BY <1>1, <2>1
      <3>5. ticket'[saver[z].ticket].last = ticket[saver[z].ticket].last
        BY <2>1, <3>1 DEF Numbered
      <3>. QED
        BY <1>3, <3>1, <3>3, <3>4, <3>5 DEF Unsent
    <2>7. OwedOnce'
      <3>1. ASSUME NEW u \in Tickets, owed[u].at \in Numbers
            PROVE  copies'[u][owed[u].at] = copies[u][owed[u].at]
        BY <2>3, <2>4, <3>1
      <3>. QED
        BY <1>0, <1>3, <1>5, <2>1, <3>1 DEF OwedOnce
    <2>8. OneMailPerAssignment'
      BY <1>0, <1>2, <2>1, <2>3, <2>4 DEF OneMailPerAssignment
    <2>. QED
      BY <1>4, <2>5, <2>6, <2>7, <2>8 DEF MailInv, SavesUnsent
  <1>. QED
    <2>1. ASSUME Leaves(s) PROVE MailInv'
      <3>1. copies' = copies /\ Numbered /\ saver'[s].pc # "mail" /\ lost' = lost
        BY <1>2, <2>1 DEF Leaves, Idle
      <3>. QED
        BY <1>2, <1>6, <3>1
    <2>. QED
      BY <1>0, <1>7, <1>8, <1>9, <2>1, SaveMoves

\* A step of one sweep, or of a lease, that sends nothing: what it must leave of the marks.
LEMMA MailStands ==
    ASSUME MailInv, TypeOK', Numbered, UNCHANGED <<saver, copies>>, SweepsAlone',
           \A t \in Tickets : owed'[t].at \in {0, owed[t].at} /\ lost'[t] >= lost[t],
           \A t \in Tickets : Sweeping(t)' = {} /\ owed'[t].at # 0 =>
               Sweeping(t) = {} \/ lost'[t] = lost[t] + 1
    PROVE  MailInv'
  <1>0. /\ TypeOK /\ NumbersToCome /\ SavesUnsent /\ OwedOnce /\ OneMailPerAssignment
        /\ \A t \in Tickets : lost[t] \in Nat /\ lost'[t] \in Nat /\ ticket[t].last \in Nat
        /\ \A t \in Tickets, n \in Numbers : copies[t][n] \in Nat
        /\ \A s \in Savers : saver[s].pc = "mail" =>
              saver[s].ticket \in Tickets /\ saver[s].at \in Nat
    BY MailFacts DEF MailInv, TypeOK, HistoryOK
  <1>1. NumbersToCome'
    BY <1>0 DEF NumbersToCome, Numbered
  <1>2. ASSUME NEW s \in Savers, saver'[s].pc = "mail" PROVE Unsent(s)'
    <2>1. saver[s].pc = "mail" /\ saver[s].ticket \in Tickets /\ Unsent(s)
      BY <1>0, <1>2 DEF SavesUnsent
    <2>2. owed'[saver[s].ticket].at # saver[s].at
      BY <2>1 DEF Unsent
    <2>. QED
      BY <2>1, <2>2 DEF Unsent, Numbered
  <1>3. OneMailPerAssignment'
    BY <1>0 DEF OneMailPerAssignment
  <1>4. ASSUME NEW t \in Tickets, owed'[t].at \in Numbers \ {0}, Sweeping(t)' = {}
        PROVE  copies[t][owed'[t].at] <= lost'[t]
    <2>1. owed'[t].at = owed[t].at
      BY <1>4
    <2>2. CASE Sweeping(t) = {}
      <3>1. copies[t][owed[t].at] <= lost[t]
        BY <1>0, <1>4, <2>1, <2>2 DEF OwedOnce
      <3>. QED
        BY <1>0, <1>4, <2>1, <3>1
    <2>3. CASE lost'[t] = lost[t] + 1
      <3>1. copies[t][owed[t].at] <= 1 + lost[t]
        BY <1>0, <1>4, <2>1 DEF OneMailPerAssignment
      <3>. QED
        BY <1>0, <1>4, <2>1, <2>3, <3>1
    <2>. QED
      BY <1>4, <2>2, <2>3
  <1>5. OwedOnce'
    BY <1>4 DEF OwedOnce
  <1>. QED
    BY <1>1, <1>2, <1>3, <1>5 DEF MailInv, SavesUnsent

\* A sweep mails what it alone has claimed, and whose mail is gone only if its record was lost.
LEMMA MailSweeps ==
    ASSUME MailInv, TypeOK', NEW w \in Sweepers, Sweep(w)
    PROVE  MailInv'
  <1>0. /\ TypeOK /\ SweepsAlone /\ NumbersToCome /\ SavesUnsent /\ OwedOnce
        /\ OneMailPerAssignment
    BY DEF MailInv
  <1>1. /\ \A v \in Sweepers : v # w => sweeper'[v] = sweeper[v]
        /\ Numbered /\ saver' = saver
    BY <1>0, SweepMoves
  <1>2. /\ \A t \in Tickets : /\ ticket[t].last \in Nat /\ owed[t].at \in {0, 1}
                              /\ lost[t] \in Nat
                              /\ \A n \in Numbers : copies[t][n] \in Nat
        /\ \A z \in Savers : saver[z].pc = "mail" =>
              saver[z].ticket \in Tickets /\ saver[z].at \in Nat
        /\ \A v \in Sweepers : sweeper[v].pc # Idle =>
              /\ sweeper[v].ticket \in Tickets /\ sweeper[v].at \in Nat
              /\ sweeper[v].pc \in {"send", "record"}
        /\ Numbers \subseteq Nat /\ Rest.pc = Idle
    BY <1>0, MailFacts
  <1>3. \A t : /\ Sweeping(t)' \ {w} = Sweeping(t) \ {w}
               /\ w \in Sweeping(t) <=> sweeper[w].pc = "record" /\ sweeper[w].ticket = t
               /\ w \in Sweeping(t)' <=> sweeper'[w].pc = "record" /\ sweeper'[w].ticket = t
    BY <1>1, SweeperSetsMove
  <1>4. ASSUME NEW t \in Tickets, Claims(w, t)
        PROVE  MailInv'
    <2>1. /\ owed[t].at # 0 /\ ~owed[t].claimed /\ sweeper[w].pc = Idle
          /\ sweeper'[w].pc = "send" /\ sweeper'[w].ticket = t /\ sweeper'[w].at = owed[t].at
          /\ owed'[t].at = owed[t].at /\ owed'[t].claimed
          /\ \A u \in Tickets : u # t => owed'[u] = owed[u]
          /\ lost' = lost /\ copies' = copies
      BY <1>4 DEF Claims, MarkMoves
    <2>2. \A v \in Sweepers : sweeper[v].pc # Idle => sweeper[v].ticket # t
      BY <1>0, <2>1 DEF SweepsAlone
    <2>3. SweepsAlone'
      BY <1>0, <1>1, <1>2, <2>1, <2>2 DEF SweepsAlone
    <2>4. \A u : Sweeping(u)' = Sweeping(u)
      BY <1>3, <2>1 DEF Idle
    <2>. QED
      BY <1>1, <1>2, <2>1, <2>3, <2>4, MailStands
  <1>5. ASSUME NEW t \in Tickets, Drops(w, t)
        PROVE  MailInv'
    <2>1. /\ ~owed[t].claimed /\ sweeper'[w] = sweeper[w]
          /\ owed'[t].at \in {0, owed[t].at}
          /\ \A u \in Tickets : u # t => owed'[u] = owed[u]
          /\ lost' = lost /\ copies' = copies
      BY <1>5 DEF Drops, MarkMoves
    <2>2. \A v \in Sweepers : sweeper[v].pc # Idle => sweeper[v].ticket # t
      BY <1>0, <2>1 DEF SweepsAlone
    <2>3. \A v \in Sweepers : sweeper'[v] = sweeper[v]
      BY <1>1, <2>1
    <2>4. SweepsAlone'
      BY <1>0, <1>2, <2>1, <2>2, <2>3 DEF SweepsAlone
    <2>5. \A u : Sweeping(u)' = Sweeping(u)
      BY <2>3 DEF Sweeping
    <2>6. \A u \in Tickets : owed'[u].at \in {0, owed[u].at} /\ lost'[u] >= lost[u]
      BY <1>2, <2>1
    <2>7. Numbered /\ UNCHANGED <<saver, copies>>
      BY <1>1, <2>1
    <2>8. \A u \in Tickets : Sweeping(u)' = {} /\ owed'[u].at # 0 =>
             Sweeping(u) = {} \/ lost'[u] = lost[u] + 1
      BY <2>5
    <2>. QED
      BY <2>4, <2>6, <2>7, <2>8, MailStands
  <1>6. ASSUME NEW t \in Tickets, sweeper[w].pc # Idle, sweeper[w].ticket = t, sweeper'[w] = Rest,
               \/ MarkMoves(t, 0, FALSE) \/ MarkMoves(t, owed[t].at, FALSE) \/ UNCHANGED owed
        PROVE  /\ SweepsAlone'
               /\ \A u \in Tickets : owed'[u].at \in {0, owed[u].at}
               /\ \A u \in Tickets : u # t => owed'[u] = owed[u]
               /\ \A u : w \notin Sweeping(u)'
               /\ \A u : u # t => Sweeping(u)' = Sweeping(u)
    <2>1. \A v \in Sweepers : sweeper[v].pc # Idle /\ sweeper[v].ticket = t => v = w
      BY <1>0, <1>6 DEF SweepsAlone
    <2>2. /\ \A u \in Tickets : owed'[u].at \in {0, owed[u].at}
          /\ \A u \in Tickets : u # t => owed'[u] = owed[u]
      BY <1>6 DEF MarkMoves
    <2>3. \A v \in Sweepers : sweeper'[v].pc # Idle => v # w /\ sweeper'[v] = sweeper[v]
                                                       /\ sweeper[v].ticket # t
      BY <1>1, <1>2, <1>6, <2>1
    <2>4. SweepsAlone'
      BY <1>0, <1>2, <2>2, <2>3 DEF SweepsAlone
    <2>5. \A u : w \notin Sweeping(u)'
      BY <1>2, <1>3, <1>6 DEF Idle
    <2>6. ASSUME NEW u, u # t PROVE Sweeping(u)' = Sweeping(u)
      <3>1. w \notin Sweeping(u)
        BY <1>3, <1>6, <2>6
      <3>. QED
        BY <1>3, <2>5, <3>1
    <2>. QED
      BY <2>2, <2>4, <2>5, <2>6
  <1>7. ASSUME NEW t \in Tickets, Quits(w, t)
        PROVE  MailInv'
    <2>1. /\ sweeper[w].pc = "send" /\ sweeper[w].ticket = t /\ sweeper'[w] = Rest
          /\ MarkMoves(t, owed[t].at, FALSE) \/ UNCHANGED owed
          /\ lost' = lost /\ copies' = copies
      BY <1>7 DEF Quits
    <2>2. SweepsAlone' /\ \A u \in Tickets : owed'[u].at \in {0, owed[u].at}
      BY <1>6, <2>1 DEF Idle
    <2>3. ASSUME NEW u PROVE Sweeping(u)' = Sweeping(u)
      <3>1. w \notin Sweeping(u) /\ w \notin Sweeping(u)'
        BY <1>2, <1>3, <2>1 DEF Idle
      <3>. QED
        BY <1>3, <3>1
    <2>. QED
      BY <1>1, <1>2, <2>1, <2>2, <2>3, MailStands
  <1>8. ASSUME NEW t \in Tickets, Enters(w, t)
        PROVE  MailInv'
    <2>1. /\ sweeper[w].pc = "record" /\ sweeper[w].ticket = t /\ sweeper'[w] = Rest
          /\ MarkMoves(t, 0, FALSE) /\ owed'[t].at = 0
          /\ lost' = lost /\ copies' = copies
      BY <1>8 DEF Enters, MarkMoves
    <2>2. /\ SweepsAlone' /\ \A u \in Tickets : owed'[u].at \in {0, owed[u].at}
          /\ \A u : u # t => Sweeping(u)' = Sweeping(u)
      BY <1>6, <2>1 DEF Idle
    <2>. QED
      BY <1>1, <1>2, <2>1, <2>2, MailStands
  <1>9. ASSUME NEW t \in Tickets, Fails(w, t)
        PROVE  MailInv'
    <2>1. /\ sweeper[w].pc = "record" /\ sweeper[w].ticket = t /\ sweeper'[w] = Rest
          /\ MarkMoves(t, 0, FALSE) \/ UNCHANGED owed
          /\ lost' = [lost EXCEPT ![t] = @ + 1] /\ copies' = copies
      BY <1>9 DEF Fails
    <2>2. /\ SweepsAlone' /\ \A u \in Tickets : owed'[u].at \in {0, owed[u].at}
          /\ \A u : u # t => Sweeping(u)' = Sweeping(u)
      BY <1>6, <2>1 DEF Idle
    <2>3. /\ lost'[t] = lost[t] + 1 /\ \A u \in Tickets : u # t => lost'[u] = lost[u]
      BY <1>0, <2>1 DEF TypeOK, HistoryOK
    <2>4. \A u \in Tickets : lost'[u] >= lost[u]
      BY <1>2, <2>3
    <2>. QED
      BY <1>1, <2>1, <2>2, <2>3, <2>4, MailStands
  <1>10. ASSUME NEW t \in Tickets, Sends(w, t)
         PROVE  MailInv'
    <2>1. /\ sweeper[w].pc = "send" /\ sweeper[w].ticket = t
          /\ sweeper'[w].pc = "record" /\ sweeper'[w].ticket = t
          /\ sweeper'[w].at = sweeper[w].at
          /\ lost' = lost /\ owed' = owed
          /\ copies' = [copies EXCEPT ![t][sweeper[w].at] = @ + 1]
      BY <1>10 DEF Sends
    <2>2. PICK n \in Nat : n = sweeper[w].at /\ n = owed[t].at /\ n # 0
      BY <1>0, <1>2, <2>1 DEF SweepsAlone, Idle
    <2>3. \A u \in Tickets, m \in Numbers :
             copies'[u][m] = IF u = t /\ m = n THEN copies[u][m] + 1 ELSE copies[u][m]
      <3>1. OneMoreCopy(t, n)
        BY <2>1, <2>2 DEF OneMoreCopy
      <3>. QED
        BY <1>0, <3>1, CopyBumps
    <2>4. SweepsAlone'
      BY <1>0, <1>1, <2>1 DEF SweepsAlone, Idle
    <2>5. Sweeping(t) = {} /\ Sweeping(t)' # {}
      <3>1. \A v \in Sweepers : sweeper[v].pc # Idle /\ sweeper[v].ticket = t => v = w
        BY <1>0, <2>1 DEF SweepsAlone, Idle
      <3>2. Sweeping(t) = {}
        BY <2>1, <3>1 DEF Sweeping, Idle
      <3>. QED
        BY <1>3, <2>1, <3>2
    <2>6. NumbersToCome'
      BY <1>0, <1>1, <1>2, <2>1, <2>2, <2>3 DEF NumbersToCome, Numbered
    <2>7. ASSUME NEW z \in Savers, saver'[z].pc = "mail" PROVE Unsent(z)'
      <3>1. saver[z].pc = "mail" /\ Unsent(z) /\ saver[z].ticket \in Tickets
        BY <1>0, <1>1, <1>2, <2>7 DEF SavesUnsent
      <3>2. saver[z].ticket # t \/ saver[z].at # n
        BY <2>2, <3>1 DEF Unsent
      <3>3. saver[z].at \in Numbers =>
               copies'[saver[z].ticket][saver[z].at] = copies[saver[z].ticket][saver[z].at]
        BY <2>3, <3>1, <3>2
      <3>4. ticket'[saver[z].ticket].last = ticket[saver[z].ticket].last
        BY <1>1, <3>1 DEF Numbered
      <3>. QED
        BY <1>1, <2>1, <3>1, <3>3, <3>4 DEF Unsent
    <2>8. OwedOnce'
      <3>1. ASSUME NEW u \in Tickets, u # t
            PROVE  /\ Sweeping(u)' = Sweeping(u)
                   /\ \A m \in Numbers : copies'[u][m] = copies[u][m]
        BY <1>3, <2>1, <2>3, <3>1
      <3>. QED
        BY <1>0, <2>1, <2>5, <3>1 DEF OwedOnce
    <2>9. OneMailPerAssignment'
      <3>1. n \in Numbers => copies[t][n] <= lost[t]
        BY <1>0, <2>2, <2>5 DEF OwedOnce
      <3>. QED
        BY <1>0, <1>2, <2>1, <2>3, <3>1 DEF OneMailPerAssignment
    <2>. QED
      BY <2>4, <2>6, <2>7, <2>8, <2>9 DEF MailInv, SavesUnsent
  <1>. QED
    BY <1>0, <1>4, <1>5, <1>7, <1>8, <1>9, <1>10, SweepMoves

LEMMA MailStep ==
    ASSUME MailInv, [Next]_vars
    PROVE  MailInv'
  <1>0. TypeOK /\ TypeOK' /\ SweepsAlone
    BY TypeKept DEF MailInv
  <1>1. ASSUME NEW t \in Tickets, LeaseLapses(t)
        PROVE  MailInv'
    <2>1. /\ MarkMoves(t, owed[t].at, FALSE)
          /\ \A w \in Sweepers : sweeper[w].pc # Idle => sweeper[w].ticket # t
          /\ Numbered /\ UNCHANGED <<saver, sweeper, copies, lost>>
      BY <1>0, <1>1, LapseMoves
    <2>2. \A w \in Sweepers : sweeper[w].pc # Idle =>
             sweeper[w].ticket \in Tickets /\ owed'[sweeper[w].ticket] = owed[sweeper[w].ticket]
      BY <1>0, <2>1, MailFacts DEF MarkMoves
    <2>3. SweepsAlone'
      BY <1>0, <2>1, <2>2 DEF SweepsAlone
    <2>4. \A u : Sweeping(u)' = Sweeping(u)
      BY <2>1 DEF Sweeping
    <2>5. \A u \in Tickets : owed'[u].at \in {0, owed[u].at} /\ lost'[u] >= lost[u]
      BY <1>0, <2>1, MailFacts DEF MarkMoves
    <2>. QED
      BY <1>0, <2>1, <2>3, <2>4, <2>5, MailStands
  <1>2. ASSUME ~\E s \in Savers : Save(s), ~\E w \in Sweepers : Sweep(w),
               ~\E t \in Tickets : LeaseLapses(t)
        PROVE  MailInv'
    <2>1. Quiet /\ Numbered
      BY <1>0, <1>2, ElseQuiet
    <2>2. SweepsAlone' /\ \A u : Sweeping(u)' = Sweeping(u)
      BY <1>0, <2>1 DEF Quiet, SweepsAlone, Sweeping
    <2>3. \A u \in Tickets : owed'[u].at \in {0, owed[u].at} /\ lost'[u] >= lost[u]
      BY <1>0, <2>1, MailFacts DEF Quiet
    <2>. QED
      BY <1>0, <2>1, <2>2, <2>3, MailStands DEF Quiet
  <1>. QED
    BY <1>0, <1>1, <1>2, MailSaves, MailSweeps

\* The Holder of an assignment is mailed once, and again only where the record of a mail was
\* lost, however many saves and sweeps interleave: the mark a sweep claims is of an
\* assignment no save mails, and its lease outlasts the send (ClaimDueOwedAssignmentMail).
THEOREM OneMailKept == Spec => []OneMailPerAssignment
  <1>1. Spec => []MailInv
    BY MailInit, MailStep, PTL DEF Spec
  <1>2. MailInv => OneMailPerAssignment
    BY DEF MailInv
  <1>. QED
    BY <1>1, <1>2, PTL

----------------------------------------------------------------------------
(* The ledger tells the sends *)

\* No assignment outgrows Numbers: every save that may still make one was granted below the
\* bound, and there are no more of them than Savers.
NumbersSuffice ==
    \A t \in Tickets :
        ticket[t].last + Cardinality(Writing(t)) <= MaxAssignments + Cardinality(Savers)

MailsFinite == \A t \in Tickets : IsFiniteSet(MailsOf(t))

CountInv == MailInv /\ NumbersSuffice /\ MailsFinite /\ LedgerTellsTheSends

LEMMA CountFacts ==
    ASSUME TypeOK
    PROVE  /\ MaxAssignments \in Nat \ {0} /\ Cardinality(Savers) \in Nat
           /\ Numbers = 0 .. MaxAssignments + Cardinality(Savers)
           /\ \A t \in Tickets : /\ ticket[t].last \in Nat /\ lost[t] \in Nat
                                 /\ ledger[t].saved \in Nat /\ ledger[t].checkout \in Nat
                                 /\ Sent(t) = ledger[t].saved + ledger[t].checkout
           /\ \A t : /\ Saved(t) = Cardinality(Saving(t)) /\ Swept(t) = Cardinality(Sweeping(t))
                     /\ Saved(t) \in Nat /\ Swept(t) \in Nat
                     /\ Cardinality(Writing(t)) \in Nat
                     /\ Cardinality(Writing(t)) <= Cardinality(Savers)
                     /\ Copies(t) = Cardinality(MailsOf(t))
  <1>1. MaxAssignments \in Nat \ {0} /\ Cardinality(Savers) \in Nat
    BY NumberAssumption, ActorsAssumption, FS_CardinalityType
  <1>2. \A t \in Tickets : /\ ticket[t].last \in Nat /\ lost[t] \in Nat
                           /\ ledger[t].saved \in Nat /\ ledger[t].checkout \in Nat
    BY DEF TypeOK, StoreOK, HistoryOK, Ticket
  <1>3. ASSUME NEW t
        PROVE  /\ Saved(t) = Cardinality(Saving(t)) /\ Swept(t) = Cardinality(Sweeping(t))
               /\ Saved(t) \in Nat /\ Swept(t) \in Nat
               /\ Cardinality(Writing(t)) \in Nat
               /\ Cardinality(Writing(t)) <= Cardinality(Savers)
               /\ Copies(t) = Cardinality(MailsOf(t))
    <2>1. Saved(t) = Cardinality(Saving(t)) /\ Swept(t) = Cardinality(Sweeping(t))
          /\ Copies(t) = Cardinality(MailsOf(t))
      BY DEF Saved, Saving, Swept, Sweeping, Copies
    <2>2. Writing(t) \in SUBSET Savers
      BY DEF Writing
    <2>3. Cardinality(Writing(t)) <= Cardinality(Savers)
      BY <2>2, FS_Subset, ActorsAssumption
    <2>. QED
      BY <2>1, <2>3, CallsFinite, FS_CardinalityType
  <1>. QED
    BY <1>1, <1>2, <1>3 DEF Numbers, Sent

LEMMA CountInit == Init => CountInv
  <1>. SUFFICES ASSUME Init PROVE CountInv
    OBVIOUS
  <1>0. MailInv /\ TypeOK
    BY MailInit DEF MailInv
  <1>1. /\ \A s \in Savers : saver[s].pc = Idle
        /\ \A w \in Sweepers : sweeper[w].pc = Idle
        /\ \A t \in Tickets : lost[t] = 0 /\ ledger[t].saved = 0 /\ ledger[t].checkout = 0
        /\ \A t \in Tickets, n \in Numbers : copies[t][n] = 0
    BY DEF Init, Rest
  <1>2. \A t : Writing(t) = {} /\ Saving(t) = {} /\ Sweeping(t) = {}
    BY <1>1 DEF Writing, Saving, Sweeping, Idle
  <1>3. \A t \in Tickets : MailsOf(t) = {}
    BY <1>1 DEF MailsOf
  <1>4. \A t \in Tickets : ticket[t].last \in {0, 1}
    BY DEF Init, Unassigned, Minted
  <1>5. Cardinality({}) = 0 /\ IsFiniteSet({})
    BY FS_EmptySet
  <1>6. NumbersSuffice
    BY <1>0, <1>2, <1>4, <1>5, CountFacts DEF NumbersSuffice
  <1>7. LedgerTellsTheSends
    <2>1. ASSUME NEW t \in Tickets
          PROVE  Copies(t) = 0 /\ Saved(t) = 0 /\ Swept(t) = 0 /\ Sent(t) = 0 /\ lost[t] = 0
      <3>1. Copies(t) = 0
        BY <1>3, <1>5 DEF Copies
      <3>2. Saved(t) = 0 /\ Swept(t) = 0
        BY <1>2, <1>5 DEF Saved, Swept, Saving, Sweeping
      <3>. QED
        BY <1>1, <3>1, <3>2 DEF Sent
    <2>. QED
      BY <2>1 DEF LedgerTellsTheSends
  <1>. QED
    BY <1>0, <1>3, <1>5, <1>6, <1>7 DEF CountInv, MailsFinite

\* One more copy is one more mail about its ticket, and none about another.
LEMMA OneMoreMail ==
    ASSUME TypeOK, NEW t \in Tickets, NEW n \in Numbers, OneMoreCopy(t, n), MailsFinite
    PROVE  /\ MailsFinite' /\ Copies(t)' = Copies(t) + 1
           /\ \A u \in Tickets : u # t => Copies(u)' = Copies(u)
  <1>1. /\ \A u \in Tickets, m \in Numbers :
              copies'[u][m] = IF u = t /\ m = n THEN copies[u][m] + 1 ELSE copies[u][m]
        /\ \A u \in Tickets, m \in Numbers : copies[u][m] \in Nat
    BY CopyBumps
  <1>. DEFINE mail == <<n, copies[t][n] + 1>>
  <1>2. \A u \in Tickets : u # t => MailsOf(u)' = MailsOf(u)
    BY <1>1 DEF MailsOf
  <1>3. MailsOf(t)' = MailsOf(t) \cup {mail}
    <2>1. ASSUME NEW x PROVE x \in MailsOf(t)' <=> x \in MailsOf(t) \/ x = mail
      <3>1. x \in MailsOf(t)' <=> \E m \in Numbers : \E i \in 1 .. copies'[t][m] : x = <<m, i>>
        BY DEF MailsOf
      <3>2. x \in MailsOf(t) <=> \E m \in Numbers : \E i \in 1 .. copies[t][m] : x = <<m, i>>
        BY DEF MailsOf
      <3>3. \A m \in Numbers :
               1 .. copies'[t][m] = 1 .. copies[t][m] \cup (IF m = n THEN {copies[t][n] + 1} ELSE {})
        BY <1>1
      <3>. QED
        BY <3>1, <3>2, <3>3
    <2>. QED
      BY <2>1
  <1>4. mail \notin MailsOf(t)
    <2>1. SUFFICES ASSUME mail \in MailsOf(t) PROVE FALSE
      OBVIOUS
    <2>2. PICK m \in Numbers : \E i \in 1 .. copies[t][m] : mail = <<m, i>>
      BY <2>1 DEF MailsOf
    <2>3. m = n /\ copies[t][n] + 1 \in 1 .. copies[t][n]
      BY <2>2
    <2>. QED
      BY <1>1, <2>3
  <1>5. IsFiniteSet(MailsOf(t)')
        /\ Cardinality(MailsOf(t)') = Cardinality(MailsOf(t)) + 1
    <2>1. IsFiniteSet(MailsOf(t))
      BY DEF MailsFinite
    <2>. HIDE DEF mail
    <2>. QED
      BY <1>3, <1>4, <2>1, FS_AddElement
  <1>6. MailsFinite'
    BY <1>2, <1>5 DEF MailsFinite
  <1>. QED
    BY <1>2, <1>5, <1>6 DEF Copies

\* Where nothing is mailed there are no more mails.
LEMMA NoMoreMail ==
    ASSUME copies' = copies, MailsFinite
    PROVE  MailsFinite' /\ \A t : Copies(t)' = Copies(t)
  BY DEF MailsFinite, Copies, MailsOf

\* Each step of a save leaves its mails in one place: sent and in its hands, then on the
\* ledger or lost.
LEMMA CountSaves ==
    ASSUME CountInv, TypeOK', NEW s \in Savers, Save(s)
    PROVE  NumbersSuffice' /\ MailsFinite' /\ LedgerTellsTheSends'
  <1>0. TypeOK /\ NumbersSuffice /\ MailsFinite /\ LedgerTellsTheSends /\ SavesUnsent
    BY DEF CountInv, MailInv
  <1>1. /\ \A z \in Savers : z # s => saver'[z] = saver[z]
        /\ sweeper' = sweeper
    BY <1>0, SaveMoves
  <1>2. /\ MaxAssignments \in Nat \ {0} /\ Cardinality(Savers) \in Nat
        /\ Numbers = 0 .. MaxAssignments + Cardinality(Savers)
        /\ \A t \in Tickets : /\ ticket[t].last \in Nat /\ lost[t] \in Nat
                              /\ ledger[t].saved \in Nat /\ ledger[t].checkout \in Nat
                              /\ ticket'[t].last \in Nat
                              /\ ledger'[t].saved \in Nat /\ ledger'[t].checkout \in Nat
        /\ \A t : /\ Saved(t) \in Nat /\ Swept(t) \in Nat
                  /\ Cardinality(Writing(t)) \in Nat
                  /\ Cardinality(Writing(t)') <= Cardinality(Savers)
        /\ Rest.pc = Idle
    <2>1. \A t : Cardinality(Writing(t)') <= Cardinality(Savers)
      <3>1. ASSUME NEW t PROVE Writing(t)' \in SUBSET Savers
        BY DEF Writing
      <3>. QED
        BY <3>1, FS_Subset, ActorsAssumption
    <2>2. \A t \in Tickets : /\ ticket'[t].last \in Nat
                             /\ ledger'[t].saved \in Nat /\ ledger'[t].checkout \in Nat
      BY DEF TypeOK, StoreOK, Ticket
    <2>. QED
      BY <1>0, <2>1, <2>2, CountFacts, RestIsAState
  <1>3. ASSUME NEW t
        PROVE  /\ s \notin Saving(t) /\ s \notin Saving(t)' => Saved(t)' = Saved(t)
               /\ s \in Saving(t) /\ s \notin Saving(t)' => Saved(t)' = Saved(t) - 1
               /\ s \notin Saving(t) /\ s \in Saving(t)' => Saved(t)' = Saved(t) + 1
               /\ s \notin Writing(t) /\ s \notin Writing(t)' => Writing(t)' = Writing(t)
               /\ s \in Writing(t) /\ s \notin Writing(t)' =>
                     Cardinality(Writing(t)') = Cardinality(Writing(t)) - 1
    <2>1. Saved(t) = Cardinality(Saving(t)) /\ Saved(t)' = Cardinality(Saving(t)')
      BY DEF Saved, Saving
    <2>. QED
      BY <1>1, <2>1, CallsFinite, SaverSetsMove, OneMoves
  <1>4. /\ \A t : s \in Saving(t) <=> saver[s].pc = "record" /\ saver[s].ticket = t
        /\ \A t : s \in Saving(t)' <=> saver'[s].pc = "record" /\ saver'[s].ticket = t
        /\ \A t : s \in Writing(t) <=> saver[s].pc = "write" /\ saver[s].ticket = t
        /\ \A t : s \in Writing(t)' <=> saver'[s].pc = "write" /\ saver'[s].ticket = t
    BY DEF Saving, Writing
  <1>5. \A t : Swept(t)' = Swept(t)
    BY <1>1 DEF Swept
  \* A step that grants nothing and numbers nothing leaves the bound.
  <1>6. ASSUME Numbered, saver'[s].pc # "write"
        PROVE  NumbersSuffice'
    <2>1. ASSUME NEW t \in Tickets
          PROVE  ticket'[t].last + Cardinality(Writing(t)') <= MaxAssignments + Cardinality(Savers)
      <3>1. Cardinality(Writing(t)') \in Nat /\ Cardinality(Writing(t)') <= Cardinality(Writing(t))
        BY <1>2, <1>3, <1>4, <1>6, CallsFinite, FS_CardinalityType
      <3>2. ticket[t].last + Cardinality(Writing(t)) <= MaxAssignments + Cardinality(Savers)
        BY <1>0 DEF NumbersSuffice
      <3>3. ticket'[t].last = ticket[t].last
        BY <1>6 DEF Numbered
      <3>. QED
        BY <1>2, <3>1, <3>2, <3>3
    <2>. QED
      BY <2>1 DEF NumbersSuffice
  \* A step of a call with no mail in its hands, before or after, leaves the count.
  <1>7. ASSUME UNCHANGED <<ledger, copies, lost>>, saver[s].pc # "record", saver'[s].pc # "record"
        PROVE  MailsFinite' /\ LedgerTellsTheSends'
    <2>1. MailsFinite' /\ \A t : Copies(t)' = Copies(t)
      BY <1>0, <1>7, NoMoreMail
    <2>2. \A t : Saved(t)' = Saved(t)
      BY <1>3, <1>4, <1>7
    <2>. QED
      BY <1>0, <1>5, <1>7, <2>1, <2>2 DEF LedgerTellsTheSends, Sent
  <1>8. ASSUME Leaves(s)
        PROVE  NumbersSuffice' /\ MailsFinite' /\ LedgerTellsTheSends'
    <2>1. /\ saver[s].pc # "record" /\ saver'[s] = Rest /\ Numbered
          /\ UNCHANGED <<ledger, copies, lost>>
      BY <1>8 DEF Leaves
    <2>. QED
      BY <1>2, <1>6, <1>7, <2>1 DEF Idle
  <1>9. ASSUME NEW t \in Tickets, Granting(s, t)
        PROVE  NumbersSuffice' /\ MailsFinite' /\ LedgerTellsTheSends'
    <2>1. /\ saver[s].pc = Idle /\ saver'[s].pc = "write" /\ saver'[s].ticket = t
          /\ ticket[t].last < MaxAssignments /\ Numbered /\ UNCHANGED <<ledger, copies, lost>>
      BY <1>9 DEF Granting
    <2>2. ASSUME NEW u \in Tickets
          PROVE  ticket'[u].last + Cardinality(Writing(u)') <= MaxAssignments + Cardinality(Savers)
      <3>1. ticket'[u].last = ticket[u].last
        BY <2>1 DEF Numbered
      <3>2. CASE u = t
        BY <1>2, <2>1, <3>1, <3>2, CallsFinite, FS_CardinalityType
      <3>3. CASE u # t
        <4>1. Writing(u)' = Writing(u)
          BY <1>3, <1>4, <2>1, <3>3 DEF Idle
        <4>. QED
          BY <1>0, <3>1, <4>1 DEF NumbersSuffice
      <3>. QED
        BY <3>2, <3>3
    <2>. QED
      BY <1>7, <2>1, <2>2 DEF NumbersSuffice, Idle
  <1>10. ASSUME NEW t \in Tickets, Writes(s, t)
         PROVE  NumbersSuffice' /\ MailsFinite' /\ LedgerTellsTheSends'
    <2>1. /\ saver[s].pc = "write" /\ saver[s].ticket = t /\ saver'[s].pc \in {Idle, "mail", "tell"}
          /\ \A u \in Tickets \ {t} : ticket'[u].last = ticket[u].last
          /\ ticket'[t].last \in {ticket[t].last, ticket[t].last + 1}
          /\ UNCHANGED <<ledger, copies, lost>>
      BY <1>10 DEF Writes
    <2>2. ASSUME NEW u \in Tickets
          PROVE  ticket'[u].last + Cardinality(Writing(u)') <= MaxAssignments + Cardinality(Savers)
      <3>1. ticket[u].last + Cardinality(Writing(u)) <= MaxAssignments + Cardinality(Savers)
        BY <1>0 DEF NumbersSuffice
      <3>2. CASE u = t
        <4>1. Cardinality(Writing(t)') = Cardinality(Writing(t)) - 1
          BY <1>3, <1>4, <2>1 DEF Idle
        <4>2. ticket'[t].last \in Nat /\ ticket'[t].last <= ticket[t].last + 1
          <5>1. ticket[t].last \in Nat /\ ticket'[t].last \in Nat
            BY <1>2
          <5>. QED
            BY <2>1, <5>1
        <4>3. /\ ticket[t].last \in Nat /\ Cardinality(Writing(t)) \in Nat
              /\ MaxAssignments + Cardinality(Savers) \in Nat
          BY <1>2
        <4>4. ticket[t].last + Cardinality(Writing(t)) <= MaxAssignments + Cardinality(Savers)
          BY <3>1, <3>2
        <4>5. ticket'[t].last + Cardinality(Writing(t)') <= MaxAssignments + Cardinality(Savers)
          BY <4>1, <4>2, <4>3, <4>4
        <4>. QED
          BY <3>2, <4>5
      <3>3. CASE u # t
        <4>1. Writing(u)' = Writing(u)
          BY <1>3, <1>4, <2>1, <3>3 DEF Idle
        <4>. QED
          BY <2>1, <3>1, <3>3, <4>1
      <3>. QED
        BY <3>2, <3>3
    <2>. QED
      BY <1>7, <2>1, <2>2 DEF NumbersSuffice, Idle
  <1>11. ASSUME NEW t \in Tickets, Mails(s, t)
         PROVE  NumbersSuffice' /\ MailsFinite' /\ LedgerTellsTheSends'
    <2>1. /\ saver[s].pc = "mail" /\ saver[s].ticket = t
          /\ saver'[s].pc = "record" /\ saver'[s].ticket = t
          /\ copies' = [copies EXCEPT ![t][saver[s].at] = @ + 1]
          /\ Numbered /\ UNCHANGED <<ledger, lost>>
      BY <1>11 DEF Mails
    <2>2. PICK n \in Numbers : n = saver[s].at
      <3>1. saver[s].at \in Nat /\ saver[s].at <= ticket[t].last
        BY <1>0, <2>1, MailFacts DEF SavesUnsent, Unsent
      <3>2. ticket[t].last + Cardinality(Writing(t)) <= MaxAssignments + Cardinality(Savers)
        BY <1>0 DEF NumbersSuffice
      <3>. QED
        BY <1>2, <3>1, <3>2
    <2>3. OneMoreCopy(t, n)
      BY <2>1, <2>2 DEF OneMoreCopy
    <2>4. /\ MailsFinite' /\ Copies(t)' = Copies(t) + 1
          /\ \A u \in Tickets : u # t => Copies(u)' = Copies(u)
      BY <1>0, <2>3, OneMoreMail
    <2>5. Saved(t)' = Saved(t) + 1 /\ \A u : u # t => Saved(u)' = Saved(u)
      BY <1>3, <1>4, <2>1
    <2>6. \A u \in Tickets : Sent(u)' = Sent(u) /\ Sent(u) \in Nat /\ lost'[u] = lost[u]
      BY <1>2, <2>1 DEF Sent
    <2>7. ASSUME NEW u \in Tickets
          PROVE  Copies(u)' = Sent(u)' + Saved(u)' + Swept(u)' + lost'[u]
      <3>1. Copies(u) = Sent(u) + Saved(u) + Swept(u) + lost[u]
        BY <1>0 DEF LedgerTellsTheSends
      <3>2. /\ Sent(u) \in Nat /\ Saved(u) \in Nat /\ Swept(u) \in Nat /\ lost[u] \in Nat
            /\ Swept(u)' = Swept(u)
        BY <1>2, <1>5, <2>6
      <3>3. CASE u = t
        BY <2>4, <2>5, <2>6, <3>1, <3>2, <3>3
      <3>4. CASE u # t
        BY <2>4, <2>5, <2>6, <3>1, <3>2, <3>4
      <3>. QED
        BY <3>3, <3>4
    <2>. QED
      BY <1>6, <2>1, <2>4, <2>7 DEF LedgerTellsTheSends
  <1>12. ASSUME NEW t \in Tickets, Ledgers(s, t)
         PROVE  NumbersSuffice' /\ MailsFinite' /\ LedgerTellsTheSends'
    <2>1. /\ saver[s].pc = "record" /\ saver[s].ticket = t /\ saver'[s] = Rest
          /\ ledger' = [ledger EXCEPT ![t].saved = @ + 1]
          /\ Numbered /\ UNCHANGED <<copies, lost>>
      BY <1>12 DEF Ledgers
    <2>2. /\ Sent(t)' = Sent(t) + 1 /\ \A u \in Tickets : u # t => Sent(u)' = Sent(u)
          /\ \A u \in Tickets : Sent(u) \in Nat
      <3>1. ledger \in [Tickets -> [saved: Nat, checkout: Nat]]
        BY <1>0 DEF TypeOK, StoreOK
      <3>2. /\ ledger'[t].saved = ledger[t].saved + 1 /\ ledger'[t].checkout = ledger[t].checkout
            /\ \A u \in Tickets : u # t => ledger'[u] = ledger[u]
        BY <2>1, <3>1
      <3>3. \A u \in Tickets : Sent(u) \in Nat
        BY <1>2 DEF Sent
      <3>4. Sent(t)' = Sent(t) + 1
        <4>1. ledger[t].saved \in Nat /\ ledger[t].checkout \in Nat
          BY <1>2
        <4>. QED
          BY <3>2, <4>1 DEF Sent
      <3>5. \A u \in Tickets : u # t => Sent(u)' = Sent(u)
        BY <3>2 DEF Sent
      <3>. QED
        BY <3>3, <3>4, <3>5
    <2>3. MailsFinite' /\ \A u : Copies(u)' = Copies(u)
      BY <1>0, <2>1, NoMoreMail
    <2>4. Saved(t)' = Saved(t) - 1 /\ \A u : u # t => Saved(u)' = Saved(u)
      BY <1>2, <1>3, <1>4, <2>1 DEF Idle
    <2>5. ASSUME NEW u \in Tickets
          PROVE  Copies(u)' = Sent(u)' + Saved(u)' + Swept(u)' + lost'[u]
      <3>1. Copies(u) = Sent(u) + Saved(u) + Swept(u) + lost[u]
        BY <1>0 DEF LedgerTellsTheSends
      <3>2. /\ Sent(u) \in Nat /\ Saved(u) \in Nat /\ Swept(u) \in Nat /\ lost[u] \in Nat
            /\ Swept(u)' = Swept(u)
        BY <1>2, <1>5, <2>2
      <3>3. CASE u = t
        BY <2>1, <2>2, <2>3, <2>4, <3>1, <3>2, <3>3
      <3>4. CASE u # t
        BY <2>1, <2>2, <2>3, <2>4, <3>1, <3>2, <3>4
      <3>. QED
        BY <3>3, <3>4
    <2>. QED
      BY <1>2, <1>6, <2>1, <2>3, <2>5 DEF Idle, LedgerTellsTheSends
  <1>13. ASSUME NEW t \in Tickets, Loses(s, t)
         PROVE  NumbersSuffice' /\ MailsFinite' /\ LedgerTellsTheSends'
    <2>1. /\ saver[s].pc = "record" /\ saver[s].ticket = t /\ saver'[s] = Rest
          /\ lost' = [lost EXCEPT ![t] = @ + 1]
          /\ Numbered /\ UNCHANGED <<copies, ledger>>
      BY <1>13 DEF Loses
    <2>2. /\ lost'[t] = lost[t] + 1 /\ \A u \in Tickets : u # t => lost'[u] = lost[u]
          /\ \A u \in Tickets : Sent(u)' = Sent(u) /\ Sent(u) \in Nat
      BY <1>0, <1>2, <2>1 DEF TypeOK, HistoryOK, Sent
    <2>3. MailsFinite' /\ \A u : Copies(u)' = Copies(u)
      BY <1>0, <2>1, NoMoreMail
    <2>4. Saved(t)' = Saved(t) - 1 /\ \A u : u # t => Saved(u)' = Saved(u)
      BY <1>2, <1>3, <1>4, <2>1 DEF Idle
    <2>5. ASSUME NEW u \in Tickets
          PROVE  Copies(u)' = Sent(u)' + Saved(u)' + Swept(u)' + lost'[u]
      <3>1. Copies(u) = Sent(u) + Saved(u) + Swept(u) + lost[u]
        BY <1>0 DEF LedgerTellsTheSends
      <3>2. /\ Sent(u) \in Nat /\ Saved(u) \in Nat /\ Swept(u) \in Nat /\ lost[u] \in Nat
            /\ Swept(u)' = Swept(u)
        BY <1>2, <1>5, <2>2
      <3>3. CASE u = t
        BY <2>2, <2>3, <2>4, <3>1, <3>2, <3>3
      <3>4. CASE u # t
        BY <2>2, <2>3, <2>4, <3>1, <3>2, <3>4
      <3>. QED
        BY <3>3, <3>4
    <2>. QED
      BY <1>2, <1>6, <2>1, <2>3, <2>5 DEF Idle, LedgerTellsTheSends
  <1>. QED
    BY <1>0, <1>8, <1>9, <1>10, <1>11, <1>12, <1>13, SaveMoves

\* Where no save moves and nothing is numbered, the numbers still suffice.
LEMMA NumbersStand ==
    ASSUME NumbersSuffice, Numbered, saver' = saver
    PROVE  NumbersSuffice' /\ \A t : Saved(t)' = Saved(t)
  <1>1. \A t : Writing(t)' = Writing(t) /\ Saved(t)' = Saved(t)
    BY DEF Writing, Saved
  <1>. QED
    BY <1>1 DEF NumbersSuffice, Numbered

\* Where nothing is mailed, recorded or lost, and no call gives up a mail, the count stands.
LEMMA CountStands ==
    ASSUME TypeOK, MailsFinite, LedgerTellsTheSends, UNCHANGED <<saver, ledger, copies, lost>>,
           \A t : Sweeping(t)' = Sweeping(t)
    PROVE  MailsFinite' /\ LedgerTellsTheSends'
  <1>1. MailsFinite' /\ \A t : Copies(t)' = Copies(t)
    BY NoMoreMail
  <1>2. ASSUME NEW t PROVE Swept(t)' = Swept(t) /\ Saved(t)' = Saved(t)
    <2>1. Swept(t) = Cardinality(Sweeping(t)) /\ Swept(t)' = Cardinality(Sweeping(t)')
      BY DEF Swept, Sweeping
    <2>. QED
      BY <2>1 DEF Saved
  <1>. QED
    BY <1>1, <1>2 DEF LedgerTellsTheSends, Sent

\* The sweep's mails likewise; the assignment it mails is the checkout's, the first.
LEMMA CountSweeps ==
    ASSUME CountInv, TypeOK', NEW w \in Sweepers, Sweep(w)
    PROVE  NumbersSuffice' /\ MailsFinite' /\ LedgerTellsTheSends'
  <1>0. TypeOK /\ NumbersSuffice /\ MailsFinite /\ LedgerTellsTheSends /\ SweepsAlone
    BY DEF CountInv, MailInv
  <1>1. /\ \A v \in Sweepers : v # w => sweeper'[v] = sweeper[v]
        /\ Numbered /\ saver' = saver
    BY <1>0, SweepMoves
  <1>2. /\ MaxAssignments \in Nat \ {0} /\ Cardinality(Savers) \in Nat
        /\ Numbers = 0 .. MaxAssignments + Cardinality(Savers)
        /\ \A t \in Tickets : /\ lost[t] \in Nat /\ Sent(t) \in Nat
                              /\ ledger[t].saved \in Nat /\ ledger[t].checkout \in Nat
        /\ \A t : Saved(t) \in Nat /\ Swept(t) \in Nat
        /\ Rest.pc = Idle
    BY <1>0, CountFacts, RestIsAState
  <1>3. ASSUME NEW t
        PROVE  /\ w \notin Sweeping(t) /\ w \notin Sweeping(t)' => Sweeping(t)' = Sweeping(t)
               /\ w \in Sweeping(t) /\ w \notin Sweeping(t)' => Swept(t)' = Swept(t) - 1
               /\ w \notin Sweeping(t) /\ w \in Sweeping(t)' => Swept(t)' = Swept(t) + 1
               /\ Sweeping(t)' = Sweeping(t) => Swept(t)' = Swept(t)
    <2>1. Swept(t) = Cardinality(Sweeping(t)) /\ Swept(t)' = Cardinality(Sweeping(t)')
      BY DEF Swept, Sweeping
    <2>. QED
      BY <1>1, <2>1, CallsFinite, SweeperSetsMove, OneMoves
  <1>4. /\ \A t : w \in Sweeping(t) <=> sweeper[w].pc = "record" /\ sweeper[w].ticket = t
        /\ \A t : w \in Sweeping(t)' <=> sweeper'[w].pc = "record" /\ sweeper'[w].ticket = t
    BY DEF Sweeping
  <1>5. NumbersSuffice' /\ \A t : Saved(t)' = Saved(t)
    BY <1>0, <1>1, NumbersStand
  <1>6. ASSUME UNCHANGED <<ledger, copies, lost>>,
               \/ sweeper'[w] = sweeper[w]
               \/ sweeper[w].pc # "record" /\ sweeper'[w].pc # "record"
        PROVE  MailsFinite' /\ LedgerTellsTheSends'
    <2>1. ASSUME NEW t PROVE Sweeping(t)' = Sweeping(t)
      <3>1. CASE sweeper'[w] = sweeper[w]
        BY <1>1, <3>1 DEF Sweeping
      <3>2. CASE sweeper[w].pc # "record" /\ sweeper'[w].pc # "record"
        BY <1>3, <1>4, <3>2
      <3>. QED
        BY <1>6, <3>1, <3>2
    <2>. QED
      BY <1>0, <1>1, <1>6, <2>1, CountStands
  <1>7. ASSUME NEW t \in Tickets, Claims(w, t) \/ Drops(w, t) \/ Quits(w, t)
        PROVE  MailsFinite' /\ LedgerTellsTheSends'
    BY <1>2, <1>6, <1>7 DEF Claims, Drops, Quits, Idle
  <1>8. ASSUME NEW t \in Tickets, Sends(w, t)
        PROVE  MailsFinite' /\ LedgerTellsTheSends'
    <2>1. /\ sweeper[w].pc = "send" /\ sweeper[w].ticket = t
          /\ sweeper'[w].pc = "record" /\ sweeper'[w].ticket = t
          /\ copies' = [copies EXCEPT ![t][sweeper[w].at] = @ + 1]
          /\ UNCHANGED <<ledger, lost>>
      BY <1>8 DEF Sends
    <2>2. sweeper[w].at = 1
      BY <1>0, <2>1, MailFacts DEF SweepsAlone, Idle
    <2>3. 1 \in Numbers /\ OneMoreCopy(t, 1)
      BY <1>2, <2>1, <2>2 DEF OneMoreCopy
    <2>4. /\ MailsFinite' /\ Copies(t)' = Copies(t) + 1
          /\ \A u \in Tickets : u # t => Copies(u)' = Copies(u)
      BY <1>0, <2>3, OneMoreMail
    <2>5. Swept(t)' = Swept(t) + 1 /\ \A u : u # t => Swept(u)' = Swept(u)
      BY <1>3, <1>4, <2>1
    <2>6. \A u \in Tickets : Sent(u)' = Sent(u) /\ lost'[u] = lost[u]
      BY <2>1 DEF Sent
    <2>9. ASSUME NEW u \in Tickets
          PROVE  Copies(u)' = Sent(u)' + Saved(u)' + Swept(u)' + lost'[u]
      <3>1. Copies(u) = Sent(u) + Saved(u) + Swept(u) + lost[u]
        BY <1>0 DEF LedgerTellsTheSends
      <3>2. /\ Sent(u) \in Nat /\ Saved(u) \in Nat /\ Swept(u) \in Nat /\ lost[u] \in Nat
            /\ Saved(u)' = Saved(u)
        BY <1>2, <1>5
      <3>3. CASE u = t
        BY <2>4, <2>5, <2>6, <3>1, <3>2, <3>3
      <3>4. CASE u # t
        BY <2>4, <2>5, <2>6, <3>1, <3>2, <3>4
      <3>. QED
        BY <3>3, <3>4
    <2>. QED
      BY <2>4, <2>9 DEF LedgerTellsTheSends
  <1>9. ASSUME NEW t \in Tickets, sweeper[w].pc = "record", sweeper[w].ticket = t, sweeper'[w] = Rest
        PROVE  Swept(t)' = Swept(t) - 1 /\ \A u : u # t => Swept(u)' = Swept(u)
    BY <1>2, <1>3, <1>4, <1>9 DEF Idle
  <1>10. ASSUME NEW t \in Tickets, Enters(w, t)
         PROVE  MailsFinite' /\ LedgerTellsTheSends'
    <2>1. /\ sweeper[w].pc = "record" /\ sweeper[w].ticket = t /\ sweeper'[w] = Rest
          /\ ledger' = [ledger EXCEPT ![t].checkout = @ + 1]
          /\ UNCHANGED <<copies, lost>>
      BY <1>10 DEF Enters
    <2>2. /\ Sent(t)' = Sent(t) + 1 /\ \A u \in Tickets : u # t => Sent(u)' = Sent(u)
      <3>1. ledger \in [Tickets -> [saved: Nat, checkout: Nat]]
        BY <1>0 DEF TypeOK, StoreOK
      <3>2. /\ ledger'[t].checkout = ledger[t].checkout + 1 /\ ledger'[t].saved = ledger[t].saved
            /\ \A u \in Tickets : u # t => ledger'[u] = ledger[u]
        BY <2>1, <3>1
      <3>3. \A u \in Tickets : Sent(u) \in Nat
        BY <1>2 DEF Sent
      <3>4. Sent(t)' = Sent(t) + 1
        <4>1. ledger[t].saved \in Nat /\ ledger[t].checkout \in Nat
          BY <1>2
        <4>. QED
          BY <3>2, <4>1 DEF Sent
      <3>5. \A u \in Tickets : u # t => Sent(u)' = Sent(u)
        BY <3>2 DEF Sent
      <3>. QED
        BY <3>3, <3>4, <3>5
    <2>3. MailsFinite' /\ \A u : Copies(u)' = Copies(u)
      BY <1>0, <2>1, NoMoreMail
    <2>4. Swept(t)' = Swept(t) - 1 /\ \A u : u # t => Swept(u)' = Swept(u)
      BY <1>9, <2>1
    <2>9. ASSUME NEW u \in Tickets
          PROVE  Copies(u)' = Sent(u)' + Saved(u)' + Swept(u)' + lost'[u]
      <3>1. Copies(u) = Sent(u) + Saved(u) + Swept(u) + lost[u]
        BY <1>0 DEF LedgerTellsTheSends
      <3>2. /\ Sent(u) \in Nat /\ Saved(u) \in Nat /\ Swept(u) \in Nat /\ lost[u] \in Nat
            /\ Saved(u)' = Saved(u)
        BY <1>2, <1>5
      <3>3. CASE u = t
        BY <2>1, <2>2, <2>3, <2>4, <3>1, <3>2, <3>3
      <3>4. CASE u # t
        BY <2>1, <2>2, <2>3, <2>4, <3>1, <3>2, <3>4
      <3>. QED
        BY <3>3, <3>4
    <2>. QED
      BY <2>3, <2>9 DEF LedgerTellsTheSends
  <1>11. ASSUME NEW t \in Tickets, Fails(w, t)
         PROVE  MailsFinite' /\ LedgerTellsTheSends'
    <2>1. /\ sweeper[w].pc = "record" /\ sweeper[w].ticket = t /\ sweeper'[w] = Rest
          /\ lost' = [lost EXCEPT ![t] = @ + 1]
          /\ UNCHANGED <<ledger, copies>>
      BY <1>11 DEF Fails
    <2>2. /\ lost'[t] = lost[t] + 1 /\ \A u \in Tickets : u # t => lost'[u] = lost[u]
          /\ \A u \in Tickets : Sent(u)' = Sent(u)
      BY <1>0, <2>1 DEF TypeOK, HistoryOK, Sent
    <2>3. MailsFinite' /\ \A u : Copies(u)' = Copies(u)
      BY <1>0, <2>1, NoMoreMail
    <2>4. Swept(t)' = Swept(t) - 1 /\ \A u : u # t => Swept(u)' = Swept(u)
      BY <1>9, <2>1
    <2>9. ASSUME NEW u \in Tickets
          PROVE  Copies(u)' = Sent(u)' + Saved(u)' + Swept(u)' + lost'[u]
      <3>1. Copies(u) = Sent(u) + Saved(u) + Swept(u) + lost[u]
        BY <1>0 DEF LedgerTellsTheSends
      <3>2. /\ Sent(u) \in Nat /\ Saved(u) \in Nat /\ Swept(u) \in Nat /\ lost[u] \in Nat
            /\ Saved(u)' = Saved(u)
        BY <1>2, <1>5
      <3>3. CASE u = t
        BY <2>2, <2>3, <2>4, <3>1, <3>2, <3>3
      <3>4. CASE u # t
        BY <2>2, <2>3, <2>4, <3>1, <3>2, <3>4
      <3>. QED
        BY <3>3, <3>4
    <2>. QED
      BY <2>3, <2>9 DEF LedgerTellsTheSends
  <1>. QED
    BY <1>0, <1>5, <1>7, <1>8, <1>10, <1>11, SweepMoves

LEMMA CountStep ==
    ASSUME CountInv, [Next]_vars
    PROVE  CountInv'
  <1>0. /\ TypeOK /\ TypeOK' /\ MailInv'
        /\ NumbersSuffice /\ MailsFinite /\ LedgerTellsTheSends
    BY TypeKept, MailStep DEF CountInv, MailInv
  <1>1. ASSUME NEW s \in Savers, Save(s)
        PROVE  NumbersSuffice' /\ MailsFinite' /\ LedgerTellsTheSends'
    BY <1>0, <1>1, CountSaves
  <1>2. ASSUME NEW w \in Sweepers, Sweep(w)
        PROVE  NumbersSuffice' /\ MailsFinite' /\ LedgerTellsTheSends'
    BY <1>0, <1>2, CountSweeps
  <1>3. ASSUME Numbered, UNCHANGED <<saver, sweeper, ledger, copies, lost>>
        PROVE  NumbersSuffice' /\ MailsFinite' /\ LedgerTellsTheSends'
    <2>1. \A t : Sweeping(t)' = Sweeping(t)
      BY <1>3 DEF Sweeping
    <2>. QED
      BY <1>0, <1>3, <2>1, NumbersStand, CountStands
  <1>4. ASSUME NEW t \in Tickets, LeaseLapses(t)
        PROVE  NumbersSuffice' /\ MailsFinite' /\ LedgerTellsTheSends'
    BY <1>0, <1>3, <1>4, LapseMoves
  <1>5. ASSUME ~\E s \in Savers : Save(s), ~\E w \in Sweepers : Sweep(w),
               ~\E t \in Tickets : LeaseLapses(t)
        PROVE  NumbersSuffice' /\ MailsFinite' /\ LedgerTellsTheSends'
    BY <1>0, <1>3, <1>5, ElseQuiet DEF Quiet
  <1>. QED
    BY <1>0, <1>1, <1>2, <1>4, <1>5 DEF CountInv

\* The count the ration is judged on loses no mail: each one sent is on the ledger, in the
\* hands of the save or sweep that sent it, or lost with it (the append comes after the send,
\* in RecordAssignmentMailSent as in RecordOwedAssignmentMailSent).
THEOREM LedgerTells == Spec => []LedgerTellsTheSends
  <1>1. Spec => []CountInv
    BY CountInit, CountStep, PTL DEF Spec
  <1>2. CountInv => LedgerTellsTheSends
    BY DEF CountInv
  <1>. QED
    BY <1>1, <1>2, PTL

\* Of the mails about a ticket that two saves did not race for, all but its allowance are
\* the sweep's or lost their ledger row, for any allowance and any number of saves and
\* sweeps: MayMailAssignment, on a count read before the write, grants nothing beyond it.
THEOREM RationBinds == Spec => []RationHoldsWithoutARace
  <1>1. Spec => []RationInv
    BY RationInit, RationStep, PTL DEF Spec
  <1>2. Spec => []CountInv
    BY CountInit, CountStep, PTL DEF Spec
  <1>3. ASSUME RationInv, CountInv PROVE RationHoldsWithoutARace
    <2>. SUFFICES ASSUME NEW t \in Tickets, t \notin raced
                  PROVE  Copies(t) <= PerTicket + lost[t] + ledger[t].checkout + Swept(t)
      BY DEF RationHoldsWithoutARace
    <2>1. Copies(t) = ledger[t].saved + ledger[t].checkout + Saved(t) + Swept(t) + lost[t]
      BY <1>3 DEF CountInv, LedgerTellsTheSends, Sent
    <2>2. ledger[t].saved + Saved(t) <= PerTicket
      BY <1>3 DEF RationInv, SavedWithinRation
    <2>3. /\ ledger[t].saved \in Nat /\ ledger[t].checkout \in Nat /\ lost[t] \in Nat
          /\ Saved(t) \in Nat /\ Swept(t) \in Nat
      BY <1>3, CountFacts DEF RationInv
    <2>. QED
      BY <2>1, <2>2, <2>3, NumberAssumption
  <1>4. RationInv /\ CountInv => RationHoldsWithoutARace
    BY <1>3
  <1>. QED
    BY <1>1, <1>2, <1>4, PTL
=============================================================================
