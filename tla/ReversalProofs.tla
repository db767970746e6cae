--------------------------- MODULE ReversalProofs ---------------------------
(***************************************************************************)
(* Proofs about Reversal for every value of its constants: whoever works   *)
(* on a sale holds its lock, and what the lock protects is therefore still *)
(* true when it is used.                                                    *)
(***************************************************************************)
EXTENDS Reversal, TLAPS

-----------------------------------------------------------------------------
(* The inductive invariant.                                                 *)

\* The places in an actor's program where it holds the lock of its sale.
Locked == {"deciding", "creating", "reading", "asking", "answered", "committing",
           "retrying", "marking", "unlocking", "voiding"}

\* The places where it has an ask in hand.
Pursuing == {"locking", "aging", "reading", "asking", "answered", "retrying",
             "marking", "releasing"}

\* What an actor has in hand fits the place it is at.
InPlace(a) ==
  /\ ~At(a, "idle") => MySale(a) \in Sales
  /\ actor[a].pc \in Pursuing \/ actor[a].agreed \/ actor[a].skipped => MyAsk(a) \in Asks
  /\ At(a, "deciding") \/ At(a, "creating") => MyAsk(a) = 0
  /\ At(a, "locking") \/ At(a, "aging") => actor[a].claimed \in Unfinished
  /\ actor[a].pc \in Locked => lock[MySale(a)] = a

\* What an actor has read, or been told, under the lock is still true.
StillTrue(a) ==
  LET s == MySale(a) n == MyAsk(a) IN
  /\ At(a, "creating") => sale[s] = "active" /\ s \notin free /\ LiveAsks(s) = {}
  /\ At(a, "asking") \/ At(a, "answered") =>
       /\ sale[s] = "active" /\ s \notin free
       /\ request[s][n].status \in {"in_flight", "needs_attention"}
  /\ At(a, "answered") /\ actor[a].answer = "success" => s \in refunded
  /\ At(a, "answered") /\ actor[a].answer = "refused" => s \notin refunded
  /\ At(a, "committing") => IF n = 0 THEN s \in free ELSE s \in refunded
  /\ At(a, "marking") => sale[s] # "active"

\* What the rows of one sale say of each other and of its money.
RowsAgree(s) ==
  /\ \A n \in Asks :
       /\ request[s][n].status # "none" => s \notin free
       /\ request[s][n].voided => sale[s] # "active"
       /\ request[s][n].status = "succeeded" => s \in refunded
  /\ s \in refunded /\ sale[s] = "active" =>
       \E n \in Asks : \/ request[s][n].status \in {"in_flight", "needs_attention"}
                       \/ request[s][n].status = "succeeded" /\ ~request[s][n].voided
  /\ s \notin free /\ sale[s] = "customer" => s \in refunded

IInv ==
  /\ TypeOK
  /\ \A a \in Actors : InPlace(a) /\ StillTrue(a)
  /\ \A s \in Sales : RowsAgree(s)

-----------------------------------------------------------------------------
(* What a step may write.                                                   *)

\* An actor's state is replaced as a whole, and nobody else's with it.
LEMMA ActorMoves ==
  ASSUME TypeOK, NEW a \in Actors, NEW row \in ActorStates,
         actor' = [actor EXCEPT ![a] = row]
  PROVE  /\ actor' \in [Actors -> ActorStates] /\ actor'[a] = row
         /\ \A b \in Actors \ {a} : actor'[b] = actor[b]
BY DEF TypeOK

LEMMA ActorTyped ==
  ASSUME TypeOK, NEW a \in Actors
  PROVE  /\ actor[a] \in ActorStates
         /\ actor[a].pc \in Pcs /\ actor[a].sale \in Sales \cup {NoOne}
         /\ actor[a].ask \in 0..MaxAsks /\ actor[a].claimed \in Statuses
         /\ actor[a].answer \in Answers
         /\ actor[a].agreed \in BOOLEAN /\ actor[a].skipped \in BOOLEAN
BY DEF TypeOK, ActorStates

\* An actor goes on to the next place of its program with what it has in hand.
LEMMA NowMoves ==
  ASSUME TypeOK, NEW a \in Actors, NEW pc \in Pcs, Now(a, pc)
  PROVE  /\ actor' \in [Actors -> ActorStates]
         /\ actor'[a] = [actor[a] EXCEPT !.pc = pc]
         /\ actor'[a].pc = pc /\ actor'[a].sale = actor[a].sale
         /\ actor'[a].ask = actor[a].ask /\ actor'[a].claimed = actor[a].claimed
         /\ actor'[a].answer = actor[a].answer
         /\ actor'[a].agreed = actor[a].agreed /\ actor'[a].skipped = actor[a].skipped
         /\ \A b \in Actors \ {a} : actor'[b] = actor[b]
<1> DEFINE row == [actor[a] EXCEPT !.pc = pc]
<1>1. actor[a] \in ActorStates
  BY ActorTyped
<1>2. row \in ActorStates
  BY <1>1 DEF ActorStates
<1>3. actor' = [actor EXCEPT ![a] = row]
  BY DEF Now
<1>4. /\ actor' \in [Actors -> ActorStates] /\ actor'[a] = row
      /\ \A b \in Actors \ {a} : actor'[b] = actor[b]
  <2> HIDE DEF row
  <2> QED
    BY <1>2, <1>3, ActorMoves
<1> QED
  BY <1>1, <1>4 DEF ActorStates

LEMMA SkipMoves ==
  ASSUME TypeOK, NEW a \in Actors, NEW pc \in Pcs, Skip(a, pc)
  PROVE  /\ actor' \in [Actors -> ActorStates]
         /\ actor'[a].pc = pc /\ actor'[a].sale = actor[a].sale
         /\ actor'[a].ask = actor[a].ask /\ actor'[a].claimed = actor[a].claimed
         /\ actor'[a].answer = actor[a].answer
         /\ actor'[a].agreed = actor[a].agreed /\ actor'[a].skipped = TRUE
         /\ \A b \in Actors \ {a} : actor'[b] = actor[b]
<1> DEFINE row == [actor[a] EXCEPT !.pc = pc, !.skipped = TRUE]
<1>1. actor[a] \in ActorStates
  BY ActorTyped
<1>2. row \in ActorStates
  BY <1>1 DEF ActorStates
<1>3. actor' = [actor EXCEPT ![a] = row]
  BY DEF Skip
<1>4. /\ actor' \in [Actors -> ActorStates] /\ actor'[a] = row
      /\ \A b \in Actors \ {a} : actor'[b] = actor[b]
  <2> HIDE DEF row
  <2> QED
    BY <1>2, <1>3, ActorMoves
<1> QED
  BY <1>1, <1>4 DEF ActorStates

\* A request, a page load or a run is over.
LEMMA IdleMoves ==
  ASSUME TypeOK, NEW a \in Actors, actor' = [actor EXCEPT ![a] = Idle]
  PROVE  /\ actor' \in [Actors -> ActorStates] /\ actor'[a] = Idle
         /\ \A b \in Actors \ {a} : actor'[b] = actor[b]
<1>1. Idle \in ActorStates
  BY ReversalAssumption DEF Idle, ActorStates, Pcs, Statuses, Answers
<1> QED
  BY <1>1, ActorMoves

\* It begins, with a sale in hand and perhaps an ask.
LEMMA BeginMoves ==
  ASSUME TypeOK, NEW a \in Actors, NEW s \in Sales, NEW n \in 0..MaxAsks,
         NEW pc \in Pcs, NEW claimed \in Statuses,
         actor' = [actor EXCEPT ![a] = [Idle EXCEPT !.pc = pc, !.sale = s,
                                                    !.ask = n, !.claimed = claimed]]
  PROVE  /\ actor' \in [Actors -> ActorStates]
         /\ actor'[a].pc = pc /\ actor'[a].sale = s /\ actor'[a].ask = n
         /\ actor'[a].claimed = claimed
         /\ actor'[a].agreed = FALSE /\ actor'[a].skipped = FALSE
         /\ \A b \in Actors \ {a} : actor'[b] = actor[b]
<1> DEFINE row == [Idle EXCEPT !.pc = pc, !.sale = s, !.ask = n, !.claimed = claimed]
<1>1. row \in ActorStates
  BY DEF Idle, ActorStates, Answers
<1>2. actor' = [actor EXCEPT ![a] = row]
  OBVIOUS
<1>3. /\ actor' \in [Actors -> ActorStates] /\ actor'[a] = row
      /\ \A b \in Actors \ {a} : actor'[b] = actor[b]
  <2> HIDE DEF row
  <2> QED
    BY <1>1, <1>2, ActorMoves
<1> QED
  BY <1>3 DEF Idle

LEMMA TakeUpMoves ==
  ASSUME TypeOK, NEW a \in Actors, NEW s \in Sales, NEW pc \in Pcs,
         actor' = [actor EXCEPT ![a] = [Idle EXCEPT !.pc = pc, !.sale = s]]
  PROVE  /\ actor' \in [Actors -> ActorStates]
         /\ actor'[a].pc = pc /\ actor'[a].sale = s /\ actor'[a].ask = 0
         /\ actor'[a].agreed = FALSE /\ actor'[a].skipped = FALSE
         /\ \A b \in Actors \ {a} : actor'[b] = actor[b]
<1> DEFINE row == [Idle EXCEPT !.pc = pc, !.sale = s]
<1>1. row \in ActorStates
  <2>1. 0 \in 0..MaxAsks /\ "none" \in Statuses /\ "none" \in Answers
    BY ReversalAssumption DEF Answers, Statuses
  <2> QED
    BY <2>1 DEF Idle, ActorStates
<1>2. actor' = [actor EXCEPT ![a] = row]
  OBVIOUS
<1>3. /\ actor' \in [Actors -> ActorStates] /\ actor'[a] = row
      /\ \A b \in Actors \ {a} : actor'[b] = actor[b]
  <2> HIDE DEF row
  <2> QED
    BY <1>1, <1>2, ActorMoves
<1> QED
  BY <1>3 DEF Idle

\* One row of sale_reversals is rewritten, and no other.
LEMMA RowWritten ==
  ASSUME TypeOK, NEW s \in Sales, NEW n \in Asks, NEW row \in RequestRows,
         request' = [request EXCEPT ![s][n] = row]
  PROVE  /\ request' \in [Sales -> [Asks -> RequestRows]]
         /\ request'[s][n] = row
         /\ \A m \in Asks \ {n} : request'[s][m] = request[s][m]
         /\ \A r \in Sales \ {s} : request'[r] = request[r]
<1>1. request \in [Sales -> [Asks -> RequestRows]]
  BY DEF TypeOK
<1>2. request' = [request EXCEPT ![s] = [request[s] EXCEPT ![n] = row]]
  BY <1>1
<1>3. [request[s] EXCEPT ![n] = row] \in [Asks -> RequestRows]
  BY <1>1
<1> QED
  BY <1>1, <1>2, <1>3

LEMMA RowTyped ==
  ASSUME TypeOK, NEW s \in Sales, NEW n \in Asks
  PROVE  /\ request[s][n] \in RequestRows
         /\ request[s][n].status \in Statuses /\ request[s][n].age \in 0..GiveUpAfter
         /\ request[s][n].wait \in Nat /\ request[s][n].voided \in BOOLEAN
<1>1. request[s][n] \in RequestRows
  BY DEF TypeOK
<1> QED
  BY <1>1 DEF RequestRows

LEMMA RecordAttemptWrites ==
  ASSUME TypeOK, NEW s \in Sales, NEW n \in Asks, NEW from, NEW to \in Statuses,
         NEW wait \in Nat, RecordAttempt(s, n, from, to, wait)
  PROVE  /\ request' \in [Sales -> [Asks -> RequestRows]]
         /\ request[s][n].status = from /\ request'[s][n].status = to
         /\ request'[s][n].voided = request[s][n].voided
         /\ \A m \in Asks \ {n} : request'[s][m] = request[s][m]
         /\ \A r \in Sales \ {s} : request'[r] = request[r]
<1> DEFINE row == [request[s][n] EXCEPT !.status = to, !.wait = wait, !.lease = NoOne]
<1>1. request[s][n] \in RequestRows
  BY RowTyped
<1>2. row \in RequestRows
  BY <1>1 DEF RequestRows
<1>3. request' = [request EXCEPT ![s][n] = row]
  BY DEF RecordAttempt
<1>4. /\ request' \in [Sales -> [Asks -> RequestRows]]
      /\ request'[s][n] = row
      /\ \A m \in Asks \ {n} : request'[s][m] = request[s][m]
      /\ \A r \in Sales \ {s} : request'[r] = request[r]
  <2> HIDE DEF row
  <2> QED
    BY <1>2, <1>3, RowWritten
<1> QED
  BY <1>1, <1>4 DEF RecordAttempt, RequestRows

\* An unfinished request is handed to an operator.
LEMMA HandsOver ==
  ASSUME TypeOK, NEW s \in Sales, NEW n \in Asks, NEW from \in Unfinished,
         RecordAttempt(s, n, from, "needs_attention", 0)
  PROVE  /\ request' \in [Sales -> [Asks -> RequestRows]]
         /\ \A r \in Sales, m \in Asks :
              /\ \/ request'[r][m].status = request[r][m].status
                 \/ /\ request[r][m].status \in Unfinished
                    /\ request'[r][m].status = "needs_attention"
              /\ request'[r][m].voided = request[r][m].voided
<1>1. PICK to \in Statuses : to = "needs_attention"
  BY DEF Statuses, LiveStatuses
<1>2. PICK wait \in Nat : wait = 0
  OBVIOUS
<1>3. RecordAttempt(s, n, from, to, wait)
  BY <1>1, <1>2
<1>4. /\ request' \in [Sales -> [Asks -> RequestRows]]
      /\ request[s][n].status = from /\ request'[s][n].status = to
      /\ request'[s][n].voided = request[s][n].voided
      /\ \A m \in Asks \ {n} : request'[s][m] = request[s][m]
      /\ \A r \in Sales \ {s} : request'[r] = request[r]
  BY <1>3, RecordAttemptWrites
<1> QED
  BY <1>1, <1>4

-----------------------------------------------------------------------------
(* What a step leaves alone.                                                *)

\* Somebody else's step keeps what an actor counts on, if it leaves the lock of
\* that actor, and under it only hands a request over.
LEMMA OthersKeep ==
  ASSUME IInv, NEW b \in Actors, free' = free, actor'[b] = actor[b],
         \A r \in Sales : lock[r] = b =>
           /\ lock'[r] = b /\ sale'[r] = sale[r] /\ (r \in refunded' <=> r \in refunded)
           /\ \A n \in Asks : \/ request'[r][n].status = request[r][n].status
                              \/ /\ request[r][n].status \in Unfinished
                                 /\ request'[r][n].status = "needs_attention"
  PROVE  InPlace(b)' /\ StillTrue(b)'
<1>1. InPlace(b) /\ StillTrue(b)
  BY DEF IInv
<1>2. InPlace(b)'
  BY <1>1 DEF InPlace, At, MySale, MyAsk, Locked
<1>3. StillTrue(b)'
  <2>1. CASE actor[b].pc \notin Locked
    BY <2>1 DEF StillTrue, At, Locked
  <2>2. CASE actor[b].pc \in Locked
    <3>0. PICK r \in Sales : r = MySale(b)
      BY <1>1, <2>2 DEF InPlace, At, Locked
    <3>1. lock[r] = b /\ MySale(b) = r /\ MySale(b)' = r /\ MyAsk(b)' = MyAsk(b)
      BY <1>1, <2>2, <3>0 DEF InPlace, At, MySale, MyAsk, Locked
    <3>2. /\ sale'[r] = sale[r] /\ (r \in refunded' <=> r \in refunded)
          /\ \A n \in Asks : \/ request'[r][n].status = request[r][n].status
                             \/ /\ request[r][n].status \in Unfinished
                                /\ request'[r][n].status = "needs_attention"
      BY <3>1
    <3>3. LiveAsks(r) = {} => LiveAsks(r)' = {}
      <4>1. \A n \in Asks : request[r][n].status \notin LiveStatuses =>
                             request'[r][n].status \notin LiveStatuses
        BY <3>2 DEF LiveStatuses
      <4> QED
        BY <4>1 DEF LiveAsks
    <3>4. At(b, "asking") \/ At(b, "answered") =>
            request'[r][MyAsk(b)].status \in {"in_flight", "needs_attention"}
      BY <1>1, <3>1, <3>2 DEF StillTrue, InPlace, Pursuing, At, Unfinished
    <3> QED
      BY <1>1, <3>1, <3>2, <3>3, <3>4 DEF StillTrue, At
  <2> QED
    BY <2>1, <2>2
<1> QED
  BY <1>2, <1>3

LEMMA RowsKept ==
  ASSUME NEW r \in Sales, RowsAgree(r), free' = free, sale'[r] = sale[r],
         request'[r] = request[r], r \in refunded' <=> r \in refunded
  PROVE  RowsAgree(r)'
BY DEF RowsAgree

\* The step of an actor that has, or takes, the lock of the one sale it touches.
LEMMA UnderItsLock ==
  ASSUME IInv, NEW a \in Actors, NEW s \in Sales, lock[s] \in {a, NoOne},
         TypeOK', free' = free,
         \A b \in Actors \ {a} : actor'[b] = actor[b],
         \A r \in Sales \ {s} : /\ sale'[r] = sale[r] /\ request'[r] = request[r]
                                /\ lock'[r] = lock[r]
                                /\ (r \in refunded' <=> r \in refunded),
         InPlace(a)', StillTrue(a)', RowsAgree(s)'
  PROVE  IInv'
<1>1. \A b \in Actors \ {a} : InPlace(b)' /\ StillTrue(b)'
  <2> TAKE b \in Actors \ {a}
  <2>1. \A r \in Sales : lock[r] = b => r # s
    BY ReversalAssumption
  <2> QED
    BY <2>1, OthersKeep
<1>2. \A r \in Sales \ {s} : RowsAgree(r)'
  BY RowsKept DEF IInv
<1> QED
  BY <1>1, <1>2 DEF IInv

\* The step of an actor that writes nothing but its own place.
LEMMA OnlyItself ==
  ASSUME IInv, NEW a \in Actors, UNCHANGED <<sale, terms, request, lock, refunded>>,
         actor' \in [Actors -> ActorStates],
         \A b \in Actors \ {a} : actor'[b] = actor[b],
         InPlace(a)', StillTrue(a)'
  PROVE  IInv'
<1>1. TypeOK'
  BY DEF IInv, TypeOK, terms
<1>2. \A b \in Actors \ {a} : InPlace(b)' /\ StillTrue(b)'
  BY OthersKeep DEF terms
<1>3. \A r \in Sales : RowsAgree(r)'
  BY RowsKept DEF IInv, terms
<1> QED
  BY <1>1, <1>2, <1>3 DEF IInv

-----------------------------------------------------------------------------
(* The steps.                                                               *)

\* A press takes the lock.
LEMMA PressStep ==
  ASSUME IInv, NEW a \in Actors, NEW s \in Sales, Press(a, s)
  PROVE  IInv'
<1>1. /\ actor' \in [Actors -> ActorStates] /\ actor'[a].pc = "deciding"
      /\ actor'[a].sale = s /\ actor'[a].ask = 0
      /\ actor'[a].agreed = FALSE /\ actor'[a].skipped = FALSE
      /\ \A b \in Actors \ {a} : actor'[b] = actor[b]
  <2>1. "deciding" \in Pcs
    BY DEF Pcs
  <2> QED
    BY <2>1, TakeUpMoves DEF Press, IInv
<1>2. TypeOK' /\ RowsAgree(s)'
  BY <1>1 DEF IInv, TypeOK, RowsAgree, Press, terms
<1>3. InPlace(a)' /\ StillTrue(a)'
  <2>1. lock'[s] = a
    BY DEF IInv, TypeOK, Press
  <2> QED
    BY <1>1, <2>1 DEF InPlace, StillTrue, At, MySale, MyAsk, Pursuing
<1> QED
  BY <1>1, <1>2, <1>3, UnderItsLock DEF Press, terms, IInv, TypeOK

\* What a press decides stands on the lock: no live request, an active sale.
LEMMA DecideStep ==
  ASSUME IInv, NEW a \in Actors, Decide(a)
  PROVE  IInv'
<1>1. InPlace(a) /\ At(a, "deciding")
  BY DEF IInv, Decide
<1>2. PICK s \in Sales : s = MySale(a)
  BY <1>1 DEF InPlace, At
<1>3. lock[s] = a /\ MyAsk(a) = 0
  BY <1>1, <1>2 DEF InPlace, At, Locked
<1>4. PICK pc \in {"unlocking", "committing", "creating"} :
        /\ Now(a, pc)
        /\ pc = "committing" => s \in free
        /\ pc = "creating" => LiveAsks(s) = {} /\ sale[s] = "active" /\ s \notin free
  BY <1>2 DEF Decide
<1>5. /\ actor' \in [Actors -> ActorStates]
      /\ actor'[a].pc = pc /\ actor'[a].sale = s /\ actor'[a].ask = 0
      /\ actor'[a].agreed = actor[a].agreed /\ actor'[a].skipped = actor[a].skipped
      /\ \A b \in Actors \ {a} : actor'[b] = actor[b]
  <2>1. pc \in Pcs
    BY DEF Pcs
  <2> QED
    BY <1>2, <1>3, <1>4, <2>1, NowMoves DEF IInv, MySale, MyAsk
<1>6. InPlace(a)'
  BY <1>1, <1>3, <1>5 DEF Decide, terms, InPlace, At, MySale, MyAsk, Pursuing
<1>7. StillTrue(a)'
  <2>1. LiveAsks(s) = {} => LiveAsks(s)' = {}
    BY DEF Decide, LiveAsks
  <2> QED
    BY <1>4, <1>5, <2>1 DEF Decide, terms, StillTrue, At, MySale, MyAsk
<1> QED
  BY <1>5, <1>6, <1>7, OnlyItself DEF Decide

\* The ask is written while the sale is active and no other request lives.
LEMMA CreateStep ==
  ASSUME IInv, NEW a \in Actors, CreateReversalRequest(a)
  PROVE  IInv'
<1>1. InPlace(a) /\ StillTrue(a) /\ At(a, "creating")
  BY DEF IInv, CreateReversalRequest
<1>2. PICK s \in Sales : s = MySale(a)
  BY <1>1 DEF InPlace, At
<1>3. /\ lock[s] = a /\ sale[s] = "active" /\ s \notin free /\ RowsAgree(s)
  BY <1>1, <1>2 DEF InPlace, StillTrue, At, Locked, IInv
<1>4. CASE Now(a, "unlocking") /\ UNCHANGED request
  <2>1. /\ actor' \in [Actors -> ActorStates]
        /\ actor'[a].pc = "unlocking" /\ actor'[a].sale = s /\ actor'[a].ask = actor[a].ask
        /\ actor'[a].agreed = actor[a].agreed /\ actor'[a].skipped = actor[a].skipped
        /\ \A b \in Actors \ {a} : actor'[b] = actor[b]
    <3>1. "unlocking" \in Pcs
      BY DEF Pcs
    <3> QED
      BY <1>2, <1>4, <3>1, NowMoves DEF IInv, MySale, MyAsk
  <2>2. InPlace(a)' /\ StillTrue(a)'
    BY <1>1, <1>3, <2>1 DEF CreateReversalRequest, InPlace, StillTrue, At, MySale, MyAsk, Pursuing
  <2> QED
    BY <1>4, <2>1, <2>2, OnlyItself DEF CreateReversalRequest
<1>5. CASE \E n \in Asks :
             /\ request[s][n].status = "none"
             /\ request' = [request EXCEPT ![s][n].status = "in_flight"]
             /\ actor' = [actor EXCEPT ![a].pc = "asking", ![a].ask = n]
  <2>1. PICK n \in Asks :
             /\ request[s][n].status = "none"
             /\ request' = [request EXCEPT ![s][n].status = "in_flight"]
             /\ actor' = [actor EXCEPT ![a].pc = "asking", ![a].ask = n]
    BY <1>5
  <2>2. /\ request' \in [Sales -> [Asks -> RequestRows]]
        /\ request'[s][n].status = "in_flight"
        /\ request'[s][n].voided = request[s][n].voided
        /\ \A m \in Asks \ {n} : request'[s][m] = request[s][m]
        /\ \A r \in Sales \ {s} : request'[r] = request[r]
    <3> DEFINE row == [request[s][n] EXCEPT !.status = "in_flight"]
    <3>1. request[s][n] \in RequestRows
      BY RowTyped DEF IInv
    <3>2. row \in RequestRows /\ row.status = "in_flight" /\ row.voided = request[s][n].voided
      BY <3>1 DEF RequestRows, Statuses, LiveStatuses, Unfinished
    <3>3. request' = [request EXCEPT ![s][n] = row]
      BY <2>1
    <3> HIDE DEF row
    <3>4. TypeOK
      BY DEF IInv
    <3>5. /\ request' \in [Sales -> [Asks -> RequestRows]] /\ request'[s][n] = row
          /\ \A m \in Asks \ {n} : request'[s][m] = request[s][m]
          /\ \A r \in Sales \ {s} : request'[r] = request[r]
      BY <3>2, <3>3, <3>4, RowWritten
    <3> QED
      BY <3>2, <3>5
  <2>3. /\ actor' \in [Actors -> ActorStates]
        /\ actor'[a].pc = "asking" /\ actor'[a].sale = s /\ actor'[a].ask = n
        /\ \A b \in Actors \ {a} : actor'[b] = actor[b]
    <3> DEFINE row == [actor[a] EXCEPT !.pc = "asking", !.ask = n]
    <3>1. actor[a] \in ActorStates
      BY ActorTyped DEF IInv
    <3>2. row \in ActorStates /\ row.pc = "asking" /\ row.sale = s /\ row.ask = n
      <4>1. n \in 0..MaxAsks /\ "asking" \in Pcs
        BY ReversalAssumption DEF Asks, Pcs
      <4> QED
        BY <3>1, <4>1, <1>2 DEF ActorStates, MySale
    <3>3. actor' = [actor EXCEPT ![a] = row]
      BY <2>1
    <3> HIDE DEF row
    <3> QED
      BY <3>2, <3>3, ActorMoves DEF IInv
  <2>4. InPlace(a)' /\ StillTrue(a)'
    BY <1>3, <2>2, <2>3 DEF CreateReversalRequest, terms, InPlace, StillTrue, At, MySale, MyAsk
  <2>5. RowsAgree(s)'
    <3>1. UNCHANGED <<sale, free, refunded>> /\ RowsAgree(s) /\ s \notin free
      BY <1>3 DEF CreateReversalRequest, terms, IInv
    <3>2. ASSUME NEW m \in Asks
          PROVE  /\ request'[s][m].voided = request[s][m].voided
                 /\ \/ request'[s][m].status = request[s][m].status
                    \/ m = n /\ request'[s][m].status = "in_flight"
      BY <2>2
    <3>3. /\ \A m \in Asks :
                /\ request'[s][m].status # "none" => s \notin free'
                /\ request'[s][m].voided => sale'[s] # "active"
                /\ request'[s][m].status = "succeeded" => s \in refunded'
      BY <3>1, <3>2 DEF RowsAgree
    <3>4. s \in refunded' /\ sale'[s] = "active" =>
            \E m \in Asks : \/ request'[s][m].status \in {"in_flight", "needs_attention"}
                            \/ request'[s][m].status = "succeeded" /\ ~request'[s][m].voided
      BY <2>2
    <3> QED
      BY <3>1, <3>3, <3>4 DEF RowsAgree
  <2> QED
    BY <1>3, <2>2, <2>3, <2>4, <2>5, UnderItsLock DEF CreateReversalRequest, terms, IInv, TypeOK
<1> QED
  BY <1>2, <1>4, <1>5 DEF CreateReversalRequest

\* The provider answers the one caller of this sale; a refusal means the money
\* has not moved.
LEMMA ReverseStep ==
  ASSUME IInv, NEW a \in Actors, Reverse(a)
  PROVE  IInv'
<1>1. InPlace(a) /\ StillTrue(a) /\ At(a, "asking")
  BY DEF IInv, Reverse
<1>2. PICK s \in Sales : s = MySale(a)
  BY <1>1 DEF InPlace, At
<1>3. PICK n \in Asks : n = MyAsk(a)
  BY <1>1 DEF InPlace, At, Pursuing
<1>4. /\ lock[s] = a /\ sale[s] = "active" /\ s \notin free /\ RowsAgree(s)
      /\ request[s][n].status \in {"in_flight", "needs_attention"}
  BY <1>1, <1>2, <1>3 DEF InPlace, StillTrue, At, Locked, IInv
<1>5. PICK answer \in {"success", "refused", "unknown"} :
        /\ actor' = [actor EXCEPT ![a].pc = "answered", ![a].answer = answer]
        /\ \/ answer \in {"success", "unknown"} /\ refunded' = refunded \cup {s}
           \/ answer \in {"refused", "unknown"} /\ s \notin refunded /\ UNCHANGED refunded
  BY <1>2 DEF Reverse
<1>6. /\ actor' \in [Actors -> ActorStates]
      /\ actor'[a].pc = "answered" /\ actor'[a].sale = s /\ actor'[a].ask = n
      /\ actor'[a].answer = answer
      /\ \A b \in Actors \ {a} : actor'[b] = actor[b]
  <2> DEFINE row == [actor[a] EXCEPT !.pc = "answered", !.answer = answer]
  <2>1. actor[a] \in ActorStates /\ "answered" \in Pcs /\ answer \in Answers
    BY ActorTyped DEF IInv, Pcs, Answers
  <2>2. /\ row \in ActorStates /\ row.pc = "answered" /\ row.sale = s /\ row.ask = n
        /\ row.answer = answer
    BY <2>1, <1>2, <1>3 DEF ActorStates, MySale, MyAsk
  <2>3. actor' = [actor EXCEPT ![a] = row]
    BY <1>5
  <2> HIDE DEF row
  <2> QED
    BY <2>2, <2>3, ActorMoves DEF IInv
<1>7. TypeOK'
  BY <1>5, <1>6 DEF IInv, TypeOK, Reverse, terms
<1>8. InPlace(a)' /\ StillTrue(a)'
  BY <1>4, <1>5, <1>6 DEF Reverse, terms, InPlace, StillTrue, At, MySale, MyAsk
<1>9. RowsAgree(s)'
  BY <1>4, <1>5 DEF Reverse, terms, RowsAgree
<1>10. \A r \in Sales \ {s} : r \in refunded' <=> r \in refunded
  BY <1>5
<1> QED
  BY <1>4, <1>6, <1>7, <1>8, <1>9, <1>10, UnderItsLock DEF Reverse, terms

\* Every answer is written to a request the guard still finds in flight.
LEMMA RecordAnswerStep ==
  ASSUME IInv, NEW a \in Actors, RecordAnswer(a)
  PROVE  IInv'
<1>1. InPlace(a) /\ StillTrue(a) /\ At(a, "answered")
  BY DEF IInv, RecordAnswer
<1>2. PICK s \in Sales : s = MySale(a)
  BY <1>1 DEF InPlace, At
<1>3. PICK n \in Asks : n = MyAsk(a)
  BY <1>1 DEF InPlace, At, Pursuing
<1>4. /\ lock[s] = a /\ sale[s] = "active" /\ s \notin free /\ RowsAgree(s)
      /\ actor[a].answer = "success" => s \in refunded
      /\ actor[a].answer = "refused" => s \notin refunded
  BY <1>1, <1>2, <1>3 DEF InPlace, StillTrue, At, Locked, IInv
<1>5. UNCHANGED <<sale, terms, lock, refunded>>
  BY DEF RecordAnswer
<1>6. /\ "unlocking" \in Pcs /\ "committing" \in Pcs
      /\ \A to \in {"in_flight", "needs_attention", "refused", "succeeded"} : to \in Statuses
      /\ 0 \in Nat /\ Delays \subseteq Nat
  BY ReversalAssumption DEF Pcs, Statuses, LiveStatuses, Unfinished
<1>7. CASE Skip(a, "unlocking") /\ UNCHANGED request
  <2>1. /\ actor' \in [Actors -> ActorStates]
        /\ actor'[a].pc = "unlocking" /\ actor'[a].sale = s /\ actor'[a].ask = n
        /\ \A b \in Actors \ {a} : actor'[b] = actor[b]
    BY <1>2, <1>3, <1>6, <1>7, SkipMoves DEF IInv, MySale, MyAsk
  <2>2. InPlace(a)' /\ StillTrue(a)'
    BY <1>4, <1>5, <2>1 DEF InPlace, StillTrue, At, MySale, MyAsk, Pursuing
  <2> QED
    BY <1>5, <1>7, <2>1, <2>2, OnlyItself
<1>8. CASE Now(a, "unlocking") /\ UNCHANGED request
  <2>1. /\ actor' \in [Actors -> ActorStates]
        /\ actor'[a].pc = "unlocking" /\ actor'[a].sale = s /\ actor'[a].ask = n
        /\ \A b \in Actors \ {a} : actor'[b] = actor[b]
    BY <1>2, <1>3, <1>6, <1>8, NowMoves DEF IInv, MySale, MyAsk
  <2>2. InPlace(a)' /\ StillTrue(a)'
    BY <1>4, <1>5, <2>1 DEF InPlace, StillTrue, At, MySale, MyAsk, Pursuing
  <2> QED
    BY <1>5, <1>8, <2>1, <2>2, OnlyItself
<1>9. ASSUME NEW to \in {"in_flight", "needs_attention", "refused", "succeeded"},
             NEW wait \in Nat, NEW pc \in {"unlocking", "committing"},
             RecordAttempt(s, n, "in_flight", to, wait), Now(a, pc),
             to = "refused" => s \notin refunded,
             to = "succeeded" <=> pc = "committing",
             to = "succeeded" => s \in refunded
      PROVE  IInv'
  <2>1. /\ request' \in [Sales -> [Asks -> RequestRows]]
        /\ request[s][n].status = "in_flight" /\ request'[s][n].status = to
        /\ request'[s][n].voided = request[s][n].voided
        /\ \A m \in Asks \ {n} : request'[s][m] = request[s][m]
        /\ \A r \in Sales \ {s} : request'[r] = request[r]
    BY <1>6, <1>9, RecordAttemptWrites DEF IInv
  <2>2. /\ actor' \in [Actors -> ActorStates]
        /\ actor'[a].pc = pc /\ actor'[a].sale = s /\ actor'[a].ask = n
        /\ \A b \in Actors \ {a} : actor'[b] = actor[b]
    BY <1>2, <1>3, <1>6, <1>9, NowMoves DEF IInv, MySale, MyAsk
  <2>3. InPlace(a)' /\ StillTrue(a)'
    <3>1. n # 0
      BY ReversalAssumption DEF Asks
    <3> QED
      BY <1>4, <1>5, <1>9, <2>1, <2>2, <3>1
      DEF InPlace, StillTrue, At, MySale, MyAsk, Pursuing, terms
  <2>4. RowsAgree(s)'
    BY <1>4, <1>5, <1>9, <2>1 DEF RowsAgree, terms
  <2> QED
    BY <1>4, <1>5, <2>1, <2>2, <2>3, <2>4, UnderItsLock DEF terms, IInv, TypeOK
<1>10. CASE actor[a].answer = "unknown" /\ Now(a, "unlocking")
         /\ \/ RecordAttempt(s, n, "in_flight", "needs_attention", 0)
            \/ \E d \in Delays : RecordAttempt(s, n, "in_flight", "in_flight", d)
  BY <1>6, <1>9, <1>10
<1>11. CASE /\ actor[a].answer = "refused" /\ Now(a, "unlocking")
            /\ RecordAttempt(s, n, "in_flight", "refused", 0)
  BY <1>4, <1>6, <1>9, <1>11
<1>12. CASE /\ actor[a].answer = "success" /\ Now(a, "committing")
            /\ RecordAttempt(s, n, "in_flight", "succeeded", 0)
  BY <1>4, <1>6, <1>9, <1>12
<1> QED
  BY <1>2, <1>3, <1>7, <1>8, <1>10, <1>11, <1>12 DEF RecordAnswer

\* Only an agreement, or a sale that cost nothing, voids a sale for its Customer.
LEMMA CommitStep ==
  ASSUME IInv, NEW a \in Actors, CommitSaleReversal(a)
  PROVE  IInv'
<1>1. InPlace(a) /\ StillTrue(a) /\ At(a, "committing")
  BY DEF IInv, CommitSaleReversal
<1>2. PICK s \in Sales : s = MySale(a)
  BY <1>1 DEF InPlace, At
<1>3. /\ lock[s] = a /\ RowsAgree(s)
      /\ IF MyAsk(a) = 0 THEN s \in free ELSE s \in refunded
  BY <1>1, <1>2 DEF InPlace, StillTrue, At, Locked, IInv
<1>4. UNCHANGED <<terms, request, lock, refunded>>
  BY DEF CommitSaleReversal
<1>5. MyAsk(a) # 0 => MyAsk(a) \in Asks
  BY ActorTyped, ReversalAssumption DEF IInv, MyAsk, Asks
<1>6. actor[a].agreed => MyAsk(a) \in Asks
  BY <1>1 DEF InPlace
<1>7. PICK pc \in {"unlocking", "marking", "retrying"} :
        /\ Now(a, pc)
        /\ \/ /\ sale[s] = "active" /\ Reversed(s, "customer")
              /\ pc = IF MyAsk(a) = 0 THEN "unlocking" ELSE "marking"
           \/ /\ UNCHANGED sale
              /\ pc = IF actor[a].agreed THEN "retrying" ELSE "unlocking"
  BY <1>2 DEF CommitSaleReversal
<1>8. /\ actor' \in [Actors -> ActorStates]
      /\ actor'[a].pc = pc /\ actor'[a].sale = s /\ actor'[a].ask = actor[a].ask
      /\ actor'[a].agreed = actor[a].agreed /\ actor'[a].skipped = actor[a].skipped
      /\ \A b \in Actors \ {a} : actor'[b] = actor[b]
  <2>1. pc \in Pcs
    BY DEF Pcs
  <2> QED
    BY <1>2, <1>7, <2>1, NowMoves DEF IInv, MySale
<1>9. /\ sale' \in [Sales -> {"active", "customer", "operator", "upgrade"}]
      /\ \A r \in Sales \ {s} : sale'[r] = sale[r]
      /\ sale'[s] \in {sale[s], "customer"}
      /\ pc = "marking" => sale'[s] = "customer"
  BY <1>7 DEF Reversed, IInv, TypeOK
<1>10. InPlace(a)' /\ StillTrue(a)'
  BY <1>1, <1>3, <1>4, <1>5, <1>6, <1>7, <1>8, <1>9
  DEF InPlace, StillTrue, At, MySale, MyAsk, Pursuing
<1>11. RowsAgree(s)'
  BY <1>3, <1>4, <1>7, <1>9 DEF RowsAgree, terms, Reversed
<1> QED
  BY <1>3, <1>4, <1>8, <1>9, <1>10, <1>11, UnderItsLock DEF terms, IInv, TypeOK

\* A voided sale is marked on its request.
LEMMA MarkStep ==
  ASSUME IInv, NEW a \in Actors, MarkReversalSaleVoided(a)
  PROVE  IInv'
<1>1. InPlace(a) /\ StillTrue(a) /\ At(a, "marking")
  BY DEF IInv, MarkReversalSaleVoided
<1>2. PICK s \in Sales : s = MySale(a)
  BY <1>1 DEF InPlace, At
<1>3. PICK n \in Asks : n = MyAsk(a)
  BY <1>1 DEF InPlace, At, Pursuing
<1>4. lock[s] = a /\ sale[s] # "active" /\ RowsAgree(s)
  BY <1>1, <1>2, <1>3 DEF InPlace, StillTrue, At, Locked, IInv
<1>5. /\ request' \in [Sales -> [Asks -> RequestRows]]
      /\ request'[s][n].status = request[s][n].status
      /\ \A m \in Asks \ {n} : request'[s][m] = request[s][m]
      /\ \A r \in Sales \ {s} : request'[r] = request[r]
  <2>1. CASE UNCHANGED request
    BY <2>1 DEF IInv, TypeOK
  <2>2. CASE request' = [request EXCEPT ![s][n].voided = TRUE]
    <3> DEFINE row == [request[s][n] EXCEPT !.voided = TRUE]
    <3>1. request[s][n] \in RequestRows
      BY RowTyped DEF IInv
    <3>2. row \in RequestRows /\ row.status = request[s][n].status
      BY <3>1 DEF RequestRows
    <3>3. request' = [request EXCEPT ![s][n] = row]
      BY <2>2
    <3> HIDE DEF row
    <3>4. TypeOK
      BY DEF IInv
    <3>5. /\ request' \in [Sales -> [Asks -> RequestRows]] /\ request'[s][n] = row
          /\ \A m \in Asks \ {n} : request'[s][m] = request[s][m]
          /\ \A r \in Sales \ {s} : request'[r] = request[r]
      BY <3>2, <3>3, <3>4, RowWritten
    <3> QED
      BY <3>2, <3>5
  <2> QED
    BY <1>2, <1>3, <2>1, <2>2 DEF MarkReversalSaleVoided
<1>6. /\ actor' \in [Actors -> ActorStates]
      /\ actor'[a].pc = "unlocking" /\ actor'[a].sale = s /\ actor'[a].ask = n
      /\ \A b \in Actors \ {a} : actor'[b] = actor[b]
  <2>1. "unlocking" \in Pcs
    BY DEF Pcs
  <2> QED
    BY <1>2, <1>3, <2>1, NowMoves DEF IInv, MySale, MyAsk, MarkReversalSaleVoided
<1>7. InPlace(a)' /\ StillTrue(a)'
  BY <1>4, <1>6 DEF MarkReversalSaleVoided, InPlace, StillTrue, At, MySale, MyAsk, Pursuing
<1>8. RowsAgree(s)'
  BY <1>4, <1>5 DEF MarkReversalSaleVoided, terms, RowsAgree
<1> QED
  BY <1>4, <1>5, <1>6, <1>7, <1>8, UnderItsLock DEF MarkReversalSaleVoided, terms, IInv, TypeOK

\* An agreed reversal whose sale still stands stays agreed, or is handed over.
LEMMA RetryStep ==
  ASSUME IInv, NEW a \in Actors, RetryAgreedReversalLater(a)
  PROVE  IInv'
<1>1. InPlace(a) /\ At(a, "retrying")
  BY DEF IInv, RetryAgreedReversalLater
<1>2. PICK s \in Sales : s = MySale(a)
  BY <1>1 DEF InPlace, At
<1>3. PICK n \in Asks : n = MyAsk(a)
  BY <1>1 DEF InPlace, At, Pursuing
<1>4. lock[s] = a /\ RowsAgree(s)
  BY <1>1, <1>2 DEF InPlace, At, Locked, IInv
<1>5. /\ request' \in [Sales -> [Asks -> RequestRows]]
      /\ \A r \in Sales \ {s} : request'[r] = request[r]
      /\ RowsAgree(s)'
  <2>1. CASE UNCHANGED request
    BY <1>4, <2>1 DEF RetryAgreedReversalLater, terms, RowsAgree, IInv, TypeOK
  <2>2. ASSUME NEW to \in {"succeeded", "needs_attention"}, NEW wait \in Nat,
               RecordAttempt(s, n, "succeeded", to, wait)
        PROVE  <1>5!1 /\ <1>5!2 /\ <1>5!3
    <3>1. to \in Statuses
      BY DEF Statuses, LiveStatuses, Unfinished
    <3>2. /\ request' \in [Sales -> [Asks -> RequestRows]]
          /\ request[s][n].status = "succeeded" /\ request'[s][n].status = to
          /\ request'[s][n].voided = request[s][n].voided
          /\ \A m \in Asks \ {n} : request'[s][m] = request[s][m]
          /\ \A r \in Sales \ {s} : request'[r] = request[r]
      BY <2>2, <3>1, RecordAttemptWrites DEF IInv
    <3> QED
      BY <1>4, <3>2 DEF RetryAgreedReversalLater, terms, RowsAgree
  <2>3. 0 \in Nat /\ Delays \subseteq Nat
    BY ReversalAssumption
  <2> QED
    BY <1>2, <1>3, <2>1, <2>2, <2>3 DEF RetryAgreedReversalLater
<1>6. /\ actor' \in [Actors -> ActorStates]
      /\ actor'[a].pc = "unlocking" /\ actor'[a].sale = s /\ actor'[a].ask = n
      /\ \A b \in Actors \ {a} : actor'[b] = actor[b]
  <2>1. "unlocking" \in Pcs
    BY DEF Pcs
  <2> QED
    BY <1>2, <1>3, <2>1, NowMoves DEF IInv, MySale, MyAsk, RetryAgreedReversalLater
<1>7. InPlace(a)' /\ StillTrue(a)'
  BY <1>4, <1>6 DEF RetryAgreedReversalLater, InPlace, StillTrue, At, MySale, MyAsk, Pursuing
<1> QED
  BY <1>4, <1>5, <1>6, <1>7, UnderItsLock DEF RetryAgreedReversalLater, terms, IInv, TypeOK

\* The lock is given up by whoever holds it, and only by them.
LEMMA UnlockStep ==
  ASSUME IInv, NEW a \in Actors, Unlock(a)
  PROVE  IInv'
<1>1. InPlace(a) /\ At(a, "unlocking")
  BY DEF IInv, Unlock
<1>2. PICK s \in Sales : s = MySale(a)
  BY <1>1 DEF InPlace, At
<1>3. lock[s] = a /\ RowsAgree(s)
  BY <1>1, <1>2 DEF InPlace, At, Locked, IInv
<1>4. /\ lock' \in [Sales -> Actors \cup {NoOne}]
      /\ \A r \in Sales \ {s} : lock'[r] = lock[r]
  BY <1>2 DEF Unlock, IInv, TypeOK
<1>5. /\ actor' \in [Actors -> ActorStates]
      /\ \A b \in Actors \ {a} : actor'[b] = actor[b]
      /\ InPlace(a)' /\ StillTrue(a)'
  <2>1. CASE actor[a].skipped /\ Now(a, "releasing")
    <3>1. /\ actor' \in [Actors -> ActorStates]
          /\ actor'[a].pc = "releasing" /\ actor'[a].sale = s
          /\ actor'[a].ask = actor[a].ask
          /\ \A b \in Actors \ {a} : actor'[b] = actor[b]
      <4>1. "releasing" \in Pcs
        BY DEF Pcs
      <4> QED
        BY <1>2, <2>1, <4>1, NowMoves DEF IInv, MySale
    <3>2. MyAsk(a) \in Asks
      BY <1>1, <2>1 DEF InPlace
    <3> QED
      BY <3>1, <3>2 DEF InPlace, StillTrue, At, MySale, MyAsk, Pursuing, Locked
  <2>2. CASE actor' = [actor EXCEPT ![a] = Idle]
    BY <2>2, IdleMoves
    DEF IInv, Idle, InPlace, StillTrue, At, MySale, MyAsk, Pursuing, Locked
  <2> QED
    BY <2>1, <2>2 DEF Unlock
<1>6. RowsAgree(s)'
  BY <1>3 DEF Unlock, terms, RowsAgree
<1> QED
  BY <1>3, <1>4, <1>5, <1>6, UnderItsLock DEF Unlock, terms, IInv, TypeOK

\* A drain or a run that finds the lock free takes it, and otherwise has only
\* the age of the request to consult.
LEMMA TryLockStep ==
  ASSUME IInv, NEW a \in Actors, TryLock(a)
  PROVE  IInv'
<1>1. InPlace(a) /\ At(a, "locking")
  BY DEF IInv, TryLock
<1>2. PICK s \in Sales : s = MySale(a)
  BY <1>1 DEF InPlace, At
<1>3. PICK n \in Asks : n = MyAsk(a)
  BY <1>1 DEF InPlace, At, Pursuing
<1>4. actor[a].claimed \in Unfinished /\ RowsAgree(s)
  BY <1>1 DEF InPlace, IInv
<1>5. ASSUME NEW pc \in {"reading", "aging"}, Now(a, pc)
      PROVE  /\ actor' \in [Actors -> ActorStates]
             /\ actor'[a].pc = pc /\ actor'[a].sale = s /\ actor'[a].ask = n
             /\ actor'[a].claimed = actor[a].claimed
             /\ \A b \in Actors \ {a} : actor'[b] = actor[b]
  <2>1. pc \in Pcs
    BY DEF Pcs
  <2> QED
    BY <1>2, <1>3, <1>5, <2>1, NowMoves DEF IInv, MySale, MyAsk
<1>6. CASE lock[s] = NoOne /\ lock' = [lock EXCEPT ![s] = a] /\ Now(a, "reading")
  <2>1. /\ lock' \in [Sales -> Actors \cup {NoOne}] /\ lock'[s] = a
        /\ \A r \in Sales \ {s} : lock'[r] = lock[r]
    BY <1>6 DEF IInv, TypeOK
  <2>2. InPlace(a)' /\ StillTrue(a)'
    BY <1>4, <1>5, <1>6, <2>1 DEF InPlace, StillTrue, At, MySale, MyAsk
  <2>3. RowsAgree(s)'
    BY <1>4 DEF TryLock, terms, RowsAgree
  <2> QED
    BY <1>5, <1>6, <2>1, <2>2, <2>3, UnderItsLock DEF TryLock, terms, IInv, TypeOK
<1>7. CASE UNCHANGED lock /\ Now(a, "aging")
  <2>1. InPlace(a)' /\ StillTrue(a)'
    BY <1>4, <1>5, <1>7 DEF InPlace, StillTrue, At, MySale, MyAsk, Locked
  <2> QED
    BY <1>5, <1>7, <2>1, OnlyItself DEF TryLock
<1> QED
  BY <1>2, <1>6, <1>7 DEF TryLock

\* An actor's own request or run is over, and only the rows of its ask moved:
\* what the rows say, and what the others hold, is kept.
LEMMA GivesUp ==
  ASSUME IInv, NEW a \in Actors, UNCHANGED <<sale, terms, lock, refunded>>,
         actor' \in [Actors -> ActorStates],
         \A b \in Actors \ {a} : actor'[b] = actor[b],
         InPlace(a)', StillTrue(a)',
         request' \in [Sales -> [Asks -> RequestRows]],
         \A s \in Sales, n \in Asks :
           /\ \/ request'[s][n].status = request[s][n].status
              \/ /\ request[s][n].status \in Unfinished
                 /\ request'[s][n].status = "needs_attention"
           /\ request'[s][n].voided = request[s][n].voided
  PROVE  IInv'
<1>1. TypeOK'
  BY DEF IInv, TypeOK, terms
<1>2. \A b \in Actors \ {a} : InPlace(b)' /\ StillTrue(b)'
  BY OthersKeep DEF terms
<1>3. \A r \in Sales : RowsAgree(r)'
  BY DEF IInv, RowsAgree, terms, Unfinished
<1> QED
  BY <1>1, <1>2, <1>3 DEF IInv

\* Giving up without the lock hands over a request that is still unfinished.
LEMMA AgeStep ==
  ASSUME IInv, NEW a \in Actors, AgeUnaskable(a)
  PROVE  IInv'
<1>1. InPlace(a) /\ At(a, "aging")
  BY DEF IInv, AgeUnaskable
<1>2. PICK s \in Sales : s = MySale(a)
  BY <1>1 DEF InPlace, At
<1>3. PICK n \in Asks : n = MyAsk(a)
  BY <1>1 DEF InPlace, At, Pursuing
<1>4. actor[a].claimed \in Unfinished
  BY <1>1 DEF InPlace
<1>5. /\ actor' \in [Actors -> ActorStates]
      /\ \A b \in Actors \ {a} : actor'[b] = actor[b]
      /\ InPlace(a)' /\ StillTrue(a)'
  <2>1. CASE Skip(a, "releasing")
    <3>1. /\ actor' \in [Actors -> ActorStates]
          /\ actor'[a].pc = "releasing" /\ actor'[a].sale = s /\ actor'[a].ask = n
          /\ \A b \in Actors \ {a} : actor'[b] = actor[b]
      <4>1. "releasing" \in Pcs
        BY DEF Pcs
      <4> QED
        BY <1>2, <1>3, <2>1, <4>1, SkipMoves DEF IInv, MySale, MyAsk
    <3> QED
      BY <3>1 DEF InPlace, StillTrue, At, MySale, MyAsk, Locked
  <2>2. CASE actor' = [actor EXCEPT ![a] = Idle]
    BY <2>2, IdleMoves
    DEF IInv, Idle, InPlace, StillTrue, At, MySale, MyAsk, Pursuing, Locked
  <2> QED
    BY <2>1, <2>2 DEF AgeUnaskable
<1>6. CASE UNCHANGED request
  BY <1>5, <1>6, OnlyItself DEF AgeUnaskable
<1>7. CASE RecordAttempt(s, n, actor[a].claimed, "needs_attention", 0)
  <2>1. PICK from \in Unfinished : from = actor[a].claimed
    BY <1>4
  <2> QED
    BY <1>5, <1>7, <2>1, HandsOver, GivesUp DEF AgeUnaskable, IInv
<1> QED
  BY <1>2, <1>3, <1>6, <1>7 DEF AgeUnaskable

\* What is read under the lock decides what is done there.
LEMMA ReadStep ==
  ASSUME IInv, NEW a \in Actors, ReadLiveRequest(a)
  PROVE  IInv'
<1>1. InPlace(a) /\ At(a, "reading")
  BY DEF IInv, ReadLiveRequest
<1>2. PICK s \in Sales : s = MySale(a)
  BY <1>1 DEF InPlace, At
<1>3. PICK n \in Asks : n = MyAsk(a)
  BY <1>1 DEF InPlace, At, Pursuing
<1>4. lock[s] = a /\ RowsAgree(s)
  BY <1>1, <1>2 DEF InPlace, At, Locked, IInv
<1>5. UNCHANGED <<sale, terms, lock, refunded>>
  BY DEF ReadLiveRequest
<1>6. request[s][n].status # "none" => s \notin free
  BY <1>4 DEF RowsAgree
<1>7. n # 0 /\ {"unlocking", "marking", "asking", "committing"} \subseteq Pcs
  BY ReversalAssumption DEF Pcs, Asks
<1>8. CASE request[s][n].status \notin Unfinished /\ Skip(a, "unlocking") /\ UNCHANGED request
  <2>1. /\ actor' \in [Actors -> ActorStates]
        /\ actor'[a].pc = "unlocking" /\ actor'[a].sale = s /\ actor'[a].ask = n
        /\ \A b \in Actors \ {a} : actor'[b] = actor[b]
    BY <1>2, <1>3, <1>7, <1>8, SkipMoves DEF IInv, MySale, MyAsk
  <2>2. InPlace(a)' /\ StillTrue(a)'
    BY <1>4, <1>5, <2>1 DEF InPlace, StillTrue, At, MySale, MyAsk, Pursuing
  <2> QED
    BY <1>5, <1>8, <2>1, <2>2, OnlyItself
<1>9. CASE /\ request[s][n].status = "succeeded" /\ sale[s] = "active"
           /\ actor' = [actor EXCEPT ![a].pc = "committing", ![a].agreed = TRUE]
           /\ UNCHANGED request
  <2>1. /\ actor' \in [Actors -> ActorStates]
        /\ actor'[a].pc = "committing" /\ actor'[a].sale = s /\ actor'[a].ask = n
        /\ \A b \in Actors \ {a} : actor'[b] = actor[b]
    <3> DEFINE row == [actor[a] EXCEPT !.pc = "committing", !.agreed = TRUE]
    <3>1. actor[a] \in ActorStates
      BY ActorTyped DEF IInv
    <3>2. row \in ActorStates /\ row.pc = "committing" /\ row.sale = s /\ row.ask = n
      BY <3>1, <1>2, <1>3, <1>7 DEF ActorStates, MySale, MyAsk
    <3>3. actor' = [actor EXCEPT ![a] = row]
      BY <1>9
    <3> HIDE DEF row
    <3> QED
      BY <3>2, <3>3, ActorMoves DEF IInv
  <2>2. s \in refunded
    BY <1>4, <1>9 DEF RowsAgree
  <2>3. InPlace(a)' /\ StillTrue(a)'
    BY <1>4, <1>5, <1>7, <2>1, <2>2 DEF InPlace, StillTrue, At, MySale, MyAsk, Pursuing
  <2> QED
    BY <1>5, <1>9, <2>1, <2>3, OnlyItself
<1>10. CASE sale[s] # "active" /\ Skip(a, "marking") /\ UNCHANGED request
  <2>1. /\ actor' \in [Actors -> ActorStates]
        /\ actor'[a].pc = "marking" /\ actor'[a].sale = s /\ actor'[a].ask = n
        /\ \A b \in Actors \ {a} : actor'[b] = actor[b]
    BY <1>2, <1>3, <1>7, <1>10, SkipMoves DEF IInv, MySale, MyAsk
  <2>2. InPlace(a)' /\ StillTrue(a)'
    BY <1>4, <1>5, <1>10, <2>1 DEF InPlace, StillTrue, At, MySale, MyAsk, Pursuing
  <2> QED
    BY <1>5, <1>10, <2>1, <2>2, OnlyItself
<1>11. ASSUME Now(a, "unlocking"), UNCHANGED request \/
                RecordAttempt(s, n, "in_flight", "needs_attention", 0)
       PROVE  IInv'
  <2>1. /\ actor' \in [Actors -> ActorStates]
        /\ actor'[a].pc = "unlocking" /\ actor'[a].sale = s /\ actor'[a].ask = n
        /\ \A b \in Actors \ {a} : actor'[b] = actor[b]
    BY <1>2, <1>3, <1>7, <1>11, NowMoves DEF IInv, MySale, MyAsk
  <2>2. InPlace(a)' /\ StillTrue(a)'
    BY <1>4, <1>5, <2>1 DEF InPlace, StillTrue, At, MySale, MyAsk, Pursuing
  <2>3. CASE UNCHANGED request
    BY <1>5, <2>1, <2>2, <2>3, OnlyItself
  <2>4. CASE RecordAttempt(s, n, "in_flight", "needs_attention", 0)
    <3>1. "in_flight" \in Unfinished
      BY DEF Unfinished
    <3> QED
      BY <1>5, <2>1, <2>2, <2>4, <3>1, HandsOver, GivesUp DEF IInv
  <2> QED
    BY <1>11, <2>3, <2>4
<1>12. CASE /\ request[s][n].status = "in_flight" /\ sale[s] = "active"
            /\ Now(a, "asking") /\ UNCHANGED request
  <2>1. /\ actor' \in [Actors -> ActorStates]
        /\ actor'[a].pc = "asking" /\ actor'[a].sale = s /\ actor'[a].ask = n
        /\ \A b \in Actors \ {a} : actor'[b] = actor[b]
    BY <1>2, <1>3, <1>7, <1>12, NowMoves DEF IInv, MySale, MyAsk
  <2>2. InPlace(a)' /\ StillTrue(a)'
    BY <1>4, <1>5, <1>6, <1>12, <2>1
    DEF InPlace, StillTrue, At, MySale, MyAsk, Pursuing, terms
  <2> QED
    BY <1>5, <1>12, <2>1, <2>2, OnlyItself
<1> QED
  BY <1>2, <1>3, <1>8, <1>9, <1>10, <1>11, <1>12 DEF ReadLiveRequest

\* Claiming, releasing and the passing of time change neither what a request has
\* become nor whether its sale is marked as void.
LEMMA WaitsMove ==
  ASSUME IInv, NEW a \in Actors, UNCHANGED <<sale, terms, lock, refunded>>,
         actor' \in [Actors -> ActorStates],
         \A b \in Actors \ {a} : actor'[b] = actor[b],
         InPlace(a)', StillTrue(a)',
         NEW s \in Sales, NEW n \in Asks, NEW row \in RequestRows,
         row.status = request[s][n].status, row.voided = request[s][n].voided,
         request' = [request EXCEPT ![s][n] = row]
  PROVE  IInv'
<1>1. /\ request' \in [Sales -> [Asks -> RequestRows]]
      /\ request'[s][n] = row
      /\ \A m \in Asks \ {n} : request'[s][m] = request[s][m]
      /\ \A r \in Sales \ {s} : request'[r] = request[r]
  BY RowWritten DEF IInv
<1> QED
  BY <1>1, GivesUp

\* A page load takes a row it listed; it holds nothing yet.
LEMMA ListStep ==
  ASSUME IInv, NEW a \in Actors, NEW s \in Sales, NEW n \in Asks,
         ListDueReversalRequestsForCustomer(a, s, n)
  PROVE  IInv'
<1>1. /\ "locking" \in Pcs /\ "in_flight" \in Statuses /\ "in_flight" \in Unfinished
      /\ n \in 0..MaxAsks
  BY ReversalAssumption DEF Pcs, Statuses, LiveStatuses, Unfinished, Asks
<1>2. /\ actor' \in [Actors -> ActorStates]
      /\ actor'[a].pc = "locking" /\ actor'[a].sale = s /\ actor'[a].ask = n
      /\ actor'[a].claimed = "in_flight"
      /\ \A b \in Actors \ {a} : actor'[b] = actor[b]
  <2>1. PICK pc \in Pcs, claimed \in Statuses : pc = "locking" /\ claimed = "in_flight"
    BY <1>1
  <2>2. actor' = [actor EXCEPT ![a] = [Idle EXCEPT !.pc = pc, !.sale = s,
                                                   !.ask = n, !.claimed = claimed]]
    BY <2>1 DEF ListDueReversalRequestsForCustomer
  <2>3. /\ actor' \in [Actors -> ActorStates]
        /\ actor'[a].pc = pc /\ actor'[a].sale = s /\ actor'[a].ask = n
        /\ actor'[a].claimed = claimed
        /\ \A b \in Actors \ {a} : actor'[b] = actor[b]
    BY <1>1, <2>2, BeginMoves DEF IInv
  <2> QED
    BY <2>1, <2>3
<1>3. InPlace(a)' /\ StillTrue(a)'
  BY <1>1, <1>2 DEF InPlace, StillTrue, At, MySale, MyAsk, Locked
<1> QED
  BY <1>2, <1>3, OnlyItself DEF ListDueReversalRequestsForCustomer

\* A run leases the row and remembers the status it claimed.
LEMMA ClaimStep ==
  ASSUME IInv, NEW a \in Actors, NEW s \in Sales, NEW n \in Asks,
         ClaimDueReversalRequest(a, s, n)
  PROVE  IInv'
<1>1. PICK claimed \in Unfinished : claimed = request[s][n].status
  BY DEF ClaimDueReversalRequest, Unfinished
<1>2. "locking" \in Pcs /\ claimed \in Statuses /\ n \in 0..MaxAsks
  BY ReversalAssumption DEF Pcs, Statuses, LiveStatuses, Asks
<1>3. /\ actor' \in [Actors -> ActorStates]
      /\ actor'[a].pc = "locking" /\ actor'[a].sale = s /\ actor'[a].ask = n
      /\ actor'[a].claimed = claimed
      /\ \A b \in Actors \ {a} : actor'[b] = actor[b]
  <2>1. PICK pc \in Pcs : pc = "locking"
    BY <1>2
  <2>2. actor' = [actor EXCEPT ![a] = [Idle EXCEPT !.pc = pc, !.sale = s,
                                                   !.ask = n, !.claimed = claimed]]
    BY <1>1, <2>1 DEF ClaimDueReversalRequest
  <2>3. /\ actor' \in [Actors -> ActorStates]
        /\ actor'[a].pc = pc /\ actor'[a].sale = s /\ actor'[a].ask = n
        /\ actor'[a].claimed = claimed
        /\ \A b \in Actors \ {a} : actor'[b] = actor[b]
    BY <1>2, <2>2, BeginMoves DEF IInv
  <2> QED
    BY <2>1, <2>3
<1>4. InPlace(a)' /\ StillTrue(a)'
  BY <1>3 DEF InPlace, StillTrue, At, MySale, MyAsk, Locked
<1> DEFINE row == [request[s][n] EXCEPT !.wait = Lease, !.lease = a]
<1>5. request[s][n] \in RequestRows
  BY RowTyped DEF IInv
<1>6. /\ row \in RequestRows
      /\ row.status = request[s][n].status /\ row.voided = request[s][n].voided
  BY <1>5, ReversalAssumption DEF RequestRows
<1>7. request' = [request EXCEPT ![s][n] = row]
  BY DEF ClaimDueReversalRequest
<1>8. UNCHANGED <<sale, terms, lock, refunded>>
  BY DEF ClaimDueReversalRequest
<1> HIDE DEF row
<1> QED
  BY <1>3, <1>4, <1>6, <1>7, <1>8, WaitsMove

\* A skipped claim gives its own lease back.
LEMMA ReleaseStep ==
  ASSUME IInv, NEW a \in Actors, ReleaseReversalRequestClaim(a)
  PROVE  IInv'
<1>1. InPlace(a) /\ At(a, "releasing")
  BY DEF IInv, ReleaseReversalRequestClaim
<1>2. PICK s \in Sales : s = MySale(a)
  BY <1>1 DEF InPlace, At
<1>3. PICK n \in Asks : n = MyAsk(a)
  BY <1>1 DEF InPlace, At, Pursuing
<1>4. /\ actor' \in [Actors -> ActorStates]
      /\ \A b \in Actors \ {a} : actor'[b] = actor[b]
      /\ InPlace(a)' /\ StillTrue(a)'
  BY IdleMoves DEF ReleaseReversalRequestClaim,
     IInv, Idle, InPlace, StillTrue, At, MySale, MyAsk, Pursuing, Locked
<1>5. CASE UNCHANGED request
  BY <1>4, <1>5, OnlyItself DEF ReleaseReversalRequestClaim
<1>6. CASE request' = [request EXCEPT ![s][n] = [@ EXCEPT !.wait = ContendedDelay, !.lease = NoOne]]
  <2> DEFINE row == [request[s][n] EXCEPT !.wait = ContendedDelay, !.lease = NoOne]
  <2>1. request[s][n] \in RequestRows
    BY RowTyped DEF IInv
  <2>2. /\ row \in RequestRows
        /\ row.status = request[s][n].status /\ row.voided = request[s][n].voided
    BY <2>1, ReversalAssumption DEF RequestRows
  <2>3. request' = [request EXCEPT ![s][n] = row]
    BY <1>6
  <2> HIDE DEF row
  <2> QED
    BY <1>4, <2>2, <2>3, WaitsMove DEF ReleaseReversalRequestClaim
<1> QED
  BY <1>2, <1>3, <1>5, <1>6 DEF ReleaseReversalRequestClaim

\* An Operator Reversal takes the lock a press would.
LEMMA OperatorStep ==
  ASSUME IInv, NEW a \in Actors, NEW s \in Sales, ReverseSaleAsOperator(a, s)
  PROVE  IInv'
<1>1. /\ actor' \in [Actors -> ActorStates] /\ actor'[a].pc = "voiding"
      /\ actor'[a].sale = s /\ actor'[a].ask = 0
      /\ actor'[a].agreed = FALSE /\ actor'[a].skipped = FALSE
      /\ \A b \in Actors \ {a} : actor'[b] = actor[b]
  <2>1. "voiding" \in Pcs
    BY DEF Pcs
  <2> QED
    BY <2>1, TakeUpMoves DEF ReverseSaleAsOperator, IInv
<1>2. TypeOK' /\ RowsAgree(s)'
  BY <1>1 DEF IInv, TypeOK, RowsAgree, ReverseSaleAsOperator, terms
<1>3. InPlace(a)' /\ StillTrue(a)'
  <2>1. lock'[s] = a
    BY DEF IInv, TypeOK, ReverseSaleAsOperator
  <2> QED
    BY <1>1, <2>1 DEF InPlace, StillTrue, At, MySale, MyAsk, Pursuing
<1> QED
  BY <1>1, <1>2, <1>3, UnderItsLock DEF ReverseSaleAsOperator, terms, IInv, TypeOK

LEMMA VoidStep ==
  ASSUME IInv, NEW a \in Actors, CommitOperatorReversal(a)
  PROVE  IInv'
<1>1. InPlace(a) /\ At(a, "voiding")
  BY DEF IInv, CommitOperatorReversal
<1>2. PICK s \in Sales : s = MySale(a)
  BY <1>1 DEF InPlace, At
<1>3. lock[s] = a /\ RowsAgree(s)
  BY <1>1, <1>2 DEF InPlace, At, Locked, IInv
<1>4. /\ actor' \in [Actors -> ActorStates]
      /\ actor'[a].pc = "unlocking" /\ actor'[a].sale = s /\ actor'[a].ask = actor[a].ask
      /\ actor'[a].agreed = actor[a].agreed /\ actor'[a].skipped = actor[a].skipped
      /\ \A b \in Actors \ {a} : actor'[b] = actor[b]
  <2>1. "unlocking" \in Pcs
    BY DEF Pcs
  <2> QED
    BY <1>2, <2>1, NowMoves DEF IInv, MySale, CommitOperatorReversal
<1>5. /\ sale' \in [Sales -> {"active", "customer", "operator", "upgrade"}]
      /\ \A r \in Sales \ {s} : sale'[r] = sale[r]
      /\ sale'[s] = sale[s] \/ sale'[s] = "operator"
  BY <1>2 DEF CommitOperatorReversal, Reversed, IInv, TypeOK
<1>6. InPlace(a)' /\ StillTrue(a)'
  BY <1>1, <1>3, <1>4 DEF CommitOperatorReversal, InPlace, StillTrue, At, MySale, MyAsk, Pursuing
<1>7. RowsAgree(s)'
  BY <1>3, <1>5 DEF CommitOperatorReversal, terms, RowsAgree
<1> QED
  BY <1>3, <1>4, <1>5, <1>6, <1>7, UnderItsLock DEF CommitOperatorReversal, terms, IInv, TypeOK

\* A free sale may be upgraded away without the lock: no request is about it, and
\* nobody who has passed the deciding of a press relies on it being active.
LEMMA UpgradeStep ==
  ASSUME IInv, NEW s \in Sales, UpgradeOut(s)
  PROVE  IInv'
<1>1. /\ s \in free /\ sale[s] = "active"
      /\ sale' \in [Sales -> {"active", "customer", "operator", "upgrade"}]
      /\ sale'[s] = "upgrade" /\ \A r \in Sales \ {s} : sale'[r] = sale[r]
  BY DEF UpgradeOut, Reversed, IInv, TypeOK
<1>2. TypeOK'
  BY <1>1 DEF IInv, TypeOK, UpgradeOut, terms
<1>3. \A b \in Actors : InPlace(b)'
  BY DEF IInv, InPlace, UpgradeOut, At, MySale, MyAsk
<1>4. \A b \in Actors : StillTrue(b)'
  <2> TAKE b \in Actors
  <2>1. StillTrue(b) /\ InPlace(b)
    BY DEF IInv
  <2>2. CASE At(b, "idle")
    BY <2>2 DEF StillTrue, UpgradeOut, At
  <2>3. CASE ~At(b, "idle")
    <3>1. PICK r \in Sales : r = MySale(b)
      BY <2>1, <2>3 DEF InPlace
    <3>2. LiveAsks(r)' = LiveAsks(r)
      BY DEF LiveAsks, UpgradeOut
    <3> QED
      BY <1>1, <2>1, <3>1, <3>2 DEF StillTrue, UpgradeOut, terms, At, MySale, MyAsk
  <2> QED
    BY <2>2, <2>3
<1>5. \A r \in Sales : RowsAgree(r)'
  BY <1>1 DEF IInv, RowsAgree, UpgradeOut, terms
<1> QED
  BY <1>2, <1>3, <1>4, <1>5 DEF IInv

LEMMA CloseStep ==
  ASSUME IInv, NEW s \in Sales, CloseWindow(s)
  PROVE  IInv'
<1>1. TypeOK'
  BY DEF IInv, TypeOK, CloseWindow
<1>2. \A b \in Actors : InPlace(b)' /\ StillTrue(b)'
  BY OthersKeep DEF CloseWindow
<1>3. \A r \in Sales : RowsAgree(r)'
  BY RowsKept DEF IInv, CloseWindow
<1> QED
  BY <1>1, <1>2, <1>3 DEF IInv

\* A crash frees what the dead instance held, and nobody else's.
LEMMA CrashStep ==
  ASSUME IInv, NEW a \in Actors, Crash(a)
  PROVE  IInv'
<1>1. /\ actor' \in [Actors -> ActorStates]
      /\ \A b \in Actors \ {a} : actor'[b] = actor[b]
      /\ InPlace(a)' /\ StillTrue(a)'
  BY IdleMoves DEF Crash, IInv, Idle, InPlace, StillTrue, At, MySale, MyAsk, Pursuing, Locked
<1>2. TypeOK'
  BY <1>1 DEF Crash, IInv, TypeOK, terms
<1>3. \A b \in Actors \ {a} : InPlace(b)' /\ StillTrue(b)'
  BY <1>1, OthersKeep DEF Crash, terms
<1>4. \A r \in Sales : RowsAgree(r)'
  BY RowsKept DEF IInv, Crash, terms
<1> QED
  BY <1>1, <1>2, <1>3, <1>4 DEF IInv

\* Time ages the requests and runs their waits down, and does nothing else.
LEMMA TickStep ==
  ASSUME IInv, Tick
  PROVE  IInv'
<1>1. ASSUME NEW s \in Sales, NEW n \in Asks
      PROVE  /\ request'[s][n] \in RequestRows
             /\ request'[s][n].status = request[s][n].status
             /\ request'[s][n].voided = request[s][n].voided
  <2>1. request[s][n] \in RequestRows
    BY RowTyped DEF IInv
  <2>2. PICK age \in 0..GiveUpAfter, wait \in Nat :
          request'[s][n] = [request[s][n] EXCEPT !.age = age, !.wait = wait]
    <3>1. /\ request[s][n].age \in 0..GiveUpAfter /\ request[s][n].wait \in Nat
          /\ GiveUpAfter \in Nat
      BY <2>1, ReversalAssumption DEF RequestRows
    <3> DEFINE r == request[s][n]
               age == IF r.status # "none" /\ r.age < GiveUpAfter THEN r.age + 1 ELSE r.age
               wait == IF r.wait > 0 THEN r.wait - 1 ELSE 0
    <3>2. age \in 0..GiveUpAfter /\ wait \in Nat
      BY <3>1
    <3>3. request'[s][n] = [request[s][n] EXCEPT !.age = age, !.wait = wait]
      BY DEF Tick
    <3> HIDE DEF r, age, wait
    <3> QED
      BY <3>2, <3>3
  <2> QED
    BY <2>1, <2>2 DEF RequestRows
<1>2. request' \in [Sales -> [Asks -> RequestRows]]
  <2>1. \A s \in Sales : request'[s] \in [Asks -> RequestRows]
    <3> TAKE s \in Sales
    <3>1. request'[s] = [n \in Asks |-> request'[s][n]]
      BY DEF Tick
    <3> QED
      BY <1>1, <3>1
  <2>2. request' = [s \in Sales |-> request'[s]]
    BY DEF Tick
  <2> QED
    BY <2>1, <2>2
<1>3. TypeOK'
  BY <1>2 DEF Tick, terms, IInv, TypeOK
<1>4. \A b \in Actors : InPlace(b)' /\ StillTrue(b)'
  <2>1. \A r \in Sales, n \in Asks : request'[r][n].status = request[r][n].status
    BY <1>1
  <2> QED
    BY <2>1, OthersKeep DEF Tick, terms
<1>5. \A r \in Sales : RowsAgree(r)'
  <2> TAKE r \in Sales
  <2>1. RowsAgree(r)
    BY DEF IInv
  <2>2. /\ \A n \in Asks : /\ request'[r][n].status = request[r][n].status
                           /\ request'[r][n].voided = request[r][n].voided
        /\ free' = free /\ sale' = sale /\ refunded' = refunded
    BY <1>1 DEF Tick, terms
  <2> QED
    BY <2>1, <2>2 DEF RowsAgree
<1> QED
  BY <1>3, <1>4, <1>5 DEF IInv

\* Nothing is asked, held or returned before the first step.
LEMMA InitHolds == Init => IInv
<1> SUFFICES ASSUME Init PROVE IInv
  OBVIOUS
<1>1. TypeOK
  BY ReversalAssumption
  DEF Init, TypeOK, Idle, ActorStates, RequestRows, Pcs, Statuses, LiveStatuses, Unfinished, Answers
<1>2. \A a \in Actors : InPlace(a) /\ StillTrue(a)
  BY DEF Init, Idle, InPlace, StillTrue, At, Pursuing, Locked
<1>3. \A s \in Sales : RowsAgree(s)
  BY DEF Init, RowsAgree
<1> QED
  BY <1>1, <1>2, <1>3 DEF IInv

\* Every step of every actor keeps the invariant.
LEMMA StepKeeps == IInv /\ [Next]_vars => IInv'
<1> SUFFICES ASSUME IInv, [Next]_vars PROVE IInv'
  OBVIOUS
<1>1. ASSUME NEW a \in Workers, Arrive(a) PROVE IInv'
  BY <1>1, PressStep, OperatorStep, ListStep DEF Arrive, Actors
<1>2. ASSUME NEW a \in Runs, Claim(a) PROVE IInv'
  BY <1>2, ClaimStep DEF Claim, Actors
<1>3. ASSUME NEW a \in Actors, Continue(a) PROVE IInv'
  BY <1>3, DecideStep, CreateStep, ReverseStep, RecordAnswerStep, CommitStep, MarkStep,
     RetryStep, UnlockStep, TryLockStep, AgeStep, ReadStep, ReleaseStep, VoidStep
  DEF Continue
<1>4. ASSUME NEW a \in Actors, Crash(a) PROVE IInv'
  BY <1>4, CrashStep
<1>5. ASSUME NEW s \in Sales, UpgradeOut(s) \/ CloseWindow(s) PROVE IInv'
  BY <1>5, UpgradeStep, CloseStep
<1>6. CASE Tick
  BY <1>6, TickStep
<1>7. CASE UNCHANGED vars
  <2>1. TypeOK'
    BY <1>7 DEF vars, terms, IInv, TypeOK
  <2>2. \A b \in Actors : InPlace(b)' /\ StillTrue(b)'
    BY <1>7, OthersKeep DEF vars, terms
  <2>3. \A r \in Sales : RowsAgree(r)'
    BY <1>7, RowsKept DEF vars, terms, IInv
  <2> QED
    BY <2>1, <2>2, <2>3 DEF IInv
<1> QED
  BY <1>1, <1>2, <1>3, <1>4, <1>5, <1>6, <1>7 DEF Next

-----------------------------------------------------------------------------
(* The theorems.                                                            *)

\* The inductive invariant: the lock of a sale keeps what was read and what the
\* provider answered true until it is used, through every step of the code.
THEOREM Invariance == Spec => []IInv
<1>1. Init => IInv
  BY InitHolds
<1>2. IInv /\ [Next]_vars => IInv'
  BY StepKeeps
<1> QED
  BY <1>1, <1>2, PTL DEF Spec

\* Every row and every actor keeps its type, whatever the faults.
THEOREM TypeCorrect == Spec => []TypeOK
<1>1. IInv => TypeOK
  BY DEF IInv
<1> QED
  BY <1>1, Invariance, PTL

\* The provider is asked about a standing sale by one caller at a time, however
\* many presses, page loads, runs and operators meet on it.
THEOREM AskedSafely == Spec => []ProviderAskedSafely
<1>1. IInv => ProviderAskedSafely
  <2> SUFFICES ASSUME IInv, NEW a \in Actors, At(a, "asking")
               PROVE  /\ sale[MySale(a)] = "active"
                      /\ \A b \in Actors \ {a} : ~(At(b, "asking") /\ MySale(b) = MySale(a))
    BY DEF ProviderAskedSafely
  <2>1. sale[MySale(a)] = "active"
    BY DEF IInv, StillTrue
  <2>2. \A b \in Actors : At(b, "asking") => lock[MySale(b)] = b
    BY DEF IInv, InPlace, At, Locked
  <2> QED
    BY <2>1, <2>2
<1> QED
  BY <1>1, Invariance, PTL

\* Money returned while the tickets stand always has a request, or an operator,
\* accounting for it.
THEOREM MoneyAccounted == Spec => []MoneyIsAccountedFor
<1>1. IInv => MoneyIsAccountedFor
  BY DEF IInv, TypeOK, RowsAgree, MoneyIsAccountedFor
<1> QED
  BY <1>1, Invariance, PTL

\* A paid sale is never undone for its Customer before the money is back.
THEOREM UndoReturnsMoney == Spec => []CustomerUndoReturnsMoney
<1>1. IInv => CustomerUndoReturnsMoney
  BY DEF IInv, RowsAgree, CustomerUndoReturnsMoney
<1> QED
  BY <1>1, Invariance, PTL

\* The unique index is never what stops a second ask.
THEOREM OneAsk == Spec => []NoSecondAsk
<1>1. IInv => NoSecondAsk
  BY DEF IInv, StillTrue, NoSecondAsk
<1> QED
  BY <1>1, Invariance, PTL

-----------------------------------------------------------------------------
(* What becomes of a request.                                               *)

\* Where the status of one request may go in a step.
Stands(s, n) ==
  LET from == request[s][n].status to == request'[s][n].status IN
  to = from \/ from \in {"none", "in_flight"} \/ (from = "succeeded" /\ to = "needs_attention")

LEMMA RecordAttemptStands ==
  ASSUME TypeOK, NEW s \in Sales, NEW n \in Asks,
         NEW from \in Unfinished, NEW to \in Statuses, NEW wait \in Nat,
         RecordAttempt(s, n, from, to, wait),
         from = "succeeded" => to \in {"succeeded", "needs_attention"}
  PROVE  \A r \in Sales, m \in Asks : Stands(r, m)
<1>1. /\ request[s][n].status = from /\ request'[s][n].status = to
      /\ \A m \in Asks \ {n} : request'[s][m] = request[s][m]
      /\ \A r \in Sales \ {s} : request'[r] = request[r]
  BY RecordAttemptWrites
<1> QED
  BY <1>1 DEF Stands, Unfinished

LEMMA Untouched ==
  ASSUME UNCHANGED request
  PROVE  \A r \in Sales, m \in Asks : Stands(r, m)
BY DEF Stands

\* Only a guarded write moves a request on, and never out of a settled status.
LEMMA StepStands ==
  ASSUME IInv, [Next]_vars
  PROVE  \A r \in Sales, m \in Asks : Stands(r, m)
<1>1. /\ \A to \in {"in_flight", "needs_attention", "refused", "succeeded"} : to \in Statuses
      /\ "in_flight" \in Unfinished /\ "succeeded" \in Unfinished
      /\ 0 \in Nat /\ Delays \subseteq Nat
  BY ReversalAssumption DEF Statuses, LiveStatuses, Unfinished
<1>2. ASSUME NEW a \in Actors, CreateReversalRequest(a)
      PROVE  \A r \in Sales, m \in Asks : Stands(r, m)
  <2>1. CASE UNCHANGED request
    BY <2>1, Untouched
  <2>2. CASE \E n \in Asks : /\ request[MySale(a)][n].status = "none"
                             /\ request' = [request EXCEPT ![MySale(a)][n].status = "in_flight"]
    BY <2>2 DEF Stands, IInv, TypeOK
  <2> QED
    BY <1>2, <2>1, <2>2 DEF CreateReversalRequest
<1>3. ASSUME NEW a \in Actors, RecordAnswer(a)
      PROVE  \A r \in Sales, m \in Asks : Stands(r, m)
  <2>1. PICK s \in Sales, n \in Asks : s = MySale(a) /\ n = MyAsk(a)
    BY <1>3 DEF RecordAnswer, IInv, InPlace, At, Pursuing
  <2>2. ASSUME NEW to \in Statuses, NEW wait \in Nat, RecordAttempt(s, n, "in_flight", to, wait)
        PROVE  \A r \in Sales, m \in Asks : Stands(r, m)
    <3>1. PICK from \in Unfinished : from = "in_flight"
      BY <1>1
    <3> QED
      BY <2>2, <3>1, RecordAttemptStands DEF IInv
  <2> QED
    BY <1>1, <1>3, <2>1, <2>2, Untouched DEF RecordAnswer
<1>4. ASSUME NEW a \in Actors, RetryAgreedReversalLater(a)
      PROVE  \A r \in Sales, m \in Asks : Stands(r, m)
  <2>1. PICK s \in Sales, n \in Asks : s = MySale(a) /\ n = MyAsk(a)
    BY <1>4 DEF RetryAgreedReversalLater, IInv, InPlace, At, Pursuing
  <2>2. ASSUME NEW to \in {"succeeded", "needs_attention"}, NEW wait \in Nat,
               RecordAttempt(s, n, "succeeded", to, wait)
        PROVE  \A r \in Sales, m \in Asks : Stands(r, m)
    <3>1. PICK from \in Unfinished : from = "succeeded"
      BY <1>1
    <3> QED
      BY <1>1, <2>2, <3>1, RecordAttemptStands DEF IInv
  <2> QED
    BY <1>1, <1>4, <2>1, <2>2, Untouched DEF RetryAgreedReversalLater
<1>5. ASSUME NEW a \in Actors, AgeUnaskable(a) \/ ReadLiveRequest(a)
      PROVE  \A r \in Sales, m \in Asks : Stands(r, m)
  <2>1. PICK s \in Sales, n \in Asks : s = MySale(a) /\ n = MyAsk(a)
    BY <1>5 DEF AgeUnaskable, ReadLiveRequest, IInv, InPlace, At, Pursuing
  <2>2. ASSUME NEW from \in Unfinished, RecordAttempt(s, n, from, "needs_attention", 0)
        PROVE  \A r \in Sales, m \in Asks : Stands(r, m)
    BY <2>2, HandsOver DEF IInv, Stands, Unfinished
  <2>3. At(a, "aging") => actor[a].claimed \in Unfinished
    BY DEF IInv, InPlace
  <2> QED
    BY <1>1, <1>5, <2>1, <2>2, <2>3, Untouched DEF AgeUnaskable, ReadLiveRequest
<1>6. ASSUME NEW s \in Sales, NEW n \in Asks, NEW row, row.status = request[s][n].status,
             request' = [request EXCEPT ![s][n] = row]
      PROVE  \A r \in Sales, m \in Asks : Stands(r, m)
  BY <1>6 DEF Stands, IInv, TypeOK
<1>7. ASSUME NEW a \in Actors, Claim(a) \/ MarkReversalSaleVoided(a)
                                 \/ ReleaseReversalRequestClaim(a)
      PROVE  \A r \in Sales, m \in Asks : Stands(r, m)
  <2>1. CASE Claim(a)
    <3>1. PICK s \in Sales, n \in Asks : ClaimDueReversalRequest(a, s, n)
      BY <2>1 DEF Claim
    <3>2. request[s][n] \in RequestRows
      BY RowTyped DEF IInv
    <3> QED
      BY <1>6, <3>1, <3>2 DEF ClaimDueReversalRequest, RequestRows
  <2>2. CASE ~Claim(a)
    <3>1. PICK s \in Sales, n \in Asks : s = MySale(a) /\ n = MyAsk(a)
      BY <1>7, <2>2 DEF MarkReversalSaleVoided, ReleaseReversalRequestClaim, IInv, InPlace, At,
                        Pursuing
    <3>2. request[s][n] \in RequestRows
      BY RowTyped DEF IInv
    <3>3. CASE UNCHANGED request
      BY <3>3, Untouched
    <3>4. CASE request' = [request EXCEPT ![s][n].voided = TRUE]
      BY <3>2, <3>4 DEF RequestRows, Stands, IInv, TypeOK
    <3>5. CASE request' = [request EXCEPT ![s][n] =
                             [@ EXCEPT !.wait = ContendedDelay, !.lease = NoOne]]
      BY <1>6, <3>2, <3>5 DEF RequestRows
    <3> QED
      BY <1>7, <2>2, <3>1, <3>3, <3>4, <3>5
      DEF MarkReversalSaleVoided, ReleaseReversalRequestClaim
  <2> QED
    BY <2>1, <2>2
<1>8. CASE Tick
  <2>1. \A r \in Sales, m \in Asks : request[r][m] \in RequestRows
    BY RowTyped DEF IInv
  <2> QED
    BY <1>8, <2>1 DEF Tick, Stands, RequestRows
<1>9. CASE UNCHANGED request
  BY <1>9, Untouched
<1>10. ASSUME NEW a \in Actors, Continue(a)
       PROVE  \A r \in Sales, m \in Asks : Stands(r, m)
  BY <1>2, <1>3, <1>4, <1>5, <1>7, <1>9, <1>10
  DEF Continue, Decide, Reverse, CommitSaleReversal, Unlock, TryLock, CommitOperatorReversal
<1>11. ASSUME NEW a \in Workers, Arrive(a)
       PROVE  \A r \in Sales, m \in Asks : Stands(r, m)
  BY <1>9, <1>11 DEF Arrive, Press, ReverseSaleAsOperator, ListDueReversalRequestsForCustomer
<1> QED
  BY <1>7, <1>8, <1>9, <1>10, <1>11
  DEF Next, Actors, Crash, UpgradeOut, CloseWindow, vars

\* A refusal and a case for an operator stand, and an agreed reversal is never
\* asked again, whatever a late run, page load or press still writes.
THEOREM OutcomesAreFinal == Spec => OutcomesStand
<1>1. IInv /\ [Next]_vars =>
        [\A s \in Sales, n \in Asks :
           LET from == request[s][n].status to == request[s][n].status' IN
           /\ from \in {"refused", "needs_attention"} => to = from
           /\ from = "succeeded" => to \in {"succeeded", "needs_attention"}]_vars
  BY StepStands DEF Stands
<1> QED
  BY <1>1, Invariance, PTL DEF Spec, OutcomesStand
=============================================================================
