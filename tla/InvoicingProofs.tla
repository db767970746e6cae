--------------------------- MODULE InvoicingProofs ---------------------------
(***************************************************************************)
(* Why a Sale keeps one live factura, and a factura one Credit Note,       *)
(* however the Drainer's rounds, the operator's acts and the reversal      *)
(* interleave, and why they keep the promise of SaleDocuments.             *)
(***************************************************************************)
EXTENDS Invoicing, TLAPS

----------------------------------------------------------------------------
(* The inductive invariant *)

\* An unsigned document somebody may still sign, a signed one that may still come to
\* count, and a factura that stands uncredited.
Waiting(d) == rows[d].status \in {"owed", "needs_attention"} /\ ~Signed(d)
InPlay(d) == rows[d].status \in {"pending", "needs_attention", "authorized"} /\ Signed(d)
Standing(f) == rows[f].kind = "sale" /\ InPlay(f) /\ ~CreditedByAuthorized(f)
IsNote(d) == rows[d].kind = "credit_note"
Siblings(d) == NotesAgainst(rows[d].credits) \ {d}

\* What a document refers to was signed before it was owed, and what it supersedes is
\* decided for good.
RowAgrees(d) ==
    /\ rows[d].status = "absent" => rows[d] = AbsentRow
    /\ rows[d].status \in {"owed", "withdrawn"} => ~Signed(d)
    /\ rows[d].status \in {"pending", "authorized", "annulled", "abandoned"} => Signed(d)
    /\ IsNote(d) => /\ rows[d].credits \in Docs /\ rows[d].supersedes = NoDoc
                    /\ rows[rows[d].credits].kind = "sale" /\ Signed(rows[d].credits)
    /\ rows[d].kind = "sale" => rows[d].credits = NoDoc
    /\ rows[d].supersedes # NoDoc =>
          /\ rows[rows[d].supersedes].kind = "sale"
          /\ rows[rows[d].supersedes].status \in {"authorized", "annulled", "abandoned"}

\* What the platform gave up the authority does not hold.
AuthorityAgrees(d) ==
    /\ HeldThere(d) => Signed(d)
    /\ rows[d].status = "annulled" => authority[d].state = "annulled"
    /\ rows[d].status = "abandoned" => rows[d].byNumber
    /\ rows[d].byNumber => authority[d].state = "number"

Unsigning == {"judge", "withdraw", "sign"}
Asking == {"submit", "poll", "apply", "replace"}

WorkerAgrees(w) ==
    /\ At(w, "idle") => work[w] = Idle
    /\ ~At(w, "idle") => Doc(w) \in Docs /\ rows[Doc(w)].status # "absent"
    /\ work[w].pc \in Unsigning =>
          /\ w \in Rounds /\ ~Signed(Doc(w))
          /\ work[w].from \in {"owed", "needs_attention"}
          /\ rows[Doc(w)].status \in {"owed", "needs_attention", "withdrawn"}
    /\ work[w].pc \in Asking \cup {"settle", "deliver", "mark", "due"} => Signed(Doc(w))
    /\ work[w].pc \in Asking => work[w].from \in {"pending", "needs_attention"}
    /\ work[w].pc \in {"deliver", "mark"} => rows[Doc(w)].status = "authorized"
    /\ At(w, "replace") => work[w].bytes # 0
    /\ At(w, "apply") /\ work[w].answer = "number" => authority[Doc(w)].state = "number"

\* The lease keeps a second round off an unsigned document.
LeaseHolds ==
    /\ \A w \in Rounds : work[w].pc \in Unsigning => rows[Doc(w)].next # "due"
    /\ \A w, v \in Rounds : work[w].pc \in Unsigning /\ work[v].pc \in Unsigning
                            /\ Doc(w) = Doc(v) => w = v

\* What a round judged by is still so when it signs or withdraws.
JudgedRight(w) ==
    LET d == Doc(w) IN
    /\ At(w, "sign") /\ rows[d].status # "withdrawn" /\ IsNote(d) =>
          /\ rows[rows[d].credits].status = "authorized"
          /\ \A o \in Siblings(d) : ~InPlay(o)
    /\ At(w, "sign") /\ rows[d].status # "withdrawn" /\ ~IsNote(d)
       /\ rows[d].supersedes # NoDoc =>
          \/ rows[rows[d].supersedes].status \in Dead
          \/ CreditedByAuthorized(rows[d].supersedes)
    /\ At(w, "withdraw") /\ IsNote(d) =>
          \/ rows[rows[d].credits].status \in Dead
          \/ \E o \in Siblings(d) : rows[o].status = "authorized"

\* Of the notes against one factura one may be signed, and one may wait.
NotesInOrder ==
    \A c, e \in Docs : IsNote(c) /\ IsNote(e) /\ rows[c].credits = rows[e].credits =>
        /\ InPlay(c) /\ InPlay(e) => c = e
        /\ Waiting(c) /\ Waiting(e) => c = e

\* One factura stands and one waits; while one waits only the one it supersedes may
\* stand; what was signed follows on something dead or credited.
FacturasInOrder ==
    /\ \A f, g \in Docs : Standing(f) /\ Standing(g) => f = g
    /\ \A f, g \in Docs :
          rows[f].kind = "sale" /\ rows[g].kind = "sale" /\ Waiting(f) /\ Waiting(g) => f = g
    /\ \A f, g \in Docs : Standing(f) /\ rows[g].kind = "sale" /\ Waiting(g)
                          => rows[g].supersedes = f
    /\ \A g \in Docs : Signed(g) /\ rows[g].supersedes # NoDoc =>
          \/ rows[rows[g].supersedes].status \in Dead
          \/ CreditedByAuthorized(rows[g].supersedes)
    /\ \A g, d \in Docs : rows[g].kind = "sale" /\ rows[g].supersedes = NoDoc /\ Waiting(g)
                          /\ d # g => rows[d].status = "absent"

IInv ==
    /\ TypeOK
    /\ \A d \in Docs : RowAgrees(d) /\ AuthorityAgrees(d)
    /\ \A w \in Workers : WorkerAgrees(w) /\ JudgedRight(w)
    /\ LeaseHolds /\ NotesInOrder /\ FacturasInOrder
    /\ NotesCreditAuthorized /\ ReversedSaleIsUndone

----------------------------------------------------------------------------
(* Steps that owe nothing new and sign nothing *)

\* What a row was created as it keeps, and a decided row keeps its decision.
Keeps(d) ==
    /\ rows[d].status # "absent" =>
          /\ rows'[d].kind = rows[d].kind /\ rows'[d].credits = rows[d].credits
          /\ rows'[d].supersedes = rows[d].supersedes /\ rows'[d].status # "absent"
    /\ Signed(d)' <=> Signed(d)
    /\ rows[d].status \in Dead \cup {"authorized"} => rows'[d].status = rows[d].status
    /\ rows[d].status \in {"pending", "needs_attention"} /\ Signed(d)
          => rows'[d].status \in {"pending", "needs_attention", "authorized", "annulled", "abandoned"}
    /\ rows[d].status \in {"owed", "needs_attention"} /\ ~Signed(d)
          => rows'[d].status \in {"owed", "needs_attention", "withdrawn"}

\* Nothing is owed anew, and a note is withdrawn only once it is of no use.
Moves(d) ==
    /\ Keeps(d)
    /\ rows[d].status = "absent" => rows'[d] = rows[d]
    /\ IsNote(d) /\ rows[d].status # "withdrawn" /\ rows'[d].status = "withdrawn" =>
          \/ rows[rows[d].credits].status \in Dead
          \/ \E o \in Siblings(d) : rows[o].status = "authorized"

\* The authority forgets no annulment and no refusal by number, and the row records
\* neither before it.
Heeds(d) ==
    /\ authority[d].state \in {"annulled", "number"} => authority'[d].state = authority[d].state
    /\ HeldThere(d)' => HeldThere(d) \/ Signed(d)
    /\ rows'[d].status = "annulled" => rows[d].status = "annulled" \/ authority[d].state = "annulled"
    /\ rows'[d].status = "abandoned" => rows'[d].byNumber
    /\ rows'[d].byNumber => rows[d].byNumber \/ authority[d].state = "number"

\* An unsigned document under lease comes due to nobody.
Queues(d) ==
    rows'[d].next = "due" /\ ~Signed(d) =>
        rows[d].next = "due" \/ \A w \in Rounds : work'[w].pc \in Unsigning => Doc(w)' # d

\* A worker goes on, judges on what it sees, or takes a document nobody is at.
Works(w) ==
    \/ work'[w] = work[w]
    \/ /\ WorkerAgrees(w)' /\ JudgedRight(w)'
       /\ work'[w].pc \in Unsigning =>
             \/ work[w].pc \in Unsigning /\ Doc(w)' = Doc(w)
             \/ /\ rows'[Doc(w)'].next # "due"
                /\ \A v \in Rounds : v # w /\ work'[v].pc \in Unsigning => Doc(v)' # Doc(w)'

LEMMA WhatIsDecided ==
    /\ "absent" \notin Dead /\ "owed" \notin Dead /\ "pending" \notin Dead
    /\ "needs_attention" \notin Dead /\ "authorized" \notin Dead
    /\ Dead = {"withdrawn", "annulled", "abandoned"}
    /\ Undecided = {"owed", "pending", "needs_attention"}
    /\ Statuses = {"absent", "authorized", "owed", "pending", "needs_attention",
                   "withdrawn", "annulled", "abandoned"}
  BY DEF Dead, Undecided, Statuses

LEMMA RowFields ==
    ASSUME TypeOK, NEW d \in Docs
    PROVE  /\ rows[d] \in Row /\ rows[d].kind \in {"sale", "credit_note"}
           /\ rows[d].status \in Statuses /\ rows[d].file \in Nat
           /\ rows[d].credits \in Docs \cup {NoDoc} /\ rows[d].supersedes \in Docs \cup {NoDoc}
           /\ rows[d].status = "absent" /\ RowAgrees(d) => ~Signed(d)
  BY BoundsAssumption DEF TypeOK, Row, RowAgrees, AbsentRow, Signed

\* Nobody else's document is disturbed by a step that keeps every row.
LEMMA KeptOrder ==
    ASSUME TypeOK, \A d \in Docs : RowAgrees(d) /\ Keeps(d)
    PROVE  /\ \A d \in Docs : InPlay(d)' => InPlay(d)
           /\ \A f \in Docs : CreditedByAuthorized(f) => CreditedByAuthorized(f)'
           /\ \A d \in Docs : rows[d].status # "absent" =>
                 /\ Siblings(d) \subseteq Siblings(d)'
                 /\ \A o \in Siblings(d)' : InPlay(o)' => o \in Siblings(d) /\ InPlay(o)
  <1>1. ASSUME NEW d \in Docs, InPlay(d)' PROVE InPlay(d)
    <2>1. rows[d].status \in Statuses /\ (rows[d].status = "absent" => ~Signed(d)) /\ Signed(d)
      BY <1>1, RowFields DEF InPlay, Keeps
    <2>2. rows[d].status \notin {"owed", "withdrawn", "annulled", "abandoned", "absent"}
      BY <1>1, <2>1, WhatIsDecided DEF InPlay, Keeps, RowAgrees
    <2>. QED
      BY <2>1, <2>2, WhatIsDecided DEF InPlay
  <1>2. \A f \in Docs : CreditedByAuthorized(f) => CreditedByAuthorized(f)'
    BY DEF CreditedByAuthorized, NotesAgainst, Keeps
  <1>3. ASSUME NEW d \in Docs, rows[d].status # "absent"
        PROVE  Siblings(d) \subseteq Siblings(d)'
    BY <1>3 DEF Siblings, NotesAgainst, Keeps
  <1>4. ASSUME NEW d \in Docs, rows[d].status # "absent", NEW o \in Siblings(d)', InPlay(o)'
        PROVE  o \in Siblings(d) /\ InPlay(o)
    <2>1. o \in Docs /\ InPlay(o) /\ rows[o].status # "absent"
      BY <1>1, <1>4 DEF Siblings, NotesAgainst, InPlay
    <2>. QED
      BY <1>4, <2>1 DEF Siblings, NotesAgainst, Keeps
  <1>. QED
    BY <1>1, <1>2, <1>3, <1>4

\* What the workers and the authority rely on outlives such a step.
LEMMA WorkersGoOn ==
    ASSUME TypeOK, \A d \in Docs : RowAgrees(d) /\ AuthorityAgrees(d),
           \A w \in Workers : WorkerAgrees(w) /\ JudgedRight(w), LeaseHolds,
           \A d \in Docs : Keeps(d) /\ Heeds(d) /\ Queues(d),
           \A w \in Workers : Works(w)
    PROVE  /\ \A d \in Docs : AuthorityAgrees(d)'
           /\ \A w \in Workers : WorkerAgrees(w)' /\ JudgedRight(w)'
           /\ LeaseHolds'
  <1>1. ASSUME NEW d \in Docs PROVE AuthorityAgrees(d)'
    BY DEF AuthorityAgrees, Heeds, Keeps, Dead, HeldThere
  <1>2. ASSUME NEW w \in Workers, work'[w] = work[w] PROVE WorkerAgrees(w)'
    <2>1. /\ Doc(w)' = Doc(w) /\ work'[w].pc = work[w].pc /\ work'[w].from = work[w].from
          /\ work'[w].answer = work[w].answer /\ work'[w].bytes = work[w].bytes
      BY <1>2 DEF Doc
    <2>2. CASE work[w].pc = "idle"
      BY <1>2, <2>1, <2>2 DEF WorkerAgrees, At, Unsigning, Asking
    <2>3. CASE work[w].pc # "idle"
      <3>1. Doc(w) \in Docs /\ rows[Doc(w)].status # "absent"
        BY <2>3 DEF WorkerAgrees, At
      <3>2. rows'[Doc(w)].status # "absent"
        BY <3>1 DEF Keeps
      <3>3. work[w].pc \in Unsigning =>
              /\ w \in Rounds /\ ~Signed(Doc(w))'
              /\ work[w].from \in {"owed", "needs_attention"}
              /\ rows'[Doc(w)].status \in {"owed", "needs_attention", "withdrawn"}
        BY <2>1, <3>1 DEF WorkerAgrees, Keeps, Dead, Signed
      <3>4. /\ Signed(Doc(w)) => Signed(Doc(w))'
            /\ rows[Doc(w)].status = "authorized" => rows'[Doc(w)].status = "authorized"
            /\ authority[Doc(w)].state = "number" => authority'[Doc(w)].state = "number"
        BY <2>1, <3>1 DEF Keeps, Heeds, Dead, Signed
      <3>. QED
        BY <1>2, <2>1, <2>3, <3>1, <3>2, <3>3, <3>4 DEF WorkerAgrees, At, Signed
    <2>. QED
      BY <2>2, <2>3
  <1>3. ASSUME NEW w \in Workers, work'[w] = work[w] PROVE JudgedRight(w)'
    <2>1. CASE work[w].pc \notin {"sign", "withdraw"}
      BY <1>3, <2>1 DEF JudgedRight, At
    <2>2. CASE work[w].pc \in {"sign", "withdraw"}
      <3>. DEFINE d == Doc(w)
      <3>1. Doc(w)' = d /\ d \in Docs /\ rows[d].status # "absent"
            /\ (rows'[d].status # "withdrawn" => rows[d].status # "withdrawn")
        BY <1>3, <2>2 DEF Doc, WorkerAgrees, At, Keeps, Dead
      <3>2. /\ rows'[d].kind = rows[d].kind /\ rows'[d].credits = rows[d].credits
            /\ rows'[d].supersedes = rows[d].supersedes
        BY <3>1 DEF Keeps
      <3>3. IsNote(d) => rows[d].credits \in Docs
        BY <3>1 DEF RowAgrees
      <3>4. rows[d].supersedes # NoDoc => rows[d].supersedes \in Docs
        BY <3>1, RowFields
      <3>5. CASE At(w, "sign") /\ IsNote(d)
        <4>1. rows'[d].status # "withdrawn" =>
                 /\ rows'[rows[d].credits].status = "authorized"
                 /\ \A o \in Siblings(d)' : ~InPlay(o)'
          BY <3>1, <3>3, <3>5, KeptOrder DEF JudgedRight, Keeps
        <4>. QED
          BY <1>3, <3>1, <3>2, <3>5, <4>1 DEF JudgedRight, At, IsNote
      <3>6. CASE At(w, "sign") /\ ~IsNote(d)
        <4>1. rows'[d].status # "withdrawn" /\ rows[d].supersedes # NoDoc =>
                 \/ rows'[rows[d].supersedes].status \in Dead
                 \/ CreditedByAuthorized(rows[d].supersedes)'
          BY <3>1, <3>4, <3>6, KeptOrder DEF JudgedRight, Keeps
        <4>. QED
          BY <1>3, <3>1, <3>2, <3>6, <4>1 DEF JudgedRight, At, IsNote, CreditedByAuthorized,
             NotesAgainst
      <3>7. CASE At(w, "withdraw")
        <4>1. IsNote(d) => \/ rows'[rows[d].credits].status \in Dead
                           \/ \E o \in Siblings(d)' : rows'[o].status = "authorized"
          BY <3>1, <3>3, <3>7, KeptOrder DEF JudgedRight, Keeps, Siblings, NotesAgainst
        <4>. QED
          BY <1>3, <3>1, <3>2, <3>7, <4>1 DEF JudgedRight, At, IsNote
      <3>. QED
        BY <2>2, <3>5, <3>6, <3>7 DEF At
    <2>. QED
      BY <2>1, <2>2
  <1>4. ASSUME NEW w \in Workers, work'[w].pc \in Unsigning
        PROVE  \/ work[w].pc \in Unsigning /\ Doc(w)' = Doc(w)
               \/ /\ rows'[Doc(w)'].next # "due"
                  /\ \A v \in Rounds : v # w /\ work'[v].pc \in Unsigning => Doc(v)' # Doc(w)'
    BY <1>4 DEF Works, Doc
  <1>5. LeaseHolds'
    <2>1. ASSUME NEW w \in Rounds, work'[w].pc \in Unsigning PROVE rows'[Doc(w)'].next # "due"
      <3>1. CASE work[w].pc \in Unsigning /\ Doc(w)' = Doc(w)
        <4>1. Doc(w) \in Docs /\ ~Signed(Doc(w)) /\ rows[Doc(w)].next # "due"
          BY <3>1 DEF Workers, WorkerAgrees, Unsigning, At, LeaseHolds
        <4>. QED
          BY <2>1, <3>1, <4>1 DEF Queues
      <3>. QED
        BY <1>4, <2>1, <3>1 DEF Workers
    <2>2. ASSUME NEW w \in Rounds, NEW v \in Rounds, work'[w].pc \in Unsigning,
                 work'[v].pc \in Unsigning, Doc(w)' = Doc(v)'
          PROVE  w = v
      BY <1>4, <2>2 DEF Workers, LeaseHolds
    <2>. QED
      BY <2>1, <2>2 DEF LeaseHolds
  <1>. QED
    BY <1>1, <1>2, <1>3, <1>5 DEF Works

LEMMA InvParts ==
    ASSUME IInv
    PROVE  /\ TypeOK /\ \A d \in Docs : RowAgrees(d) /\ AuthorityAgrees(d)
           /\ \A w \in Workers : WorkerAgrees(w) /\ JudgedRight(w)
           /\ LeaseHolds /\ NotesInOrder /\ FacturasInOrder
           /\ NotesCreditAuthorized /\ ReversedSaleIsUndone
  BY DEF IInv

\* What the documents owe one another outlives a step that moves them on.
LEMMA OrderHolds ==
    ASSUME IInv, TypeOK', \A d \in Docs : Moves(d), sale' = sale
    PROVE  /\ \A d \in Docs : RowAgrees(d)'
           /\ NotesInOrder' /\ FacturasInOrder'
           /\ NotesCreditAuthorized' /\ ReversedSaleIsUndone'
  <1>. USE InvParts
  <1>1. ASSUME NEW d \in Docs
        PROVE  /\ rows'[d].kind = rows[d].kind /\ rows'[d].credits = rows[d].credits
               /\ rows'[d].supersedes = rows[d].supersedes /\ (Signed(d)' <=> Signed(d))
               /\ rows'[d].status = "absent" <=> rows[d].status = "absent"
               /\ rows[d].status \in Dead \cup {"authorized"} => rows'[d].status = rows[d].status
    BY DEF Moves, Keeps
  <1>2. ASSUME NEW f \in Docs
        PROVE  NotesAgainst(f)' = NotesAgainst(f)
    BY <1>1 DEF NotesAgainst
  <1>3. ASSUME NEW d \in Docs, Waiting(d)' PROVE Waiting(d)
    <2>1. rows[d].status \in Statuses /\ ~Signed(d)
      BY <1>1, <1>3, RowFields DEF Waiting
    <2>2. rows[d].status \notin {"absent", "pending", "authorized", "withdrawn", "annulled",
                                 "abandoned"}
      BY <1>1, <1>3, <2>1, WhatIsDecided DEF Waiting, RowAgrees
    <2>. QED
      BY <2>1, <2>2, WhatIsDecided DEF Waiting
  <1>4. /\ \A d \in Docs : InPlay(d)' => InPlay(d)
        /\ \A f \in Docs : CreditedByAuthorized(f) => CreditedByAuthorized(f)'
    BY KeptOrder DEF Moves
  <1>5. ASSUME NEW f \in Docs, Standing(f)' PROVE Standing(f)
    BY <1>1, <1>4, <1>5 DEF Standing
  <1>6. ASSUME NEW d \in Docs PROVE RowAgrees(d)'
    <2>1. rows[d].credits \in Docs \cup {NoDoc} /\ rows[d].supersedes \in Docs \cup {NoDoc}
          /\ rows[d].status \in Statuses /\ rows'[d].status \in Statuses
          /\ rows[d].kind \in {"sale", "credit_note"}
      BY RowFields DEF TypeOK, Row
    <2>2. rows'[d].status = "absent" => rows'[d] = AbsentRow
      BY <1>1 DEF RowAgrees, Moves
    <2>3. /\ rows'[d].status \in {"owed", "withdrawn"} => ~Signed(d)'
          /\ rows'[d].status \in {"pending", "authorized", "annulled", "abandoned"} => Signed(d)'
      BY <1>1, <2>1, WhatIsDecided DEF RowAgrees, Moves, Keeps
    <2>4. IsNote(d)' => /\ rows'[d].credits \in Docs /\ rows'[d].supersedes = NoDoc
                        /\ rows'[rows'[d].credits].kind = "sale" /\ Signed(rows[d].credits)'
      BY <1>1 DEF RowAgrees, IsNote, Signed
    <2>5. rows'[d].supersedes # NoDoc =>
             /\ rows'[rows'[d].supersedes].kind = "sale"
             /\ rows'[rows'[d].supersedes].status \in {"authorized", "annulled", "abandoned"}
      BY <1>1, <2>1, WhatIsDecided DEF RowAgrees
    <2>. QED
      BY <1>1, <2>2, <2>3, <2>4, <2>5 DEF RowAgrees, IsNote, Signed
  <1>7. NotesInOrder'
    BY <1>1, <1>3, <1>4 DEF NotesInOrder, IsNote
  <1>8. FacturasInOrder'
    <2>1. \A f, g \in Docs : Standing(f)' /\ Standing(g)' => f = g
      BY <1>5 DEF FacturasInOrder
    <2>2. \A f, g \in Docs :
             rows'[f].kind = "sale" /\ rows'[g].kind = "sale" /\ Waiting(f)' /\ Waiting(g)' => f = g
      BY <1>1, <1>3 DEF FacturasInOrder
    <2>3. \A f, g \in Docs : Standing(f)' /\ rows'[g].kind = "sale" /\ Waiting(g)'
                             => rows'[g].supersedes = f
      BY <1>1, <1>3, <1>5 DEF FacturasInOrder
    <2>4. ASSUME NEW g \in Docs, Signed(g)', rows'[g].supersedes # NoDoc
          PROVE  \/ rows'[rows'[g].supersedes].status \in Dead
                 \/ CreditedByAuthorized(rows[g].supersedes)'
      <3>1. rows'[g].supersedes = rows[g].supersedes /\ rows[g].supersedes \in Docs /\ Signed(g)
        BY <1>1, <2>4, RowFields
      <3>. QED
        BY <1>1, <1>4, <2>4, <3>1 DEF FacturasInOrder
    <2>5. \A g, d \in Docs : rows'[g].kind = "sale" /\ rows'[g].supersedes = NoDoc /\ Waiting(g)'
                             /\ d # g => rows'[d].status = "absent"
      BY <1>1, <1>3 DEF FacturasInOrder
    <2>. QED
      BY <1>1, <2>1, <2>2, <2>3, <2>4, <2>5
         DEF FacturasInOrder, CreditedByAuthorized, NotesAgainst
  <1>9. NotesCreditAuthorized'
    <2>1. ASSUME NEW f \in Docs, NEW c \in NotesAgainst(f)', Signed(c)'
          PROVE  rows'[f].status = "authorized"
      <3>1. c \in NotesAgainst(f) /\ c \in Docs /\ Signed(c)
        BY <1>1, <1>2, <2>1 DEF NotesAgainst
      <3>. QED
        BY <1>1, <3>1 DEF NotesCreditAuthorized
    <2>. QED
      BY <2>1 DEF NotesCreditAuthorized
  <1>10. ReversedSaleIsUndone'
    <2>1. SUFFICES ASSUME sale = "reversed", NEW f \in Docs, rows'[f].kind = "sale",
                          rows'[f].status \notin Dead \cup {"absent"}
                   PROVE  Signed(f)' /\ \E c \in NotesAgainst(f)' : rows'[c].status # "withdrawn"
      BY DEF ReversedSaleIsUndone
    <2>2. rows[f].kind = "sale" /\ rows[f].status \notin Dead \cup {"absent"}
      BY <1>1, <2>1
    <2>3. PICK c \in NotesAgainst(f) : rows[c].status # "withdrawn"
      BY <2>1, <2>2 DEF ReversedSaleIsUndone
    <2>4. CASE rows'[c].status = "withdrawn"
      <3>1. c \in Docs /\ IsNote(c) /\ rows[c].credits = f
        BY <2>3 DEF NotesAgainst, IsNote
      <3>2. \E o \in Siblings(c) : rows[o].status = "authorized"
        BY <2>2, <2>3, <2>4, <3>1 DEF Moves
      <3>3. PICK o \in NotesAgainst(f) : rows[o].status = "authorized"
        BY <3>1, <3>2 DEF Siblings
      <3>4. rows'[o].status = "authorized"
        BY <1>1, <3>3 DEF NotesAgainst
      <3>. QED
        BY <1>1, <1>2, <2>1, <2>2, <3>3, <3>4 DEF ReversedSaleIsUndone
    <2>. QED
      BY <1>1, <1>2, <2>1, <2>2, <2>3, <2>4 DEF ReversedSaleIsUndone
  <1>. QED
    BY <1>6, <1>7, <1>8, <1>9, <1>10

\* A dead document is not resurrected by the step.
DeadKept == \A d \in Docs : rows[d].status \in Dead => rows'[d].status = rows[d].status

LEMMA MovedOn ==
    ASSUME IInv, TypeOK', sale' = sale,
           \A d \in Docs : Moves(d) /\ Heeds(d) /\ Queues(d),
           \A w \in Workers : Works(w)
    PROVE  IInv' /\ DeadKept
  <1>1. /\ \A d \in Docs : AuthorityAgrees(d)'
        /\ \A w \in Workers : WorkerAgrees(w)' /\ JudgedRight(w)'
        /\ LeaseHolds'
    BY InvParts, WorkersGoOn DEF Moves
  <1>. QED
    BY <1>1, OrderHolds DEF IInv, DeadKept, Moves, Keeps

----------------------------------------------------------------------------
(* Types *)

LEMMA BytesOfAny == 0 \in 0..MaxBytes /\ 1 \in 0..MaxBytes
  BY BoundsAssumption

\* The rows the code writes.
LEMMA RowsWritten ==
    /\ AbsentRow \in Row
    /\ \A old \in Docs \cup {NoDoc} : OwedSale(old) \in Row
    /\ \A f \in Docs : OwedNote(f) \in Row
    /\ \A row \in Row, aged \in BOOLEAN : UndecidedRow(row, aged) \in Row
  <1>1. /\ AbsentRow \in Row
        /\ \A old \in Docs \cup {NoDoc} : OwedSale(old) \in Row
        /\ \A f \in Docs : OwedNote(f) \in Row
    BY BytesOfAny, WhatIsDecided DEF Row, AbsentRow, OwedSale, OwedNote, Attempts
  <1>2. ASSUME NEW row \in Row, NEW aged \in BOOLEAN PROVE UndecidedRow(row, aged) \in Row
    <2>1. CASE aged
      BY <2>1, WhatIsDecided DEF Row, UndecidedRow
    <2>2. CASE ~aged
      BY <2>2, WhatIsDecided DEF Row, UndecidedRow
    <2>. QED
      BY <2>1, <2>2
  <1>. QED
    BY <1>1, <1>2

LEMMA OutcomeWritten ==
    ASSUME NEW row \in Row, NEW aged \in BOOLEAN, NEW answer \in Answers
    PROVE  /\ OutcomeRow(row, answer, aged) \in Row
           /\ OutcomeRow(row, answer, aged).status \in {"pending", "needs_attention", "authorized"}
           /\ OutcomeRow(row, answer, aged).status = "authorized" <=> answer = "authorized"
           /\ OutcomeRow(row, answer, aged).byNumber <=> answer = "number"
           /\ OutcomeRow(row, answer, aged).kind = row.kind
           /\ OutcomeRow(row, answer, aged).credits = row.credits
           /\ OutcomeRow(row, answer, aged).supersedes = row.supersedes
           /\ OutcomeRow(row, answer, aged).file = row.file
           /\ OutcomeRow(row, answer, aged).next = "due" => row.next = "due"
  <1>1. CASE answer = "authorized"
    BY <1>1, WhatIsDecided DEF OutcomeRow, Row
  <1>2. CASE answer \in {"refused", "number"}
    BY <1>2, WhatIsDecided DEF OutcomeRow, Row
  <1>3. CASE answer \notin {"authorized", "refused", "number"}
    BY <1>3, WhatIsDecided DEF OutcomeRow, UndecidedRow, Row
  <1>. QED
    BY <1>1, <1>2, <1>3

Record == [state: AuthorityStates, bytes: 0..MaxBytes]

\* What recepcion answers, and what it makes of the record.
LEMMA SubmitAnswered ==
    ASSUME NEW d \in Docs, authority[d] \in Record, NEW bytes \in 0..MaxBytes,
           NEW a \in SubmitAnswers(d, bytes)
    PROVE  /\ a[1] \in Answers /\ a[2] \in Record
           /\ authority[d].state \in {"annulled", "number"} => a[2].state = authority[d].state
           /\ a[1] = "number" => a[2].state = "number"
  <1>1. CASE authority[d].state \in {"none", "denied"}
    BY <1>1, BytesOfAny DEF SubmitAnswers, Answers, Record, AuthorityStates
  <1>2. CASE authority[d].state = "number"
    BY <1>2, BytesOfAny DEF SubmitAnswers, Answers, Record, AuthorityStates
  <1>3. CASE authority[d].state \notin {"none", "denied", "number"}
    BY <1>3, BytesOfAny DEF SubmitAnswers, Answers, Record, AuthorityStates
  <1>. QED
    BY <1>1, <1>2, <1>3

LEMMA QueryAnswered ==
    ASSUME NEW d \in Docs
    PROVE  QueryAnswer(d) \in {"unknown", "received", "authorized", "refused", "error"}
  BY DEF QueryAnswer

LEMMA RestIsAWorker == Idle \in Worker /\ Idle.pc = "idle"
  BY BytesOfAny, WhatIsDecided DEF Idle, Worker, Steps, Answers

\* A worker that is not idle has a document.
LEMMA WorkerFields ==
    ASSUME IInv, NEW w \in Workers
    PROVE  /\ work[w] \in Worker /\ work[w].from \in Statuses /\ work[w].bytes \in 0..MaxBytes
           /\ work[w].answer \in Answers /\ work[w].pc \in Steps
           /\ ~At(w, "idle") => Doc(w) \in Docs /\ rows[Doc(w)].status # "absent"
           /\ Wraps(w) \in {"settle", "due"}
  BY InvParts DEF TypeOK, Worker, WorkerAgrees, Wraps

\* One document written, and one worker at most.
LEMMA WrittenTyped ==
    ASSUME TypeOK, NEW d \in Docs, NEW row \in Row, NEW w \in Workers, NEW call \in Worker,
           rows' = [rows EXCEPT ![d] = row] \/ rows' = rows,
           work' = [work EXCEPT ![w] = call] \/ work' = work,
           sale' \in {"committed", "reversed"}, authority' \in [Docs -> Record],
           resends' \in 0..MaxResends, mails' \in [Docs -> Nat], hitches' \in 0..MaxHitches
    PROVE  TypeOK'
  <1>1. rows' \in [Docs -> Row] /\ work' \in [Workers -> Worker]
    BY DEF TypeOK
  <1>. QED
    BY <1>1 DEF TypeOK, Record

LEMMA HitchTyped ==
    ASSUME TypeOK
    PROVE  /\ Hitch => hitches' \in 0..MaxHitches
           /\ UNCHANGED hitches => hitches' \in 0..MaxHitches
           /\ \A d, aged : Ageing(d, aged) => hitches' \in 0..MaxHitches
  BY BoundsAssumption DEF TypeOK, Hitch, Ageing

----------------------------------------------------------------------------
(* A step that writes one document *)

\* A round judged that the document is to be withdrawn.
Judged(d) == \E w \in Workers : At(w, "withdraw") /\ Doc(w) = d

\* The row a writer files is the one it read, moved on.
Advances(d, row) ==
    /\ row \in Row /\ rows[d].status # "absent"
    /\ row.kind = rows[d].kind /\ row.credits = rows[d].credits
    /\ row.supersedes = rows[d].supersedes /\ (row.file # 0 <=> Signed(d))
    /\ \/ row.status = rows[d].status
       \/ /\ Signed(d) /\ rows[d].status \in {"pending", "needs_attention"}
          /\ row.status \in {"pending", "needs_attention", "authorized", "annulled", "abandoned"}
       \/ /\ ~Signed(d) /\ rows[d].status \in {"owed", "needs_attention"}
          /\ row.status \in {"owed", "needs_attention", "withdrawn"}
    /\ IsNote(d) /\ rows[d].status # "withdrawn" /\ row.status = "withdrawn" =>
          \/ rows[rows[d].credits].status \in Dead
          \/ \E o \in Siblings(d) : rows[o].status = "authorized"
    /\ row.status = "annulled" => rows[d].status = "annulled" \/ authority[d].state = "annulled"
    /\ row.status = "abandoned" => row.byNumber
    /\ row.byNumber => rows[d].byNumber \/ authority[d].state = "number"
    /\ row.next = "due" => rows[d].next = "due" \/ Signed(d)
    /\ row.status = "withdrawn" => rows[d].status = "withdrawn" \/ Judged(d)

\* The authority's record of it, after an answer or a verdict.
Recorded(d, record) ==
    /\ authority[d].state \in {"annulled", "number"} => record.state = authority[d].state
    /\ record = authority[d] \/ Signed(d)

\* The worker ends, or goes on with a signed document.
Serves(d, row, record, call) ==
    \/ call = Idle
    \/ /\ call.doc = d /\ row.file # 0
       /\ call.pc \in Asking \cup {"settle", "deliver", "mark", "due"}
       /\ call.pc \in Asking => call.from \in {"pending", "needs_attention"}
       /\ call.pc \in {"deliver", "mark"} => row.status = "authorized"
       /\ call.pc = "replace" => call.bytes # 0
       /\ call.pc = "apply" /\ call.answer = "number" => record.state = "number"

\* One document moves on, withdrawn only where it was judged so.
OneMovesOn ==
    /\ sale' = sale
    /\ \E d \in Docs :
          /\ \A e \in Docs : Moves(e) /\ (e # d => rows'[e] = rows[e])
          /\ rows'[d].status = "withdrawn" => rows[d].status = "withdrawn" \/ Judged(d)

\* The document it writes moves on, and no other document moves.
LEMMA OneMoves ==
    ASSUME IInv, NEW d \in Docs, NEW row, NEW record \in Record,
           Advances(d, row), Recorded(d, record),
           rows' = [rows EXCEPT ![d] = row], authority' = [authority EXCEPT ![d] = record]
    PROVE  /\ rows' \in [Docs -> Row] /\ rows'[d] = row
           /\ authority' \in [Docs -> Record] /\ authority'[d] = record
           /\ \A e \in Docs : Moves(e) /\ Heeds(e) /\ Queues(e)
  <1>. USE InvParts
  <1>1. /\ rows' \in [Docs -> Row] /\ rows'[d] = row
        /\ \A e \in Docs : e # d => rows'[e] = rows[e]
    BY DEF TypeOK, Advances
  <1>2. /\ authority' \in [Docs -> Record] /\ authority'[d] = record
        /\ \A e \in Docs : e # d => authority'[e] = authority[e]
    BY DEF TypeOK, Record
  <1>3. ASSUME NEW e \in Docs PROVE Moves(e)
    <2>1. CASE e = d
      <3>1. row.status # "absent"
        BY DEF Advances
      <3>2. rows[d].status \notin {"owed", "pending", "needs_attention"} => row.status = rows[d].status
        BY DEF Advances
      <3>3. rows[d].status = "owed" => ~Signed(d)
        BY DEF RowAgrees
      <3>4. Signed(d)' <=> Signed(d)
        BY <1>1 DEF Advances, Signed
      <3>5. Keeps(d)
        BY <1>1, <3>1, <3>2, <3>3, <3>4, WhatIsDecided DEF Keeps, Advances, RowAgrees
      <3>. QED
        BY <1>1, <2>1, <3>5 DEF Moves, Advances
    <2>2. CASE e # d
      BY <1>1, <2>2, WhatIsDecided DEF Moves, Keeps, Signed
    <2>. QED
      BY <2>1, <2>2
  <1>4. ASSUME NEW e \in Docs PROVE Heeds(e)
    <2>1. CASE e = d
      BY <1>1, <1>2, <2>1 DEF Heeds, Advances, Recorded, HeldThere
    <2>2. CASE e # d
      BY <1>1, <1>2, <2>2 DEF Heeds, HeldThere, AuthorityAgrees
    <2>. QED
      BY <2>1, <2>2
  <1>5. ASSUME NEW e \in Docs PROVE Queues(e)
    BY <1>1 DEF Queues, Advances
  <1>. QED
    BY <1>1, <1>2, <1>3, <1>4, <1>5

LEMMA OneWrites ==
    ASSUME IInv, NEW d \in Docs, NEW row, NEW record \in Record,
           Advances(d, row), Recorded(d, record),
           rows' = [rows EXCEPT ![d] = row], authority' = [authority EXCEPT ![d] = record],
           \/ work' = work
           \/ \E w \in Workers, call \in Worker :
                 work' = [work EXCEPT ![w] = call] /\ Serves(d, row, record, call),
           sale' = sale, resends' \in 0..MaxResends, mails' \in [Docs -> Nat],
           hitches' \in 0..MaxHitches
    PROVE  IInv' /\ DeadKept /\ OneMovesOn
  <1>. USE InvParts
  <1>1. /\ rows' \in [Docs -> Row] /\ rows'[d] = row
        /\ authority' \in [Docs -> Record] /\ authority'[d] = record
        /\ \A e \in Docs : Moves(e) /\ Heeds(e) /\ Queues(e)
    BY OneMoves
  <1>2. TypeOK'
    <2>1. work' \in [Workers -> Worker]
      BY DEF TypeOK
    <2>. QED
      BY <1>1, <2>1 DEF TypeOK, Record
  <1>3. ASSUME NEW w \in Workers PROVE Works(w)
    <2>1. CASE work' = work
      BY <2>1 DEF Works
    <2>2. ASSUME NEW v \in Workers, NEW call \in Worker, work' = [work EXCEPT ![v] = call],
                 Serves(d, row, record, call)
          PROVE  Works(w)
      <3>1. CASE w # v
        BY <2>2, <3>1 DEF Works, TypeOK
      <3>2. CASE w = v /\ call = Idle
        <4>1. work'[w] = Idle /\ Idle.pc = "idle"
          BY <2>2, <3>2, RestIsAWorker DEF TypeOK
        <4>. QED
          BY <4>1 DEF Works, WorkerAgrees, JudgedRight, At, Unsigning, Asking
      <3>3. CASE w = v /\ call # Idle
        <4>1. work'[w] = call /\ Doc(w)' = d
          BY <2>2, <3>3 DEF TypeOK, Doc, Serves
        <4>2. call.pc \notin Unsigning \cup {"idle"}
          BY <2>2, <3>3 DEF Serves, Unsigning, Asking
        <4>3. JudgedRight(w)'
          BY <4>1, <4>2 DEF JudgedRight, At, Unsigning
        <4>4. rows'[d].status # "absent"
          BY <1>1 DEF Advances
        <4>5. WorkerAgrees(w)'
          BY <1>1, <2>2, <3>3, <4>1, <4>2, <4>4 DEF WorkerAgrees, Serves, At, Signed
        <4>. QED
          BY <4>1, <4>2, <4>3, <4>5 DEF Works
      <3>. QED
        BY <3>1, <3>2, <3>3
    <2>. QED
      BY <2>1, <2>2
  <1>4. OneMovesOn
    <2>1. \A e \in Docs : e # d => rows'[e] = rows[e]
      BY DEF TypeOK
    <2>. QED
      BY <1>1, <2>1 DEF OneMovesOn, Advances
  <1>. QED
    BY <1>1, <1>2, <1>3, <1>4, MovedOn

LEMMA RowStays ==
    ASSUME IInv, NEW d \in Docs, rows[d].status # "absent"
    PROVE  /\ Advances(d, rows[d]) /\ [rows EXCEPT ![d] = rows[d]] = rows
           /\ Recorded(d, authority[d]) /\ authority[d] \in Record
           /\ [authority EXCEPT ![d] = authority[d]] = authority
  BY InvParts DEF TypeOK, Advances, Recorded, Record, AuthorityAgrees, Signed

\* The ledger's own columns are no part of what a document owes another.
LEMMA Attempted ==
    ASSUME IInv, NEW d \in Docs, rows[d].status # "absent", NEW a \in Attempts
    PROVE  \E row : /\ RecordAttempt(d, a) = [rows EXCEPT ![d] = row] /\ Advances(d, row)
                    /\ row.file = rows[d].file
  <1>. DEFINE row == [rows[d] EXCEPT !.last = a, !.acked = @ \/ a = "sent"]
  <1>1. rows \in [Docs -> Row] /\ rows[d] \in Row
    BY InvParts DEF TypeOK
  <1>2. RecordAttempt(d, a) = [rows EXCEPT ![d] = row]
    BY <1>1 DEF RecordAttempt
  <1>3. /\ row.kind = rows[d].kind /\ row.credits = rows[d].credits
        /\ row.supersedes = rows[d].supersedes /\ row.status = rows[d].status
        /\ row.file = rows[d].file /\ row.next = rows[d].next
        /\ row.byNumber = rows[d].byNumber
    BY <1>1 DEF Row
  <1>4. row \in Row
    BY <1>1 DEF Row
  <1>5. Advances(d, row)
    <2>. HIDE DEF row
    <2>. QED
      BY <1>3, <1>4, RowStays DEF Advances
  <1>. QED
    BY <1>2, <1>3, <1>5

\* The same with the authority left alone.
LEMMA OneFiles ==
    ASSUME IInv, NEW d \in Docs, NEW row, Advances(d, row), rows' = [rows EXCEPT ![d] = row],
           \/ work' = work
           \/ \E w \in Workers, call \in Worker :
                 work' = [work EXCEPT ![w] = call] /\ Serves(d, row, authority[d], call),
           UNCHANGED <<sale, authority, mails>>, resends' \in 0..MaxResends,
           hitches' \in 0..MaxHitches
    PROVE  IInv' /\ DeadKept /\ OneMovesOn
  <1>1. /\ authority' = [authority EXCEPT ![d] = authority[d]] /\ Recorded(d, authority[d])
        /\ authority[d] \in Record
    BY RowStays DEF Advances
  <1>2. sale' = sale /\ mails' \in [Docs -> Nat]
    BY InvParts DEF TypeOK
  <1>. QED
    BY <1>1, <1>2, OneWrites

\* An authorized or dead document is out of reach of a write guarded on an open status.
LEMMA WithdrawUnsignedHolds ==
    ASSUME IInv, NEW w \in Workers, WithdrawUnsigned(w)
    PROVE  IInv' /\ DeadKept /\ OneMovesOn
  <1>. USE InvParts
  <1>. DEFINE d == Doc(w)
              row == [rows[d] EXCEPT !.status = "withdrawn", !.next = "null"]
  <1>1. /\ d \in Docs /\ rows[d].status # "absent" /\ ~Signed(d)
        /\ work[w].from \in {"owed", "needs_attention"}
    BY DEF WithdrawUnsigned, At, WorkerAgrees, Unsigning
  <1>2. rows[d] \in Row
    BY <1>1 DEF TypeOK
  <1>3. /\ row \in Row /\ row.kind = rows[d].kind /\ row.credits = rows[d].credits
        /\ row.supersedes = rows[d].supersedes /\ row.file = rows[d].file
        /\ row.status = "withdrawn" /\ row.next = "null" /\ row.byNumber = rows[d].byNumber
    BY <1>2, WhatIsDecided DEF Row
  <1>4. rows[d].status = work[w].from => Advances(d, row)
    <2>1. Judged(d)
      BY DEF WithdrawUnsigned, Judged
    <2>. HIDE DEF row
    <2>. QED
      BY <1>1, <1>3, <2>1 DEF Advances, WithdrawUnsigned, JudgedRight, Signed
  <1>5. \E new : rows' = [rows EXCEPT ![d] = new] /\ Advances(d, new)
    BY <1>1, <1>4, RowStays DEF WithdrawUnsigned, Reschedule
  <1>6. PICK new : rows' = [rows EXCEPT ![d] = new] /\ Advances(d, new)
    BY <1>5
  <1>7. work' = [work EXCEPT ![w] = Idle] /\ Serves(d, new, authority[d], Idle)
    BY DEF WithdrawUnsigned, Ends, Serves
  <1>8. UNCHANGED <<sale, authority, mails>> /\ resends' \in 0..MaxResends
        /\ hitches' \in 0..MaxHitches
    BY DEF WithdrawUnsigned, TypeOK
  <1>. HIDE DEF d, row
  <1>. QED
    BY <1>1, <1>6, <1>7, <1>8, RestIsAWorker, OneFiles


LEMMA ParkUnsignableHolds ==
    ASSUME IInv, NEW w \in Workers, ParkUnsignable(w)
    PROVE  IInv' /\ DeadKept /\ OneMovesOn
  <1>. USE InvParts
  <1>. DEFINE d == Doc(w)
              row == [rows[d] EXCEPT !.status = "needs_attention", !.next = "later"]
  <1>1. /\ d \in Docs /\ rows[d].status # "absent" /\ ~Signed(d)
        /\ work[w].from \in {"owed", "needs_attention"}
    BY DEF ParkUnsignable, At, WorkerAgrees, Unsigning
  <1>2. rows[d] \in Row
    BY <1>1 DEF TypeOK
  <1>3. /\ row \in Row /\ row.kind = rows[d].kind /\ row.credits = rows[d].credits
        /\ row.supersedes = rows[d].supersedes /\ row.file = rows[d].file
        /\ row.status = "needs_attention" /\ row.next = "later" /\ row.byNumber = rows[d].byNumber
    BY <1>2, WhatIsDecided DEF Row
  <1>4. rows[d].status = work[w].from => Advances(d, row)
    <2>. HIDE DEF row
    <2>. QED
      BY <1>1, <1>3 DEF Advances, Signed
  <1>5. \E new : rows' = [rows EXCEPT ![d] = new] /\ Advances(d, new)
    BY <1>1, <1>4, RowStays DEF ParkUnsignable, Reschedule
  <1>6. PICK new : rows' = [rows EXCEPT ![d] = new] /\ Advances(d, new)
    BY <1>5
  <1>7. work' = [work EXCEPT ![w] = Idle] /\ Serves(d, new, authority[d], Idle)
    BY DEF ParkUnsignable, Ends, Serves
  <1>8. UNCHANGED <<sale, authority, mails>> /\ resends' \in 0..MaxResends
        /\ hitches' \in 0..MaxHitches
    BY HitchTyped DEF ParkUnsignable, TypeOK
  <1>. HIDE DEF d, row
  <1>. QED
    BY <1>1, <1>6, <1>7, <1>8, RestIsAWorker, OneFiles

\* What a worker that asks the authority knows of its document.
LEMMA AskersDocument ==
    ASSUME IInv, NEW w \in Workers, work[w].pc \in Asking \cup {"settle", "deliver", "mark", "due"}
    PROVE  /\ Doc(w) \in Docs /\ rows[Doc(w)].status # "absent" /\ Signed(Doc(w))
           /\ rows[Doc(w)] \in Row /\ authority[Doc(w)] \in Record
  <1>1. Doc(w) \in Docs /\ rows[Doc(w)].status # "absent" /\ Signed(Doc(w))
    BY InvParts DEF WorkerAgrees, At, Asking
  <1>. QED
    BY <1>1, InvParts DEF TypeOK, Record

\* A worker that goes on with the document it has.
LEMMA GoesOn ==
    ASSUME IInv, NEW w \in Workers, NEW pc \in Steps
    PROVE  /\ [work EXCEPT ![w].pc = pc] = [work EXCEPT ![w] = [work[w] EXCEPT !.pc = pc]]
           /\ [work[w] EXCEPT !.pc = pc] \in Worker
           /\ [work[w] EXCEPT !.pc = pc].pc = pc
           /\ [work[w] EXCEPT !.pc = pc].doc = Doc(w)
           /\ [work[w] EXCEPT !.pc = pc].from = work[w].from
           /\ [work[w] EXCEPT !.pc = pc].bytes = work[w].bytes
           /\ [work[w] EXCEPT !.pc = pc].answer = work[w].answer
  BY WorkerFields, InvParts DEF TypeOK, Worker, Doc

LEMMA SubmitHolds ==
    ASSUME IInv, NEW w \in Workers, Submit(w)
    PROVE  IInv' /\ DeadKept /\ OneMovesOn
  <1>. USE InvParts
  <1>. DEFINE d == Doc(w)
  <1>1. /\ d \in Docs /\ rows[d].status # "absent" /\ Signed(d) /\ rows[d] \in Row
        /\ authority[d] \in Record /\ work[w].bytes \in 0..MaxBytes
        /\ work[w].from \in {"pending", "needs_attention"}
    BY AskersDocument, WorkerFields DEF Submit, At, Asking, WorkerAgrees
  <1>2. PICK answer \in SubmitAnswers(d, work[w].bytes) :
          /\ authority' = [authority EXCEPT ![d] = answer[2]]
          /\ rows' = RecordAttempt(d, IF answer[1] \in {"received", "already_held"}
                                      THEN "sent" ELSE "turned_down")
          /\ work' = [work EXCEPT ![w].pc = "apply", ![w].answer = answer[1]]
    BY DEF Submit
  <1>3. /\ answer[1] \in Answers /\ answer[2] \in Record
        /\ authority[d].state \in {"annulled", "number"} => answer[2].state = authority[d].state
        /\ answer[1] = "number" => answer[2].state = "number"
    BY <1>1, SubmitAnswered
  <1>4. PICK row : rows' = [rows EXCEPT ![d] = row] /\ Advances(d, row) /\ row.file = rows[d].file
    BY <1>1, <1>2, Attempted DEF Attempts
  <1>. DEFINE call == [work[w] EXCEPT !.pc = "apply", !.answer = answer[1]]
  <1>5. /\ call \in Worker /\ call.pc = "apply" /\ call.answer = answer[1] /\ call.doc = d
        /\ call.from = work[w].from /\ work' = [work EXCEPT ![w] = call]
    BY <1>2, <1>3, WorkerFields DEF TypeOK, Worker, Steps, Doc
  <1>6. Serves(d, row, answer[2], call)
    <2>. HIDE DEF call
    <2>. QED
      BY <1>1, <1>3, <1>4, <1>5 DEF Serves, Asking, Signed
  <1>7. Recorded(d, answer[2])
    BY <1>1, <1>3 DEF Recorded
  <1>8. /\ sale' = sale /\ resends' \in 0..MaxResends /\ mails' \in [Docs -> Nat]
        /\ hitches' \in 0..MaxHitches
    BY DEF Submit, TypeOK
  <1>. HIDE DEF d, call
  <1>. QED
    BY <1>1, <1>2, <1>3, <1>4, <1>5, <1>6, <1>7, <1>8, OneWrites

LEMMA SubmitLostHolds ==
    ASSUME IInv, NEW w \in Workers, SubmitLost(w)
    PROVE  IInv' /\ DeadKept /\ OneMovesOn
  <1>. USE InvParts
  <1>. DEFINE d == Doc(w)
  <1>1. /\ d \in Docs /\ rows[d].status # "absent" /\ Signed(d) /\ rows[d] \in Row
        /\ authority[d] \in Record /\ work[w].bytes \in 0..MaxBytes
    BY AskersDocument, WorkerFields DEF SubmitLost, At, Asking
  <1>2. PICK taken \in {authority[d]} \cup {a[2] : a \in SubmitAnswers(d, work[w].bytes)} :
          authority' = [authority EXCEPT ![d] = taken]
    BY DEF SubmitLost
  <1>3. /\ taken \in Record
        /\ authority[d].state \in {"annulled", "number"} => taken.state = authority[d].state
    BY <1>1, SubmitAnswered
  <1>4. PICK row : rows' = [rows EXCEPT ![d] = row] /\ Advances(d, row) /\ row.file = rows[d].file
    BY <1>1, Attempted DEF Attempts, SubmitLost
  <1>. DEFINE call == [work[w] EXCEPT !.pc = Wraps(w)]
  <1>5. /\ call \in Worker /\ call.pc \in {"settle", "due"} /\ call.doc = d
        /\ work' = [work EXCEPT ![w] = call]
    <2>1. Wraps(w) \in {"settle", "due"} /\ Wraps(w) \in Steps
      BY WorkerFields DEF Steps
    <2>2. work' = [work EXCEPT ![w].pc = Wraps(w)]
      BY DEF SubmitLost, Goes
    <2>. QED
      BY <2>1, <2>2, GoesOn
  <1>6. Serves(d, row, taken, call)
    <2>. HIDE DEF call
    <2>. QED
      BY <1>1, <1>4, <1>5 DEF Serves, Asking, Signed
  <1>7. Recorded(d, taken)
    BY <1>1, <1>3 DEF Recorded
  <1>8. /\ sale' = sale /\ resends' \in 0..MaxResends /\ mails' \in [Docs -> Nat]
        /\ hitches' \in 0..MaxHitches
    BY HitchTyped DEF SubmitLost, TypeOK
  <1>. HIDE DEF d, call
  <1>. QED
    BY <1>1, <1>2, <1>3, <1>4, <1>5, <1>6, <1>7, <1>8, OneWrites

LEMMA PollHolds ==
    ASSUME IInv, NEW w \in Workers, Poll(w)
    PROVE  IInv' /\ DeadKept /\ OneMovesOn
  <1>. USE InvParts
  <1>. DEFINE d == Doc(w)
              answer == QueryAnswer(d)
              decided == answer \in {"authorized", "refused"}
              pc == IF decided \/ (w \in Rounds /\ work[w].bytes = 0) THEN "apply" ELSE Wraps(w)
              call == [work[w] EXCEPT !.pc = pc, !.answer = answer]
  <1>1. /\ d \in Docs /\ rows[d].status # "absent" /\ Signed(d) /\ rows[d] \in Row
        /\ work[w].from \in {"pending", "needs_attention"}
    BY AskersDocument DEF Poll, At, Asking, WorkerAgrees
  <1>2. answer \in Answers /\ answer # "number"
    BY <1>1, QueryAnswered DEF Poll, Answers
  <1>3. PICK row : rows' = [rows EXCEPT ![d] = row] /\ Advances(d, row) /\ row.file = rows[d].file
    BY <1>1, Attempted DEF Attempts, Poll
  <1>4. pc \in {"apply", "settle", "due"}
    BY WorkerFields
  <1>5. work' = [work EXCEPT ![w] = call]
    <2>1. work' = [work EXCEPT ![w].pc = pc, ![w].answer = answer]
      BY DEF Poll
    <2>. HIDE DEF pc, answer
    <2>. QED
      BY <2>1 DEF TypeOK
  <1>6. /\ call \in Worker /\ call.pc = pc /\ call.answer = answer /\ call.doc = d
        /\ call.from = work[w].from
    <2>. HIDE DEF pc, answer
    <2>. QED
      BY <1>2, <1>4, WorkerFields DEF Worker, Steps, Doc
  <1>7. Serves(d, row, authority[d], call)
    <2>. HIDE DEF call, pc, answer
    <2>. QED
      BY <1>1, <1>2, <1>3, <1>4, <1>6 DEF Serves, Asking, Signed
  <1>8. UNCHANGED <<sale, authority, mails>> /\ resends' \in 0..MaxResends
        /\ hitches' \in 0..MaxHitches
    BY DEF Poll, TypeOK
  <1>. HIDE DEF d, call
  <1>. QED
    BY <1>1, <1>3, <1>5, <1>6, <1>7, <1>8, OneFiles

LEMMA PollLostHolds ==
    ASSUME IInv, NEW w \in Workers, PollLost(w)
    PROVE  IInv' /\ DeadKept /\ OneMovesOn
  <1>. USE InvParts
  <1>. DEFINE d == Doc(w)
              call == [work[w] EXCEPT !.pc = Wraps(w)]
  <1>1. d \in Docs /\ rows[d].status # "absent" /\ Signed(d) /\ rows[d] \in Row
    BY AskersDocument DEF PollLost, At, Asking
  <1>2. PICK row : rows' = [rows EXCEPT ![d] = row] /\ Advances(d, row) /\ row.file = rows[d].file
    BY <1>1, Attempted DEF Attempts, PollLost
  <1>3. /\ call \in Worker /\ call.pc \in {"settle", "due"} /\ call.doc = d
        /\ work' = [work EXCEPT ![w] = call]
    <2>1. Wraps(w) \in {"settle", "due"} /\ Wraps(w) \in Steps
      BY WorkerFields DEF Steps
    <2>2. work' = [work EXCEPT ![w].pc = Wraps(w)]
      BY DEF PollLost, Goes
    <2>. QED
      BY <2>1, <2>2, GoesOn
  <1>4. Serves(d, row, authority[d], call)
    <2>. HIDE DEF call
    <2>. QED
      BY <1>1, <1>2, <1>3 DEF Serves, Asking, Signed
  <1>5. UNCHANGED <<sale, authority, mails>> /\ resends' \in 0..MaxResends
        /\ hitches' \in 0..MaxHitches
    BY HitchTyped DEF PollLost, TypeOK
  <1>. HIDE DEF d, call
  <1>. QED
    BY <1>1, <1>2, <1>3, <1>4, <1>5, OneFiles

LEMMA ApplyOutcomeHolds ==
    ASSUME IInv, NEW w \in Workers, ApplyOutcome(w)
    PROVE  IInv' /\ DeadKept /\ OneMovesOn
  <1>. USE InvParts
  <1>. DEFINE d == Doc(w)
              answer == work[w].answer
              taken == answer = "received" /\ work[w].bytes # 0
              next == CASE taken /\ w \in Operators -> "replace"
                        [] taken /\ w \in Rounds -> "poll"
                        [] answer = "already_held" -> "poll"
                        [] OTHER -> Wraps(w)
  <1>1. /\ d \in Docs /\ rows[d].status # "absent" /\ Signed(d) /\ rows[d] \in Row
        /\ work[w].from \in {"pending", "needs_attention"} /\ answer \in Answers
    BY AskersDocument, WorkerFields DEF ApplyOutcome, At, Asking, WorkerAgrees
  <1>2. PICK aged \in BOOLEAN :
          /\ Ageing(d, aged)
          /\ Reschedule(d, work[w].from, OutcomeRow(rows[d], answer, aged))
          /\ work' = [work EXCEPT ![w].pc = next,
                ![w].from = IF rows[d].status = @ THEN OutcomeRow(rows[d], answer, aged).status
                            ELSE @]
    BY DEF ApplyOutcome
  <1>. DEFINE row == OutcomeRow(rows[d], answer, aged)
              from == IF rows[d].status = work[w].from THEN row.status ELSE work[w].from
              call == [work[w] EXCEPT !.pc = next, !.from = from]
              new == IF rows[d].status = work[w].from THEN row ELSE rows[d]
  <1>3. /\ row \in Row /\ row.status \in {"pending", "needs_attention", "authorized"}
        /\ row.status = "authorized" <=> answer = "authorized"
        /\ row.byNumber <=> answer = "number"
        /\ row.kind = rows[d].kind /\ row.credits = rows[d].credits
        /\ row.supersedes = rows[d].supersedes /\ row.file = rows[d].file
        /\ row.next = "due" => rows[d].next = "due"
    BY <1>1, OutcomeWritten
  <1>4. answer = "number" => authority[d].state = "number"
    BY DEF ApplyOutcome, WorkerAgrees
  <1>5. rows[d].status = work[w].from => Advances(d, row)
    <2>. HIDE DEF row
    <2>. QED
      BY <1>1, <1>3, <1>4 DEF Advances, Signed
  <1>6. rows' = [rows EXCEPT ![d] = new] /\ Advances(d, new) /\ new.file = rows[d].file
    <2>1. rows' = IF rows[d].status = work[w].from THEN [rows EXCEPT ![d] = row] ELSE rows
      BY <1>2 DEF Reschedule
    <2>. HIDE DEF row
    <2>2. CASE rows[d].status = work[w].from
      BY <1>3, <1>5, <2>1, <2>2
    <2>3. CASE rows[d].status # work[w].from
      BY <1>1, <2>1, <2>3, RowStays
    <2>. QED
      BY <2>2, <2>3
  <1>7. /\ next \in {"replace", "poll", "settle", "due"}
        /\ next = "replace" => work[w].bytes # 0
        /\ next \in {"replace", "poll"} => answer # "authorized"
    <2>1. Wraps(w) \in {"settle", "due"}
      BY WorkerFields
    <2>2. CASE taken /\ w \in Operators
      BY <2>2, WorkersAssumption
    <2>3. CASE taken /\ w \in Rounds
      BY <2>3, WorkersAssumption
    <2>4. CASE ~taken /\ answer = "already_held"
      BY <2>4
    <2>5. CASE ~taken /\ answer # "already_held"
      BY <2>1, <2>5
    <2>. QED
      BY <2>2, <2>3, <2>4, <2>5 DEF Workers
  <1>8. /\ from \in Statuses /\ from \in {"pending", "needs_attention", "authorized"}
        /\ from = "authorized" => answer = "authorized"
    <2>. HIDE DEF row
    <2>. QED
      BY <1>1, <1>3, WhatIsDecided
  <1>9. work' = [work EXCEPT ![w] = call]
    <2>1. work' = [work EXCEPT ![w].pc = next, ![w].from = from]
      BY <1>2
    <2>. HIDE DEF next, from
    <2>. QED
      BY <2>1 DEF TypeOK
  <1>10. /\ call \in Worker /\ call.pc = next /\ call.doc = d /\ call.from = from
         /\ call.bytes = work[w].bytes
    <2>. HIDE DEF next, from
    <2>. QED
      BY <1>7, <1>8, WorkerFields DEF Worker, Steps, Doc
  <1>11. Serves(d, new, authority[d], call)
    <2>. HIDE DEF call, next, from, new
    <2>. QED
      BY <1>1, <1>6, <1>7, <1>8, <1>10 DEF Serves, Asking, Signed
  <1>12. UNCHANGED <<sale, authority, mails>> /\ resends' \in 0..MaxResends
         /\ hitches' \in 0..MaxHitches
    BY <1>2, HitchTyped DEF ApplyOutcome, TypeOK
  <1>. HIDE DEF d, call, new
  <1>. QED
    BY <1>1, <1>6, <1>9, <1>10, <1>11, <1>12, OneFiles

LEMMA SettleRoundHolds ==
    ASSUME IInv, NEW w \in Workers, SettleRound(w)
    PROVE  IInv' /\ DeadKept /\ OneMovesOn
  <1>. USE InvParts
  <1>. DEFINE d == Doc(w)
  <1>1. d \in Docs /\ rows[d].status # "absent" /\ Signed(d) /\ rows[d] \in Row
    BY AskersDocument DEF SettleRound, At
  <1>2. \E row : /\ rows' = [rows EXCEPT ![d] = row] /\ Advances(d, row) /\ row.file = rows[d].file
                 /\ rows[d].status = "authorized" => row.status = "authorized"
    <2>1. CASE rows' = rows
      BY <1>1, <2>1, RowStays
    <2>2. ASSUME NEW aged \in BOOLEAN, rows[d].status \in {"pending", "needs_attention"},
                 rows' = [rows EXCEPT ![d] = UndecidedRow(rows[d], aged)]
          PROVE  \E row : /\ rows' = [rows EXCEPT ![d] = row] /\ Advances(d, row)
                          /\ row.file = rows[d].file
                          /\ rows[d].status = "authorized" => row.status = "authorized"
      <3>. DEFINE row == UndecidedRow(rows[d], aged)
      <3>1. /\ row \in Row /\ row.status \in {"pending", "needs_attention"}
            /\ row.kind = rows[d].kind /\ row.credits = rows[d].credits
            /\ row.supersedes = rows[d].supersedes /\ row.file = rows[d].file
            /\ row.next = "later" /\ row.byNumber = rows[d].byNumber
        <4>1. row \in Row
          BY <1>1, RowsWritten
        <4>2. CASE aged
          BY <1>1, <4>1, <4>2 DEF UndecidedRow, Row
        <4>3. CASE ~aged
          BY <1>1, <4>1, <4>3 DEF UndecidedRow, Row
        <4>. QED
          BY <4>2, <4>3
      <3>2. Advances(d, row)
        <4>. HIDE DEF row
        <4>. QED
          BY <1>1, <2>2, <3>1 DEF Advances, Signed
      <3>. QED
        BY <2>2, <3>1, <3>2
    <2>. QED
      BY <2>1, <2>2 DEF SettleRound
  <1>3. PICK row : /\ rows' = [rows EXCEPT ![d] = row] /\ Advances(d, row)
                   /\ row.file = rows[d].file
                   /\ rows[d].status = "authorized" => row.status = "authorized"
    BY <1>2
  <1>. DEFINE call == IF rows[d].status = "authorized" /\ ~rows[d].delivered
                      THEN [work[w] EXCEPT !.pc = "deliver"] ELSE Idle
  <1>4. work' = [work EXCEPT ![w] = call] /\ call \in Worker
    BY GoesOn, RestIsAWorker DEF SettleRound, Goes, Ends, Steps
  <1>5. Serves(d, row, authority[d], call)
    <2>1. "deliver" \in Steps
      BY DEF Steps
    <2>. QED
      BY <1>1, <1>3, <2>1, GoesOn DEF Serves, Asking, Signed
  <1>6. UNCHANGED <<sale, authority, mails>> /\ resends' \in 0..MaxResends
    BY DEF SettleRound, TypeOK
  <1>7. hitches' \in 0..MaxHitches
    BY HitchTyped DEF SettleRound
  <1>. HIDE DEF d, call
  <1>. QED
    BY <1>1, <1>3, <1>4, <1>5, <1>6, <1>7, OneFiles

\* A write that leaves a signed document its status and what it is.
LEMMA SameStatus ==
    ASSUME IInv, NEW d \in Docs, rows[d].status # "absent", Signed(d), NEW row \in Row,
           row.status = rows[d].status, row.kind = rows[d].kind, row.credits = rows[d].credits,
           row.supersedes = rows[d].supersedes, row.file # 0, row.byNumber = rows[d].byNumber
    PROVE  Advances(d, row)
  BY RowStays DEF Advances

\* A step that ends a worker's turn and writes nothing.
LEMMA TurnEnds ==
    ASSUME IInv, NEW w \in Workers, ~At(w, "idle"), Ends(w),
           UNCHANGED <<sale, rows, authority, mails>>, resends' \in 0..MaxResends,
           hitches' \in 0..MaxHitches
    PROVE  IInv' /\ DeadKept /\ OneMovesOn
  <1>1. Doc(w) \in Docs /\ rows[Doc(w)].status # "absent"
    BY WorkerFields
  <1>2. rows' = [rows EXCEPT ![Doc(w)] = rows[Doc(w)]] /\ Advances(Doc(w), rows[Doc(w)])
    BY <1>1, RowStays
  <1>3. /\ work' = [work EXCEPT ![w] = Idle] /\ Idle \in Worker
        /\ Serves(Doc(w), rows[Doc(w)], authority[Doc(w)], Idle)
    BY RestIsAWorker DEF Ends, Serves
  <1>. QED
    BY <1>1, <1>2, <1>3, OneFiles

LEMMA DeliverHolds ==
    ASSUME IInv, NEW w \in Workers,
           DeliverDocument(w) \/ DeliveryRefused(w) \/ DeliveryImpossible(w) \/ MarkDelivered(w)
    PROVE  IInv' /\ DeadKept /\ OneMovesOn
  <1>. USE InvParts
  <1>. DEFINE d == Doc(w)
  <1>1. /\ d \in Docs /\ rows[d].status = "authorized" /\ Signed(d) /\ rows[d] \in Row
        /\ authority[d] \in Record
    BY AskersDocument
       DEF DeliverDocument, DeliveryRefused, DeliveryImpossible, MarkDelivered, At, WorkerAgrees
  <1>2. CASE DeliverDocument(w)
    <2>. DEFINE call == [work[w] EXCEPT !.pc = "mark"]
    <2>1. /\ call \in Worker /\ work' = [work EXCEPT ![w] = call]
          /\ Serves(d, rows[d], authority[d], call)
      <3>1. "mark" \in Steps
        BY DEF Steps
      <3>. QED
        BY <1>1, <1>2, <3>1, GoesOn DEF DeliverDocument, Goes, Serves, Asking, Signed
    <2>2. /\ rows' = [rows EXCEPT ![d] = rows[d]] /\ Advances(d, rows[d])
          /\ authority' = [authority EXCEPT ![d] = authority[d]] /\ Recorded(d, authority[d])
      BY <1>1, <1>2, RowStays DEF DeliverDocument
    <2>3. /\ sale' = sale /\ resends' \in 0..MaxResends /\ hitches' \in 0..MaxHitches
          /\ mails' \in [Docs -> Nat]
      BY <1>1, <1>2 DEF DeliverDocument, TypeOK
    <2>. HIDE DEF d, call
    <2>. QED
      BY <1>1, <2>1, <2>2, <2>3, OneWrites
  <1>3. CASE DeliveryRefused(w) \/ DeliveryImpossible(w)
    <2>0. PICK next \in {"later", "null"} :
             Reschedule(d, "authorized", [rows[d] EXCEPT !.next = next])
      BY <1>3 DEF DeliveryRefused, DeliveryImpossible
    <2>. DEFINE row == [rows[d] EXCEPT !.next = next]
    <2>1. rows' = [rows EXCEPT ![d] = row]
      BY <1>1, <2>0 DEF Reschedule
    <2>2. Advances(d, row)
      <3>1. /\ row \in Row /\ row.status = rows[d].status /\ row.kind = rows[d].kind
            /\ row.credits = rows[d].credits /\ row.supersedes = rows[d].supersedes
            /\ row.file = rows[d].file /\ row.byNumber = rows[d].byNumber
        BY <1>1 DEF Row
      <3>. HIDE DEF row
      <3>. QED
        BY <1>1, <3>1, SameStatus DEF Signed
    <2>3. work' = [work EXCEPT ![w] = Idle] /\ Serves(d, row, authority[d], Idle)
      BY <1>3 DEF DeliveryRefused, DeliveryImpossible, Ends, Serves
    <2>4. /\ UNCHANGED <<sale, authority, mails>> /\ resends' \in 0..MaxResends
          /\ hitches' \in 0..MaxHitches
      BY <1>3, HitchTyped DEF DeliveryRefused, DeliveryImpossible, TypeOK
    <2>. HIDE DEF d, row
    <2>. QED
      BY <1>1, <2>1, <2>2, <2>3, <2>4, RestIsAWorker, OneFiles
  <1>4. CASE MarkDelivered(w) /\ rows[d].delivered
    BY <1>4, TurnEnds DEF MarkDelivered, At, TypeOK
  <1>5. CASE MarkDelivered(w) /\ ~rows[d].delivered
    <2>. DEFINE row == [rows[d] EXCEPT !.delivered = TRUE, !.next = "null"]
    <2>1. rows' = [rows EXCEPT ![d] = row]
      BY <1>1, <1>5 DEF MarkDelivered, TypeOK
    <2>2. Advances(d, row)
      <3>1. /\ row \in Row /\ row.status = rows[d].status /\ row.kind = rows[d].kind
            /\ row.credits = rows[d].credits /\ row.supersedes = rows[d].supersedes
            /\ row.file = rows[d].file /\ row.byNumber = rows[d].byNumber
        BY <1>1 DEF Row
      <3>. HIDE DEF row
      <3>. QED
        BY <1>1, <3>1, SameStatus DEF Signed
    <2>3. work' = [work EXCEPT ![w] = Idle] /\ Serves(d, row, authority[d], Idle)
      BY <1>5 DEF MarkDelivered, Ends, Serves
    <2>4. /\ UNCHANGED <<sale, authority, mails>> /\ resends' \in 0..MaxResends
          /\ hitches' \in 0..MaxHitches
      BY <1>5 DEF MarkDelivered, TypeOK
    <2>. HIDE DEF d, row
    <2>. QED
      BY <1>1, <2>1, <2>2, <2>3, <2>4, RestIsAWorker, OneFiles
  <1>. QED
    BY <1>2, <1>3, <1>4, <1>5

LEMMA CrashHolds ==
    ASSUME IInv, NEW w \in Workers, Crash(w)
    PROVE  IInv' /\ DeadKept /\ OneMovesOn
  BY InvParts, HitchTyped, TurnEnds DEF Crash, TypeOK

\* Check status and Resend start on a signed document that is not decided.
LEMMA PressHolds ==
    ASSUME IInv, NEW w \in Workers, NEW d \in Docs, CheckInvoice(w, d) \/ ResendInvoice(w, d)
    PROVE  IInv' /\ DeadKept /\ OneMovesOn
  <1>. USE InvParts
  <1>1. /\ rows[d].status \in {"pending", "needs_attention"} /\ Signed(d) /\ rows[d] \in Row
        /\ rows[d].status \in Statuses
    BY RowFields DEF CheckInvoice, ResendInvoice, Actionable
  <1>2. PICK call \in Worker :
           /\ work' = [work EXCEPT ![w] = call] /\ call.pc \in {"poll", "submit"}
           /\ call.doc = d /\ call.from = rows[d].status
    <2>1. CASE CheckInvoice(w, d)
      <3>. DEFINE call == [Idle EXCEPT !.pc = "poll", !.doc = d, !.from = rows[d].status]
      <3>1. call \in Worker /\ call.pc = "poll" /\ call.doc = d /\ call.from = rows[d].status
        BY <1>1, BytesOfAny DEF Idle, Worker, Steps, Answers
      <3>. QED
        BY <2>1, <3>1 DEF CheckInvoice
    <2>2. CASE ResendInvoice(w, d)
      <3>. DEFINE call == [Idle EXCEPT !.pc = "submit", !.doc = d, !.from = rows[d].status,
                                       !.bytes = rows[d].file + 1]
      <3>1. rows[d].file + 1 \in 0..MaxBytes
        BY <1>1, <2>2, BoundsAssumption DEF ResendInvoice, Row
      <3>2. call \in Worker /\ call.pc = "submit" /\ call.doc = d /\ call.from = rows[d].status
        BY <1>1, <3>1, BytesOfAny DEF Idle, Worker, Steps, Answers
      <3>. QED
        BY <2>2, <3>2 DEF ResendInvoice
    <2>. QED
      BY <2>1, <2>2
  <1>3. Serves(d, rows[d], authority[d], call)
    BY <1>1, <1>2 DEF Serves, Asking, Signed
  <1>4. rows' = [rows EXCEPT ![d] = rows[d]] /\ Advances(d, rows[d])
    BY <1>1, RowStays DEF CheckInvoice, ResendInvoice
  <1>5. /\ UNCHANGED <<sale, authority, mails>> /\ resends' \in 0..MaxResends
        /\ hitches' \in 0..MaxHitches
    BY BoundsAssumption DEF CheckInvoice, ResendInvoice, TypeOK
  <1>. QED
    BY <1>2, <1>3, <1>4, <1>5, OneFiles

LEMMA OperatorStepHolds ==
    ASSUME IInv, NEW w \in Workers, OperatorStep(w)
    PROVE  IInv' /\ DeadKept /\ OneMovesOn
  <1>. USE InvParts
  <1>. DEFINE d == Doc(w)
  <1>1. /\ d \in Docs /\ rows[d].status # "absent" /\ Signed(d) /\ rows[d] \in Row
        /\ work[w] \in Worker
    BY AskersDocument, WorkerFields
       DEF OperatorStep, ReplaceSignedDocument, DueForDelivery, At, Asking
  <1>2. CASE ReplaceSignedDocument(w)
    <2>. DEFINE row == [rows[d] EXCEPT !.file = work[w].bytes]
                call == [work[w] EXCEPT !.pc = "poll"]
    <2>1. /\ work[w].bytes # 0 /\ work[w].bytes \in 0..MaxBytes
          /\ work[w].from \in {"pending", "needs_attention"}
      BY <1>2, WorkerFields DEF ReplaceSignedDocument, WorkerAgrees, At, Asking
    <2>2. rows' = [rows EXCEPT ![d] = row]
      BY <1>1, <1>2 DEF ReplaceSignedDocument, TypeOK
    <2>3. Advances(d, row) /\ row.file # 0
      <3>1. /\ row \in Row /\ row.status = rows[d].status /\ row.kind = rows[d].kind
            /\ row.credits = rows[d].credits /\ row.supersedes = rows[d].supersedes
            /\ row.file = work[w].bytes /\ row.byNumber = rows[d].byNumber
        BY <1>1, <2>1 DEF Row
      <3>. HIDE DEF row
      <3>. QED
        BY <1>1, <2>1, <3>1, SameStatus
    <2>4. /\ call \in Worker /\ work' = [work EXCEPT ![w] = call] /\ call.pc = "poll"
          /\ call.doc = d /\ call.from = work[w].from
      BY <1>2, GoesOn DEF ReplaceSignedDocument, Goes, Steps
    <2>5. Serves(d, row, authority[d], call)
      <3>. HIDE DEF row, call
      <3>. QED
        BY <2>1, <2>3, <2>4 DEF Serves, Asking
    <2>6. /\ UNCHANGED <<sale, authority, mails>> /\ resends' \in 0..MaxResends
          /\ hitches' \in 0..MaxHitches
      BY <1>2 DEF ReplaceSignedDocument, TypeOK
    <2>. HIDE DEF d, row, call
    <2>. QED
      BY <1>1, <2>2, <2>3, <2>4, <2>5, <2>6, OneFiles
  <1>3. CASE DueForDelivery(w) /\ rows' = rows
    BY <1>3, TurnEnds DEF DueForDelivery, At, TypeOK
  <1>4. CASE DueForDelivery(w) /\ rows' # rows
    <2>. DEFINE row == [rows[d] EXCEPT !.next = "due"]
    <2>1. rows' = [rows EXCEPT ![d] = row]
      BY <1>1, <1>4 DEF DueForDelivery, TypeOK
    <2>2. Advances(d, row)
      <3>1. /\ row \in Row /\ row.status = rows[d].status /\ row.kind = rows[d].kind
            /\ row.credits = rows[d].credits /\ row.supersedes = rows[d].supersedes
            /\ row.file = rows[d].file /\ row.byNumber = rows[d].byNumber
        BY <1>1 DEF Row
      <3>. HIDE DEF row
      <3>. QED
        BY <1>1, <3>1, SameStatus DEF Signed
    <2>3. work' = [work EXCEPT ![w] = Idle] /\ Serves(d, row, authority[d], Idle)
      BY <1>4 DEF DueForDelivery, Ends, Serves
    <2>4. /\ UNCHANGED <<sale, authority, mails>> /\ resends' \in 0..MaxResends
          /\ hitches' \in 0..MaxHitches
      BY <1>4 DEF DueForDelivery, TypeOK
    <2>. HIDE DEF d, row
    <2>. QED
      BY <1>1, <2>1, <2>2, <2>3, <2>4, RestIsAWorker, OneFiles
  <1>. QED
    BY <1>2, <1>3, <1>4 DEF OperatorStep

LEMMA AbandonHolds ==
    ASSUME IInv, NEW d \in Docs, AbandonInvoice(d)
    PROVE  IInv' /\ DeadKept /\ OneMovesOn
  <1>. USE InvParts
  <1>. DEFINE row == [rows[d] EXCEPT !.status = "abandoned", !.next = "null"]
  <1>1. /\ rows[d].status = "needs_attention" /\ Signed(d) /\ rows[d].byNumber
        /\ rows[d] \in Row
    BY DEF AbandonInvoice, Abandonable, TypeOK
  <1>2. rows' = [rows EXCEPT ![d] = row]
    BY <1>1 DEF AbandonInvoice, TypeOK
  <1>3. /\ row \in Row /\ row.status = "abandoned" /\ row.kind = rows[d].kind
        /\ row.credits = rows[d].credits /\ row.supersedes = rows[d].supersedes
        /\ row.file = rows[d].file /\ row.byNumber = rows[d].byNumber /\ row.next = "null"
    BY <1>1, WhatIsDecided DEF Row
  <1>4. Advances(d, row)
    <2>. HIDE DEF row
    <2>. QED
      BY <1>1, <1>3 DEF Advances, Signed
  <1>5. /\ UNCHANGED <<sale, authority, mails>> /\ resends' \in 0..MaxResends
        /\ hitches' \in 0..MaxHitches /\ work' = work
    BY DEF AbandonInvoice, TypeOK
  <1>. HIDE DEF row
  <1>. QED
    BY <1>2, <1>4, <1>5, OneFiles

\* The authority decides, or its portal annuls, only what was signed and sent.
LEMMA AuthorityHolds ==
    ASSUME IInv, NEW d \in Docs, AuthorityDecides(d) \/ PortalAnnuls(d)
    PROVE  IInv' /\ DeadKept /\ OneMovesOn
  <1>. USE InvParts
  <1>1. HeldThere(d) /\ Signed(d) /\ rows[d].status # "absent"
    BY RowFields DEF AuthorityDecides, PortalAnnuls, HeldThere, AuthorityAgrees
  <1>2. authority[d] \in Record /\ authority[d].state \notin {"annulled", "number"}
    BY <1>1 DEF TypeOK, Record, HeldThere
  <1>3. PICK verdict \in {"authorized", "denied", "annulled"} :
           authority' = [authority EXCEPT ![d].state = verdict]
    BY DEF AuthorityDecides, PortalAnnuls
  <1>. DEFINE record == [authority[d] EXCEPT !.state = verdict]
  <1>4. authority' = [authority EXCEPT ![d] = record] /\ record \in Record
    BY <1>2, <1>3 DEF TypeOK, Record, AuthorityStates
  <1>5. Recorded(d, record)
    BY <1>1, <1>2 DEF Recorded
  <1>6. rows' = [rows EXCEPT ![d] = rows[d]] /\ Advances(d, rows[d])
    BY <1>1, RowStays DEF AuthorityDecides, PortalAnnuls
  <1>7. /\ sale' = sale /\ resends' \in 0..MaxResends /\ mails' \in [Docs -> Nat]
        /\ hitches' \in 0..MaxHitches /\ work' = work
    BY DEF AuthorityDecides, PortalAnnuls, TypeOK
  <1>. HIDE DEF record
  <1>. QED
    BY <1>4, <1>5, <1>6, <1>7, OneWrites

----------------------------------------------------------------------------
(* A step that touches the lease or what was judged *)

\* A document made due, leased or left, whatever its status.
LEMMA OnlyQueued ==
    ASSUME IInv, NEW d \in Docs, NEW next \in {"null", "due", "later"},
           rows[d].status # "absent", rows' = [rows EXCEPT ![d].next = next],
           UNCHANGED authority
    PROVE  /\ rows' \in [Docs -> Row] /\ rows'[d] = [rows[d] EXCEPT !.next = next]
           /\ rows'[d].status = rows[d].status /\ rows'[d].next = next
           /\ \A e \in Docs : e # d => rows'[e] = rows[e]
           /\ \A e \in Docs : /\ Moves(e) /\ Heeds(e) /\ (Signed(e)' <=> Signed(e))
  <1>. USE InvParts
  <1>1. /\ rows' \in [Docs -> Row] /\ rows'[d] = [rows[d] EXCEPT !.next = next]
        /\ \A e \in Docs : e # d => rows'[e] = rows[e]
    <2>1. [rows[d] EXCEPT !.next = next] \in Row
      <3>1. rows[d] \in Row
        BY DEF TypeOK
      <3>. QED
        BY <3>1 DEF Row
    <2>2. rows' = [rows EXCEPT ![d] = [rows[d] EXCEPT !.next = next]]
      BY DEF TypeOK
    <2>. QED
      BY <2>1, <2>2 DEF TypeOK
  <1>2. /\ rows'[d].status = rows[d].status /\ rows'[d].kind = rows[d].kind
        /\ rows'[d].credits = rows[d].credits /\ rows'[d].supersedes = rows[d].supersedes
        /\ rows'[d].file = rows[d].file /\ rows'[d].byNumber = rows[d].byNumber
        /\ rows'[d].next = next
    BY <1>1 DEF TypeOK, Row
  <1>3. ASSUME NEW e \in Docs
        PROVE  Moves(e) /\ Heeds(e) /\ (Signed(e)' <=> Signed(e))
    <2>1. /\ rows'[e].status = rows[e].status /\ rows'[e].kind = rows[e].kind
          /\ rows'[e].credits = rows[e].credits /\ rows'[e].supersedes = rows[e].supersedes
          /\ rows'[e].file = rows[e].file /\ rows'[e].byNumber = rows[e].byNumber
      BY <1>1, <1>2
    <2>2. rows[e].status = "absent" => rows'[e] = rows[e]
      BY <1>1
    <2>3. Signed(e)' <=> Signed(e)
      BY <2>1 DEF Signed
    <2>. QED
      BY <2>1, <2>2, <2>3 DEF Moves, Keeps, Heeds, HeldThere, AuthorityAgrees
  <1>. QED
    BY <1>1, <1>2, <1>3

LEMMA TimePassesHolds ==
    ASSUME IInv, NEW d \in Docs, TimePasses(d)
    PROVE  IInv' /\ DeadKept /\ OneMovesOn
  <1>. USE InvParts
  <1>1. rows[d].status # "absent"
    BY DEF TimePasses, RowAgrees, AbsentRow
  <1>2. /\ rows' \in [Docs -> Row] /\ \A e \in Docs : e # d => rows'[e] = rows[e]
        /\ \A e \in Docs : Moves(e) /\ Heeds(e)
    BY <1>1, OnlyQueued DEF TimePasses
  <1>3. ASSUME NEW e \in Docs PROVE Queues(e)
    BY <1>2 DEF Queues, TimePasses, Doc
  <1>4. \A w \in Workers : Works(w)
    BY DEF TimePasses, Works
  <1>5. TypeOK' /\ sale' = sale
    BY <1>2 DEF TimePasses, TypeOK
  <1>6. OneMovesOn
    <2>1. rows'[d].status = rows[d].status
      BY DEF TimePasses, TypeOK, Row
    <2>. QED
      BY <1>2, <1>5, <2>1 DEF OneMovesOn
  <1>. QED
    BY <1>2, <1>3, <1>4, <1>5, <1>6, MovedOn

LEMMA ClaimHolds ==
    ASSUME IInv, NEW w \in Workers, NEW d \in Docs, ClaimDueInvoice(w, d)
    PROVE  IInv' /\ DeadKept /\ OneMovesOn
  <1>. USE InvParts
  <1>. DEFINE bytes == IF FirstStep(d) = "submit" THEN rows[d].file ELSE 0
              call == [Idle EXCEPT !.pc = FirstStep(d), !.doc = d, !.from = rows[d].status,
                                   !.bytes = bytes]
  <1>1. /\ rows[d].status \in Undecided \cup {"authorized"} /\ rows[d].next = "due"
        /\ rows[d].file \in 0..MaxBytes /\ rows[d].status \in Statuses /\ w \in Rounds
        /\ rows[d].status # "absent"
    BY WhatIsDecided DEF ClaimDueInvoice, Claimable, TypeOK, Row
  <1>2. /\ rows' \in [Docs -> Row] /\ rows'[d].status = rows[d].status
        /\ rows'[d].next = "later" /\ \A e \in Docs : e # d => rows'[e] = rows[e]
        /\ \A e \in Docs : Moves(e) /\ Heeds(e) /\ (Signed(e)' <=> Signed(e))
    BY <1>1, OnlyQueued DEF ClaimDueInvoice
  <1>3. /\ FirstStep(d) \in {"deliver", "judge", "poll", "submit"}
        /\ FirstStep(d) = "deliver" => rows[d].status = "authorized"
        /\ FirstStep(d) = "judge" =>
              ~Signed(d) /\ rows[d].status \in {"owed", "needs_attention"}
        /\ FirstStep(d) \in {"poll", "submit"} =>
              Signed(d) /\ rows[d].status \in {"pending", "needs_attention"}
        /\ FirstStep(d) = "deliver" => Signed(d)
    <2>1. /\ rows[d].status = "authorized" => Signed(d)
          /\ rows[d].status = "owed" => ~Signed(d)
          /\ rows[d].status = "pending" => Signed(d)
      BY DEF RowAgrees
    <2>2. CASE rows[d].status = "authorized"
      BY <2>1, <2>2 DEF FirstStep
    <2>3. CASE rows[d].status # "authorized" /\ ~Signed(d)
      BY <1>1, <2>1, <2>3, WhatIsDecided DEF FirstStep
    <2>4. CASE rows[d].status # "authorized" /\ Signed(d) /\ rows[d].acked
      BY <1>1, <2>1, <2>4, WhatIsDecided DEF FirstStep
    <2>5. CASE rows[d].status # "authorized" /\ Signed(d) /\ ~rows[d].acked
      BY <1>1, <2>1, <2>5, WhatIsDecided DEF FirstStep
    <2>. QED
      BY <2>2, <2>3, <2>4, <2>5
  <1>4. /\ call \in Worker /\ call.pc = FirstStep(d) /\ call.doc = d
        /\ call.from = rows[d].status /\ call.answer = "none"
    <2>1. bytes \in 0..MaxBytes
      BY <1>1, BytesOfAny
    <2>. HIDE DEF bytes
    <2>. QED
      BY <1>1, <1>3, <2>1 DEF Idle, Worker, Steps, Answers
  <1>5. work' = [work EXCEPT ![w] = call]
    BY DEF ClaimDueInvoice
  <1>. HIDE DEF call
  <1>6. /\ work'[w] = call /\ Doc(w)' = d
        /\ \A v \in Workers : v # w => work'[v] = work[v]
    BY <1>4, <1>5 DEF TypeOK, Doc
  <1>7. Works(w)
    <2>1. WorkerAgrees(w)'
      BY <1>1, <1>2, <1>3, <1>4, <1>6 DEF WorkerAgrees, At, Unsigning, Asking, Signed
    <2>2. JudgedRight(w)'
      BY <1>3, <1>4, <1>6 DEF JudgedRight, At
    <2>3. ASSUME NEW v \in Rounds, v # w, work'[v].pc \in Unsigning PROVE Doc(v)' # d
      <3>1. work'[v] = work[v] /\ Doc(v)' = Doc(v)
        BY <1>6, <2>3 DEF Workers, Doc
      <3>. QED
        BY <1>1, <2>3, <3>1 DEF LeaseHolds
    <2>. QED
      BY <1>2, <1>6, <2>1, <2>2, <2>3 DEF Works
  <1>8. \A v \in Workers : Works(v)
    BY <1>6, <1>7 DEF Works
  <1>9. \A e \in Docs : Queues(e)
    BY <1>2 DEF Queues
  <1>10. TypeOK' /\ sale' = sale
    BY <1>2, <1>4, <1>5 DEF ClaimDueInvoice, TypeOK
  <1>11. OneMovesOn
    BY <1>2, <1>10 DEF OneMovesOn
  <1>. QED
    BY <1>2, <1>8, <1>9, <1>10, <1>11, MovedOn

\* What a round judges by: the factura, the other notes, what a factura supersedes.
LEMMA JudgedBy ==
    ASSUME IInv, NEW d \in Docs, rows[d].status # "absent"
    PROVE  /\ IsNote(d) /\ JudgedNote(d) = "sign" =>
                 /\ rows[rows[d].credits].status = "authorized"
                 /\ \A o \in Siblings(d) : ~InPlay(o)
           /\ IsNote(d) /\ JudgedNote(d) = "withdraw" =>
                 \/ rows[rows[d].credits].status \in Dead
                 \/ \E o \in Siblings(d) : rows[o].status = "authorized"
           /\ JudgedFactura(d) = "sign" /\ rows[d].supersedes # NoDoc =>
                 \/ rows[rows[d].supersedes].status \in Dead
                 \/ CreditedByAuthorized(rows[d].supersedes)
           /\ JudgedNote(d) \in {"sign", "withdraw", "idle"}
           /\ JudgedFactura(d) \in {"sign", "withdraw", "idle"}
  <1>. DEFINE factura == rows[rows[d].credits].status
              siblings == {rows[o].status : o \in Siblings(d)}
              unanswered == siblings \cap {"pending", "needs_attention"} # {}
              credited == "authorized" \in siblings
  <1>1. JudgedNote(d) = CASE factura \in Dead -> "withdraw"
                          [] factura = "authorized" /\ ~unanswered /\ credited -> "withdraw"
                          [] factura = "authorized" /\ ~unanswered /\ ~credited -> "sign"
                          [] OTHER -> "idle"
    BY DEF JudgedNote, Siblings
  <1>2. ~unanswered /\ ~credited => \A o \in Siblings(d) : ~InPlay(o)
    BY DEF InPlay
  <1>3. credited => \E o \in Siblings(d) : rows[o].status = "authorized"
    OBVIOUS
  <1>4. factura = "authorized" => factura \notin Dead
    BY WhatIsDecided
  <1>5. /\ JudgedNote(d) = "sign" => factura = "authorized" /\ ~unanswered /\ ~credited
        /\ JudgedNote(d) = "withdraw" => factura \in Dead \/ credited
        /\ JudgedNote(d) \in {"sign", "withdraw", "idle"}
    <2>. HIDE DEF factura, unanswered, credited
    <2>. QED
      BY <1>1, <1>4
  <1>6. /\ JudgedFactura(d) = "sign" /\ rows[d].supersedes # NoDoc =>
                 \/ rows[rows[d].supersedes].status \in Dead
                 \/ CreditedByAuthorized(rows[d].supersedes)
        /\ JudgedFactura(d) \in {"sign", "withdraw", "idle"}
    BY DEF JudgedFactura
  <1>. QED
    BY <1>2, <1>3, <1>5, <1>6

LEMMA JudgeHolds ==
    ASSUME IInv, NEW w \in Workers, Judge(w)
    PROVE  IInv' /\ DeadKept /\ OneMovesOn
  <1>. USE InvParts
  <1>. DEFINE d == Doc(w)
              next == IF rows[d].kind = "credit_note" THEN JudgedNote(d) ELSE JudgedFactura(d)
  <1>1. /\ d \in Docs /\ rows[d].status # "absent" /\ ~Signed(d) /\ At(w, "judge")
        /\ ~At(w, "idle")
    BY DEF Judge, At, WorkerAgrees, Unsigning
  <1>2. CASE next = "idle"
    BY <1>1, <1>2, TurnEnds DEF Judge, TypeOK
  <1>3. CASE next # "idle"
    <2>1. next \in {"sign", "withdraw"} /\ next \in Steps
      BY <1>1, <1>3, JudgedBy DEF Steps
    <2>. DEFINE call == [work[w] EXCEPT !.pc = next]
    <2>2. work' = [work EXCEPT ![w].pc = next]
      BY <1>3 DEF Judge, Goes
    <2>3. /\ call \in Worker /\ work' = [work EXCEPT ![w] = call] /\ call.pc = next
          /\ call.doc = d /\ call.from = work[w].from
      <3>. HIDE DEF next
      <3>. QED
        BY <2>1, <2>2, GoesOn
    <2>4. /\ IsNote(d) /\ next = "sign" =>
                 /\ rows[rows[d].credits].status = "authorized"
                 /\ \A o \in Siblings(d) : ~InPlay(o)
          /\ IsNote(d) /\ next = "withdraw" =>
                 \/ rows[rows[d].credits].status \in Dead
                 \/ \E o \in Siblings(d) : rows[o].status = "authorized"
          /\ ~IsNote(d) /\ next = "sign" /\ rows[d].supersedes # NoDoc =>
                 \/ rows[rows[d].supersedes].status \in Dead
                 \/ CreditedByAuthorized(rows[d].supersedes)
      BY <1>1, JudgedBy DEF IsNote
    <2>5. UNCHANGED <<sale, rows, authority, mails, hitches, resends>>
      BY DEF Judge
    <2>. HIDE DEF next, call
    <2>6. /\ work'[w] = call /\ Doc(w)' = d
          /\ \A v \in Workers : v # w => work'[v] = work[v]
      BY <2>3 DEF TypeOK, Doc
    <2>7. WorkerAgrees(w)'
      BY <1>1, <2>1, <2>3, <2>5, <2>6 DEF WorkerAgrees, At, Unsigning, Asking, Signed
    <2>8. JudgedRight(w)'
      BY <1>1, <2>1, <2>3, <2>4, <2>5, <2>6 DEF JudgedRight, At, IsNote, Siblings, InPlay,
         NotesAgainst, CreditedByAuthorized, Signed
    <2>9. \A v \in Workers : Works(v)
      BY <1>1, <2>6, <2>7, <2>8 DEF Works, At, Unsigning
    <2>10. \A e \in Docs : Moves(e) /\ Heeds(e) /\ Queues(e)
      <3>1. rows' = [rows EXCEPT ![d] = rows[d]] /\ Advances(d, rows[d])
            /\ authority' = [authority EXCEPT ![d] = authority[d]] /\ Recorded(d, authority[d])
            /\ authority[d] \in Record
        BY <1>1, <2>5, RowStays
      <3>. QED
        BY <1>1, <3>1, OneMoves
    <2>11. TypeOK' /\ sale' = sale
      BY <2>3, <2>5 DEF TypeOK
    <2>12. OneMovesOn
      BY <1>1, <2>5, <2>10, <2>11 DEF OneMovesOn
    <2>. QED
      BY <2>9, <2>10, <2>11, <2>12, MovedOn
  <1>. QED
    BY <1>2, <1>3

\* A dead note takes an unsigned corrected factura with it, and nothing else.
LEMMA AnnulHolds ==
    ASSUME IInv, NEW d \in Docs, AnnulInvoice(d)
    PROVE  IInv' /\ DeadKept
  <1>. USE InvParts
  <1>. DEFINE taken == IF rows[d].kind = "credit_note" THEN Successors(d) ELSE {}
  <1>1. /\ rows[d].status \in {"pending", "needs_attention"} /\ Signed(d)
        /\ authority[d].state = "annulled"
    BY DEF AnnulInvoice, Annullable, Actionable
  <1>2. ASSUME NEW e \in taken
        PROVE  /\ e \in Docs /\ rows[e].kind = "sale" /\ ~Signed(e) /\ e # d
               /\ rows[e].status \in {"owed", "needs_attention"}
    BY <1>1, <1>2 DEF Successors
  <1>3. rows' = [e \in Docs |->
          IF e = d THEN [rows[e] EXCEPT !.status = "annulled", !.next = "null"]
          ELSE IF e \in taken THEN [rows[e] EXCEPT !.status = "withdrawn", !.next = "null"]
          ELSE rows[e]]
    BY DEF AnnulInvoice
  <1>. HIDE DEF taken
  <1>4. ASSUME NEW e \in Docs, NEW to \in {"annulled", "withdrawn"},
               rows'[e] = [rows[e] EXCEPT !.status = to, !.next = "null"]
        PROVE  /\ rows'[e] \in Row /\ rows'[e].status = to /\ rows'[e].next = "null"
               /\ rows'[e].kind = rows[e].kind /\ rows'[e].credits = rows[e].credits
               /\ rows'[e].supersedes = rows[e].supersedes /\ rows'[e].file = rows[e].file
               /\ rows'[e].byNumber = rows[e].byNumber
    <2>1. rows[e] \in Row
      BY DEF TypeOK
    <2>. QED
      BY <1>4, <2>1, WhatIsDecided DEF Row
  <1>5. ASSUME NEW e \in Docs PROVE Moves(e) /\ Heeds(e) /\ Queues(e) /\ rows'[e] \in Row
    <2>1. CASE e = d
      <3>1. rows'[e] = [rows[e] EXCEPT !.status = "annulled", !.next = "null"]
        BY <1>3, <2>1
      <3>2. /\ rows'[e] \in Row /\ rows'[e].status = "annulled" /\ rows'[e].next = "null"
            /\ rows'[e].kind = rows[e].kind /\ rows'[e].credits = rows[e].credits
            /\ rows'[e].supersedes = rows[e].supersedes /\ rows'[e].file = rows[e].file
            /\ rows'[e].byNumber = rows[e].byNumber /\ (Signed(e)' <=> Signed(e))
        BY <1>4, <3>1 DEF Signed
      <3>3. Keeps(e) /\ Moves(e)
        BY <1>1, <2>1, <3>2, WhatIsDecided DEF Moves, Keeps
      <3>. QED
        BY <1>1, <2>1, <3>2, <3>3 DEF Heeds, Queues, HeldThere, AnnulInvoice
    <2>2. CASE e # d /\ e \in taken
      <3>1. rows'[e] = [rows[e] EXCEPT !.status = "withdrawn", !.next = "null"]
        BY <1>3, <2>2
      <3>2. /\ rows'[e] \in Row /\ rows'[e].status = "withdrawn" /\ rows'[e].next = "null"
            /\ rows'[e].kind = rows[e].kind /\ rows'[e].credits = rows[e].credits
            /\ rows'[e].supersedes = rows[e].supersedes /\ rows'[e].file = rows[e].file
            /\ rows'[e].byNumber = rows[e].byNumber /\ (Signed(e)' <=> Signed(e))
        BY <1>4, <3>1 DEF Signed
      <3>3. Keeps(e) /\ Moves(e)
        BY <1>2, <2>2, <3>2, WhatIsDecided DEF Moves, Keeps, IsNote
      <3>. QED
        BY <2>2, <3>2, <3>3 DEF Heeds, Queues, HeldThere, AnnulInvoice
    <2>3. CASE e # d /\ e \notin taken
      <3>1. rows'[e] = rows[e] /\ (Signed(e)' <=> Signed(e)) /\ rows'[e] \in Row
        BY <1>3, <2>3 DEF Signed, TypeOK
      <3>. QED
        BY <3>1 DEF Moves, Keeps, Heeds, Queues, HeldThere, AnnulInvoice, AuthorityAgrees
    <2>. QED
      BY <2>1, <2>2, <2>3
  <1>6. TypeOK' /\ sale' = sale
    BY <1>3, <1>5 DEF AnnulInvoice, TypeOK
  <1>7. \A w \in Workers : Works(w)
    BY DEF AnnulInvoice, Works
  <1>. QED
    BY <1>5, <1>6, <1>7, MovedOn

----------------------------------------------------------------------------
(* Signing *)

\* What a round signs is the only document of its kind that waits, and what it was
\* judged by leaves it the only one to come to count.
LEMMA DocumentSigned ==
    ASSUME IInv, NEW w \in Workers, SignOwedInvoice(w), NEW d \in Docs, d = Doc(w)
    PROVE  IInv' /\ DeadKept
  <1>. USE InvParts
  <1>1. /\ d \in Docs /\ rows[d].status # "absent" /\ ~Signed(d) /\ At(w, "sign")
        /\ w \in Rounds /\ rows[d] \in Row /\ work[w].pc \in Unsigning /\ ~At(w, "idle")
    BY DEF SignOwedInvoice, At, WorkerAgrees, Unsigning, TypeOK
  <1>2. CASE rows[d].status \notin {"owed", "needs_attention"}
    BY <1>1, <1>2, TurnEnds DEF SignOwedInvoice, TypeOK
  <1>3. CASE rows[d].status \in {"owed", "needs_attention"}
    <2>. DEFINE row == [rows[d] EXCEPT !.status = "pending", !.file = 1]
                call == [work[w] EXCEPT !.pc = "submit", !.from = "pending", !.bytes = 1]
    <2>1. rows' = [rows EXCEPT ![d] = row] /\ work' = [work EXCEPT ![w] = call]
      BY <1>1, <1>3 DEF SignOwedInvoice, TypeOK
    <2>2. /\ row \in Row /\ row.status = "pending" /\ row.file = 1 /\ row.kind = rows[d].kind
          /\ row.credits = rows[d].credits /\ row.supersedes = rows[d].supersedes
          /\ row.next = rows[d].next /\ row.byNumber = rows[d].byNumber
      BY <1>1, BytesOfAny, WhatIsDecided DEF Row
    <2>3. /\ call \in Worker /\ call.pc = "submit" /\ call.from = "pending" /\ call.doc = d
      BY BytesOfAny, WhatIsDecided, WorkerFields DEF Worker, Steps, Doc
    <2>4. UNCHANGED <<sale, authority, mails, hitches, resends>>
      BY DEF SignOwedInvoice
    <2>. HIDE DEF row, call
    <2>5. /\ rows'[d] = row /\ Signed(d)' /\ rows' \in [Docs -> Row]
          /\ \A e \in Docs : e # d => rows'[e] = rows[e] /\ (Signed(e)' <=> Signed(e))
      <3>1. /\ rows'[d] = row /\ rows' \in [Docs -> Row]
            /\ \A e \in Docs : e # d => rows'[e] = rows[e]
        BY <1>1, <2>1, <2>2 DEF TypeOK
      <3>. QED
        BY <2>2, <3>1 DEF Signed
    <2>6. /\ work'[w] = call /\ Doc(w)' = d
          /\ \A v \in Workers : v # w => work'[v] = work[v] /\ Doc(v)' = Doc(v)
      BY <2>1, <2>3 DEF TypeOK, Doc
    <2>7. TypeOK'
      BY <2>1, <2>3, <2>4, <2>5 DEF TypeOK
    <2>8. /\ \A e \in Docs : rows'[e].kind = rows[e].kind /\ rows'[e].credits = rows[e].credits
          /\ \A e \in Docs : /\ rows'[e].supersedes = rows[e].supersedes
                             /\ rows'[e].status = "absent" <=> rows[e].status = "absent"
                             /\ rows'[e].status = "authorized" <=> rows[e].status = "authorized"
                             /\ rows'[e].status \in Dead <=> rows[e].status \in Dead
      BY <1>3, <2>2, <2>5, WhatIsDecided
    <2>9. \A f \in Docs : /\ NotesAgainst(f)' = NotesAgainst(f)
                          /\ CreditedByAuthorized(f)' <=> CreditedByAuthorized(f)
      BY <2>8 DEF NotesAgainst, CreditedByAuthorized
    <2>10. /\ Waiting(d) /\ ~Waiting(d)' /\ InPlay(d)' /\ ~InPlay(d)
           /\ \A e \in Docs : e # d => (Waiting(e)' <=> Waiting(e)) /\ (InPlay(e)' <=> InPlay(e))
      <3>1. Waiting(d) /\ ~Waiting(d)' /\ InPlay(d)' /\ ~InPlay(d)
        BY <1>1, <1>3, <2>2, <2>5 DEF Waiting, InPlay
      <3>2. ASSUME NEW e \in Docs, e # d
            PROVE  (Waiting(e)' <=> Waiting(e)) /\ (InPlay(e)' <=> InPlay(e))
        BY <2>5, <3>2 DEF Waiting, InPlay
      <3>. QED
        BY <3>1, <3>2
    <2>11. /\ IsNote(d) => /\ rows[d].credits \in Docs
                           /\ rows[rows[d].credits].status = "authorized"
                           /\ \A o \in Siblings(d) : ~InPlay(o)
           /\ ~IsNote(d) /\ rows[d].supersedes # NoDoc =>
                 \/ rows[rows[d].supersedes].status \in Dead
                 \/ CreditedByAuthorized(rows[d].supersedes)
      BY <1>1, <1>3 DEF JudgedRight, RowAgrees
    <2>12. ASSUME NEW e \in Docs PROVE RowAgrees(e)' /\ AuthorityAgrees(e)'
      <3>1. CASE e = d
        <4>1. RowAgrees(d) /\ AuthorityAgrees(d)
          OBVIOUS
        <4>2. IsNote(d) => rows[d].credits \in Docs /\ rows[d].credits # d
          BY <1>1 DEF RowAgrees
        <4>3. rows[d].supersedes # NoDoc => rows[d].supersedes \in Docs /\ rows[d].supersedes # d
          BY <1>1, <1>3, RowFields DEF RowAgrees
        <4>4. IsNote(d)' => Signed(rows[d].credits)'
          BY <2>2, <2>5, <4>1, <4>2 DEF RowAgrees, IsNote
        <4>5. RowAgrees(d)'
          BY <2>2, <2>5, <4>1, <4>2, <4>3, <4>4 DEF RowAgrees, IsNote, Signed
        <4>6. AuthorityAgrees(d)'
          BY <1>3, <2>2, <2>4, <2>5, <4>1 DEF AuthorityAgrees, HeldThere
        <4>. QED
          BY <3>1, <4>5, <4>6
      <3>2. CASE e # d
        <4>1. RowAgrees(e) /\ AuthorityAgrees(e) /\ rows'[e] = rows[e]
              /\ (Signed(e)' <=> Signed(e))
          BY <2>5, <3>2
        <4>2. IsNote(e) => rows[e].credits \in Docs /\ rows[e].credits # d
          BY <1>1, <4>1 DEF RowAgrees
        <4>3. rows[e].supersedes # NoDoc => rows[e].supersedes \in Docs /\ rows[e].supersedes # d
          BY <1>1, <1>3, <4>1, RowFields DEF RowAgrees
        <4>4. IsNote(e)' => Signed(rows[e].credits)'
          BY <2>5, <4>1, <4>2 DEF RowAgrees, IsNote
        <4>5. RowAgrees(e)'
          BY <2>5, <4>1, <4>2, <4>3, <4>4 DEF RowAgrees, IsNote, Signed
        <4>6. AuthorityAgrees(e)'
          BY <2>4, <4>1 DEF AuthorityAgrees, HeldThere
        <4>. QED
          BY <4>5, <4>6
      <3>. QED
        BY <3>1, <3>2
    <2>13. ASSUME NEW v \in Workers, v # w, work[v].pc \in Unsigning
           PROVE  /\ Doc(v) \in Docs /\ Doc(v) # d /\ v \in Rounds /\ ~Signed(Doc(v))
                  /\ rows[Doc(v)].status \in {"owed", "needs_attention", "withdrawn"}
      BY <1>1, <2>13 DEF WorkerAgrees, LeaseHolds, Unsigning, At
    <2>14. ASSUME NEW v \in Workers PROVE WorkerAgrees(v)'
      <3>1. CASE v = w
        BY <1>1, <2>2, <2>3, <2>5, <2>6, <3>1 DEF WorkerAgrees, At, Unsigning, Asking, Signed
      <3>2. CASE v # w /\ At(v, "idle")
        BY <2>6, <3>2 DEF WorkerAgrees, At, Unsigning, Asking
      <3>3. CASE v # w /\ ~At(v, "idle")
        <4>1. /\ Doc(v) \in Docs /\ rows'[Doc(v)].status # "absent" /\ WorkerAgrees(v)
              /\ Doc(v)' = Doc(v) /\ work'[v] = work[v]
              /\ rows'[Doc(v)].status = "authorized" <=> rows[Doc(v)].status = "authorized"
          BY <2>6, <2>8, <3>3, WorkerFields
        <4>2. Signed(Doc(v)) => rows'[Doc(v)].file # 0
          BY <1>1, <2>5, <4>1 DEF Signed
        <4>3. work[v].pc \in Unsigning => rows'[Doc(v)] = rows[Doc(v)]
          BY <2>5, <2>13, <3>3
        <4>. QED
          BY <2>4, <3>3, <4>1, <4>2, <4>3 DEF WorkerAgrees, At, Signed
      <3>. QED
        BY <3>1, <3>2, <3>3
    <2>15. LeaseHolds'
      <3>1. ASSUME NEW v \in Rounds, work'[v].pc \in Unsigning
            PROVE  /\ v # w /\ work[v].pc \in Unsigning /\ Doc(v)' = Doc(v)
                   /\ rows'[Doc(v)] = rows[Doc(v)]
        BY <2>3, <2>5, <2>6, <2>13, <3>1 DEF Unsigning, Workers
      <3>. QED
        BY <3>1 DEF LeaseHolds
    <2>16. ASSUME NEW v \in Workers PROVE JudgedRight(v)'
      <3>1. CASE work'[v].pc \notin {"sign", "withdraw"}
        BY <3>1 DEF JudgedRight, At
      <3>2. CASE work'[v].pc \in {"sign", "withdraw"}
        <4>1. v # w /\ work'[v] = work[v] /\ Doc(v)' = Doc(v) /\ work[v].pc \in Unsigning
          BY <2>3, <2>6, <3>2 DEF Unsigning
        <4>0. PICK e \in Docs : e = Doc(v)
          BY <2>13, <4>1
        <4>2. /\ e # d /\ rows'[e] = rows[e] /\ JudgedRight(v) /\ RowAgrees(e)
              /\ rows[e].status # "withdrawn" => Waiting(e)
          BY <2>5, <2>13, <4>0, <4>1 DEF Waiting
        <4>3. IsNote(e) => rows[e].credits \in Docs
          BY <4>2 DEF RowAgrees
        <4>4. Siblings(e)' = Siblings(e) \/ ~IsNote(e)
          BY <2>9, <4>2, <4>3 DEF Siblings
        <4>5. ASSUME IsNote(e), rows[e].status # "withdrawn", NEW o \in Siblings(e), ~InPlay(o)
              PROVE  ~InPlay(o)'
          <5>1. o # d
            BY <2>10, <4>2, <4>5 DEF NotesInOrder, Siblings, NotesAgainst, IsNote
          <5>. QED
            BY <2>10, <4>5, <5>1 DEF Siblings, NotesAgainst
        <4>6. rows[e].supersedes # NoDoc => rows[e].supersedes \in Docs
          BY <4>2, RowFields
        <4>7. CASE work[v].pc = "sign" /\ IsNote(e)
          <5>1. rows[e].status # "withdrawn" =>
                   /\ rows'[rows[e].credits].status = "authorized"
                   /\ \A o \in Siblings(e)' : ~InPlay(o)'
            BY <4>0, <2>8, <4>2, <4>3, <4>4, <4>5, <4>7 DEF JudgedRight, At
          <5>. QED
            BY <4>0, <4>1, <4>2, <4>7, <5>1 DEF JudgedRight, At, IsNote
        <4>8. CASE work[v].pc = "sign" /\ ~IsNote(e)
          <5>1. rows[e].status # "withdrawn" /\ rows[e].supersedes # NoDoc =>
                   \/ rows'[rows[e].supersedes].status \in Dead
                   \/ CreditedByAuthorized(rows[e].supersedes)'
            BY <4>0, <2>8, <2>9, <4>2, <4>6, <4>8 DEF JudgedRight, At
          <5>. QED
            BY <4>0, <4>1, <4>2, <4>8, <5>1 DEF JudgedRight, At, IsNote, CreditedByAuthorized, NotesAgainst
        <4>9. CASE work[v].pc = "withdraw"
          <5>1. IsNote(e) => \/ rows'[rows[e].credits].status \in Dead
                             \/ \E o \in Siblings(e)' : rows'[o].status = "authorized"
            BY <4>0, <2>8, <4>2, <4>3, <4>4, <4>9 DEF JudgedRight, At, Siblings, NotesAgainst
          <5>. QED
            BY <4>0, <4>1, <4>2, <4>9, <5>1 DEF JudgedRight, At, IsNote
        <4>. QED
          BY <3>2, <4>1, <4>7, <4>8, <4>9
      <3>. QED
        BY <3>1, <3>2
    <2>17. NotesInOrder'
      <3>1. ASSUME NEW c \in Docs, IsNote(c), IsNote(d), rows[c].credits = rows[d].credits,
                   InPlay(c)'
            PROVE  c = d
        <4>1. SUFFICES ASSUME c # d PROVE FALSE
          OBVIOUS
        <4>2. InPlay(c) /\ rows[c].status # "absent"
          BY <2>10, <3>1, <4>1 DEF InPlay
        <4>. QED
          BY <2>11, <3>1, <4>1, <4>2 DEF Siblings, NotesAgainst, IsNote
      <3>. QED
        BY <2>8, <2>10, <3>1 DEF NotesInOrder, IsNote
    <2>18. FacturasInOrder'
      <3>1. \A f \in Docs : f # d => (Standing(f)' <=> Standing(f))
        BY <2>8, <2>9, <2>10 DEF Standing
      <3>2. ASSUME rows[d].kind = "sale", NEW f \in Docs, f # d, Standing(f) PROVE FALSE
        <4>1. rows[d].supersedes = f /\ f # NoDoc
          BY <2>10, <3>2, DocsAssumption DEF FacturasInOrder
        <4>2. rows[f].status \in Dead \/ CreditedByAuthorized(f)
          BY <2>11, <3>2, <4>1 DEF IsNote
        <4>. QED
          BY <3>2, <4>2, WhatIsDecided DEF Standing, InPlay
      <3>3. Standing(d)' => rows[d].kind = "sale"
        BY <2>8 DEF Standing
      <3>4. \A f, g \in Docs : Standing(f)' /\ Standing(g)' => f = g
        BY <3>1, <3>2, <3>3 DEF FacturasInOrder
      <3>5. \A f, g \in Docs :
               rows'[f].kind = "sale" /\ rows'[g].kind = "sale" /\ Waiting(f)' /\ Waiting(g)'
               => f = g
        BY <2>8, <2>10 DEF FacturasInOrder
      <3>6. \A f, g \in Docs : Standing(f)' /\ rows'[g].kind = "sale" /\ Waiting(g)'
                               => rows'[g].supersedes = f
        BY <2>8, <2>10, <3>1, <3>3 DEF FacturasInOrder
      <3>7. ASSUME NEW g \in Docs, Signed(g)', rows'[g].supersedes # NoDoc
            PROVE  \/ rows'[rows'[g].supersedes].status \in Dead
                   \/ CreditedByAuthorized(rows[g].supersedes)'
        <4>1. rows'[g].supersedes = rows[g].supersedes /\ rows[g].supersedes \in Docs
          BY <2>8, <3>7, RowFields
        <4>2. rows[rows[g].supersedes].status \in Dead \/ CreditedByAuthorized(rows[g].supersedes)
          <5>1. CASE g = d
            BY <2>11, <3>7, <4>1, <5>1 DEF RowAgrees
          <5>2. CASE g # d
            BY <2>5, <3>7, <4>1, <5>2 DEF FacturasInOrder
          <5>. QED
            BY <5>1, <5>2
        <4>. QED
          BY <2>8, <2>9, <4>1, <4>2
      <3>8. \A g, e \in Docs : rows'[g].kind = "sale" /\ rows'[g].supersedes = NoDoc /\ Waiting(g)'
                               /\ e # g => rows'[e].status = "absent"
        BY <2>8, <2>10 DEF FacturasInOrder
      <3>. QED
        BY <2>8, <3>4, <3>5, <3>6, <3>7, <3>8 DEF FacturasInOrder, CreditedByAuthorized, NotesAgainst
    <2>19. NotesCreditAuthorized'
      <3>1. ASSUME NEW f \in Docs, NEW c \in NotesAgainst(f)', Signed(c)'
            PROVE  rows'[f].status = "authorized"
        <4>1. c \in NotesAgainst(f) /\ c \in Docs /\ IsNote(c) /\ rows[c].credits = f
          BY <2>9, <3>1 DEF NotesAgainst, IsNote
        <4>2. rows[f].status = "authorized"
          BY <2>5, <2>11, <3>1, <4>1 DEF NotesCreditAuthorized
        <4>. QED
          BY <2>8, <4>2
      <3>. QED
        BY <3>1 DEF NotesCreditAuthorized
    <2>20. ReversedSaleIsUndone'
      <3>1. SUFFICES ASSUME sale = "reversed", NEW f \in Docs, rows'[f].kind = "sale",
                            rows'[f].status \notin Dead \cup {"absent"}
                     PROVE  Signed(f)' /\ \E c \in NotesAgainst(f)' : rows'[c].status # "withdrawn"
        BY <2>4 DEF ReversedSaleIsUndone
      <3>2. /\ Signed(f)
            /\ \E c \in NotesAgainst(f) : rows[c].status # "withdrawn"
        BY <2>8, <3>1 DEF ReversedSaleIsUndone
      <3>3. \A c \in Docs : rows[c].status # "withdrawn" => rows'[c].status # "withdrawn"
        BY <2>2, <2>5
      <3>. QED
        BY <1>1, <2>5, <2>9, <3>2, <3>3 DEF NotesAgainst
    <2>. QED
      BY <2>5, <1>3, <2>7, <2>12, <2>14, <2>15, <2>16, <2>17, <2>18, <2>19, <2>20, WhatIsDecided
         DEF IInv, DeadKept
  <1>. QED
    BY <1>2, <1>3

LEMMA SignHolds ==
    ASSUME IInv, NEW w \in Workers, SignOwedInvoice(w)
    PROVE  IInv' /\ DeadKept
  BY DocumentSigned, WorkerFields DEF SignOwedInvoice, At

----------------------------------------------------------------------------
(* Owing *)

\* A row left as it is.
LEMMA LeftAlone ==
    ASSUME IInv, NEW d \in Docs, rows'[d] = rows[d], UNCHANGED authority
    PROVE  /\ Keeps(d) /\ Heeds(d) /\ Queues(d) /\ (Signed(d)' <=> Signed(d))
           /\ (InPlay(d)' <=> InPlay(d)) /\ (Waiting(d)' <=> Waiting(d))
  <1>1. Signed(d)' <=> Signed(d)
    BY DEF Signed
  <1>2. (InPlay(d)' <=> InPlay(d)) /\ (Waiting(d)' <=> Waiting(d))
    BY <1>1 DEF InPlay, Waiting
  <1>3. Keeps(d) /\ Queues(d)
    BY <1>1 DEF Keeps, Queues
  <1>4. Heeds(d)
    BY InvParts DEF Heeds, HeldThere, AuthorityAgrees
  <1>. QED
    BY <1>1, <1>2, <1>3, <1>4

\* A document owed under a fresh id: nobody is at work on it.
LEMMA OwedAnew ==
    ASSUME IInv, NEW d \in Docs, rows[d].status = "absent", UNCHANGED <<authority, work>>,
           \/ \E f \in Docs : rows'[d] = OwedNote(f)
           \/ \E old \in Docs : rows'[d] = OwedSale(old)
    PROVE  /\ Keeps(d) /\ Heeds(d) /\ Queues(d) /\ rows'[d] \in Row
           /\ rows'[d].status = "owed" /\ ~Signed(d)' /\ ~Signed(d)
           /\ ~InPlay(d)' /\ ~InPlay(d) /\ ~Waiting(d) /\ Waiting(d)'
           /\ AuthorityAgrees(d)'
  <1>. USE InvParts
  <1>1. rows[d] = AbsentRow /\ ~Signed(d) /\ authority[d].state \notin {"held", "authorized"}
    BY RowFields DEF RowAgrees, AuthorityAgrees, HeldThere
  <1>2. /\ rows'[d] \in Row /\ rows'[d].status = "owed" /\ rows'[d].file = 0
        /\ rows'[d].byNumber = FALSE
    <2>1. rows'[d] \in Row
      BY RowsWritten
    <2>. QED
      BY <2>1 DEF OwedNote, OwedSale, AbsentRow
  <1>3. /\ ~Signed(d)' /\ ~InPlay(d)' /\ Waiting(d)' /\ ~InPlay(d) /\ ~Waiting(d)
    BY <1>1, <1>2 DEF Signed, InPlay, Waiting
  <1>4. Keeps(d) /\ Heeds(d)
    BY <1>1, <1>2, <1>3, WhatIsDecided DEF Keeps, Heeds, HeldThere
  <1>5. ASSUME NEW w \in Rounds, work'[w].pc \in Unsigning PROVE Doc(w)' # d
    BY <1>5 DEF WorkerAgrees, Workers, At, Unsigning, Doc
  <1>6. Queues(d)
    BY <1>5 DEF Queues
  <1>7. AuthorityAgrees(d)'
    BY <1>1, <1>2, <1>3 DEF AuthorityAgrees, HeldThere
  <1>. QED
    BY <1>1, <1>2, <1>3, <1>4, <1>6, <1>7

\* A document that waits names nothing that may still be signed or credited as its own:
\* nothing supersedes it, and no authorized note is against it.
LEMMA NothingFollowsWaiting ==
    ASSUME IInv, NEW d \in Docs, Waiting(d)
    PROVE  ~HasLiveSuccessor(d) /\ ~CreditedByAuthorized(d)
  <1>. USE InvParts
  <1>1. ASSUME NEW x \in Docs, rows[x].supersedes = d PROVE FALSE
    <2>1. d # NoDoc /\ rows[d].status \in {"authorized", "annulled", "abandoned"}
      BY <1>1, DocsAssumption DEF RowAgrees
    <2>. QED
      BY <2>1 DEF Waiting
  <1>2. ASSUME NEW c \in NotesAgainst(d) PROVE FALSE
    BY <1>2 DEF NotesAgainst, RowAgrees, IsNote, Waiting
  <1>. QED
    BY <1>1, <1>2 DEF HasLiveSuccessor, CreditedByAuthorized

LEMMA ReissueHolds ==
    ASSUME IInv, NEW f \in Docs, ReissueSaleInvoice(f)
    PROVE  IInv' /\ DeadKept
  <1>. USE InvParts
  <1>1. PICK n \in Docs, g \in Docs :
          /\ n < g /\ Fresh({n, g})
          /\ rows' = [rows EXCEPT ![n] = OwedNote(f), ![g] = OwedSale(f)]
    BY DEF ReissueSaleInvoice
  <1>2. /\ n # g /\ rows[n].status = "absent" /\ rows[g].status = "absent"
        /\ rows' \in [Docs -> Row] /\ rows'[n] = OwedNote(f) /\ rows'[g] = OwedSale(f)
        /\ \A d \in Docs \ {n, g} : rows'[d] = rows[d]
    <2>1. n # g
      BY <1>1, DocsAssumption
    <2>. QED
      BY <1>1, <2>1, RowsWritten DEF Fresh, TypeOK
  <1>3. /\ rows[f].kind = "sale" /\ rows[f].status = "authorized" /\ sale = "committed"
        /\ ~CreditedByAuthorized(f) /\ Signed(f) /\ f # n /\ f # g /\ ~ReissueInFlight
    BY <1>2 DEF ReissueSaleInvoice, Reissuable, RowAgrees
  <1>4. UNCHANGED <<sale, authority, work, mails, hitches, resends>>
    BY DEF ReissueSaleInvoice
  <1>5. /\ rows'[n].kind = "credit_note" /\ rows'[n].credits = f /\ rows'[n].supersedes = NoDoc
        /\ rows'[g].kind = "sale" /\ rows'[g].credits = NoDoc /\ rows'[g].supersedes = f
    BY <1>2 DEF OwedNote, OwedSale, AbsentRow
  <1>6. \A d \in {n, g} : /\ Keeps(d) /\ Heeds(d) /\ Queues(d) /\ rows'[d].status = "owed"
                          /\ ~Signed(d)' /\ ~Signed(d) /\ ~InPlay(d)' /\ ~InPlay(d)
                          /\ ~Waiting(d) /\ Waiting(d)'
    BY <1>2, <1>4, OwedAnew
  <1>7. \A d \in Docs \ {n, g} : /\ Keeps(d) /\ Heeds(d) /\ Queues(d)
                                 /\ (Signed(d)' <=> Signed(d)) /\ (InPlay(d)' <=> InPlay(d))
                                 /\ (Waiting(d)' <=> Waiting(d))
    BY <1>2, <1>4, LeftAlone
  <1>8. /\ \A d \in Docs : AuthorityAgrees(d)'
        /\ \A w \in Workers : WorkerAgrees(w)' /\ JudgedRight(w)'
        /\ LeaseHolds'
    BY <1>4, <1>6, <1>7, WorkersGoOn DEF Works
  <1>9. TypeOK'
    BY <1>2, <1>4 DEF TypeOK
  <1>10. ASSUME NEW d \in Docs PROVE RowAgrees(d)'
    <2>1. CASE d \in {n, g}
      BY <1>2, <1>3, <1>5, <1>6, <1>7, <2>1 DEF RowAgrees, IsNote, Signed
    <2>2. CASE d \notin {n, g}
      <3>1. RowAgrees(d) /\ rows'[d] = rows[d] /\ (Signed(d)' <=> Signed(d))
        BY <1>2, <1>7, <2>2
      <3>2. IsNote(d) => rows[d].credits \in Docs \ {n, g}
        BY <1>6, <3>1 DEF RowAgrees
      <3>3. rows[d].supersedes # NoDoc => rows[d].supersedes \in Docs \ {n, g}
        BY <1>2, <3>1, RowFields DEF RowAgrees
      <3>4. IsNote(d)' => Signed(rows[d].credits)'
        BY <1>7, <3>1, <3>2 DEF RowAgrees, IsNote
      <3>. QED
        BY <1>2, <3>1, <3>2, <3>3, <3>4 DEF RowAgrees, IsNote, Signed
    <2>. QED
      BY <2>1, <2>2
  <1>11. \A h \in Docs : CreditedByAuthorized(h)' <=> CreditedByAuthorized(h)
    BY <1>2, <1>6 DEF CreditedByAuthorized, NotesAgainst
  <1>12. \A h \in Docs : Standing(h)' <=> Standing(h)
    BY <1>2, <1>6, <1>7, <1>11 DEF Standing
  <1>13. ASSUME NEW d \in Docs, Waiting(d) PROVE FALSE
    <2>1. rows[d].kind = "sale" /\ rows[d].supersedes = NoDoc
      BY <1>3, <1>13, RowFields, WhatIsDecided DEF ReissueInFlight, Waiting
    <2>2. d # f
      BY <1>3, <1>13 DEF Waiting
    <2>. QED
      BY <1>3, <1>13, <2>1, <2>2 DEF FacturasInOrder
  <1>14. NotesInOrder'
    BY <1>2, <1>5, <1>6, <1>7, <1>13 DEF NotesInOrder, IsNote
  <1>15. FacturasInOrder'
    <2>1. \A h, i \in Docs : Standing(h)' /\ Standing(i)' => h = i
      BY <1>12 DEF FacturasInOrder
    <2>2. \A h \in Docs : rows'[h].kind = "sale" /\ Waiting(h)' => h = g
      BY <1>5, <1>7, <1>13
    <2>3. Standing(f)
      BY <1>3 DEF Standing, InPlay
    <2>4. \A h, i \in Docs : Standing(h)' /\ rows'[i].kind = "sale" /\ Waiting(i)'
                             => rows'[i].supersedes = h
      BY <1>5, <1>12, <2>2, <2>3 DEF FacturasInOrder
    <2>5. ASSUME NEW i \in Docs, Signed(i)', rows'[i].supersedes # NoDoc
          PROVE  \/ rows'[rows'[i].supersedes].status \in Dead
                 \/ CreditedByAuthorized(rows[i].supersedes)'
      <3>1. i \notin {n, g} /\ rows'[i] = rows[i] /\ Signed(i) /\ rows[i].supersedes \in Docs
        BY <1>2, <1>6, <1>7, <2>5, RowFields
      <3>2. \/ rows[rows[i].supersedes].status \in Dead
            \/ CreditedByAuthorized(rows[i].supersedes)
        BY <2>5, <3>1 DEF FacturasInOrder
      <3>3. rows[rows[i].supersedes].status \in Dead => rows[i].supersedes \notin {n, g}
        BY <1>2, WhatIsDecided
      <3>. QED
        BY <1>2, <1>11, <3>1, <3>2, <3>3
    <2>6. \A i \in Docs : ~(rows'[i].kind = "sale" /\ rows'[i].supersedes = NoDoc /\ Waiting(i)')
      BY <1>5, <2>2, DocsAssumption
    <2>7. \A i \in Docs : i \notin {n, g} => rows'[i].supersedes = rows[i].supersedes
      BY <1>2
    <2>8. \A i \in {n, g} : ~Signed(i)'
      BY <1>6
    <2>. QED
      BY <2>1, <2>2, <2>4, <2>5, <2>6, <2>7, <2>8
         DEF FacturasInOrder, CreditedByAuthorized, NotesAgainst
  <1>16. NotesCreditAuthorized'
    <2>1. ASSUME NEW h \in Docs, NEW c \in NotesAgainst(h)', Signed(c)'
          PROVE  rows'[h].status = "authorized"
      <3>1. c \in NotesAgainst(h) /\ Signed(c)
        BY <1>2, <1>6, <1>7, <2>1 DEF NotesAgainst
      <3>2. rows[h].status = "authorized"
        BY <3>1 DEF NotesCreditAuthorized
      <3>. QED
        BY <1>2, <3>2
    <2>. QED
      BY <2>1 DEF NotesCreditAuthorized
  <1>17. ReversedSaleIsUndone'
    BY <1>3, <1>4 DEF ReversedSaleIsUndone
  <1>. QED
    BY <1>6, <1>7, <1>8, <1>9, <1>10, <1>14, <1>15, <1>16, <1>17 DEF IInv, DeadKept, Keeps

\* No factura stands and none waits where the Sale may be issued again.
LEMMA IssueAgainHolds ==
    ASSUME IInv, NEW f \in Docs, IssueSaleInvoiceAgain(f)
    PROVE  IInv' /\ DeadKept
  <1>. USE InvParts
  <1>1. PICK g \in Docs : Fresh({g}) /\ rows' = [rows EXCEPT ![g] = OwedSale(f)]
    BY DEF IssueSaleInvoiceAgain
  <1>2. /\ rows[g].status = "absent" /\ rows' \in [Docs -> Row] /\ rows'[g] = OwedSale(f)
        /\ \A d \in Docs \ {g} : rows'[d] = rows[d]
    BY <1>1, RowsWritten DEF Fresh, TypeOK
  <1>3. /\ rows[f].kind = "sale" /\ rows[f].status \in {"abandoned", "annulled"}
        /\ sale = "committed" /\ Signed(f) /\ f # g /\ ~SaleHasLiveFactura
    BY <1>2 DEF IssueSaleInvoiceAgain, IssuableAgain, RowAgrees
  <1>4. UNCHANGED <<sale, authority, work, mails, hitches, resends>>
    BY DEF IssueSaleInvoiceAgain
  <1>5. rows'[g].kind = "sale" /\ rows'[g].credits = NoDoc /\ rows'[g].supersedes = f
    BY <1>2 DEF OwedSale, AbsentRow
  <1>6. /\ Keeps(g) /\ Heeds(g) /\ Queues(g) /\ rows'[g].status = "owed"
        /\ ~Signed(g)' /\ ~Signed(g) /\ ~InPlay(g)' /\ ~InPlay(g) /\ ~Waiting(g) /\ Waiting(g)'
    BY <1>2, <1>4, OwedAnew
  <1>7. \A d \in Docs \ {g} : /\ Keeps(d) /\ Heeds(d) /\ Queues(d)
                              /\ (Signed(d)' <=> Signed(d)) /\ (InPlay(d)' <=> InPlay(d))
                              /\ (Waiting(d)' <=> Waiting(d))
    BY <1>2, <1>4, LeftAlone
  <1>8. /\ \A d \in Docs : AuthorityAgrees(d)'
        /\ \A w \in Workers : WorkerAgrees(w)' /\ JudgedRight(w)'
        /\ LeaseHolds'
    BY <1>4, <1>6, <1>7, WorkersGoOn DEF Works
  <1>9. TypeOK'
    BY <1>2, <1>4 DEF TypeOK
  <1>10. ASSUME NEW d \in Docs PROVE RowAgrees(d)'
    <2>1. CASE d = g
      BY <1>2, <1>3, <1>5, <1>6, <1>7, <2>1 DEF RowAgrees, IsNote, Signed
    <2>2. CASE d # g
      <3>1. RowAgrees(d) /\ rows'[d] = rows[d] /\ (Signed(d)' <=> Signed(d))
        BY <1>2, <1>7, <2>2
      <3>2. IsNote(d) => rows[d].credits \in Docs \ {g}
        BY <1>6, <3>1 DEF RowAgrees
      <3>3. rows[d].supersedes # NoDoc => rows[d].supersedes \in Docs \ {g}
        BY <1>2, <3>1, RowFields DEF RowAgrees
      <3>4. IsNote(d)' => Signed(rows[d].credits)'
        BY <1>7, <3>1, <3>2 DEF RowAgrees, IsNote
      <3>. QED
        BY <1>2, <3>1, <3>2, <3>3, <3>4 DEF RowAgrees, IsNote, Signed
    <2>. QED
      BY <2>1, <2>2
  <1>11. \A h \in Docs : /\ NotesAgainst(h)' = NotesAgainst(h)
                         /\ CreditedByAuthorized(h)' <=> CreditedByAuthorized(h)
    <2>1. rows[g].kind = "sale"
      BY <1>2 DEF RowAgrees, AbsentRow
    <2>. QED
      BY <1>2, <1>5, <1>6, <2>1 DEF CreditedByAuthorized, NotesAgainst
  <1>12. \A h \in Docs : Standing(h)' <=> Standing(h)
    BY <1>2, <1>6, <1>7, <1>11 DEF Standing
  <1>13. ASSUME NEW d \in Docs, rows[d].kind = "sale", Waiting(d) PROVE FALSE
    <2>1. ~HasLiveSuccessor(d) /\ ~CreditedByAuthorized(d)
      BY <1>13, NothingFollowsWaiting
    <2>2. rows[d].status \notin Dead \cup {"absent"}
      BY <1>13, WhatIsDecided DEF Waiting
    <2>. QED
      BY <1>3, <1>13, <2>1, <2>2 DEF SaleHasLiveFactura
  <1>14. ASSUME NEW h \in Docs, Standing(h) PROVE FALSE
    <2>1. rows[h].kind = "sale" /\ rows[h].status \notin Dead \cup {"absent"}
          /\ ~CreditedByAuthorized(h)
      BY <1>14, WhatIsDecided DEF Standing, InPlay
    <2>2. PICK s \in Docs : rows[s].supersedes = h /\ rows[s].status \notin Dead \cup {"absent"}
      BY <1>3, <2>1 DEF SaleHasLiveFactura, HasLiveSuccessor
    <2>3. h # NoDoc /\ rows[s].kind = "sale" /\ rows[s].status \in Statuses
      BY <2>2, DocsAssumption, RowFields DEF RowAgrees, IsNote
    <2>4. ~Signed(s)
      BY <2>1, <2>2, <2>3 DEF FacturasInOrder
    <2>5. Waiting(s)
      BY <2>2, <2>3, <2>4, WhatIsDecided DEF RowAgrees, Waiting
    <2>. QED
      BY <1>13, <2>3, <2>5
  <1>15. NotesInOrder'
    BY <1>2, <1>5, <1>7 DEF NotesInOrder, IsNote
  <1>16. FacturasInOrder'
    <2>1. \A h \in Docs : ~Standing(h)'
      BY <1>12, <1>14
    <2>2. \A h \in Docs : rows'[h].kind = "sale" /\ Waiting(h)' => h = g
      BY <1>2, <1>7, <1>13
    <2>3. ASSUME NEW i \in Docs, Signed(i)', rows'[i].supersedes # NoDoc
          PROVE  \/ rows'[rows'[i].supersedes].status \in Dead
                 \/ CreditedByAuthorized(rows[i].supersedes)'
      <3>1. i # g /\ rows'[i] = rows[i] /\ Signed(i) /\ rows[i].supersedes \in Docs
        BY <1>2, <1>6, <1>7, <2>3, RowFields
      <3>2. \/ rows[rows[i].supersedes].status \in Dead
            \/ CreditedByAuthorized(rows[i].supersedes)
        BY <2>3, <3>1 DEF FacturasInOrder
      <3>3. rows[rows[i].supersedes].status \in Dead => rows[i].supersedes # g
        BY <1>2, WhatIsDecided
      <3>. QED
        BY <1>2, <1>11, <3>1, <3>2, <3>3
    <2>4. \A i \in Docs : ~(rows'[i].kind = "sale" /\ rows'[i].supersedes = NoDoc /\ Waiting(i)')
      BY <1>5, <2>2, DocsAssumption
    <2>5. \A i \in Docs : i # g => rows'[i].supersedes = rows[i].supersedes
      BY <1>2
    <2>. QED
      BY <1>6, <2>1, <2>2, <2>3, <2>4, <2>5
         DEF FacturasInOrder, CreditedByAuthorized, NotesAgainst
  <1>17. NotesCreditAuthorized'
    <2>1. ASSUME NEW h \in Docs, NEW c \in NotesAgainst(h)', Signed(c)'
          PROVE  rows'[h].status = "authorized"
      <3>1. c \in NotesAgainst(h) /\ Signed(c)
        BY <1>6, <1>7, <1>11, <2>1 DEF NotesAgainst
      <3>2. rows[h].status = "authorized"
        BY <3>1 DEF NotesCreditAuthorized
      <3>. QED
        BY <1>2, <3>2
    <2>. QED
      BY <2>1 DEF NotesCreditAuthorized
  <1>18. ReversedSaleIsUndone'
    BY <1>3, <1>4 DEF ReversedSaleIsUndone
  <1>. QED
    BY <1>6, <1>7, <1>8, <1>9, <1>10, <1>15, <1>16, <1>17, <1>18 DEF IInv, DeadKept, Keeps

LEMMA SettleHolds ==
    ASSUME IInv, SettleReversedSale
    PROVE  IInv' /\ DeadKept
  <1>. USE InvParts
  <1>1. PICK noteOf \in [ToCredit -> Docs] :
          /\ Fresh({noteOf[f] : f \in ToCredit})
          /\ \A f, g \in ToCredit : f # g => noteOf[f] # noteOf[g]
          /\ rows' = [d \in Docs |->
                IF d \in NeverSent THEN [rows[d] EXCEPT !.status = "withdrawn", !.next = "null"]
                ELSE IF \E f \in ToCredit : noteOf[f] = d
                THEN OwedNote(CHOOSE f \in ToCredit : noteOf[f] = d)
                ELSE rows[d]]
    BY DEF SettleReversedSale
  <1>. DEFINE New == {noteOf[f] : f \in ToCredit}
  <1>2. sale' = "reversed" /\ UNCHANGED <<authority, work, mails, hitches, resends>>
    BY DEF SettleReversedSale
  <1>3. ASSUME NEW f \in ToCredit
        PROVE  /\ f \in ToSettle /\ f \in Docs /\ rows[f].kind = "sale" /\ Signed(f)
               /\ noteOf[f] \in New /\ noteOf[f] \in Docs /\ noteOf[f] \notin NeverSent
               /\ rows[noteOf[f]].status = "absent" /\ rows'[noteOf[f]] = OwedNote(f)
    <2>1. f \in ToSettle /\ f \in Docs /\ rows[f].kind = "sale" /\ Signed(f)
      BY DEF ToCredit, ToSettle
    <2>2. noteOf[f] \in Docs /\ rows[noteOf[f]].status = "absent"
      BY <1>1 DEF Fresh
    <2>3. noteOf[f] \notin NeverSent
      BY <2>2 DEF NeverSent
    <2>4. (CHOOSE h \in ToCredit : noteOf[h] = noteOf[f]) = f
      BY <1>1
    <2>. QED
      BY <1>1, <2>1, <2>2, <2>3, <2>4
  <1>4. New \subseteq Docs /\ New \cap NeverSent = {} /\ NeverSent \subseteq Docs
    BY <1>3 DEF NeverSent
  <1>. HIDE DEF New
  <1>5. ASSUME NEW d \in New PROVE \E f \in ToCredit : d = noteOf[f]
    BY <1>5 DEF New
  <1>6. ASSUME NEW d \in New
        PROVE  /\ Keeps(d) /\ Heeds(d) /\ Queues(d) /\ rows'[d].status = "owed"
               /\ ~Signed(d)' /\ ~Signed(d) /\ ~InPlay(d)' /\ ~InPlay(d) /\ ~Waiting(d)
               /\ rows'[d] \in Row /\ rows[d].status = "absent"
    BY <1>2, <1>3, <1>4, <1>5, OwedAnew
  <1>7. ASSUME NEW d \in NeverSent
        PROVE  /\ Keeps(d) /\ Heeds(d) /\ Queues(d) /\ ~Signed(d)' /\ ~Signed(d)
               /\ rows'[d] \in Row /\ rows'[d].status = "withdrawn" /\ rows[d].status # "absent"
               /\ rows'[d].kind = rows[d].kind /\ rows'[d].credits = rows[d].credits
               /\ rows'[d].supersedes = rows[d].supersedes
               /\ ~Waiting(d)' /\ ~InPlay(d)' /\ ~InPlay(d)
               /\ rows[d].status \notin {"authorized", "annulled", "abandoned"}
    <2>1. d \in Docs /\ rows[d] \in Row /\ rows[d].status # "absent" /\ ~Signed(d)
      BY <1>4 DEF NeverSent, TypeOK
    <2>2. rows'[d] = [rows[d] EXCEPT !.status = "withdrawn", !.next = "null"]
      BY <1>1, <2>1
    <2>3. /\ rows'[d] \in Row /\ rows'[d].status = "withdrawn" /\ rows'[d].next = "null"
          /\ rows'[d].kind = rows[d].kind /\ rows'[d].credits = rows[d].credits
          /\ rows'[d].supersedes = rows[d].supersedes /\ rows'[d].file = rows[d].file
          /\ rows'[d].byNumber = rows[d].byNumber
      BY <2>1, <2>2, WhatIsDecided DEF Row
    <2>4. rows[d].status \notin {"authorized", "pending", "annulled", "abandoned"}
      BY <2>1 DEF RowAgrees
    <2>5. ~Signed(d)'
      BY <2>1, <2>3 DEF Signed
    <2>6. Keeps(d)
      BY <2>1, <2>3, <2>4, <2>5, WhatIsDecided DEF Keeps
    <2>7. Heeds(d) /\ Queues(d)
      BY <1>2, <2>1, <2>3 DEF Heeds, Queues, HeldThere, AuthorityAgrees
    <2>. QED
      BY <2>1, <2>3, <2>4, <2>5, <2>6, <2>7 DEF Waiting, InPlay
  <1>8. ASSUME NEW d \in Docs, d \notin NeverSent, d \notin New
        PROVE  /\ rows'[d] = rows[d] /\ Keeps(d) /\ Heeds(d) /\ Queues(d)
               /\ (Signed(d)' <=> Signed(d)) /\ (InPlay(d)' <=> InPlay(d))
               /\ (Waiting(d)' <=> Waiting(d))
    <2>1. rows'[d] = rows[d]
      BY <1>1, <1>8 DEF New
    <2>. QED
      BY <1>2, <2>1, LeftAlone
  <1>9. /\ \A d \in Docs : AuthorityAgrees(d)'
        /\ \A w \in Workers : WorkerAgrees(w)' /\ JudgedRight(w)'
        /\ LeaseHolds'
    BY <1>2, <1>6, <1>7, <1>8, WorkersGoOn DEF Works
  <1>10. TypeOK'
    <2>1. \A d \in Docs : rows'[d] \in Row
      BY <1>6, <1>7, <1>8 DEF TypeOK
    <2>2. rows' \in [Docs -> Row]
      BY <1>1, <2>1
    <2>. QED
      BY <1>2, <2>2 DEF TypeOK
  \* What is signed, and whatever is superseded or credited, is left alone.
  <1>11. ASSUME NEW d \in Docs, Signed(d) \/ Signed(d)'
         PROVE  d \notin NeverSent /\ d \notin New /\ rows'[d] = rows[d] /\ Signed(d)' /\ Signed(d)
    BY <1>6, <1>7, <1>8, <1>11
  <1>12. ASSUME NEW d \in New
         PROVE  /\ rows'[d].kind = "credit_note" /\ rows'[d].supersedes = NoDoc
                /\ rows'[d].credits \in ToCredit /\ noteOf[rows'[d].credits] = d
    <2>1. PICK f \in ToCredit : d = noteOf[f]
      BY <1>5, <1>12
    <2>2. rows'[d] = OwedNote(f)
      BY <1>3, <2>1
    <2>3. /\ OwedNote(f).kind = "credit_note" /\ OwedNote(f).supersedes = NoDoc
          /\ OwedNote(f).credits = f
      BY DEF OwedNote, AbsentRow
    <2>. QED
      BY <2>1, <2>2, <2>3
  <1>13. \A d \in Docs : d \notin New =>
            /\ rows'[d].kind = rows[d].kind /\ rows'[d].credits = rows[d].credits
            /\ rows'[d].supersedes = rows[d].supersedes
            /\ rows'[d].status = "absent" <=> rows[d].status = "absent"
            /\ rows'[d].status = "authorized" <=> rows[d].status = "authorized"
    BY <1>7, <1>8
  <1>14. ASSUME NEW d \in Docs PROVE RowAgrees(d)'
    <2>1. CASE d \in New
      <3>1. /\ rows'[d].credits \in Docs /\ rows[rows'[d].credits].kind = "sale"
            /\ Signed(rows'[d].credits)
        BY <1>3, <1>12, <2>1
      <3>2. rows'[rows'[d].credits] = rows[rows'[d].credits]
        BY <1>11, <3>1
      <3>. QED
        BY <1>6, <1>12, <2>1, <3>1, <3>2 DEF RowAgrees, IsNote, Signed
    <2>2. CASE d \notin New
      <3>1. /\ RowAgrees(d) /\ (Signed(d)' <=> Signed(d))
            /\ rows'[d].kind = rows[d].kind /\ rows'[d].credits = rows[d].credits
            /\ rows'[d].supersedes = rows[d].supersedes
        BY <1>7, <1>8, <1>13, <2>2
      <3>2. rows'[d] = rows[d] \/ (rows'[d].status = "withdrawn" /\ ~Signed(d)')
        BY <1>7, <1>8, <2>2
      <3>3. IsNote(d) => /\ rows[d].credits \in Docs /\ rows[rows[d].credits].kind = "sale"
                         /\ rows'[rows[d].credits] = rows[rows[d].credits]
                         /\ rows[rows[d].credits].file # 0
        BY <1>11, <3>1 DEF RowAgrees, Signed
      <3>4. rows[d].supersedes # NoDoc =>
               /\ rows[d].supersedes \in Docs /\ Signed(rows[d].supersedes)
               /\ rows'[rows[d].supersedes] = rows[rows[d].supersedes]
        BY <1>11, <3>1, RowFields DEF RowAgrees
      <3>. QED
        BY <3>1, <3>2, <3>3, <3>4 DEF RowAgrees, IsNote, Signed
    <2>. QED
      BY <2>1, <2>2
  <1>15. \A h \in Docs : CreditedByAuthorized(h)' <=> CreditedByAuthorized(h)
    BY <1>6, <1>13 DEF CreditedByAuthorized, NotesAgainst
  <1>16. \A h \in Docs : Standing(h)' <=> Standing(h)
    BY <1>6, <1>7, <1>8, <1>13, <1>15 DEF Standing
  <1>17. ASSUME NEW e \in Docs, Waiting(e)', e \notin New
         PROVE  /\ rows'[e] = rows[e] /\ Waiting(e) /\ IsNote(e) /\ rows[e].credits \notin ToSettle
    <2>1. e \notin NeverSent /\ rows'[e] = rows[e] /\ Waiting(e)
      BY <1>7, <1>8, <1>17
    <2>2. rows[e].status # "absent" /\ ~Signed(e)
      BY <2>1 DEF Waiting
    <2>. QED
      BY <2>1, <2>2, RowFields DEF NeverSent, IsNote
  <1>18. NotesInOrder'
    <2>1. ASSUME NEW c \in Docs, NEW e \in Docs, IsNote(c)', IsNote(e)',
                 rows'[c].credits = rows'[e].credits, InPlay(c)', InPlay(e)'
          PROVE  c = e
      <3>1. /\ InPlay(c) /\ InPlay(e) /\ c \notin New /\ e \notin New
        BY <1>6, <1>7, <1>8, <2>1
      <3>. QED
        BY <1>13, <2>1, <3>1 DEF NotesInOrder, IsNote
    <2>2. ASSUME NEW c \in Docs, NEW e \in Docs, IsNote(c)', IsNote(e)',
                 rows'[c].credits = rows'[e].credits, Waiting(c)', Waiting(e)'
          PROVE  c = e
      <3>1. CASE c \in New /\ e \in New
        BY <1>12, <2>2, <3>1
      <3>2. CASE c \notin New /\ e \notin New
        BY <1>17, <2>2, <3>2 DEF NotesInOrder
      <3>3. CASE c \in New /\ e \notin New
        BY <1>3, <1>12, <1>17, <2>2, <3>3
      <3>4. CASE c \notin New /\ e \in New
        BY <1>3, <1>12, <1>17, <2>2, <3>4
      <3>. QED
        BY <3>1, <3>2, <3>3, <3>4
    <2>. QED
      BY <2>1, <2>2 DEF NotesInOrder
  <1>19. FacturasInOrder'
    <2>1. \A f, g \in Docs : Standing(f)' /\ Standing(g)' => f = g
      BY <1>16 DEF FacturasInOrder
    <2>2. \A g \in Docs : ~(rows'[g].kind = "sale" /\ Waiting(g)')
      BY <1>12, <1>17 DEF IsNote
    <2>3. ASSUME NEW g \in Docs, Signed(g)', rows'[g].supersedes # NoDoc
          PROVE  \/ rows'[rows'[g].supersedes].status \in Dead
                 \/ CreditedByAuthorized(rows[g].supersedes)'
      <3>1. /\ rows'[g] = rows[g] /\ Signed(g) /\ rows[g].supersedes \in Docs
            /\ Signed(rows[g].supersedes)
        BY <1>11, <2>3, RowFields DEF RowAgrees
      <3>2. rows'[rows[g].supersedes] = rows[rows[g].supersedes]
        BY <1>11, <3>1
      <3>. QED
        BY <1>15, <2>3, <3>1, <3>2 DEF FacturasInOrder
    <2>4. \A g \in Docs : Signed(g)' => rows'[g].supersedes = rows[g].supersedes
      BY <1>11
    <2>. QED
      BY <2>1, <2>2, <2>3, <2>4 DEF FacturasInOrder, CreditedByAuthorized, NotesAgainst
  <1>20. NotesCreditAuthorized'
    <2>1. ASSUME NEW h \in Docs, NEW c \in NotesAgainst(h)', Signed(c)'
          PROVE  rows'[h].status = "authorized"
      <3>1. c \in NotesAgainst(h) /\ Signed(c)
        BY <1>11, <2>1 DEF NotesAgainst
      <3>2. rows[h].status = "authorized"
        BY <3>1 DEF NotesCreditAuthorized
      <3>3. Signed(h)
        BY <3>2 DEF RowAgrees
      <3>. QED
        BY <1>11, <3>2, <3>3
    <2>. QED
      BY <2>1 DEF NotesCreditAuthorized
  <1>21. ReversedSaleIsUndone'
    <2>1. SUFFICES ASSUME NEW f \in Docs, rows'[f].kind = "sale",
                          rows'[f].status \notin Dead \cup {"absent"}
                   PROVE  Signed(f)' /\ \E c \in NotesAgainst(f)' : rows'[c].status # "withdrawn"
      BY DEF ReversedSaleIsUndone
    <2>2. f \notin New /\ f \notin NeverSent
      BY <1>7, <1>12, <2>1, WhatIsDecided
    <2>3. rows'[f] = rows[f] /\ Signed(f) /\ Signed(f)'
      BY <1>8, <2>1, <2>2 DEF NeverSent
    <2>4. f \in ToSettle
      BY <2>1, <2>3, WhatIsDecided DEF ToSettle
    <2>5. CASE f \in ToCredit
      <3>1. /\ noteOf[f] \in Docs /\ rows'[noteOf[f]].kind = "credit_note"
            /\ rows'[noteOf[f]].credits = f /\ rows'[noteOf[f]].status = "owed"
        <4>1. noteOf[f] \in Docs /\ rows'[noteOf[f]] = OwedNote(f)
          BY <1>3, <2>5
        <4>2. /\ OwedNote(f).kind = "credit_note" /\ OwedNote(f).credits = f
              /\ OwedNote(f).status = "owed"
          BY DEF OwedNote, AbsentRow
        <4>. QED
          BY <4>1, <4>2
      <3>. QED
        BY <2>3, <3>1 DEF NotesAgainst
    <2>6. CASE f \notin ToCredit
      <3>1. PICK c \in NotesAgainst(f) : rows[c].status = "authorized"
        BY <2>4, <2>6 DEF ToCredit, CreditedByAuthorized
      <3>2. c \in Docs /\ rows'[c] = rows[c]
        BY <1>11, <3>1 DEF NotesAgainst, RowAgrees
      <3>. QED
        BY <2>3, <3>1, <3>2 DEF NotesAgainst
    <2>. QED
      BY <2>5, <2>6
  <1>. QED
    BY <1>6, <1>7, <1>8, <1>9, <1>10, <1>14, <1>18, <1>19, <1>20, <1>21 DEF IInv, DeadKept, Keeps

----------------------------------------------------------------------------
(* The theorems *)

LEMMA InitHolds == Init => IInv
  <1>. SUFFICES ASSUME Init PROVE IInv
    OBVIOUS
  <1>1. PICK first \in Docs :
          rows = [d \in Docs |-> IF d = first THEN OwedSale(NoDoc) ELSE AbsentRow]
    BY DEF Init
  <1>2. /\ OwedSale(NoDoc) \in Row /\ OwedSale(NoDoc).kind = "sale"
        /\ OwedSale(NoDoc).status = "owed" /\ OwedSale(NoDoc).file = 0
        /\ OwedSale(NoDoc).credits = NoDoc /\ OwedSale(NoDoc).supersedes = NoDoc
        /\ OwedSale(NoDoc).byNumber = FALSE
    BY RowsWritten DEF OwedSale, AbsentRow
  <1>3. /\ AbsentRow \in Row /\ AbsentRow.kind = "sale" /\ AbsentRow.status = "absent"
        /\ AbsentRow.file = 0 /\ AbsentRow.credits = NoDoc /\ AbsentRow.supersedes = NoDoc
        /\ AbsentRow.byNumber = FALSE
    BY RowsWritten DEF AbsentRow
  <1>4. ASSUME NEW d \in Docs
        PROVE  /\ rows[d] \in Row /\ rows[d].kind = "sale" /\ rows[d].file = 0
               /\ rows[d].credits = NoDoc /\ rows[d].supersedes = NoDoc
               /\ rows[d].byNumber = FALSE /\ rows[d].status \in {"owed", "absent"}
               /\ rows[d].status = "owed" => d = first
               /\ rows[d].status = "absent" => rows[d] = AbsentRow
    BY <1>1, <1>2, <1>3
  <1>5. TypeOK
    <2>1. rows \in [Docs -> Row]
      BY <1>1, <1>2, <1>3
    <2>2. authority \in [Docs -> [state : AuthorityStates, bytes : 0..MaxBytes]]
      BY BytesOfAny DEF Init, AuthorityStates
    <2>3. work \in [Workers -> Worker]
      BY RestIsAWorker DEF Init
    <2>. QED
      BY <2>1, <2>2, <2>3, BoundsAssumption DEF Init, TypeOK
  <1>6. ASSUME NEW d \in Docs PROVE RowAgrees(d) /\ AuthorityAgrees(d)
    BY <1>4 DEF RowAgrees, AuthorityAgrees, IsNote, Signed, HeldThere, Init
  <1>7. ASSUME NEW w \in Workers PROVE WorkerAgrees(w) /\ JudgedRight(w)
    <2>1. work[w] = Idle /\ Idle.pc = "idle"
      BY RestIsAWorker DEF Init
    <2>. QED
      BY <2>1 DEF WorkerAgrees, JudgedRight, At, Unsigning, Asking
  <1>8. LeaseHolds
    BY RestIsAWorker DEF Init, LeaseHolds, Unsigning, Workers
  <1>9. \A d \in Docs : ~InPlay(d) /\ ~Standing(d) /\ ~Signed(d) /\ NotesAgainst(d) = {}
                       /\ (Waiting(d) => d = first)
    BY <1>4 DEF InPlay, Standing, Waiting, Signed, NotesAgainst
  <1>10. NotesInOrder /\ NotesCreditAuthorized
    BY <1>4, <1>9 DEF NotesInOrder, NotesCreditAuthorized, IsNote
  <1>11. FacturasInOrder
    BY <1>4, <1>9 DEF FacturasInOrder
  <1>12. ReversedSaleIsUndone
    BY DEF Init, ReversedSaleIsUndone
  <1>. QED
    BY <1>5, <1>6, <1>7, <1>8, <1>10, <1>11, <1>12 DEF IInv

LEMMA StutterHolds == IInv /\ UNCHANGED vars => IInv' /\ DeadKept
  <1>. SUFFICES ASSUME IInv, UNCHANGED vars PROVE IInv' /\ DeadKept
    OBVIOUS
  <1>. USE InvParts DEF vars
  <1>1. TypeOK' /\ DeadKept
    BY DEF TypeOK, DeadKept
  <1>2. \A d \in Docs : RowAgrees(d)' /\ AuthorityAgrees(d)'
    BY DEF RowAgrees, AuthorityAgrees, HeldThere, InPlay, Signed, IsNote, Waiting
  <1>3. \A w \in Workers : WorkerAgrees(w)' /\ JudgedRight(w)'
    <2>1. ASSUME NEW w \in Workers PROVE WorkerAgrees(w)'
      BY DEF WorkerAgrees, At, Doc, Signed
    <2>2. ASSUME NEW w \in Workers PROVE JudgedRight(w)'
      <3>1. /\ JudgedRight(w) /\ Doc(w)' = Doc(w) /\ \A pc : At(w, pc)' = At(w, pc)
            /\ \A d : /\ InPlay(d)' = InPlay(d) /\ Siblings(d)' = Siblings(d)
                    /\ IsNote(d)' = IsNote(d)
                    /\ CreditedByAuthorized(d)' = CreditedByAuthorized(d)
        BY DEF At, Doc, InPlay, Siblings, NotesAgainst, IsNote, Signed, CreditedByAuthorized
      <3>. QED
        BY <3>1 DEF JudgedRight
    <2>. QED
      BY <2>1, <2>2
  <1>4. LeaseHolds'
    BY DEF LeaseHolds, At, Doc, Signed
  <1>5. NotesInOrder' /\ NotesCreditAuthorized'
    BY DEF NotesInOrder, NotesCreditAuthorized, NotesAgainst, Waiting, InPlay, Signed, IsNote
  <1>6. FacturasInOrder'
    BY DEF FacturasInOrder, Waiting, InPlay, Standing, IsNote, Siblings, Signed, NotesAgainst,
       CreditedByAuthorized
  <1>7. ReversedSaleIsUndone'
    BY DEF ReversedSaleIsUndone, CreditedByAuthorized, NotesAgainst, Waiting, Signed
  <1>. QED
    BY <1>1, <1>2, <1>3, <1>4, <1>5, <1>6, <1>7 DEF IInv

LEMMA RoundHolds ==
    ASSUME IInv, NEW w \in Workers, RoundStep(w)
    PROVE  IInv' /\ DeadKept
  BY ClaimHolds, JudgeHolds, WithdrawUnsignedHolds, SignHolds, SubmitHolds, PollHolds,
     PollLostHolds, ApplyOutcomeHolds, SettleRoundHolds, DeliverHolds DEF RoundStep

LEMMA MishapHolds ==
    ASSUME IInv, NEW w \in Workers, Mishap(w)
    PROVE  IInv' /\ DeadKept
  BY ParkUnsignableHolds, SubmitLostHolds, DeliverHolds, CrashHolds DEF Mishap

LEMMA OperatorPressHolds ==
    ASSUME IInv, OperatorPress
    PROVE  IInv' /\ DeadKept
  BY PressHolds, AnnulHolds, AbandonHolds, ReissueHolds, IssueAgainHolds
     DEF OperatorPress, Workers

LEMMA NextHolds == IInv /\ [Next]_vars => IInv' /\ DeadKept
  <1>. SUFFICES ASSUME IInv, [Next]_vars PROVE IInv' /\ DeadKept
    OBVIOUS
  <1>1. ASSUME NEW w \in Workers, RoundStep(w) \/ OperatorStep(w) \/ Mishap(w)
        PROVE  IInv' /\ DeadKept
    BY <1>1, RoundHolds, OperatorStepHolds, MishapHolds
  <1>2. ASSUME NEW d \in Docs, AuthorityDecides(d) \/ PortalAnnuls(d) \/ TimePasses(d)
        PROVE  IInv' /\ DeadKept
    BY <1>2, AuthorityHolds, TimePassesHolds
  <1>. QED
    BY <1>1, <1>2, OperatorPressHolds, SettleHolds, StutterHolds DEF Next

LEMMA Invariance == Spec => []IInv
  BY InitHolds, NextHolds, PTL DEF Spec

\* Whatever the rounds, the operator and the reversal do, every row, authority record
\* and worker keeps its shape.
THEOREM TypeCorrect == Spec => []TypeOK
  <1>1. IInv => TypeOK
    BY DEF IInv
  <1>. QED
    BY <1>1, Invariance, PTL

\* A document the authority holds or authorized is signed and may still count: what the
\* platform gave up, the authority disowned or refused.
LEMMA HeldIsInPlay ==
    ASSUME IInv, NEW d \in Docs, HeldThere(d)
    PROVE  InPlay(d) /\ rows[d].status # "absent"
  <1>. USE InvParts
  <1>1. Signed(d) /\ rows[d].status \in Statuses /\ rows[d].status # "absent"
    BY RowFields DEF AuthorityAgrees
  <1>2. rows[d].status \notin {"owed", "withdrawn"}
    BY <1>1 DEF RowAgrees
  <1>3. rows[d].status \notin {"annulled", "abandoned"}
    BY DEF AuthorityAgrees, HeldThere
  <1>. QED
    BY <1>1, <1>2, <1>3, WhatIsDecided DEF InPlay

\* The SRI never holds two live facturas of one Sale: of two it holds, one is credited
\* (the Drainer's ordering of cancellation and replacement, ADR 0061).
THEOREM OneLiveFactura == Spec => []OneFacturaAtTheAuthority
  <1>1. IInv => OneFacturaAtTheAuthority
    <2>. SUFFICES ASSUME IInv, NEW f \in Docs, NEW g \in Docs, f # g, rows[f].kind = "sale",
                         rows[g].kind = "sale", HeldThere(f), HeldThere(g)
                  PROVE  CreditedByAuthorized(f) \/ CreditedByAuthorized(g)
      BY DEF OneFacturaAtTheAuthority
    <2>. QED
      BY HeldIsInPlay, InvParts DEF FacturasInOrder, Standing
  <1>. QED
    BY <1>1, Invariance, PTL

\* One Credit Note per factura reaches the SRI, whatever a reissue and a reversal owe
\* against it (judgeNote and the claim's sibling clause).
THEOREM OneCredit == Spec => []OneCreditPerFactura
  <1>1. IInv => OneCreditPerFactura
    BY HeldIsInPlay, InvParts DEF OneCreditPerFactura, NotesInOrder, NotesAgainst, IsNote
  <1>. QED
    BY <1>1, Invariance, PTL

\* No Credit Note is signed against a factura that is not authorized.
THEOREM NotesFollowAuthorized == Spec => []NotesCreditAuthorized
  <1>1. IInv => NotesCreditAuthorized
    BY DEF IInv
  <1>. QED
    BY <1>1, Invariance, PTL

\* A reversed Sale is never declared again, whatever was signed, submitted or reissued
\* while it was being reversed.
THEOREM ReversalUndoes == Spec => []ReversedSaleIsUndone
  <1>1. IInv => ReversedSaleIsUndone
    BY DEF IInv
  <1>. QED
    BY <1>1, Invariance, PTL

\* A dead document is never resurrected, by whatever round or request began before it
\* died (the writes of invoicing.go name the status they move from).
THEOREM TheDeadStayDead == Spec => DeadStayDead
  <1>1. IInv /\ [Next]_vars =>
          [\A d \in Docs : rows[d].status \in Dead => rows'[d].status = rows[d].status]_vars
    BY NextHolds DEF DeadKept
  <1>. QED
    BY <1>1, Invariance, PTL DEF Spec, DeadStayDead

----------------------------------------------------------------------------
(* What a worker leaves behind *)

\* A worker's step touches no other worker.
LEMMA StepIsItsOwn ==
    ASSUME IInv, NEW w \in Workers, NEW v \in Workers, v # w,
           RoundStep(v) \/ OperatorStep(v) \/ Mishap(v)
    PROVE  work'[w] = work[w]
  <1>. USE InvParts
  <1>1. CASE RoundStep(v)
    BY <1>1 DEF RoundStep, ClaimDueInvoice, Judge, WithdrawUnsigned, SignOwedInvoice, Submit, Poll,
       PollLost, ApplyOutcome, SettleRound, DeliverDocument, DeliveryImpossible, MarkDelivered,
       Goes, Ends, TypeOK
  <1>2. CASE OperatorStep(v)
    BY <1>2 DEF OperatorStep, ReplaceSignedDocument, DueForDelivery, Goes, Ends, TypeOK
  <1>3. CASE Mishap(v)
    BY <1>3 DEF Mishap, ParkUnsignable, SubmitLost, DeliveryRefused, Crash, Goes, Ends, TypeOK
  <1>. QED
    BY <1>1, <1>2, <1>3

\* A worker that goes on keeps its document.
LEMMA GoingOnKeeps ==
    ASSUME IInv, NEW w \in Workers,
           \/ Submit(w) \/ Poll(w) \/ PollLost(w) \/ SubmitLost(w) \/ ApplyOutcome(w)
           \/ DeliverDocument(w) \/ ReplaceSignedDocument(w)
           \/ \E pc \in Steps : Goes(w, pc)
    PROVE  Doc(w)' = Doc(w)
  <1>1. work \in [Workers -> Worker]
    BY InvParts DEF TypeOK
  <1>2. ASSUME NEW call, call.doc = work[w].doc, work' = [work EXCEPT ![w] = call]
        PROVE  Doc(w)' = Doc(w)
    BY <1>1, <1>2 DEF Doc
  <1>3. ASSUME NEW pc, Goes(w, pc) PROVE Doc(w)' = Doc(w)
    <2>1. work' = [work EXCEPT ![w] = [work[w] EXCEPT !.pc = pc]]
      BY <1>1, <1>3 DEF Goes
    <2>2. [work[w] EXCEPT !.pc = pc].doc = work[w].doc
      BY <1>1 DEF Worker
    <2>. QED
      BY <1>2, <2>1, <2>2
  <1>4. CASE Submit(w) \/ Poll(w)
    <2>1. PICK pc, answer : work' = [work EXCEPT ![w].pc = pc, ![w].answer = answer]
      BY <1>4 DEF Submit, Poll
    <2>2. work' = [work EXCEPT ![w] = [work[w] EXCEPT !.pc = pc, !.answer = answer]]
      BY <1>1, <2>1
    <2>3. [work[w] EXCEPT !.pc = pc, !.answer = answer].doc = work[w].doc
      BY <1>1 DEF Worker
    <2>. QED
      BY <1>2, <2>2, <2>3
  <1>5. CASE ApplyOutcome(w)
    <2>1. PICK pc, from : work' = [work EXCEPT ![w].pc = pc, ![w].from = from]
      <3>1. PICK aged, pc :
               LET row == OutcomeRow(rows[Doc(w)], work[w].answer, aged) IN
               work' = [work EXCEPT ![w].pc = pc,
                          ![w].from = IF rows[Doc(w)].status = @ THEN row.status ELSE @]
        BY <1>5 DEF ApplyOutcome
      <3>2. PICK from : from = IF rows[Doc(w)].status = work[w].from
                               THEN OutcomeRow(rows[Doc(w)], work[w].answer, aged).status
                               ELSE work[w].from
        OBVIOUS
      <3>3. work' = [work EXCEPT ![w].pc = pc, ![w].from = from]
        BY <1>1, <3>1, <3>2
      <3>. QED
        BY <3>3
    <2>2. work' = [work EXCEPT ![w] = [work[w] EXCEPT !.pc = pc, !.from = from]]
      BY <1>1, <2>1
    <2>3. [work[w] EXCEPT !.pc = pc, !.from = from].doc = work[w].doc
      BY <1>1 DEF Worker
    <2>. QED
      BY <1>2, <2>2, <2>3
  <1>. QED
    BY <1>3, <1>4, <1>5 DEF PollLost, SubmitLost, DeliverDocument, ReplaceSignedDocument

LEMMA LeavesOnQueue ==
    ASSUME IInv, NEW w \in Workers, NEW d \in Docs, Doc(w) = d, Doc(w)' # d,
           d \notin Unmailable, ~Crash(w),
           RoundStep(w) \/ OperatorStep(w) \/ Mishap(w)
    PROVE  ~(rows'[d].status = "authorized" /\ ~rows'[d].delivered /\ rows'[d].next = "null")
  <1>. USE InvParts
  <1>1. rows[d] \in Row /\ WorkerAgrees(w) /\ (~Signed(d) => rows[d].status # "authorized")
    BY DEF TypeOK, RowAgrees
  <1>2. ~At(w, "idle")
    BY DocsAssumption DEF WorkerAgrees, Idle, Doc
  <1>3. ~Submit(w) /\ ~Poll(w) /\ ~PollLost(w) /\ ~SubmitLost(w) /\ ~ApplyOutcome(w)
        /\ ~DeliverDocument(w) /\ ~DeliveryImpossible(w) /\ ~ReplaceSignedDocument(w)
        /\ \A e \in Docs : ~ClaimDueInvoice(w, e)
    BY <1>2, GoingOnKeeps DEF ClaimDueInvoice, DeliveryImpossible
  <1>4. CASE Judge(w)
    BY <1>1, <1>4 DEF Judge, At, WorkerAgrees, Unsigning
  <1>5. CASE WithdrawUnsigned(w)
    <2>1. ~Signed(d)
      BY <1>1, <1>5 DEF WithdrawUnsigned, At, WorkerAgrees, Unsigning
    <2>2. rows'[d] = rows[d] \/ rows'[d].status = "withdrawn"
      BY <1>1, <1>5 DEF WithdrawUnsigned, Reschedule, TypeOK, Row
    <2>. QED
      BY <1>1, <2>1, <2>2
  <1>6. CASE SignOwedInvoice(w)
    <2>1. ~Signed(d)
      BY <1>1, <1>6 DEF SignOwedInvoice, At, WorkerAgrees, Unsigning
    <2>2. rows' = rows
      BY <1>6, WorkerFields DEF SignOwedInvoice, TypeOK, Worker, Doc
    <2>. QED
      BY <1>1, <2>1, <2>2
  <1>7. CASE ParkUnsignable(w)
    <2>1. ~Signed(d)
      BY <1>1, <1>7 DEF ParkUnsignable, At, WorkerAgrees, Unsigning
    <2>2. rows'[d] = rows[d] \/ rows'[d].status = "needs_attention"
      BY <1>1, <1>7 DEF ParkUnsignable, Reschedule, TypeOK, Row
    <2>. QED
      BY <1>1, <2>1, <2>2
  <1>8. CASE SettleRound(w)
    <2>1. ~(rows[d].status = "authorized" /\ ~rows[d].delivered)
      BY <1>8, GoingOnKeeps DEF SettleRound, Steps
    <2>2. rows'[d] = rows[d] \/ rows'[d].status \in {"pending", "needs_attention"}
      <3>1. CASE rows' = rows
        BY <3>1
      <3>2. ASSUME NEW aged \in BOOLEAN, rows' = [rows EXCEPT ![d] = UndecidedRow(rows[d], aged)]
            PROVE  rows'[d].status \in {"pending", "needs_attention"}
        <4>1. rows'[d] = UndecidedRow(rows[d], aged)
          BY <3>2 DEF TypeOK
        <4>. QED
          BY <1>1, <4>1 DEF UndecidedRow, Row
      <3>. QED
        BY <1>8, <3>1, <3>2 DEF SettleRound
    <2>. QED
      BY <2>1, <2>2
  <1>9. CASE MarkDelivered(w)
    BY <1>1, <1>9 DEF MarkDelivered, TypeOK, Row
  <1>10. CASE DeliveryRefused(w)
    BY <1>1, <1>10 DEF DeliveryRefused, Reschedule, WorkerAgrees, At, TypeOK, Row
  <1>11. CASE DueForDelivery(w)
    BY <1>1, <1>11 DEF DueForDelivery, TypeOK, Row
  <1>. QED
    BY <1>3, <1>4, <1>5, <1>6, <1>7, <1>8, <1>9, <1>10, <1>11 DEF RoundStep, OperatorStep, Mishap

\* Whoever lets go of an authorized document that nobody mailed leaves it on the queue,
\* unless it dies or no mail can be made of the document (delivery.go:25-31): a heal from
\* Check status or Resend is delivered, and a refused mail is tried again.
THEOREM HealedReachesTheQueue == Spec => HealedIsDelivered
  <1>. DEFINE Lets == \A w \in Workers, d \in Docs :
          Doc(w) = d /\ Doc(w)' # d /\ d \notin Unmailable /\ ~Crash(w)
          => ~(rows'[d].status = "authorized" /\ ~rows'[d].delivered /\ rows'[d].next = "null")
  <1>1. ASSUME IInv, Next, NEW w \in Workers, NEW d \in Docs, Doc(w) = d, Doc(w)' # d,
               d \notin Unmailable, ~Crash(w)
        PROVE  ~(rows'[d].status = "authorized" /\ ~rows'[d].delivered /\ rows'[d].next = "null")
    <2>1. work'[w] # work[w]
      BY <1>1 DEF Doc
    <2>2. ASSUME NEW v \in Workers, RoundStep(v) \/ OperatorStep(v) \/ Mishap(v)
          PROVE  v = w
      BY <1>1, <2>1, <2>2, StepIsItsOwn
    <2>3. ASSUME NEW e \in Docs, AuthorityDecides(e) \/ PortalAnnuls(e) \/ TimePasses(e)
          PROVE  FALSE
      BY <2>1, <2>3 DEF AuthorityDecides, PortalAnnuls, TimePasses
    <2>4. ASSUME NEW v \in Workers, NEW e \in Docs, CheckInvoice(v, e) \/ ResendInvoice(v, e)
          PROVE  FALSE
      <3>1. v = w
        BY <1>1, <2>1, <2>4, InvParts DEF CheckInvoice, ResendInvoice, TypeOK
      <3>. QED
        BY <1>1, <2>4, <3>1, InvParts, DocsAssumption
           DEF CheckInvoice, ResendInvoice, WorkerAgrees, At, Idle, Doc
    <2>5. ASSUME NEW e \in Docs, \/ AnnulInvoice(e) \/ AbandonInvoice(e)
                                 \/ ReissueSaleInvoice(e) \/ IssueSaleInvoiceAgain(e)
          PROVE  FALSE
      BY <2>1, <2>5 DEF AnnulInvoice, AbandonInvoice, ReissueSaleInvoice, IssueSaleInvoiceAgain
    <2>6. ~OperatorPress
      BY <2>4, <2>5 DEF OperatorPress, Workers
    <2>7. ~SettleReversedSale
      BY <2>1 DEF SettleReversedSale
    <2>. QED
      BY <1>1, <2>2, <2>3, <2>6, <2>7, LeavesOnQueue DEF Next
  <1>2. IInv /\ Next => Lets
    BY <1>1
  <1>3. IInv /\ [Next]_vars => [Lets]_vars
    BY <1>2
  <1>. QED
    BY <1>3, Invariance, PTL DEF Spec, HealedIsDelivered

----------------------------------------------------------------------------
(* One mail, where no operator asks the authority *)

\* A document has one round at most, and is not due while it has.
LeaseOfOne ==
    \A w \in Workers : Doc(w) # NoDoc =>
        /\ rows[Doc(w)].next # "due"
        /\ \A v \in Workers : Doc(v) = Doc(w) => v = w

\* What is being delivered was not before.
DeliversOnce ==
    \A w \in Workers : work[w].pc \in {"deliver", "mark"} => ~rows[Doc(w)].delivered

\* Every mail that is neither recorded nor about to be was a round that died.
MailedBefore ==
    \A d \in Docs : \/ rows[d].delivered
                    \/ \E w \in Workers : At(w, "mark") /\ Doc(w) = d
                    \/ mails[d] <= hitches

MailInv == IInv /\ LeaseOfOne /\ DeliversOnce /\ MailedBefore /\ MailedOnce

LEMMA MailInit == Init => MailInv
  <1>. SUFFICES ASSUME Init PROVE MailInv
    OBVIOUS
  <1>1. \A w \in Workers : work[w] = Idle /\ work[w].pc = "idle" /\ Doc(w) = NoDoc
    BY DEF Init, Idle, Doc
  <1>2. \A d \in Docs : mails[d] = 0 /\ hitches = 0
    BY DEF Init
  <1>3. LeaseOfOne /\ DeliversOnce
    BY <1>1 DEF LeaseOfOne, DeliversOnce
  <1>4. MailedBefore /\ MailedOnce
    BY <1>2 DEF MailedBefore, MailedOnce
  <1>. QED
    BY <1>3, <1>4, InitHolds DEF MailInv

\* A write that records no delivery and makes nothing due.
KeepsMail(d, row) ==
    row.delivered = rows[d].delivered /\ (row.next = "due" => rows[d].next = "due")

RowsKeep == \A e \in Docs : KeepsMail(e, rows'[e])

LEMMA RowsKept ==
    ASSUME IInv
    PROVE  /\ rows' = rows => RowsKeep
           /\ \A d \in Docs : \A row :
                 rows' = [rows EXCEPT ![d] = row] /\ KeepsMail(d, row) => RowsKeep
           /\ \A d \in Docs : \A row, from :
                 Reschedule(d, from, row) /\ KeepsMail(d, row) => RowsKeep
  <1>1. rows \in [Docs -> Row]
    BY InvParts DEF TypeOK
  <1>2. rows' = rows => RowsKeep
    BY DEF RowsKeep, KeepsMail
  <1>3. ASSUME NEW d \in Docs, NEW row, rows' = [rows EXCEPT ![d] = row], KeepsMail(d, row)
        PROVE  RowsKeep
    <2>1. rows'[d] = row /\ \A e \in Docs : e # d => rows'[e] = rows[e]
      BY <1>1, <1>3
    <2>. QED
      BY <1>3, <2>1 DEF RowsKeep, KeepsMail
  <1>. QED
    BY <1>2, <1>3 DEF Reschedule

LEMMA AttemptKeeps ==
    ASSUME IInv, NEW d \in Docs, NEW a, rows' = RecordAttempt(d, a)
    PROVE  RowsKeep
  <1>1. rows \in [Docs -> Row] /\ rows[d] \in Row
    BY InvParts DEF TypeOK
  <1>2. PICK row : row = [rows[d] EXCEPT !.last = a, !.acked = @ \/ a = "sent"]
    OBVIOUS
  <1>3. rows' = [rows EXCEPT ![d] = row]
    BY <1>1, <1>2 DEF RecordAttempt
  <1>4. KeepsMail(d, row)
    BY <1>1, <1>2 DEF KeepsMail, Row
  <1>. QED
    BY <1>3, <1>4, RowsKept

\* A worker's step that hands over no mail and records none.
Carries(w) ==
    /\ Doc(w) \in Docs
    /\ \A e \in Docs : rows'[e].delivered = rows[e].delivered
    /\ \A e \in Docs : rows'[e].next = "due" =>
          rows[e].next = "due" \/ (e = Doc(w) /\ work'[w] = Idle)
    /\ Doc(w)' = Doc(w) \/ work'[w] = Idle
    /\ mails' = mails /\ hitches' \in Nat /\ hitches' >= hitches
    /\ At(w, "mark") => hitches' = hitches + 1
    /\ work'[w].pc # "mark"
    /\ work'[w].pc = "deliver" => Doc(w)' = Doc(w) /\ ~rows[Doc(w)].delivered

LEMMA MailNumbers ==
    ASSUME IInv
    PROVE  /\ hitches \in Nat /\ \A d \in Docs : mails[d] \in Nat
           /\ Idle.pc = "idle" /\ Idle.doc = NoDoc /\ NoDoc \notin Docs
           /\ \A w \in Workers : Doc(w) \in Docs \cup {NoDoc}
           /\ \A w \in Workers : ~At(w, "idle") => Doc(w) \in Docs
           /\ \A w \in Workers : At(w, "idle") => Doc(w) = NoDoc
  <1>1. \A w \in Workers : /\ ~At(w, "idle") => Doc(w) \in Docs
                           /\ At(w, "idle") => work[w] = Idle
    BY InvParts DEF WorkerAgrees
  <1>2. hitches \in Nat /\ \A d \in Docs : mails[d] \in Nat
    BY InvParts, BoundsAssumption DEF TypeOK
  <1>. QED
    BY <1>1, <1>2, DocsAssumption DEF Idle, Doc

LEMMA CarriesHolds ==
    ASSUME MailInv, IInv', NEW w \in Workers, Carries(w),
           \A v \in Workers : v # w => work'[v] = work[v]
    PROVE  MailInv'
  <1>0. /\ IInv /\ LeaseOfOne /\ DeliversOnce /\ MailedBefore /\ MailedOnce
        /\ hitches \in Nat /\ \A d \in Docs : mails[d] \in Nat
        /\ Idle.pc = "idle" /\ Idle.doc = NoDoc /\ NoDoc \notin Docs
        /\ \A v \in Workers : Doc(v) \in Docs \cup {NoDoc}
        /\ \A v \in Workers : ~At(v, "idle") => Doc(v) \in Docs
    BY MailNumbers DEF MailInv
  <1>1. \A v \in Workers : Doc(v)' = Doc(v) \/ (v = w /\ Doc(v)' = NoDoc /\ work'[v] = Idle)
    BY <1>0 DEF Carries, Doc
  <1>2. LeaseOfOne'
    <2>1. ASSUME NEW v \in Workers, Doc(v)' # NoDoc
          PROVE  /\ rows'[Doc(v)'].next # "due"
                 /\ \A u \in Workers : Doc(u)' = Doc(v)' => u = v
      <3>1. Doc(v)' = Doc(v) /\ Doc(v) \in Docs
        BY <1>0, <1>1, <2>1
      <3>2. rows[Doc(v)].next # "due" /\ \A u \in Workers : Doc(u) = Doc(v) => u = v
        BY <1>0, <2>1, <3>1 DEF LeaseOfOne
      <3>3. \A u \in Workers : Doc(u)' = Doc(v)' => u = v
        BY <1>1, <2>1, <3>1, <3>2
      <3>4. ~(Doc(v) = Doc(w) /\ work'[w] = Idle)
        BY <1>0, <2>1, <3>1, <3>2 DEF Doc
      <3>. QED
        BY <3>1, <3>2, <3>3, <3>4 DEF Carries
    <2>. QED
      BY <2>1 DEF LeaseOfOne
  <1>3. DeliversOnce'
    <2>1. ASSUME NEW v \in Workers, work'[v].pc \in {"deliver", "mark"}
          PROVE  ~rows'[Doc(v)'].delivered
      <3>1. CASE v = w
        BY <2>1, <3>1 DEF Carries
      <3>2. CASE v # w
        <4>1. work'[v] = work[v] /\ Doc(v)' = Doc(v) /\ Doc(v) \in Docs
          BY <1>0, <2>1, <3>2 DEF Doc, At
        <4>. QED
          BY <1>0, <2>1, <4>1 DEF DeliversOnce, Carries
      <3>. QED
        BY <3>1, <3>2
    <2>. QED
      BY <2>1 DEF DeliversOnce
  <1>4. MailedOnce'
    BY <1>0 DEF MailedOnce, Carries
  <1>5. MailedBefore'
    <2>1. ASSUME NEW d \in Docs, ~rows'[d].delivered,
                 ~\E v \in Workers : work'[v].pc = "mark" /\ Doc(v)' = d
          PROVE  mails'[d] <= hitches'
      <3>1. CASE \E v \in Workers : At(v, "mark") /\ Doc(v) = d
        <4>1. PICK v \in Workers : At(v, "mark") /\ Doc(v) = d
          BY <3>1
        <4>2. v = w
          BY <2>1, <4>1 DEF At, Doc
        <4>. QED
          BY <1>0, <4>1, <4>2 DEF Carries, MailedOnce
      <3>2. CASE ~\E v \in Workers : At(v, "mark") /\ Doc(v) = d
        BY <1>0, <2>1, <3>2 DEF Carries, MailedBefore
      <3>. QED
        BY <3>1, <3>2
    <2>. QED
      BY <2>1 DEF MailedBefore, At
  <1>. QED
    BY <1>2, <1>3, <1>4, <1>5 DEF MailInv

\* A worker that goes on with its document or ends, and delivers nothing.
LEMMA TurnCarries ==
    ASSUME IInv, NEW w \in Workers, ~At(w, "idle"), ~At(w, "mark"), RowsKeep,
           mails' = mails, hitches' \in Nat, hitches' >= hitches,
           NEW call, work' = [work EXCEPT ![w] = call],
           \/ call = Idle
           \/ call.doc = Doc(w) /\ call.pc \notin {"deliver", "mark"}
           \/ call.doc = Doc(w) /\ call.pc = "deliver" /\ ~rows[Doc(w)].delivered
    PROVE  Carries(w)
  <1>1. work'[w] = call
    BY InvParts DEF TypeOK
  <1>2. Doc(w) \in Docs /\ Idle.pc = "idle"
    BY MailNumbers
  <1>3. Doc(w)' = Doc(w) \/ work'[w] = Idle
    BY <1>1 DEF Doc
  <1>4. work'[w].pc # "mark"
    BY <1>1, <1>2
  <1>5. work'[w].pc = "deliver" => Doc(w)' = Doc(w) /\ ~rows[Doc(w)].delivered
    BY <1>1, <1>2 DEF Doc
  <1>. QED
    BY <1>2, <1>3, <1>4, <1>5 DEF Carries, RowsKeep, KeepsMail

\* The same by the two ways a turn is written.
LEMMA GoesCarries ==
    ASSUME IInv, NEW w \in Workers, ~At(w, "idle"), ~At(w, "mark"), RowsKeep,
           mails' = mails, hitches' \in Nat, hitches' >= hitches,
           \/ Ends(w)
           \/ \E pc : Goes(w, pc) /\ pc \notin {"deliver", "mark"}
           \/ Goes(w, "deliver") /\ ~rows[Doc(w)].delivered
    PROVE  Carries(w)
  <1>1. CASE Ends(w)
    BY <1>1, TurnCarries DEF Ends
  <1>2. ASSUME NEW pc, Goes(w, pc),
               pc \notin {"deliver", "mark"} \/ (pc = "deliver" /\ ~rows[Doc(w)].delivered)
        PROVE  Carries(w)
    <2>1. work \in [Workers -> Worker] /\ work[w] \in Worker
      BY InvParts DEF TypeOK
    <2>2. PICK call : call = [work[w] EXCEPT !.pc = pc]
      OBVIOUS
    <2>3. work' = [work EXCEPT ![w] = call]
      BY <1>2, <2>1, <2>2 DEF Goes
    <2>4. call.pc = pc /\ call.doc = Doc(w)
      BY <2>1, <2>2 DEF Worker, Doc
    <2>. QED
      BY <1>2, <2>3, <2>4, TurnCarries
  <1>. QED
    BY <1>1, <1>2

\* Hitches are only ever counted up.
LEMMA HitchCounts ==
    ASSUME IInv
    PROVE  /\ Hitch => hitches' = hitches + 1 /\ hitches' \in Nat /\ hitches' >= hitches
           /\ UNCHANGED hitches => hitches' \in Nat /\ hitches' >= hitches
           /\ \A d, aged : Ageing(d, aged) => hitches' \in Nat /\ hitches' >= hitches
  BY MailNumbers DEF Hitch, Ageing

LEMMA JudgeCarries ==
    ASSUME IInv, NEW w \in Workers, Judge(w)
    PROVE  Carries(w)
  <1>1. JudgedNote(Doc(w)) \in {"withdraw", "sign", "idle"}
    BY DEF JudgedNote
  <1>2. JudgedFactura(Doc(w)) \in {"withdraw", "sign", "idle"}
    BY DEF JudgedFactura
  <1>3. /\ At(w, "judge") /\ rows' = rows /\ mails' = mails /\ UNCHANGED hitches
        /\ Ends(w) \/ \E pc \in {"withdraw", "sign"} : Goes(w, pc)
    BY <1>1, <1>2 DEF Judge
  <1>. QED
    BY <1>3, RowsKept, HitchCounts, GoesCarries DEF At

LEMMA WithdrawCarries ==
    ASSUME IInv, NEW w \in Workers, WithdrawUnsigned(w) \/ ParkUnsignable(w)
    PROVE  Carries(w)
  <1>1. /\ ~At(w, "idle") /\ ~At(w, "mark") /\ mails' = mails /\ Ends(w)
        /\ hitches' \in Nat /\ hitches' >= hitches
    BY HitchCounts DEF WithdrawUnsigned, ParkUnsignable, At
  <1>2. Doc(w) \in Docs /\ rows[Doc(w)] \in Row
    BY <1>1, WorkerFields, InvParts DEF TypeOK
  <1>3. PICK row : /\ row.delivered = rows[Doc(w)].delivered /\ row.next # "due"
                   /\ Reschedule(Doc(w), work[w].from, row)
    <2>1. CASE WithdrawUnsigned(w)
      <3>1. PICK row : row = [rows[Doc(w)] EXCEPT !.status = "withdrawn", !.next = "null"]
        OBVIOUS
      <3>2. row.delivered = rows[Doc(w)].delivered /\ row.next = "null"
        BY <1>2, <3>1 DEF Row
      <3>. QED
        BY <2>1, <3>1, <3>2 DEF WithdrawUnsigned
    <2>2. CASE ParkUnsignable(w)
      <3>1. PICK row : row = [rows[Doc(w)] EXCEPT !.status = "needs_attention", !.next = "later"]
        OBVIOUS
      <3>2. row.delivered = rows[Doc(w)].delivered /\ row.next = "later"
        BY <1>2, <3>1 DEF Row
      <3>. QED
        BY <2>2, <3>1, <3>2 DEF ParkUnsignable
    <2>. QED
      BY <2>1, <2>2
  <1>4. RowsKeep
    BY <1>2, <1>3, RowsKept DEF KeepsMail
  <1>. QED
    BY <1>1, <1>4, GoesCarries

LEMMA SignCarries ==
    ASSUME IInv, NEW w \in Workers, SignOwedInvoice(w)
    PROVE  Carries(w)
  <1>1. At(w, "sign") /\ mails' = mails /\ hitches' \in Nat /\ hitches' >= hitches
    BY HitchCounts DEF SignOwedInvoice
  <1>2. /\ Doc(w) \in Docs /\ rows \in [Docs -> Row] /\ rows[Doc(w)] \in Row
        /\ work \in [Workers -> Worker] /\ work[w] \in Worker
    BY <1>1, WorkerFields, InvParts DEF TypeOK, At
  <1>3. CASE UNCHANGED rows /\ Ends(w)
    BY <1>1, <1>3, RowsKept, GoesCarries DEF At
  <1>4. CASE /\ rows' = [rows EXCEPT ![Doc(w)].status = "pending", ![Doc(w)].file = 1]
             /\ work' = [work EXCEPT ![w].pc = "submit", ![w].from = "pending", ![w].bytes = 1]
    <2>1. PICK row : row = [rows[Doc(w)] EXCEPT !.status = "pending", !.file = 1]
      OBVIOUS
    <2>2. PICK call : call = [work[w] EXCEPT !.pc = "submit", !.from = "pending", !.bytes = 1]
      OBVIOUS
    <2>3. rows' = [rows EXCEPT ![Doc(w)] = row] /\ KeepsMail(Doc(w), row)
      BY <1>2, <1>4, <2>1 DEF KeepsMail, Row
    <2>4. work' = [work EXCEPT ![w] = call] /\ call.pc = "submit" /\ call.doc = Doc(w)
      BY <1>2, <1>4, <2>2 DEF Worker, Doc
    <2>. QED
      BY <1>1, <1>2, <2>3, <2>4, RowsKept, TurnCarries DEF At
  <1>. QED
    BY <1>3, <1>4 DEF SignOwedInvoice

\* A worker heard an answer, and goes on with it.
Hears(w, pc, answer) == work' = [work EXCEPT ![w].pc = pc, ![w].answer = answer]

LEMMA AskCarries ==
    ASSUME IInv, NEW w \in Workers, Submit(w) \/ SubmitLost(w) \/ Poll(w) \/ PollLost(w)
    PROVE  Carries(w)
  <1>1. /\ ~At(w, "idle") /\ ~At(w, "mark") /\ mails' = mails
        /\ hitches' \in Nat /\ hitches' >= hitches
    BY HitchCounts DEF Submit, SubmitLost, Poll, PollLost, At
  <1>2. /\ Doc(w) \in Docs /\ Wraps(w) \in {"settle", "due"}
        /\ work \in [Workers -> Worker] /\ work[w] \in Worker
    BY <1>1, WorkerFields, InvParts DEF TypeOK
  <1>3. \E a : rows' = RecordAttempt(Doc(w), a)
    BY DEF Submit, SubmitLost, Poll, PollLost
  <1>4. RowsKeep
    BY <1>2, <1>3, AttemptKeeps
  <1>5. CASE SubmitLost(w) \/ PollLost(w)
    BY <1>1, <1>2, <1>4, <1>5, GoesCarries DEF SubmitLost, PollLost
  <1>6. ASSUME NEW pc, NEW answer, pc \in {"apply", "settle", "due"}, Hears(w, pc, answer)
        PROVE  Carries(w)
    <2>1. PICK call : call = [work[w] EXCEPT !.pc = pc, !.answer = answer]
      OBVIOUS
    <2>2. work' = [work EXCEPT ![w] = call] /\ call.pc = pc /\ call.doc = Doc(w)
      BY <1>2, <1>6, <2>1 DEF Worker, Doc, Hears
    <2>. QED
      BY <1>1, <1>4, <1>6, <2>2, TurnCarries
  <1>7. CASE Submit(w)
    <2>1. PICK answer \in SubmitAnswers(Doc(w), work[w].bytes) : Hears(w, "apply", answer[1])
      BY <1>7 DEF Submit, Hears
    <2>. QED
      BY <1>6, <2>1
  <1>8. CASE Poll(w)
    <2>1. \E pc \in {"apply", Wraps(w)} : Hears(w, pc, QueryAnswer(Doc(w)))
      BY <1>8 DEF Poll, Hears
    <2>. QED
      BY <1>2, <1>6, <2>1
  <1>. QED
    BY <1>5, <1>7, <1>8

LEMMA ApplyCarries ==
    ASSUME IInv, NEW w \in Workers, ApplyOutcome(w)
    PROVE  Carries(w)
  <1>1. At(w, "apply") /\ mails' = mails
    BY DEF ApplyOutcome
  <1>2. /\ Doc(w) \in Docs /\ Wraps(w) \in {"settle", "due"} /\ rows[Doc(w)] \in Row
        /\ work \in [Workers -> Worker] /\ work[w] \in Worker /\ work[w].answer \in Answers
    BY <1>1, WorkerFields, InvParts DEF TypeOK, At
  <1>. DEFINE answer == work[w].answer
              taken == answer = "received" /\ work[w].bytes # 0
              pc == CASE taken /\ w \in Operators -> "replace"
                      [] taken /\ w \in Rounds -> "poll"
                      [] answer = "already_held" -> "poll"
                      [] OTHER -> Wraps(w)
  <1>3. PICK aged \in BOOLEAN :
           /\ Ageing(Doc(w), aged)
           /\ Reschedule(Doc(w), work[w].from, OutcomeRow(rows[Doc(w)], answer, aged))
           /\ work' = [work EXCEPT ![w].pc = pc,
                 ![w].from = IF rows[Doc(w)].status = @
                             THEN OutcomeRow(rows[Doc(w)], answer, aged).status ELSE @]
    BY DEF ApplyOutcome
  <1>. DEFINE from == IF rows[Doc(w)].status = work[w].from
                      THEN OutcomeRow(rows[Doc(w)], answer, aged).status ELSE work[w].from
  <1>4. pc \in {"replace", "poll", "settle", "due"}
    <2>1. CASE taken /\ w \in Operators
      BY <2>1, WorkersAssumption
    <2>2. CASE taken /\ w \in Rounds
      BY <2>2, WorkersAssumption
    <2>3. CASE ~taken
      BY <1>2, <2>3
    <2>. QED
      BY <2>1, <2>2, <2>3 DEF Workers
  <1>5. work' = [work EXCEPT ![w].pc = pc, ![w].from = from]
    BY <1>3
  <1>. HIDE DEF pc, from
  <1>6. PICK call : call = [work[w] EXCEPT !.pc = pc, !.from = from]
    OBVIOUS
  <1>7. work' = [work EXCEPT ![w] = call] /\ call.pc = pc /\ call.doc = Doc(w)
    BY <1>2, <1>6, <1>5 DEF Worker, Doc
  <1>8. RowsKeep
    <2>1. OutcomeRow(rows[Doc(w)], work[w].answer, aged).delivered = rows[Doc(w)].delivered
      BY <1>2 DEF OutcomeRow, UndecidedRow, Row
    <2>2. KeepsMail(Doc(w), OutcomeRow(rows[Doc(w)], work[w].answer, aged))
      BY <1>2, <2>1, OutcomeWritten DEF KeepsMail
    <2>. QED
      BY <1>2, <1>3, <2>2, RowsKept
  <1>9. hitches' \in Nat /\ hitches' >= hitches
    BY <1>3, HitchCounts
  <1>. QED
    BY <1>1, <1>7, <1>8, <1>9, <1>4, TurnCarries DEF At

LEMMA SettleCarries ==
    ASSUME IInv, NEW w \in Workers, SettleRound(w)
    PROVE  Carries(w)
  <1>1. At(w, "settle") /\ mails' = mails /\ hitches' \in Nat /\ hitches' >= hitches
    BY HitchCounts DEF SettleRound
  <1>2. Doc(w) \in Docs /\ rows[Doc(w)] \in Row
    BY <1>1, WorkerFields, InvParts DEF TypeOK, At
  <1>3. RowsKeep
    <2>1. ASSUME NEW aged \in BOOLEAN, rows' = [rows EXCEPT ![Doc(w)] = UndecidedRow(rows[Doc(w)], aged)]
          PROVE  RowsKeep
      <3>1. PICK row : row = UndecidedRow(rows[Doc(w)], aged)
        OBVIOUS
      <3>2. row.delivered = rows[Doc(w)].delivered /\ row.next = "later"
        BY <1>2, <3>1 DEF UndecidedRow, Row
      <3>. QED
        BY <1>2, <2>1, <3>1, <3>2, RowsKept DEF KeepsMail
    <2>. QED
      BY <2>1, RowsKept DEF SettleRound
  <1>4. Ends(w) \/ (Goes(w, "deliver") /\ ~rows[Doc(w)].delivered)
    BY DEF SettleRound
  <1>. QED
    BY <1>1, <1>3, <1>4, GoesCarries DEF At

LEMMA RefusedCarries ==
    ASSUME IInv, NEW w \in Workers, DeliveryRefused(w) \/ DeliveryImpossible(w)
    PROVE  Carries(w)
  <1>1. At(w, "deliver") /\ mails' = mails /\ hitches' \in Nat /\ hitches' >= hitches
    BY HitchCounts DEF DeliveryRefused, DeliveryImpossible
  <1>2. Doc(w) \in Docs /\ rows[Doc(w)] \in Row
    BY <1>1, WorkerFields, InvParts DEF TypeOK, At
  <1>3. PICK next \in {"later", "null"} :
           Reschedule(Doc(w), "authorized", [rows[Doc(w)] EXCEPT !.next = next])
    BY DEF DeliveryRefused, DeliveryImpossible
  <1>4. PICK row : row = [rows[Doc(w)] EXCEPT !.next = next]
    OBVIOUS
  <1>5. KeepsMail(Doc(w), row) /\ Reschedule(Doc(w), "authorized", row)
    BY <1>2, <1>3, <1>4 DEF KeepsMail, Row
  <1>6. RowsKeep
    BY <1>2, <1>5, RowsKept
  <1>. QED
    BY <1>1, <1>6, GoesCarries DEF At, DeliveryRefused, DeliveryImpossible

LEMMA CrashCarries ==
    ASSUME IInv, NEW w \in Workers, Crash(w)
    PROVE  Carries(w)
  <1>1. /\ ~At(w, "idle") /\ rows' = rows /\ mails' = mails
        /\ hitches' = hitches + 1 /\ hitches' \in Nat /\ hitches' >= hitches
    BY HitchCounts DEF Crash
  <1>2. Doc(w) \in Docs /\ Idle.pc = "idle" /\ work'[w] = Idle
    BY <1>1, MailNumbers, InvParts DEF TypeOK, Crash, Ends
  <1>. QED
    BY <1>1, <1>2 DEF Carries

LEMMA ReplaceCarries ==
    ASSUME IInv, NEW w \in Workers, ReplaceSignedDocument(w)
    PROVE  Carries(w)
  <1>1. /\ At(w, "replace") /\ mails' = mails /\ Goes(w, "poll")
        /\ hitches' \in Nat /\ hitches' >= hitches
    BY HitchCounts DEF ReplaceSignedDocument
  <1>2. Doc(w) \in Docs /\ rows \in [Docs -> Row] /\ rows[Doc(w)] \in Row
    BY <1>1, WorkerFields, InvParts DEF TypeOK, At
  <1>3. PICK row : row = [rows[Doc(w)] EXCEPT !.file = work[w].bytes]
    OBVIOUS
  <1>4. rows' = [rows EXCEPT ![Doc(w)] = row] /\ KeepsMail(Doc(w), row)
    BY <1>2, <1>3 DEF ReplaceSignedDocument, KeepsMail, Row
  <1>5. RowsKeep
    BY <1>2, <1>4, RowsKept
  <1>. QED
    BY <1>1, <1>5, GoesCarries DEF At

\* The request's last write makes the document due as it lets go of it.
LEMMA DueCarries ==
    ASSUME IInv, NEW w \in Workers, DueForDelivery(w)
    PROVE  Carries(w)
  <1>1. /\ At(w, "due") /\ mails' = mails /\ Ends(w)
        /\ hitches' \in Nat /\ hitches' >= hitches
    BY HitchCounts DEF DueForDelivery
  <1>2. /\ Doc(w) \in Docs /\ rows \in [Docs -> Row] /\ rows[Doc(w)] \in Row
        /\ Idle.pc = "idle" /\ work'[w] = Idle
    BY <1>1, MailNumbers, InvParts DEF TypeOK, At, Ends
  <1>3. PICK row : row = [rows[Doc(w)] EXCEPT !.next = "due"]
    OBVIOUS
  <1>4. rows' = [rows EXCEPT ![Doc(w)] = row] \/ rows' = rows
    BY <1>2, <1>3 DEF DueForDelivery
  <1>5. row.delivered = rows[Doc(w)].delivered
    BY <1>2, <1>3 DEF Row
  <1>6. /\ \A e \in Docs : rows'[e].delivered = rows[e].delivered
        /\ \A e \in Docs : e # Doc(w) => rows'[e] = rows[e]
    BY <1>2, <1>4, <1>5
  <1>. QED
    BY <1>1, <1>2, <1>6 DEF Carries, At

\* A round claims what is due, that is, what nobody is at; to deliver it only undelivered.
LEMMA ClaimMails ==
    ASSUME MailInv, IInv', NEW w \in Workers, NEW d \in Docs, ClaimDueInvoice(w, d)
    PROVE  MailInv'
  <1>0. /\ IInv /\ LeaseOfOne /\ DeliversOnce /\ MailedBefore /\ MailedOnce
        /\ rows \in [Docs -> Row] /\ rows[d] \in Row
        /\ work \in [Workers -> Worker] /\ NoDoc \notin Docs
        /\ \A v \in Workers : ~At(v, "idle") => Doc(v) \in Docs
        /\ \A v \in Workers : Doc(v) \in Docs \cup {NoDoc}
    BY InvParts, MailNumbers DEF MailInv, TypeOK
  <1>1. /\ At(w, "idle") /\ rows[d].next = "due" /\ mails' = mails /\ hitches' = hitches
        /\ rows' = [rows EXCEPT ![d].next = "later"]
        /\ rows[d].status # "authorized" \/ ~rows[d].delivered
    BY WhatIsDecided DEF ClaimDueInvoice, Claimable
  <1>2. PICK call : /\ work' = [work EXCEPT ![w] = call]
                    /\ call.doc = d /\ call.pc = FirstStep(d)
    <2>1. PICK bytes : work' = [work EXCEPT ![w] =
             [Idle EXCEPT !.pc = FirstStep(d), !.doc = d, !.from = rows[d].status, !.bytes = bytes]]
      BY DEF ClaimDueInvoice
    <2>2. PICK call : call = [Idle EXCEPT !.pc = FirstStep(d), !.doc = d,
                                          !.from = rows[d].status, !.bytes = bytes]
      OBVIOUS
    <2>3. work' = [work EXCEPT ![w] = call]
      BY <2>1, <2>2
    <2>4. call.doc = d /\ call.pc = FirstStep(d)
      BY <2>2 DEF Idle
    <2>. QED
      BY <2>3, <2>4
  <1>3. /\ work'[w] = call /\ Doc(w)' = d
        /\ \A v \in Workers : v # w => work'[v] = work[v] /\ Doc(v)' = Doc(v)
    BY <1>0, <1>2 DEF Doc
  <1>4. PICK row : row = [rows[d] EXCEPT !.next = "later"]
    OBVIOUS
  <1>5. row.delivered = rows[d].delivered /\ row.next = "later"
    BY <1>0, <1>4 DEF Row
  <1>6. rows'[d] = row /\ \A e \in Docs : e # d => rows'[e] = rows[e]
    BY <1>0, <1>1, <1>4
  <1>7. FirstStep(d) # "mark" /\ (FirstStep(d) = "deliver" => rows[d].status = "authorized")
    BY DEF FirstStep
  <1>8. \A v \in Workers : Doc(v) # d
    BY <1>0, <1>1 DEF LeaseOfOne
  <1>9. LeaseOfOne'
    <2>1. ASSUME NEW v \in Workers, v # w, Doc(v) # NoDoc
          PROVE  rows'[Doc(v)].next # "due"
      BY <1>0, <1>6, <1>8, <2>1 DEF LeaseOfOne
    <2>. QED
      BY <1>0, <1>3, <1>5, <1>6, <1>8, <2>1 DEF LeaseOfOne
  <1>10. DeliversOnce'
    <2>1. ASSUME NEW v \in Workers, v # w, work[v].pc \in {"deliver", "mark"}
          PROVE  ~rows'[Doc(v)].delivered
      BY <1>0, <1>6, <1>8, <2>1 DEF DeliversOnce, At
    <2>. QED
      BY <1>1, <1>2, <1>3, <1>5, <1>6, <1>7, <2>1 DEF DeliversOnce
  <1>11. MailedOnce'
    BY <1>0, <1>1 DEF MailedOnce
  <1>12. MailedBefore'
    <2>1. \A v \in Workers : At(v, "mark") => v # w /\ At(v, "mark")' /\ Doc(v)' = Doc(v)
      BY <1>1, <1>3 DEF At
    <2>2. \A e \in Docs : rows'[e].delivered = rows[e].delivered
      BY <1>5, <1>6
    <2>. QED
      BY <1>0, <1>1, <2>1, <2>2 DEF MailedBefore
  <1>. QED
    BY <1>9, <1>10, <1>11, <1>12 DEF MailInv

\* The mail of a document that was never delivered, by the one round that has it.
LEMMA DeliverMails ==
    ASSUME MailInv, IInv', NEW w \in Workers, DeliverDocument(w)
    PROVE  MailInv'
  <1>0. /\ IInv /\ LeaseOfOne /\ DeliversOnce /\ MailedBefore /\ MailedOnce
        /\ work \in [Workers -> Worker] /\ work[w] \in Worker /\ mails \in [Docs -> Nat]
        /\ hitches \in Nat /\ NoDoc \notin Docs
        /\ \A v \in Workers : Doc(v) \in Docs \cup {NoDoc}
    BY InvParts, MailNumbers DEF MailInv, TypeOK
  <1>1. /\ At(w, "deliver") /\ rows' = rows /\ hitches' = hitches /\ Doc(w) \in Docs
        /\ mails' = [mails EXCEPT ![Doc(w)] = @ + 1]
    BY MailNumbers, <1>0 DEF DeliverDocument, At
  <1>2. /\ work'[w].pc = "mark" /\ \A v \in Workers : Doc(v)' = Doc(v)
        /\ \A v \in Workers : v # w => work'[v] = work[v]
    BY <1>0 DEF DeliverDocument, Goes, Doc, Worker
  <1>3. LeaseOfOne'
    BY <1>0, <1>1, <1>2 DEF LeaseOfOne
  <1>4. DeliversOnce'
    <2>1. \A v \in Workers : work'[v].pc \in {"deliver", "mark"} => work[v].pc \in {"deliver", "mark"}
      BY <1>1, <1>2 DEF At
    <2>. QED
      BY <1>0, <1>1, <1>2, <2>1 DEF DeliversOnce
  <1>5. mails[Doc(w)] <= hitches
    <2>1. ~\E v \in Workers : At(v, "mark") /\ Doc(v) = Doc(w)
      BY <1>0, <1>1 DEF LeaseOfOne, At
    <2>2. ~rows[Doc(w)].delivered
      BY <1>0, <1>1 DEF DeliversOnce, At
    <2>. QED
      BY <1>0, <1>1, <2>1, <2>2 DEF MailedBefore
  <1>6. mails'[Doc(w)] = mails[Doc(w)] + 1 /\ \A e \in Docs : e # Doc(w) => mails'[e] = mails[e]
    BY <1>0, <1>1
  <1>7. MailedOnce'
    BY <1>0, <1>1, <1>5, <1>6 DEF MailedOnce
  <1>8. MailedBefore'
    <2>1. At(w, "mark")' /\ Doc(w)' = Doc(w)
      BY <1>2 DEF At
    <2>2. \A v \in Workers : At(v, "mark") => At(v, "mark")' /\ Doc(v)' = Doc(v)
      BY <1>2, <2>1 DEF At
    <2>. QED
      BY <1>0, <1>1, <1>6, <2>1, <2>2 DEF MailedBefore
  <1>. QED
    BY <1>3, <1>4, <1>7, <1>8 DEF MailInv

\* Its record, by that round.
LEMMA MarkMails ==
    ASSUME MailInv, IInv', NEW w \in Workers, MarkDelivered(w)
    PROVE  MailInv'
  <1>0. /\ IInv /\ LeaseOfOne /\ DeliversOnce /\ MailedBefore /\ MailedOnce
        /\ work \in [Workers -> Worker] /\ rows \in [Docs -> Row]
        /\ NoDoc \notin Docs /\ Idle.pc = "idle" /\ Idle.doc = NoDoc
        /\ \A v \in Workers : Doc(v) \in Docs \cup {NoDoc}
        /\ \A v \in Workers : ~At(v, "idle") => Doc(v) \in Docs
    BY InvParts, MailNumbers DEF MailInv, TypeOK
  <1>1. /\ At(w, "mark") /\ mails' = mails /\ hitches' = hitches
        /\ Doc(w) \in Docs /\ ~rows[Doc(w)].delivered
    BY <1>0 DEF MarkDelivered, DeliversOnce, At
  <1>2. PICK row : row = [rows[Doc(w)] EXCEPT !.delivered = TRUE, !.next = "null"]
    OBVIOUS
  <1>3. row.delivered /\ row.next = "null" /\ rows[Doc(w)] \in Row
    BY <1>0, <1>1, <1>2 DEF Row
  <1>4. rows'[Doc(w)] = row /\ \A e \in Docs : e # Doc(w) => rows'[e] = rows[e]
    BY <1>0, <1>1, <1>2 DEF MarkDelivered
  <1>5. /\ work'[w] = Idle /\ Doc(w)' = NoDoc
        /\ \A v \in Workers : v # w => work'[v] = work[v] /\ Doc(v)' = Doc(v)
    BY <1>0 DEF MarkDelivered, Ends, Doc
  <1>6. \A v \in Workers : v # w => Doc(v) # Doc(w)
    BY <1>0, <1>1 DEF LeaseOfOne
  <1>7. LeaseOfOne'
    <2>1. ASSUME NEW v \in Workers, v # w, Doc(v) # NoDoc
          PROVE  /\ rows'[Doc(v)].next # "due"
                 /\ \A u \in Workers : Doc(u)' = Doc(v) => u = v
      <3>1. rows'[Doc(v)] = rows[Doc(v)]
        BY <1>0, <1>4, <1>6, <2>1
      <3>. QED
        BY <1>0, <1>5, <2>1, <3>1 DEF LeaseOfOne
    <2>. QED
      BY <1>5, <2>1 DEF LeaseOfOne
  <1>8. DeliversOnce'
    <2>1. ASSUME NEW v \in Workers, v # w, work[v].pc \in {"deliver", "mark"}
          PROVE  ~rows'[Doc(v)].delivered
      <3>1. rows'[Doc(v)] = rows[Doc(v)]
        BY <1>0, <1>4, <1>6, <2>1 DEF At
      <3>. QED
        BY <1>0, <2>1, <3>1 DEF DeliversOnce
    <2>. QED
      BY <1>0, <1>5, <2>1 DEF DeliversOnce
  <1>9. MailedOnce'
    BY <1>0, <1>1 DEF MailedOnce
  <1>10. MailedBefore'
    <2>1. ASSUME NEW e \in Docs, e # Doc(w)
          PROVE  \/ rows'[e].delivered
                 \/ \E v \in Workers : At(v, "mark")' /\ Doc(v)' = e
                 \/ mails'[e] <= hitches'
      <3>1. \A v \in Workers : At(v, "mark") /\ Doc(v) = e => At(v, "mark")' /\ Doc(v)' = e
        BY <1>5, <2>1 DEF At
      <3>. QED
        BY <1>0, <1>1, <1>4, <2>1, <3>1 DEF MailedBefore
    <2>. QED
      BY <1>3, <1>4, <2>1 DEF MailedBefore
  <1>. QED
    BY <1>7, <1>8, <1>9, <1>10 DEF MailInv

\* Whoever is no worker takes no document, hands over no mail and makes due only what
\* nobody is at.
Aside ==
    /\ UNCHANGED <<work, mails, hitches>>
    /\ \A d \in Docs : rows'[d].delivered = rows[d].delivered
    /\ \A d \in Docs : rows'[d].next = "due" =>
          rows[d].next = "due" \/ \A w \in Workers : Doc(w) # d

LEMMA AsideMails ==
    ASSUME MailInv, IInv', Aside
    PROVE  MailInv'
  <1>0. /\ LeaseOfOne /\ DeliversOnce /\ MailedBefore /\ MailedOnce /\ work' = work
        /\ mails' = mails /\ hitches' = hitches
        /\ \A w \in Workers : Doc(w) # NoDoc => Doc(w) \in Docs
        /\ \A w \in Workers : work[w].pc \in {"deliver", "mark"} => Doc(w) \in Docs
    BY MailNumbers DEF MailInv, Aside, At
  <1>1. LeaseOfOne'
    BY <1>0 DEF LeaseOfOne, Aside, Doc
  <1>2. DeliversOnce'
    BY <1>0 DEF DeliversOnce, Aside, Doc
  <1>3. MailedBefore' /\ MailedOnce'
    BY <1>0 DEF MailedBefore, MailedOnce, Aside, At, Doc
  <1>. QED
    BY <1>1, <1>2, <1>3 DEF MailInv

\* A document nobody made yet is at nobody's hands, and was never delivered.
LEMMA FreshIsFree ==
    ASSUME IInv, NEW d \in Docs, rows[d].status = "absent"
    PROVE  rows[d].delivered = FALSE /\ \A w \in Workers : Doc(w) # d
  <1>1. rows[d] = AbsentRow
    BY InvParts DEF RowAgrees
  <1>2. rows[d].delivered = FALSE
    BY <1>1 DEF AbsentRow
  <1>3. \A w \in Workers : Doc(w) # d
    BY MailNumbers, WorkerFields
  <1>. QED
    BY <1>2, <1>3

LEMMA OwedMails ==
    /\ \A old : OwedSale(old).delivered = FALSE
    /\ \A f : OwedNote(f).delivered = FALSE
  BY DEF OwedSale, OwedNote, AbsentRow

\* The SRI, the passing of time and the reversal.
LEMMA ElseAside ==
    ASSUME IInv, Operators = {},
           \/ \E d \in Docs : AuthorityDecides(d) \/ PortalAnnuls(d) \/ TimePasses(d)
           \/ SettleReversedSale \/ UNCHANGED vars
    PROVE  Aside
  <1>0. rows \in [Docs -> Row] /\ \A d \in Docs : rows[d] \in Row
    BY InvParts DEF TypeOK
  <1>1. CASE \/ \E d \in Docs : AuthorityDecides(d) \/ PortalAnnuls(d)
             \/ UNCHANGED vars
    BY <1>1 DEF AuthorityDecides, PortalAnnuls, vars, Aside
  <1>2. ASSUME NEW d \in Docs, TimePasses(d)
        PROVE  Aside
    <2>1. PICK row : row = [rows[d] EXCEPT !.next = "due"]
      OBVIOUS
    <2>2. row.delivered = rows[d].delivered
      BY <1>0, <2>1 DEF Row
    <2>3. rows'[d] = row /\ \A e \in Docs : e # d => rows'[e] = rows[e]
      BY <1>0, <1>2, <2>1 DEF TimePasses
    <2>4. \A w \in Workers : Doc(w) # d
      BY <1>2 DEF TimePasses, Workers
    <2>5. UNCHANGED <<work, mails, hitches>>
      BY <1>2 DEF TimePasses
    <2>. QED
      BY <2>2, <2>3, <2>4, <2>5 DEF Aside
  <1>3. CASE SettleReversedSale
    <2>1. UNCHANGED <<work, mails, hitches>>
      BY <1>3 DEF SettleReversedSale
    <2>2. PICK noteOf \in [ToCredit -> Docs] :
             /\ Fresh({noteOf[f] : f \in ToCredit})
             /\ rows' = [d \in Docs |->
                   IF d \in NeverSent THEN [rows[d] EXCEPT !.status = "withdrawn", !.next = "null"]
                   ELSE IF \E f \in ToCredit : noteOf[f] = d
                   THEN OwedNote(CHOOSE f \in ToCredit : noteOf[f] = d)
                   ELSE rows[d]]
      BY <1>3 DEF SettleReversedSale
    <2>3. ASSUME NEW d \in Docs
          PROVE  /\ rows'[d].delivered = rows[d].delivered
                 /\ rows'[d].next = "due" => rows[d].next = "due" \/ \A w \in Workers : Doc(w) # d
      <3>1. CASE d \in NeverSent
        <4>1. PICK row : row = [rows[d] EXCEPT !.status = "withdrawn", !.next = "null"]
          OBVIOUS
        <4>2. row.delivered = rows[d].delivered /\ row.next = "null"
          BY <1>0, <4>1 DEF Row
        <4>3. rows'[d] = row
          BY <2>2, <3>1, <4>1
        <4>. QED
          BY <4>2, <4>3
      <3>2. CASE d \notin NeverSent /\ \E f \in ToCredit : noteOf[f] = d
        <4>1. rows[d].status = "absent"
          BY <2>2, <3>2 DEF Fresh
        <4>2. PICK f : rows'[d] = OwedNote(f)
          BY <2>2, <3>2
        <4>. QED
          BY <4>1, <4>2, FreshIsFree, OwedMails
      <3>3. CASE d \notin NeverSent /\ ~\E f \in ToCredit : noteOf[f] = d
        BY <2>2, <3>3
      <3>. QED
        BY <3>1, <3>2, <3>3
    <2>. QED
      BY <2>1, <2>3 DEF Aside
  <1>. QED
    BY <1>1, <1>2, <1>3

\* What an operator does without asking the SRI.
LEMMA PressAside ==
    ASSUME IInv, Operators = {}, OperatorPress
    PROVE  Aside
  <1>0. rows \in [Docs -> Row] /\ \A d \in Docs : rows[d] \in Row
    BY InvParts DEF TypeOK
  <1>1. PICK d \in Docs : \/ AnnulInvoice(d) \/ AbandonInvoice(d)
                          \/ ReissueSaleInvoice(d) \/ IssueSaleInvoiceAgain(d)
    BY DEF OperatorPress
  <1>2. UNCHANGED <<work, mails, hitches>>
    BY <1>1 DEF AnnulInvoice, AbandonInvoice, ReissueSaleInvoice, IssueSaleInvoiceAgain
  <1>3. ASSUME NEW e \in Docs, NEW status
        PROVE  /\ [rows[e] EXCEPT !.status = status, !.next = "null"].delivered = rows[e].delivered
               /\ [rows[e] EXCEPT !.status = status, !.next = "null"].next = "null"
    BY <1>0 DEF Row
  <1>4. CASE AnnulInvoice(d)
    <2>1. PICK taken : rows' = [e \in Docs |->
             IF e = d THEN [rows[e] EXCEPT !.status = "annulled", !.next = "null"]
             ELSE IF e \in taken THEN [rows[e] EXCEPT !.status = "withdrawn", !.next = "null"]
             ELSE rows[e]]
      BY <1>4 DEF AnnulInvoice
    <2>2. \A e \in Docs : /\ rows'[e].delivered = rows[e].delivered
                          /\ rows'[e].next = "due" => rows[e].next = "due"
      BY <1>3, <2>1
    <2>. QED
      BY <1>2, <2>2 DEF Aside
  <1>5. CASE AbandonInvoice(d)
    <2>1. PICK row : row = [rows[d] EXCEPT !.status = "abandoned", !.next = "null"]
      OBVIOUS
    <2>2. rows' = [rows EXCEPT ![d] = row]
      BY <1>0, <1>5, <2>1 DEF AbandonInvoice
    <2>3. row.delivered = rows[d].delivered /\ row.next = "null"
      BY <1>3, <2>1
    <2>4. \A e \in Docs : /\ rows'[e].delivered = rows[e].delivered
                          /\ rows'[e].next = "due" => rows[e].next = "due"
      BY <1>0, <2>2, <2>3
    <2>. QED
      BY <1>2, <2>4 DEF Aside
  <1>6. CASE ReissueSaleInvoice(d)
    <2>1. PICK note \in Docs, corrected \in Docs :
             /\ Fresh({note, corrected})
             /\ rows' = [rows EXCEPT ![note] = OwedNote(d), ![corrected] = OwedSale(d)]
      BY <1>6 DEF ReissueSaleInvoice
    <2>2. rows[note].status = "absent" /\ rows[corrected].status = "absent"
      BY <2>1 DEF Fresh
    <2>3. \A e \in Docs : \/ rows'[e] = rows[e]
                          \/ e = note /\ rows'[e] = OwedNote(d)
                          \/ e = corrected /\ rows'[e] = OwedSale(d)
      BY <1>0, <2>1
    <2>. QED
      BY <1>2, <2>2, <2>3, FreshIsFree, OwedMails DEF Aside
  <1>7. CASE IssueSaleInvoiceAgain(d)
    <2>1. PICK new \in Docs : Fresh({new}) /\ rows' = [rows EXCEPT ![new] = OwedSale(d)]
      BY <1>7 DEF IssueSaleInvoiceAgain
    <2>2. rows[new].status = "absent"
      BY <2>1 DEF Fresh
    <2>3. \A e \in Docs : rows'[e] = rows[e] \/ (e = new /\ rows'[e] = OwedSale(d))
      BY <1>0, <2>1
    <2>. QED
      BY <1>2, <2>2, <2>3, FreshIsFree, OwedMails DEF Aside
  <1>. QED
    BY <1>1, <1>4, <1>5, <1>6, <1>7

LEMMA MailStep ==
    ASSUME MailInv, [Next]_vars, Operators = {}
    PROVE  MailInv'
  <1>0. IInv /\ IInv'
    BY NextHolds DEF MailInv
  <1>1. ASSUME NEW w \in Workers, RoundStep(w) \/ OperatorStep(w) \/ Mishap(w)
        PROVE  MailInv'
    <2>1. \A v \in Workers : v # w => work'[v] = work[v]
      BY <1>0, <1>1, StepIsItsOwn
    <2>2. \/ \E d \in Docs : ClaimDueInvoice(w, d)
          \/ DeliverDocument(w) \/ MarkDelivered(w) \/ Carries(w)
      BY <1>0, <1>1, JudgeCarries, WithdrawCarries, SignCarries, AskCarries, ApplyCarries,
         SettleCarries, RefusedCarries, CrashCarries, ReplaceCarries, DueCarries
         DEF RoundStep, OperatorStep, Mishap
    <2>. QED
      BY <1>0, <2>1, <2>2, CarriesHolds, ClaimMails, DeliverMails, MarkMails
  <1>2. CASE Aside
    BY <1>0, <1>2, AsideMails
  <1>. QED
    BY <1>0, <1>1, <1>2, ElseAside, PressAside DEF Next

\* Where no operator asks the SRI about it, the buyer is mailed a document once, but for a
\* crash between the mail and its record, for any number of rounds at once: the lease keeps
\* the document with the round that delivers it (ClaimDueInvoice, MarkDelivered).
THEOREM MailedOnceByRounds ==
    ASSUME Operators = {}
    PROVE  Spec => []MailedOnce
  <1>1. MailInv /\ [Next]_vars => MailInv'
    BY MailStep
  <1>2. MailInv => MailedOnce
    BY DEF MailInv
  <1>. QED
    BY <1>1, <1>2, MailInit, PTL DEF Spec

----------------------------------------------------------------------------
(* The promise of SaleDocuments *)

stage == [d \in Docs |-> Stage(d)]
credits == [d \in Docs |-> rows[d].credits]
replaces == [d \in Docs |-> rows[d].supersedes]
promised == <<sale, stage, credits, replaces>>

\* A factura that follows on an authorized one whose notes are all dead: its correction
\* is lost for good.
Forsaken(d) ==
    /\ rows[d].supersedes # NoDoc
    /\ rows[rows[d].supersedes].status = "authorized"
    /\ \A c \in NotesAgainst(rows[d].supersedes) : rows[c].status \in Dead

\* A corrected factura about to be withdrawn is forsaken.
GivenUp ==
    \A w \in Workers : LET d == Doc(w) IN
        At(w, "withdraw") /\ ~IsNote(d) /\ rows[d].status # "withdrawn" => Forsaken(d)

\* The stages in the terms of the invariant.
LEMMA StageMeans ==
    ASSUME IInv, NEW d \in Docs
    PROVE  /\ Stage(d) \in {"blank", "owed", "declared", "authorized", "withdrawn", "disowned"}
           /\ Stage(d) = "blank" <=> rows[d].status = "absent"
           /\ Stage(d) = "owed" <=> Waiting(d)
           /\ Stage(d) = "declared" <=> /\ rows[d].status \in {"pending", "needs_attention"}
                                        /\ Signed(d)
           /\ Stage(d) = "authorized" <=> rows[d].status = "authorized"
           /\ Stage(d) = "withdrawn" <=> rows[d].status = "withdrawn"
           /\ Stage(d) = "disowned" <=> rows[d].status \in {"annulled", "abandoned"}
           /\ Stage(d) \in {"declared", "authorized"} <=> InPlay(d)
  <1>1. /\ rows[d].status \in Statuses
        /\ rows[d].status = "owed" => ~Signed(d)
        /\ rows[d].status \in {"pending", "authorized"} => Signed(d)
    BY InvParts, RowFields DEF RowAgrees
  <1>2. CASE rows[d].status \in {"owed", "pending", "needs_attention"}
    BY <1>1, <1>2, WhatIsDecided DEF Stage, Waiting, InPlay
  <1>3. CASE rows[d].status \notin {"owed", "pending", "needs_attention"}
    BY <1>1, <1>3, WhatIsDecided DEF Stage, Waiting, InPlay
  <1>. QED
    BY <1>2, <1>3

\* The same of the state a step leads to.
LEMMA StageThen ==
    ASSUME IInv', NEW d \in Docs
    PROVE  /\ Stage(d)' = "owed" <=> Waiting(d)'
           /\ Stage(d)' = "declared" <=> /\ rows'[d].status \in {"pending", "needs_attention"}
                                         /\ Signed(d)'
           /\ Stage(d)' = "authorized" <=> rows'[d].status = "authorized"
           /\ Stage(d)' = "withdrawn" <=> rows'[d].status = "withdrawn"
           /\ Stage(d)' = "disowned" <=> rows'[d].status \in {"annulled", "abandoned"}
  <1>1. /\ rows'[d].status \in Statuses
        /\ rows'[d].status = "owed" => ~Signed(d)'
        /\ rows'[d].status \in {"pending", "authorized"} => Signed(d)'
    <2>1. TypeOK' /\ RowAgrees(d)'
      BY DEF IInv
    <2>. QED
      BY <2>1 DEF TypeOK, Row, RowAgrees
  <1>2. CASE rows'[d].status \in {"owed", "pending", "needs_attention"}
    BY <1>1, <1>2, WhatIsDecided DEF Stage, Waiting
  <1>3. CASE rows'[d].status \notin {"owed", "pending", "needs_attention"}
    BY <1>1, <1>3, WhatIsDecided DEF Stage, Waiting
  <1>. QED
    BY <1>2, <1>3

\* What SaleDocuments asks of the documents, in the terms of the invariant.
LEMMA PromiseMeans ==
    ASSUME IInv
    PROVE  \A d \in Docs :
              /\ SD!Notes(d) = NotesAgainst(d)
              /\ SD!Outstanding(d) <=> InPlay(d)
              /\ SD!Credited(d) <=> CreditedByAuthorized(d)
              /\ SD!Factura(d) <=> ~IsNote(d) /\ rows[d].status # "absent"
              /\ SD!Stands(d) <=> Standing(d)
              /\ IsNote(d) => rows[d].credits \in Docs /\ rows[d].credits # NoDoc
              /\ ~IsNote(d) => rows[d].kind = "sale" /\ rows[d].credits = NoDoc
  <1>1. ASSUME NEW d \in Docs
        PROVE  /\ IsNote(d) => /\ rows[d].credits \in Docs /\ rows[d].credits # NoDoc
                               /\ rows[d].status # "absent"
               /\ ~IsNote(d) => rows[d].kind = "sale" /\ rows[d].credits = NoDoc
    <2>1. RowAgrees(d) /\ (AbsentRow.kind = "sale") /\ rows[d].kind \in {"sale", "credit_note"}
      BY InvParts, RowFields DEF AbsentRow
    <2>. QED
      BY <2>1, DocsAssumption DEF RowAgrees, IsNote
  <1>2. ASSUME NEW d \in Docs
        PROVE  /\ SD!Notes(d) = NotesAgainst(d)
               /\ SD!Outstanding(d) <=> InPlay(d)
               /\ SD!Factura(d) <=> ~IsNote(d) /\ rows[d].status # "absent"
    <2>1. SD!Notes(d) = NotesAgainst(d)
      BY <1>1, DocsAssumption DEF SD!Notes, NotesAgainst, IsNote
    <2>2. SD!Outstanding(d) <=> InPlay(d)
      BY StageMeans DEF SD!Outstanding
    <2>3. SD!Factura(d) <=> ~IsNote(d) /\ rows[d].status # "absent"
      BY <1>1, StageMeans DEF SD!Factura
    <2>. QED
      BY <2>1, <2>2, <2>3
  <1>3. ASSUME NEW d \in Docs PROVE SD!Credited(d) <=> CreditedByAuthorized(d)
    <2>1. \A c \in NotesAgainst(d) :
             c \in Docs /\ (Stage(c) = "authorized" <=> rows[c].status = "authorized")
      BY StageMeans DEF NotesAgainst
    <2>. QED
      BY <1>2, <2>1 DEF SD!Credited, CreditedByAuthorized
  <1>4. ASSUME NEW d \in Docs PROVE SD!Stands(d) <=> Standing(d)
    BY <1>1, <1>2, <1>3 DEF SD!Stands, Standing, InPlay, IsNote
  <1>. QED
    BY <1>1, <1>2, <1>3, <1>4

\* A step that leaves every row its status and what it is shows nothing to the promise.
LEMMA SameStages ==
    ASSUME NEW D \in SUBSET Docs,
           \A d \in Docs \ D : rows'[d] = rows[d]
    PROVE  \A d \in Docs \ D : /\ stage'[d] = stage[d] /\ credits'[d] = credits[d]
                               /\ replaces'[d] = replaces[d] /\ Stage(d)' = Stage(d)
  BY DEF stage, credits, replaces, Stage, Signed

LEMMA OneMovesIsStep ==
    ASSUME IInv, IInv', GivenUp, OneMovesOn
    PROVE  [SD!Next]_promised
  <1>. USE InvParts
  <1>1. PICK d \in Docs :
          /\ \A e \in Docs : Moves(e) /\ (e # d => rows'[e] = rows[e])
          /\ rows'[d].status = "withdrawn" => rows[d].status = "withdrawn" \/ Judged(d)
    BY DEF OneMovesOn
  <1>2. /\ rows'[d].kind = rows[d].kind /\ rows'[d].credits = rows[d].credits
        /\ rows'[d].supersedes = rows[d].supersedes /\ Keeps(d)
    BY <1>1 DEF Moves, Keeps
  <1>3. UNCHANGED <<sale, credits, replaces>> /\ stage' = [stage EXCEPT ![d] = Stage(d)']
    <2>1. \A e \in Docs \ {d} : /\ credits'[e] = credits[e] /\ replaces'[e] = replaces[e]
                                /\ stage'[e] = stage[e]
      BY <1>1, SameStages
    <2>2. credits'[d] = credits[d] /\ replaces'[d] = replaces[d] /\ stage'[d] = Stage(d)'
      BY <1>2 DEF credits, replaces, stage
    <2>. QED
      BY <2>1, <2>2 DEF credits, replaces, stage, OneMovesOn
  <1>4. stage[d] = Stage(d)
    BY DEF stage
  <1>5. CASE Stage(d)' = Stage(d)
    BY <1>3, <1>4, <1>5 DEF stage, promised
  <1>6. CASE Stage(d) = "owed" /\ Stage(d)' # Stage(d)
    <2>1. Waiting(d) /\ Stage(d)' = "withdrawn"
      <3>1. Waiting(d) /\ ~Waiting(d)'
        BY <1>6, StageMeans, StageThen
      <3>2. rows'[d].status = "withdrawn"
        BY <1>2, <3>1 DEF Waiting, Keeps
      <3>. QED
        BY <3>1, <3>2, StageThen
    <2>2. rows[d].status # "withdrawn" /\ rows'[d].status = "withdrawn" /\ rows[d].status # "absent"
      BY <2>1, StageThen DEF Waiting
    <2>3. CASE IsNote(d)
      <3>1. \/ rows[rows[d].credits].status \in Dead
            \/ \E o \in Siblings(d) : rows[o].status = "authorized"
        BY <1>1, <2>2, <2>3 DEF Moves
      <3>2. rows[d].credits \in Docs /\ Signed(rows[d].credits) /\ rows[d].credits # NoDoc
        BY <2>3, PromiseMeans DEF RowAgrees
      <3>3. Stage(rows[d].credits) = "disowned" \/ CreditedByAuthorized(rows[d].credits)
        <4>1. CASE rows[rows[d].credits].status \in Dead
          BY <3>2, <4>1, StageMeans, WhatIsDecided DEF RowAgrees
        <4>2. CASE \E o \in Siblings(d) : rows[o].status = "authorized"
          BY <4>2 DEF Siblings, CreditedByAuthorized
        <4>. QED
          BY <3>1, <4>1, <4>2
      <3>4. SD!Withdraw(d)
        <4>1. ~SD!Factura(d) /\ (SD!Credited(rows[d].credits) <=> CreditedByAuthorized(rows[d].credits))
          BY <2>3, <3>2, PromiseMeans
        <4>. QED
          BY <1>3, <1>4, <1>6, <2>1, <3>2, <3>3, <4>1 DEF SD!Withdraw, stage, credits, replaces
      <3>. QED
        BY <3>4 DEF SD!Next
    <2>4. CASE ~IsNote(d)
      <3>. DEFINE old == rows[d].supersedes
      <3>1. PICK w \in Workers : At(w, "withdraw") /\ Doc(w) = d
        BY <1>1, <2>2 DEF Judged
      <3>2. /\ old # NoDoc /\ rows[old].status = "authorized"
            /\ \A c \in NotesAgainst(old) : rows[c].status \in Dead
        BY <2>2, <2>4, <3>1 DEF GivenUp, Forsaken
      <3>3. old \in Docs
        BY <3>2, RowFields
      <3>4. Stage(old) = "authorized"
        BY <3>2, <3>3, StageMeans
      <3>5. \A c \in NotesAgainst(old) : c \in Docs /\ Stage(c) \in {"withdrawn", "disowned"}
        BY <3>2, StageMeans, WhatIsDecided DEF NotesAgainst
      <3>6. SD!Factura(d) /\ SD!Notes(old) = NotesAgainst(old)
        BY <2>2, <2>4, <3>3, PromiseMeans
      <3>7. SD!Withdraw(d)
        BY <1>3, <1>4, <1>6, <2>1, <3>2, <3>3, <3>4, <3>5, <3>6
           DEF SD!Withdraw, stage, credits, replaces
      <3>. QED
        BY <3>7 DEF SD!Next
    <2>. QED
      BY <2>3, <2>4
  <1>7. CASE Stage(d) = "declared" /\ Stage(d)' # Stage(d)
    <2>1. Stage(d)' \in {"authorized", "disowned"}
      <3>1. /\ rows[d].status \in {"pending", "needs_attention"} /\ Signed(d)
            /\ ~(rows'[d].status \in {"pending", "needs_attention"} /\ Signed(d)')
        BY <1>7, StageMeans, StageThen
      <3>2. rows'[d].status \in {"authorized", "annulled", "abandoned"}
        BY <1>2, <3>1 DEF Keeps
      <3>. QED
        BY <3>2, StageThen
    <2>2. CASE Stage(d)' = "authorized"
      <3>1. SD!Authorize(d)
        BY <1>3, <1>4, <1>7, <2>2 DEF SD!Authorize, stage, credits, replaces
      <3>. QED
        BY <3>1 DEF SD!Next
    <2>3. CASE Stage(d)' = "disowned"
      <3>1. SD!Disown(d)
        BY <1>3, <1>4, <1>7, <2>3 DEF SD!Disown, stage, credits, replaces
      <3>. QED
        BY <3>1 DEF SD!Next
    <2>. QED
      BY <2>1, <2>2, <2>3
  <1>8. CASE Stage(d) \notin {"owed", "declared"}
    <2>1. Stage(d) = "blank" => rows'[d] = rows[d]
      BY <1>1, StageMeans DEF Moves
    <2>2. Stage(d) # "blank" => rows'[d].status = rows[d].status
      BY <1>2, <1>8, StageMeans, WhatIsDecided DEF Keeps
    <2>3. Stage(d)' = Stage(d)
      <3>1. CASE Stage(d) = "blank"
        BY <2>1, <3>1 DEF Stage, Signed
      <3>2. CASE Stage(d) # "blank"
        BY <1>8, <2>2, <3>2, StageMeans, StageThen
      <3>. QED
        BY <3>1, <3>2
    <2>. QED
      BY <1>5, <2>3
  <1>. QED
    BY <1>5, <1>6, <1>7, <1>8

LEMMA SignIsStep ==
    ASSUME IInv, IInv', NEW w \in Workers, SignOwedInvoice(w), rows' # rows
    PROVE  [SD!Next]_promised
  <1>. USE InvParts
  <1>1. PICK d \in Docs : d = Doc(w)
    BY WorkerFields DEF SignOwedInvoice, At
  <1>2. /\ At(w, "sign") /\ ~Signed(d) /\ rows[d].status \in {"owed", "needs_attention"}
        /\ rows' = [rows EXCEPT ![d].status = "pending", ![d].file = 1] /\ sale' = sale
    BY <1>1 DEF SignOwedInvoice
  <1>3. /\ rows'[d].status = "pending" /\ rows'[d].file = 1 /\ rows'[d].kind = rows[d].kind
        /\ rows'[d].credits = rows[d].credits /\ rows'[d].supersedes = rows[d].supersedes
        /\ \A e \in Docs \ {d} : rows'[e] = rows[e]
    BY <1>2 DEF TypeOK, Row
  <1>4. Stage(d) = "owed" /\ Stage(d)' = "declared" /\ Waiting(d) /\ ~InPlay(d)
    <2>1. Waiting(d) /\ ~InPlay(d) /\ Signed(d)'
      BY <1>2, <1>3 DEF Waiting, InPlay, Signed
    <2>. QED
      BY <1>3, <2>1, StageMeans, StageThen
  <1>5. UNCHANGED <<sale, credits, replaces>> /\ stage' = [stage EXCEPT ![d] = "declared"]
    <2>1. \A e \in Docs \ {d} : /\ credits'[e] = credits[e] /\ replaces'[e] = replaces[e]
                                /\ stage'[e] = stage[e]
      BY <1>3, SameStages
    <2>2. credits'[d] = credits[d] /\ replaces'[d] = replaces[d] /\ stage'[d] = "declared"
      BY <1>3, <1>4 DEF credits, replaces, stage
    <2>. QED
      BY <1>2, <2>1, <2>2 DEF credits, replaces, stage
  <1>6. CASE IsNote(d)
    <2>. DEFINE f == rows[d].credits
    <2>1. /\ f \in Docs /\ rows[f].status = "authorized" /\ \A o \in Siblings(d) : ~InPlay(o)
      BY <1>1, <1>2, <1>6, PromiseMeans DEF JudgedRight
    <2>2. \A c \in NotesAgainst(f) : c \in Docs /\ ~InPlay(c)
      BY <1>4, <2>1 DEF Siblings, NotesAgainst
    <2>3. /\ ~SD!Factura(d) /\ Stage(f) = "authorized"
          /\ \A c \in SD!Notes(f) : ~SD!Outstanding(c)
      BY <1>6, <2>1, <2>2, PromiseMeans, StageMeans
    <2>4. SD!Declare(d)
      BY <1>4, <1>5, <2>1, <2>3 DEF SD!Declare, stage, credits, replaces
    <2>. QED
      BY <2>4 DEF SD!Next
  <1>7. CASE ~IsNote(d)
    <2>1. rows[d].kind = "sale" /\ rows[d].status \notin Dead \cup {"absent"}
      BY <1>2, <1>7, PromiseMeans, WhatIsDecided
    <2>2. sale = "committed"
      BY <1>2, <2>1 DEF ReversedSaleIsUndone, TypeOK
    <2>3. ASSUME NEW f \in Docs, Standing(f) PROVE FALSE
      <3>1. rows[d].supersedes = f /\ f # NoDoc
        BY <1>4, <2>1, <2>3, DocsAssumption DEF FacturasInOrder
      <3>2. rows[f].status \in Dead \/ CreditedByAuthorized(f)
        BY <1>1, <1>2, <1>7, <3>1 DEF JudgedRight
      <3>. QED
        BY <2>3, <3>2, WhatIsDecided DEF Standing, InPlay
    <2>4. SD!Factura(d) /\ \A f \in Docs : ~SD!Stands(f)
      BY <1>7, <2>1, <2>3, PromiseMeans
    <2>5. SD!Declare(d)
      BY <1>4, <1>5, <2>2, <2>4 DEF SD!Declare, stage, credits, replaces
    <2>. QED
      BY <2>5 DEF SD!Next
  <1>. QED
    BY <1>6, <1>7

LEMMA AnnulIsStep ==
    ASSUME IInv, IInv', NEW d \in Docs, AnnulInvoice(d)
    PROVE  [SD!Next]_promised
  <1>. USE InvParts
  <1>. DEFINE taken == IF rows[d].kind = "credit_note" THEN Successors(d) ELSE {}
  <1>1. /\ rows[d].status \in {"pending", "needs_attention"} /\ Signed(d) /\ sale' = sale
        /\ rows' = [e \in Docs |->
              IF e = d THEN [rows[e] EXCEPT !.status = "annulled", !.next = "null"]
              ELSE IF e \in taken THEN [rows[e] EXCEPT !.status = "withdrawn", !.next = "null"]
              ELSE rows[e]]
    BY DEF AnnulInvoice, Annullable, Actionable
  <1>2. ASSUME NEW s \in taken
        PROVE  /\ s \in Docs /\ s # d /\ rows[s].kind = "sale" /\ Waiting(s) /\ IsNote(d)
               /\ rows[s].supersedes = rows[d].credits
    BY <1>1, <1>2 DEF Successors, Waiting, IsNote
  <1>3. ASSUME NEW s \in taken, NEW t \in taken PROVE s = t
    BY <1>2, <1>3 DEF FacturasInOrder
  <1>4. rows'[d] = [rows[d] EXCEPT !.status = "annulled", !.next = "null"]
    BY <1>1
  <1>5. ASSUME NEW s \in taken
        PROVE  rows'[s] = [rows[s] EXCEPT !.status = "withdrawn", !.next = "null"]
    BY <1>1, <1>2
  <1>6. \A e \in Docs : e # d /\ e \notin taken => rows'[e] = rows[e]
    BY <1>1
  <1>. HIDE DEF taken
  <1>7. ASSUME NEW e \in Docs, NEW to \in {"annulled", "withdrawn"},
               rows'[e] = [rows[e] EXCEPT !.status = to, !.next = "null"]
        PROVE  /\ rows'[e].status = to /\ rows'[e].credits = rows[e].credits
               /\ rows'[e].supersedes = rows[e].supersedes
    <2>1. rows[e] \in Row
      BY DEF TypeOK
    <2>. QED
      BY <1>7, <2>1 DEF Row
  <1>8. UNCHANGED <<sale, credits, replaces>>
    <2>1. ASSUME NEW e \in Docs
          PROVE  rows'[e].credits = rows[e].credits /\ rows'[e].supersedes = rows[e].supersedes
      <3>1. CASE e = d
        BY <1>4, <1>7, <3>1
      <3>2. CASE e \in taken
        BY <1>5, <1>7, <3>2
      <3>. QED
        BY <1>6, <3>1, <3>2
    <2>. QED
      BY <1>1, <2>1 DEF credits, replaces
  <1>9. Stage(d) = "declared" /\ Stage(d)' = "disowned"
    BY <1>1, <1>4, <1>7, StageMeans, StageThen
  <1>10. \A e \in Docs : e # d /\ e \notin taken => Stage(e)' = Stage(e)
    BY <1>6 DEF Stage, Signed
  <1>11. CASE taken = {}
    <2>1. stage' = [stage EXCEPT ![d] = "disowned"]
      BY <1>9, <1>10, <1>11 DEF stage
    <2>2. SD!Disown(d)
      BY <1>8, <1>9, <2>1 DEF SD!Disown, stage, credits, replaces
    <2>. QED
      BY <2>2 DEF SD!Next
  <1>12. ASSUME NEW s \in taken PROVE [SD!Next]_promised
    <2>1. s \in Docs /\ s # d /\ rows[s].kind = "sale" /\ Waiting(s) /\ IsNote(d)
          /\ rows[s].supersedes = rows[d].credits
      BY <1>2, <1>12
    <2>2. Stage(s) = "owed" /\ Stage(s)' = "withdrawn"
      BY <1>5, <1>7, <1>12, <2>1, StageMeans, StageThen
    <2>3. \A e \in Docs : e # d /\ e # s => Stage(e)' = Stage(e)
      BY <1>3, <1>10, <1>12
    <2>4. stage' = [stage EXCEPT ![d] = "disowned", ![s] = "withdrawn"]
      BY <1>9, <2>1, <2>2, <2>3 DEF stage
    <2>5. ~SD!Factura(d) /\ SD!Factura(s)
      BY <2>1, PromiseMeans DEF IsNote, Waiting
    <2>6. SD!Disown(d)
      BY <1>8, <1>9, <2>1, <2>2, <2>4, <2>5 DEF SD!Disown, stage, credits, replaces
    <2>. QED
      BY <2>6 DEF SD!Next
  <1>. QED
    BY <1>11, <1>12

LEMMA ReissueIsStep ==
    ASSUME IInv, IInv', NEW f \in Docs, ReissueSaleInvoice(f)
    PROVE  [SD!Next]_promised
  <1>. USE InvParts
  <1>1. PICK n \in Docs, g \in Docs :
          /\ n < g /\ Fresh({n, g})
          /\ rows' = [rows EXCEPT ![n] = OwedNote(f), ![g] = OwedSale(f)]
    BY DEF ReissueSaleInvoice
  <1>2. /\ n # g /\ rows[n] = AbsentRow /\ rows[g] = AbsentRow
        /\ rows'[n] = OwedNote(f) /\ rows'[g] = OwedSale(f) /\ sale' = sale
        /\ \A d \in Docs \ {n, g} : rows'[d] = rows[d]
    <2>1. n # g
      BY <1>1, DocsAssumption
    <2>. QED
      BY <1>1, <2>1 DEF Fresh, TypeOK, RowAgrees, ReissueSaleInvoice
  <1>3. /\ rows[f].kind = "sale" /\ rows[f].status = "authorized" /\ sale = "committed"
        /\ ~CreditedByAuthorized(f) /\ ~ReissueInFlight
    BY DEF ReissueSaleInvoice, Reissuable
  <1>4. ASSUME NEW d \in Docs, Waiting(d) PROVE FALSE
    <2>1. rows[d].kind = "sale" /\ rows[d].supersedes = NoDoc
      BY <1>3, <1>4, RowFields, WhatIsDecided DEF ReissueInFlight, Waiting
    <2>2. d # f /\ rows[f].status # "absent"
      BY <1>3, <1>4 DEF Waiting
    <2>. QED
      BY <1>4, <2>1, <2>2 DEF FacturasInOrder
  <1>5. ASSUME NEW c \in NotesAgainst(f) PROVE c \in Docs /\ ~InPlay(c)
    BY <1>3, <1>5, WhatIsDecided
       DEF ReissueInFlight, NotesAgainst, CreditedByAuthorized, InPlay
  <1>6. Standing(f) /\ Stage(f) = "authorized"
    BY <1>3, StageMeans DEF Standing, InPlay, RowAgrees
  <1>7. /\ Stage(n) = "blank" /\ Stage(g) = "blank" /\ Stage(n)' = "owed" /\ Stage(g)' = "owed"
        /\ rows[n].credits = NoDoc /\ rows[n].supersedes = NoDoc
        /\ rows[g].credits = NoDoc /\ rows[g].supersedes = NoDoc
        /\ rows'[n].credits = f /\ rows'[n].supersedes = NoDoc
        /\ rows'[g].credits = NoDoc /\ rows'[g].supersedes = f
    <2>1. rows[n].status = "absent" /\ rows[g].status = "absent"
      BY <1>2 DEF AbsentRow
    <2>2. /\ OwedNote(f).status = "owed" /\ OwedNote(f).file = 0 /\ OwedNote(f).credits = f
          /\ OwedNote(f).supersedes = NoDoc
          /\ OwedSale(f).status = "owed" /\ OwedSale(f).file = 0 /\ OwedSale(f).credits = NoDoc
          /\ OwedSale(f).supersedes = f
      BY DEF OwedNote, OwedSale, AbsentRow
    <2>3. Stage(n)' = "owed" /\ Stage(g)' = "owed"
      BY <1>2, <2>2, StageThen DEF Waiting, Signed
    <2>. QED
      BY <1>2, <2>1, <2>2, <2>3, StageMeans DEF AbsentRow
  <1>8. /\ stage' = [stage EXCEPT ![n] = "owed", ![g] = "owed"]
        /\ credits' = [credits EXCEPT ![n] = f] /\ replaces' = [replaces EXCEPT ![g] = f]
    <2>1. \A e \in Docs \ {n, g} : /\ credits'[e] = credits[e] /\ replaces'[e] = replaces[e]
                                   /\ stage'[e] = stage[e]
      BY <1>2, SameStages
    <2>2. /\ credits'[n] = f /\ credits'[g] = credits[g] /\ replaces'[n] = replaces[n]
          /\ replaces'[g] = f /\ stage'[n] = "owed" /\ stage'[g] = "owed"
      BY <1>7 DEF credits, replaces, stage
    <2>. QED
      BY <1>2, <2>1, <2>2 DEF credits, replaces, stage
  <1>9. /\ SD!Stands(f) /\ \A c \in SD!Notes(f) : ~SD!Outstanding(c)
    BY <1>5, <1>6, PromiseMeans
  <1>10. SD!NoneOwed
    BY <1>4, StageMeans DEF SD!NoneOwed
  <1>11. SD!Correct(f)
    BY <1>2, <1>3, <1>6, <1>7, <1>8, <1>9, <1>10 DEF SD!Correct, stage, credits, replaces
  <1>. QED
    BY <1>11 DEF SD!Next

LEMMA IssueAgainIsStep ==
    ASSUME IInv, IInv', NEW f \in Docs, IssueSaleInvoiceAgain(f)
    PROVE  [SD!Next]_promised
  <1>. USE InvParts
  <1>1. PICK g \in Docs : Fresh({g}) /\ rows' = [rows EXCEPT ![g] = OwedSale(f)]
    BY DEF IssueSaleInvoiceAgain
  <1>2. /\ rows[g] = AbsentRow /\ rows'[g] = OwedSale(f) /\ sale' = sale
        /\ \A d \in Docs \ {g} : rows'[d] = rows[d]
    BY <1>1 DEF Fresh, TypeOK, RowAgrees, IssueSaleInvoiceAgain
  <1>3. /\ rows[f].kind = "sale" /\ rows[f].status \in {"abandoned", "annulled"}
        /\ sale = "committed" /\ ~SaleHasLiveFactura
    BY DEF IssueSaleInvoiceAgain, IssuableAgain
  <1>4. ASSUME NEW d \in Docs, rows[d].kind = "sale", Waiting(d) PROVE FALSE
    <2>1. ~HasLiveSuccessor(d) /\ ~CreditedByAuthorized(d)
      BY <1>4, NothingFollowsWaiting
    <2>2. rows[d].status \notin Dead \cup {"absent"}
      BY <1>4, WhatIsDecided DEF Waiting
    <2>. QED
      BY <1>3, <1>4, <2>1, <2>2 DEF SaleHasLiveFactura
  <1>5. ASSUME NEW h \in Docs, Standing(h) PROVE FALSE
    <2>1. rows[h].kind = "sale" /\ rows[h].status \notin Dead \cup {"absent"}
          /\ ~CreditedByAuthorized(h)
      BY <1>5, WhatIsDecided DEF Standing, InPlay
    <2>2. PICK s \in Docs : rows[s].supersedes = h /\ rows[s].status \notin Dead \cup {"absent"}
      BY <1>3, <2>1 DEF SaleHasLiveFactura, HasLiveSuccessor
    <2>3. h # NoDoc /\ rows[s].kind = "sale" /\ rows[s].status \in Statuses
      BY <2>2, DocsAssumption, RowFields DEF RowAgrees, IsNote
    <2>4. ~Signed(s)
      BY <2>1, <2>2, <2>3 DEF FacturasInOrder
    <2>5. Waiting(s)
      BY <2>2, <2>3, <2>4, WhatIsDecided DEF RowAgrees, Waiting
    <2>. QED
      BY <1>4, <2>3, <2>5
  <1>6. /\ Stage(g) = "blank" /\ Stage(g)' = "owed" /\ Stage(f) = "disowned"
        /\ rows[g].credits = NoDoc /\ rows'[g].credits = NoDoc /\ rows'[g].supersedes = f
    <2>1. rows[g].status = "absent" /\ rows[g].credits = NoDoc
      BY <1>2 DEF AbsentRow
    <2>2. /\ OwedSale(f).status = "owed" /\ OwedSale(f).file = 0 /\ OwedSale(f).credits = NoDoc
          /\ OwedSale(f).supersedes = f
      BY DEF OwedSale, AbsentRow
    <2>3. Stage(g)' = "owed"
      BY <1>2, <2>2, StageThen DEF Waiting, Signed
    <2>. QED
      BY <1>2, <1>3, <2>1, <2>2, <2>3, StageMeans
  <1>7. /\ stage' = [stage EXCEPT ![g] = "owed"] /\ credits' = credits
        /\ replaces' = [replaces EXCEPT ![g] = f]
    <2>1. \A e \in Docs \ {g} : /\ credits'[e] = credits[e] /\ replaces'[e] = replaces[e]
                                /\ stage'[e] = stage[e]
      BY <1>2, SameStages
    <2>2. credits'[g] = credits[g] /\ replaces'[g] = f /\ stage'[g] = "owed"
      BY <1>6 DEF credits, replaces, stage
    <2>. QED
      BY <2>1, <2>2 DEF credits, replaces, stage
  <1>8. SD!Factura(f)
    BY <1>3, PromiseMeans DEF IsNote
  <1>9. ASSUME NEW h \in Docs PROVE ~SD!Stands(h) /\ ~(SD!Factura(h) /\ stage[h] = "owed")
    <2>1. ~SD!Stands(h)
      BY <1>5, PromiseMeans
    <2>2. ~(SD!Factura(h) /\ Stage(h) = "owed")
      BY <1>4, PromiseMeans, StageMeans
    <2>. QED
      BY <2>1, <2>2 DEF stage
  <1>10. SD!Replace(f)
    BY <1>2, <1>3, <1>6, <1>7, <1>8, <1>9 DEF SD!Replace, stage, credits, replaces
  <1>. QED
    BY <1>10 DEF SD!Next

\* What a reversal settles is what stands, and what it withdraws was never declared.
LEMMA SettlesWhatStands ==
    ASSUME IInv
    PROVE  /\ ToCredit = {f \in Docs : Standing(f)}
           /\ \A d \in Docs : SD!Undeclared(d) <=> d \in NeverSent /\ Waiting(d)
           /\ \A d \in NeverSent : d \in Docs /\ (Waiting(d) \/ rows[d].status = "withdrawn")
  <1>. USE InvParts
  <1>1. ASSUME NEW f \in Docs
        PROVE  f \in ToSettle <=> rows[f].kind = "sale" /\ InPlay(f)
    <2>1. rows[f].status \in Statuses /\ (rows[f].status = "absent" => ~Signed(f))
      BY RowFields
    <2>. QED
      BY <2>1, WhatIsDecided DEF ToSettle, InPlay, RowAgrees
  <1>2. ToCredit = {f \in Docs : Standing(f)}
    BY <1>1 DEF ToCredit, ToSettle, Standing
  <1>3. ASSUME NEW d \in Docs PROVE SD!Undeclared(d) <=> d \in NeverSent /\ Waiting(d)
    <2>1. stage[d] = "owed" <=> Waiting(d)
      BY StageMeans DEF stage
    <2>2. SD!Undeclared(d) <=> Waiting(d) /\ (SD!Factura(d) \/ SD!Outstanding(rows[d].credits))
      BY <2>1 DEF SD!Undeclared, stage, credits
    <2>3. CASE ~IsNote(d)
      BY <2>2, <2>3, PromiseMeans DEF NeverSent, Waiting
    <2>4. CASE IsNote(d)
      <3>1. rows[d].credits \in Docs /\ rows[rows[d].credits].kind = "sale" /\ ~SD!Factura(d)
        BY <2>4, PromiseMeans DEF RowAgrees
      <3>2. SD!Outstanding(rows[d].credits) <=> rows[d].credits \in ToSettle
        BY <1>1, <3>1, PromiseMeans
      <3>. QED
        BY <2>2, <2>4, <3>1, <3>2 DEF NeverSent, Waiting, IsNote
    <2>. QED
      BY <2>3, <2>4
  <1>4. ASSUME NEW d \in NeverSent
        PROVE  d \in Docs /\ (Waiting(d) \/ rows[d].status = "withdrawn")
    <2>1. d \in Docs /\ rows[d].status # "absent" /\ ~Signed(d)
      BY <1>4 DEF NeverSent
    <2>2. rows[d].status \in Statuses
      BY <2>1, RowFields
    <2>. QED
      BY <2>1, <2>2, WhatIsDecided DEF RowAgrees, Waiting
  <1>. QED
    BY <1>2, <1>3, <1>4

LEMMA SettleIsStep ==
    ASSUME IInv, IInv', SettleReversedSale
    PROVE  [SD!Next]_promised
  <1>. USE InvParts
  <1>1. PICK noteOf \in [ToCredit -> Docs] :
          /\ Fresh({noteOf[f] : f \in ToCredit})
          /\ \A f, g \in ToCredit : f # g => noteOf[f] # noteOf[g]
          /\ rows' = [d \in Docs |->
                IF d \in NeverSent THEN [rows[d] EXCEPT !.status = "withdrawn", !.next = "null"]
                ELSE IF \E f \in ToCredit : noteOf[f] = d
                THEN OwedNote(CHOOSE f \in ToCredit : noteOf[f] = d)
                ELSE rows[d]]
    BY DEF SettleReversedSale
  <1>2. sale = "committed" /\ sale' = "reversed"
    BY DEF SettleReversedSale
  <1>3. /\ ToCredit = {f \in Docs : Standing(f)}
        /\ \A d \in Docs : SD!Undeclared(d) <=> d \in NeverSent /\ Waiting(d)
        /\ \A d \in NeverSent : d \in Docs /\ (Waiting(d) \/ rows[d].status = "withdrawn")
    BY SettlesWhatStands
  <1>4. ASSUME NEW d \in Docs, \A f \in ToCredit : noteOf[f] # d
        PROVE  /\ Stage(d)' = IF SD!Undeclared(d) THEN "withdrawn" ELSE Stage(d)
               /\ rows'[d].credits = rows[d].credits /\ rows'[d].supersedes = rows[d].supersedes
    <2>1. CASE d \in NeverSent
      <3>1. rows'[d] = [rows[d] EXCEPT !.status = "withdrawn", !.next = "null"] /\ rows[d] \in Row
        BY <1>1, <2>1 DEF TypeOK
      <3>2. /\ rows'[d].status = "withdrawn" /\ rows'[d].credits = rows[d].credits
            /\ rows'[d].supersedes = rows[d].supersedes
        BY <3>1 DEF Row
      <3>3. Stage(d)' = "withdrawn"
        BY <3>2, StageThen
      <3>4. SD!Undeclared(d) \/ Stage(d) = "withdrawn"
        BY <1>3, <2>1, StageMeans
      <3>. QED
        BY <3>2, <3>3, <3>4
    <2>2. CASE d \notin NeverSent
      <3>1. rows'[d] = rows[d]
        BY <1>1, <1>4, <2>2
      <3>2. Stage(d)' = Stage(d)
        BY <3>1 DEF Stage, Signed
      <3>. QED
        BY <1>3, <2>2, <3>1, <3>2
    <2>. QED
      BY <2>1, <2>2
  <1>5. CASE \A f \in Docs : ~Standing(f)
    <2>1. ToCredit = {} /\ \A f \in Docs : ~SD!Stands(f)
      BY <1>3, <1>5, PromiseMeans
    <2>2. /\ UNCHANGED <<credits, replaces>>
          /\ stage' = [d \in Docs |-> IF SD!Undeclared(d) THEN "withdrawn" ELSE stage[d]]
      BY <1>4, <2>1 DEF credits, replaces, stage
    <2>3. SD!Reverse
      BY <1>2, <2>1, <2>2 DEF SD!Reverse, stage, credits, replaces
    <2>. QED
      BY <2>3 DEF SD!Next
  <1>6. ASSUME NEW f \in Docs, Standing(f) PROVE [SD!Next]_promised
    <2>1. ToCredit = {f} /\ SD!Stands(f)
      BY <1>3, <1>6, PromiseMeans DEF FacturasInOrder
    <2>2. PICK n \in Docs : n = noteOf[f]
      BY <2>1
    <2>3. rows[n].status = "absent" /\ n \notin NeverSent
      BY <1>1, <2>1, <2>2 DEF Fresh, NeverSent
    <2>4. rows'[n] = OwedNote(f)
      <3>1. (CHOOSE h \in ToCredit : noteOf[h] = n) = f /\ \E h \in ToCredit : noteOf[h] = n
        BY <2>1, <2>2
      <3>. QED
        BY <1>1, <2>3, <3>1
    <2>5. /\ OwedNote(f).status = "owed" /\ OwedNote(f).file = 0 /\ OwedNote(f).credits = f
          /\ OwedNote(f).supersedes = NoDoc
      BY DEF OwedNote, AbsentRow
    <2>6. Stage(n)' = "owed" /\ Stage(n) = "blank" /\ rows[n].supersedes = NoDoc
      BY <2>3, <2>4, <2>5, StageMeans, StageThen DEF Waiting, Signed, RowAgrees, AbsentRow
    <2>7. ASSUME NEW d \in Docs, d # n
          PROVE  /\ Stage(d)' = IF SD!Undeclared(d) THEN "withdrawn" ELSE Stage(d)
                 /\ rows'[d].credits = rows[d].credits /\ rows'[d].supersedes = rows[d].supersedes
      BY <1>4, <2>1, <2>2, <2>7
    <2>8. /\ replaces' = replaces /\ credits' = [credits EXCEPT ![n] = f]
          /\ stage' = [d \in Docs |-> IF d = n THEN "owed"
                                      ELSE IF SD!Undeclared(d) THEN "withdrawn" ELSE stage[d]]
      BY <2>4, <2>5, <2>6, <2>7 DEF credits, replaces, stage
    <2>9. SD!Reverse
      BY <1>2, <2>1, <2>6, <2>8 DEF SD!Reverse, stage, credits, replaces
    <2>. QED
      BY <2>9 DEF SD!Next
  <1>. QED
    BY <1>5, <1>6

----------------------------------------------------------------------------
(* A corrected factura is given up for good *)

\* No row changes what it is, and no note is owed anew.
OwesNoNote ==
    \A e \in Docs :
        /\ rows[e].status # "absent" =>
              /\ rows'[e].kind = rows[e].kind /\ rows'[e].credits = rows[e].credits
              /\ rows'[e].supersedes = rows[e].supersedes
        /\ rows[e].status = "absent" => rows'[e].kind = "sale" \/ rows'[e].status = "absent"
        /\ rows[e].status = "authorized" => rows'[e].status = "authorized"

LEMMA StaysForsaken ==
    ASSUME IInv, DeadKept, OwesNoNote, NEW d \in Docs, rows[d].status # "absent", Forsaken(d)
    PROVE  Forsaken(d)' /\ (IsNote(d)' <=> IsNote(d))
  <1>. DEFINE old == rows[d].supersedes
  <1>1. /\ rows'[d].supersedes = old /\ rows'[d].kind = rows[d].kind
        /\ old # NoDoc /\ rows[old].status = "authorized"
    BY DEF OwesNoNote, Forsaken
  <1>2. old \in Docs
    BY <1>1, InvParts, RowFields
  <1>3. rows'[old].status = "authorized"
    BY <1>1, <1>2 DEF OwesNoNote
  <1>4. ASSUME NEW c \in NotesAgainst(old)' PROVE rows'[c].status \in Dead
    <2>1. /\ c \in Docs /\ rows'[c].kind = "credit_note" /\ rows'[c].credits = old
          /\ rows'[c].status # "absent"
      BY <1>1, <1>4 DEF NotesAgainst
    <2>2. c \in NotesAgainst(old)
      BY <2>1 DEF OwesNoNote, NotesAgainst
    <2>. QED
      BY <2>1, <2>2 DEF Forsaken, DeadKept
  <1>5. \A c \in NotesAgainst(rows[d].supersedes)' : rows'[c].status \in Dead
    BY <1>1, <1>4 DEF NotesAgainst
  <1>. QED
    BY <1>1, <1>3, <1>5 DEF Forsaken, IsNote

LEMMA MovedOnOwesNoNote == OneMovesOn => OwesNoNote
  BY WhatIsDecided DEF OneMovesOn, OwesNoNote, Moves, Keeps

LEMMA SignOwesNoNote ==
    ASSUME IInv, NEW w \in Workers, SignOwedInvoice(w)
    PROVE  OwesNoNote
  <1>1. Doc(w) \in Docs /\ rows[Doc(w)].status # "absent"
    BY WorkerFields DEF SignOwedInvoice, At
  <1>2. CASE rows' = rows
    BY <1>2, InvParts DEF OwesNoNote, RowAgrees, AbsentRow
  <1>3. CASE /\ rows[Doc(w)].status \in {"owed", "needs_attention"}
             /\ rows' = [rows EXCEPT ![Doc(w)].status = "pending", ![Doc(w)].file = 1]
    <2>1. /\ rows'[Doc(w)].kind = rows[Doc(w)].kind /\ rows'[Doc(w)].credits = rows[Doc(w)].credits
          /\ rows'[Doc(w)].supersedes = rows[Doc(w)].supersedes
          /\ \A e \in Docs : e # Doc(w) => rows'[e] = rows[e]
      BY <1>1, <1>3, InvParts DEF TypeOK, Row
    <2>. QED
      BY <1>1, <1>3, <2>1 DEF OwesNoNote
  <1>. QED
    BY <1>2, <1>3 DEF SignOwedInvoice

LEMMA AnnulOwesNoNote ==
    ASSUME IInv, NEW d \in Docs, AnnulInvoice(d)
    PROVE  OwesNoNote
  <1>1. rows[d].status \in {"pending", "needs_attention"}
    BY DEF AnnulInvoice, Annullable, Actionable
  <1>2. ASSUME NEW e \in Docs
        PROVE  \/ rows'[e] = rows[e]
               \/ /\ rows[e].status \in {"owed", "pending", "needs_attention"}
                  /\ \E to \in {"annulled", "withdrawn"} :
                        rows'[e] = [rows[e] EXCEPT !.status = to, !.next = "null"]
    BY <1>1 DEF AnnulInvoice, Successors
  <1>3. ASSUME NEW e \in Docs
        PROVE  \/ rows'[e] = rows[e]
               \/ /\ rows[e].status \in {"owed", "pending", "needs_attention"}
                  /\ rows'[e].kind = rows[e].kind /\ rows'[e].credits = rows[e].credits
                  /\ rows'[e].supersedes = rows[e].supersedes
    <2>1. rows[e] \in Row
      BY InvParts DEF TypeOK
    <2>. QED
      BY <1>2, <2>1 DEF Row
  <1>. QED
    BY <1>3 DEF OwesNoNote

LEMMA IssueAgainOwesNoNote ==
    ASSUME IInv, NEW f \in Docs, IssueSaleInvoiceAgain(f)
    PROVE  OwesNoNote
  <1>1. PICK g \in Docs : Fresh({g}) /\ rows' = [rows EXCEPT ![g] = OwedSale(f)]
    BY DEF IssueSaleInvoiceAgain
  <1>2. /\ rows[g].status = "absent" /\ rows'[g] = OwedSale(f)
        /\ \A e \in Docs : e # g => rows'[e] = rows[e]
    BY <1>1, InvParts DEF Fresh, TypeOK
  <1>3. OwedSale(f).kind = "sale"
    BY DEF OwedSale, AbsentRow
  <1>. QED
    BY <1>2, <1>3 DEF OwesNoNote

\* What a step does to the documents: one moves on, or one of the acts that write more.
LEMMA StepsOfDocuments ==
    ASSUME IInv, [Next]_vars
    PROVE  \/ OneMovesOn
           \/ \E w \in Workers : SignOwedInvoice(w)
           \/ \E d \in Docs : AnnulInvoice(d) \/ ReissueSaleInvoice(d) \/ IssueSaleInvoiceAgain(d)
           \/ SettleReversedSale
           \/ UNCHANGED vars
  <1>1. ASSUME NEW w \in Workers, RoundStep(w) PROVE OneMovesOn \/ SignOwedInvoice(w)
    BY <1>1, ClaimHolds, JudgeHolds, WithdrawUnsignedHolds, SubmitHolds, PollHolds,
       PollLostHolds, ApplyOutcomeHolds, SettleRoundHolds, DeliverHolds DEF RoundStep
  <1>2. ASSUME NEW w \in Workers, OperatorStep(w) \/ Mishap(w) PROVE OneMovesOn
    BY <1>2, OperatorStepHolds, ParkUnsignableHolds, SubmitLostHolds, DeliverHolds, CrashHolds
       DEF Mishap
  <1>3. ASSUME NEW d \in Docs, AuthorityDecides(d) \/ PortalAnnuls(d) \/ TimePasses(d)
        PROVE  OneMovesOn
    BY <1>3, AuthorityHolds, TimePassesHolds
  <1>4. ASSUME NEW w \in Operators, NEW d \in Docs, CheckInvoice(w, d) \/ ResendInvoice(w, d)
        PROVE  OneMovesOn
    BY <1>4, PressHolds DEF Workers
  <1>5. ASSUME OperatorPress
        PROVE  \/ OneMovesOn
               \/ \E d \in Docs : AnnulInvoice(d) \/ ReissueSaleInvoice(d) \/ IssueSaleInvoiceAgain(d)
    BY <1>4, <1>5, AbandonHolds DEF OperatorPress
  <1>. QED
    BY <1>1, <1>2, <1>3, <1>5 DEF Next

\* Only a judgement sends a worker to withdraw.
LEMMA OnlyJudgedWithdraw ==
    ASSUME IInv, [Next]_vars, NEW w \in Workers, work'[w].pc = "withdraw"
    PROVE  work'[w] = work[w] \/ Judge(w)
  <1>. USE InvParts
  <1>. DEFINE Stays == work'[w] = work[w]
  <1>1. work \in [Workers -> Worker] /\ Idle.pc = "idle"
    BY DEF TypeOK, Idle
  <1>2. /\ ~Ends(w) /\ \A next : Goes(w, next) => next = "withdraw"
        /\ \A call : work' = [work EXCEPT ![w] = call] => call.pc = "withdraw"
    BY <1>1 DEF Goes, Ends, Worker
  <1>3. CASE RoundStep(w) /\ ~Judge(w)
    <2>1. ASSUME NEW d \in Docs, ClaimDueInvoice(w, d) PROVE FALSE
      <3>1. work'[w].pc = FirstStep(d)
        BY <1>1, <2>1 DEF ClaimDueInvoice, Idle
      <3>. QED
        BY <3>1 DEF FirstStep
    <2>2. Wraps(w) # "withdraw"
      BY DEF Wraps
    <2>3. /\ ~WithdrawUnsigned(w) /\ ~SettleRound(w)
          /\ ~DeliverDocument(w) /\ ~DeliveryImpossible(w) /\ ~MarkDelivered(w)
      BY <1>2
         DEF WithdrawUnsigned, SettleRound, DeliverDocument, DeliveryImpossible, MarkDelivered
    <2>4. ~SignOwedInvoice(w)
      BY <1>1, <1>2 DEF SignOwedInvoice, Worker
    <2>7. ~Poll(w) /\ ~PollLost(w)
      <3>1. ASSUME NEW next, NEW answer, next # "withdraw",
                   work' = [work EXCEPT ![w].pc = next, ![w].answer = answer]
            PROVE  FALSE
        BY <1>1, <3>1 DEF Worker
      <3>. QED
        BY <1>2, <2>2, <3>1 DEF Poll, PollLost
    <2>8. ~Submit(w)
      BY <1>1 DEF Submit, Worker
    <2>5. CASE ApplyOutcome(w)
      <3>1. PICK next : /\ next # "withdraw"
                        /\ \E from : work' = [work EXCEPT ![w].pc = next, ![w].from = from]
        BY <2>2, <2>5 DEF ApplyOutcome
      <3>. QED
        BY <1>1, <3>1 DEF Worker
    <2>. QED
      BY <1>3, <2>1, <2>3, <2>4, <2>5, <2>7, <2>8 DEF RoundStep
  <1>4. CASE OperatorStep(w) \/ Mishap(w)
    <2>1. Wraps(w) # "withdraw"
      BY DEF Wraps
    <2>. QED
      BY <1>2, <1>4, <2>1 DEF OperatorStep, ReplaceSignedDocument, DueForDelivery, Mishap,
         ParkUnsignable, SubmitLost, DeliveryRefused, Crash
  <1>5. ASSUME NEW v \in Workers, v # w, RoundStep(v) \/ OperatorStep(v) \/ Mishap(v) PROVE Stays
    BY <1>5, StepIsItsOwn
  <1>6. ASSUME NEW d \in Docs, AuthorityDecides(d) \/ PortalAnnuls(d) \/ TimePasses(d) PROVE Stays
    BY <1>6 DEF AuthorityDecides, PortalAnnuls, TimePasses
  <1>7. CASE OperatorPress
    <2>1. ASSUME NEW v \in Operators, NEW d \in Docs, CheckInvoice(v, d) \/ ResendInvoice(v, d)
          PROVE  Stays
      <3>1. PICK call : work' = [work EXCEPT ![v] = call] /\ call.pc # "withdraw"
        <4>1. CASE CheckInvoice(v, d)
          <5>1. [Idle EXCEPT !.pc = "poll", !.doc = d, !.from = rows[d].status].pc # "withdraw"
            BY DEF Idle
          <5>. QED
            BY <4>1, <5>1 DEF CheckInvoice
        <4>2. CASE ResendInvoice(v, d)
          <5>1. [Idle EXCEPT !.pc = "submit", !.doc = d, !.from = rows[d].status,
                             !.bytes = rows[d].file + 1].pc # "withdraw"
            BY DEF Idle
          <5>. QED
            BY <4>2, <5>1 DEF ResendInvoice
        <4>. QED
          BY <2>1, <4>1, <4>2
      <3>2. CASE v = w
        BY <1>2, <3>1, <3>2
      <3>3. CASE v # w
        BY <1>1, <3>1, <3>3
      <3>. QED
        BY <3>2, <3>3
    <2>2. ASSUME NEW d \in Docs, \/ AnnulInvoice(d) \/ AbandonInvoice(d)
                                 \/ ReissueSaleInvoice(d) \/ IssueSaleInvoiceAgain(d)
          PROVE  Stays
      BY <2>2 DEF AnnulInvoice, AbandonInvoice, ReissueSaleInvoice, IssueSaleInvoiceAgain
    <2>. QED
      BY <1>7, <2>1, <2>2 DEF OperatorPress
  <1>8. CASE SettleReversedSale \/ UNCHANGED vars
    BY <1>8 DEF SettleReversedSale, vars
  <1>. QED
    BY <1>3, <1>4, <1>5, <1>6, <1>7, <1>8 DEF Next

\* The judgement itself forsakes the factura.
LEMMA JudgedForsaken ==
    ASSUME IInv, NEW w \in Workers, Judge(w), work'[w].pc = "withdraw", ~IsNote(Doc(w))
    PROVE  Forsaken(Doc(w)) /\ Doc(w)' = Doc(w) /\ rows' = rows
  <1>. USE InvParts
  <1>. DEFINE d == Doc(w)
              old == rows[d].supersedes
  <1>1. d \in Docs /\ rows[d].kind = "sale" /\ rows' = rows /\ Idle.pc = "idle"
    BY WorkerFields, RowFields DEF Judge, At, IsNote, Idle
  <1>2. JudgedFactura(d) = "withdraw" /\ Doc(w)' = d
    <2>1. IF JudgedFactura(d) = "idle" THEN Ends(w) ELSE Goes(w, JudgedFactura(d))
      BY <1>1 DEF Judge
    <2>. HIDE DEF d
    <2>2. CASE JudgedFactura(d) = "idle"
      BY <1>1, <2>1, <2>2 DEF Ends, TypeOK
    <2>3. CASE JudgedFactura(d) # "idle"
      BY <2>1, <2>3 DEF Goes, TypeOK, Worker, Doc, d
    <2>. QED
      BY <2>2, <2>3
  <1>3. /\ old # NoDoc /\ rows[old].status \notin Dead /\ ~CreditedByAuthorized(old)
        /\ LiveNotesAgainst(old) = {}
    BY <1>2 DEF JudgedFactura
  <1>4. old \in Docs /\ rows[old].status = "authorized"
    BY <1>1, <1>3, RowFields, WhatIsDecided DEF RowAgrees
  <1>5. ASSUME NEW c \in NotesAgainst(old) PROVE rows[c].status \in Dead
    <2>1. c \in Docs /\ rows[c].status # "absent" /\ rows[c].status \in Statuses
      BY <1>5, RowFields DEF NotesAgainst
    <2>2. rows[c].status # "authorized" /\ rows[c].status \notin Undecided
      BY <1>3, <1>5 DEF CreditedByAuthorized, LiveNotesAgainst
    <2>. QED
      BY <2>1, <2>2, WhatIsDecided
  <1>. QED
    BY <1>1, <1>2, <1>3, <1>4, <1>5 DEF Forsaken

LEMMA GivenUpInit == Init => GivenUp
  <1>. SUFFICES ASSUME Init, NEW w \in Workers, At(w, "withdraw") PROVE FALSE
    BY DEF GivenUp
  <1>. QED
    BY RestIsAWorker DEF Init, At

\* Whoever is about to withdraw a factura either judged it now or had forsaken it before,
\* and no act owes a note against what it follows on while it waits.
LEMMA GivenUpHolds == IInv /\ GivenUp /\ [Next]_vars => GivenUp'
  <1>. SUFFICES ASSUME IInv, GivenUp, [Next]_vars, NEW w \in Workers, At(w, "withdraw")',
                       ~IsNote(Doc(w))', rows'[Doc(w)'].status # "withdrawn"
                PROVE  Forsaken(Doc(w))'
    BY DEF GivenUp
  <1>1. IInv' /\ DeadKept
    BY NextHolds
  <1>2. CASE Judge(w)
    <2>1. Doc(w)' = Doc(w) /\ rows' = rows
      <3>1. work \in [Workers -> Worker] /\ Idle.pc = "idle" /\ work'[w].pc = "withdraw"
        BY InvParts DEF TypeOK, Idle, At
      <3>2. ~Ends(w)
        BY <3>1 DEF Ends
      <3>3. \A next : Goes(w, next) => Doc(w)' = Doc(w)
        BY <3>1 DEF Goes, Doc, Worker
      <3>. QED
        BY <1>2, <3>2, <3>3 DEF Judge
    <2>. QED
      BY <1>2, <2>1, JudgedForsaken DEF At, IsNote, Forsaken, NotesAgainst
  <1>3. CASE work'[w] = work[w]
    <2>1. PICK d \in Docs : d = Doc(w) /\ d = Doc(w)' /\ At(w, "withdraw")
      BY <1>3, WorkerFields DEF At, Doc
    <2>2. /\ rows[d].status \in {"owed", "needs_attention"} /\ ~Signed(d)
          /\ rows'[d].status # "withdrawn" /\ ~IsNote(d)'
      <3>1. rows'[d].status # "withdrawn" /\ ~IsNote(d)'
        BY <2>1 DEF IsNote
      <3>2. rows[d].status # "withdrawn"
        BY <1>1, <3>1 DEF DeadKept, Dead
      <3>. QED
        BY <2>1, <3>1, <3>2, InvParts DEF WorkerAgrees, At, Unsigning
    <2>3. IsNote(d) \/ Forsaken(d)
      BY <2>1, <2>2 DEF GivenUp
    <2>4. ASSUME OwesNoNote PROVE Forsaken(Doc(w))'
      <3>1. Forsaken(d) /\ rows[d].status # "absent"
        BY <2>2, <2>3, <2>4 DEF OwesNoNote, IsNote
      <3>2. Forsaken(d)'
        BY <1>1, <2>4, <3>1, StaysForsaken
      <3>. QED
        BY <2>1, <3>2 DEF Forsaken, NotesAgainst
    <2>5. ASSUME NEW f \in Docs, ReissueSaleInvoice(f) PROVE FALSE
      BY <2>2, <2>3, <2>5, WhatIsDecided
         DEF ReissueSaleInvoice, Reissuable, ReissueInFlight, IsNote, Forsaken
    <2>6. ASSUME SettleReversedSale PROVE FALSE
      <3>1. CASE d \in NeverSent
        <4>1. rows'[d] = [rows[d] EXCEPT !.status = "withdrawn", !.next = "null"]
              /\ rows[d] \in Row
          BY <2>6, <3>1, InvParts DEF SettleReversedSale, TypeOK
        <4>. QED
          BY <2>2, <4>1 DEF Row
      <3>2. CASE d \notin NeverSent
        <4>1. IsNote(d)
          BY <2>2, <3>2, InvParts, RowFields DEF NeverSent, IsNote
        <4>2. rows'[d] = rows[d]
          BY <2>2, <2>6, <3>2 DEF SettleReversedSale, Fresh
        <4>. QED
          BY <2>2, <4>1, <4>2 DEF IsNote
      <3>. QED
        BY <3>1, <3>2
    <2>7. UNCHANGED vars => OwesNoNote
      BY InvParts DEF vars, OwesNoNote, RowAgrees, AbsentRow
    <2>. QED
      BY <2>4, <2>5, <2>6, <2>7, StepsOfDocuments, MovedOnOwesNoNote, SignOwesNoNote,
         AnnulOwesNoNote, IssueAgainOwesNoNote
  <1>. QED
    BY <1>2, <1>3, OnlyJudgedWithdraw DEF At

----------------------------------------------------------------------------
(* Every step is a step of the promise *)

LEMMA PromiseInit == Init => SD!Init
  <1>. SUFFICES ASSUME Init PROVE SD!Init
    OBVIOUS
  <1>1. PICK first \in Docs :
          rows = [d \in Docs |-> IF d = first THEN OwedSale(NoDoc) ELSE AbsentRow]
    BY DEF Init
  <1>2. /\ OwedSale(NoDoc).status = "owed" /\ OwedSale(NoDoc).file = 0
        /\ OwedSale(NoDoc).credits = NoDoc /\ OwedSale(NoDoc).supersedes = NoDoc
        /\ AbsentRow.status = "absent" /\ AbsentRow.credits = NoDoc
        /\ AbsentRow.supersedes = NoDoc
    BY DEF OwedSale, AbsentRow
  <1>3. \A d \in Docs : /\ Stage(d) = IF d = first THEN "owed" ELSE "blank"
                        /\ rows[d].credits = NoDoc /\ rows[d].supersedes = NoDoc
    BY <1>1, <1>2 DEF Stage, Signed, Undecided
  <1>4. stage = [d \in Docs |-> IF d = first THEN "owed" ELSE "blank"]
    BY <1>3 DEF stage
  <1>. QED
    BY <1>3, <1>4 DEF Init, SD!Init, stage, credits, replaces

LEMMA PromiseStep ==
    ASSUME IInv, GivenUp, [Next]_vars
    PROVE  [SD!Next]_promised
  <1>1. IInv'
    BY NextHolds
  <1>2. rows' = rows /\ sale' = sale => [SD!Next]_promised
    BY DEF promised, stage, credits, replaces, Stage, Signed
  <1>3. ASSUME NEW w \in Workers, SignOwedInvoice(w) PROVE [SD!Next]_promised
    <2>1. sale' = sale
      BY <1>3 DEF SignOwedInvoice
    <2>. QED
      BY <1>1, <1>2, <1>3, <2>1, SignIsStep
  <1>. QED
    BY <1>1, <1>2, <1>3, StepsOfDocuments, OneMovesIsStep, AnnulIsStep, ReissueIsStep,
       IssueAgainIsStep, SettleIsStep DEF vars

\* A corrected factura that a round is about to withdraw has nothing left to follow: no
\* act gives what it supersedes a live note between the judgement and the write.
THEOREM GivenUpForGood == Spec => [](IInv /\ GivenUp)
  <1>1. Init => IInv /\ GivenUp
    BY InitHolds, GivenUpInit
  <1>2. IInv /\ GivenUp /\ [Next]_vars => (IInv /\ GivenUp)'
    BY NextHolds, GivenUpHolds
  <1>. QED
    BY <1>1, <1>2, PTL DEF Spec

\* The documents of a Sale keep the promise of SaleDocuments: whatever the rounds, the
\* operator and the reversal do in between, a factura is declared only where none stands,
\* a Credit Note only against an authorized factura nothing else credits, and what is
\* owed is given up only for a reason that lasts (judgeNote, judgeFactura, the guarded
\* writes of invoicing.go and settleReversedSale).
THEOREM SaleDocumentsKept == Spec => ImplementsSaleDocuments
  <1>1. Init => SD!Init
    BY PromiseInit
  <1>2. IInv /\ GivenUp /\ [Next]_vars => [SD!Next]_promised
    BY PromiseStep
  <1>. QED
    BY <1>1, <1>2, GivenUpForGood, PTL
       DEF Spec, ImplementsSaleDocuments, SD!Spec, promised, stage, credits, replaces

=============================================================================
