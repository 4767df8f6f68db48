------------------------- MODULE SerialIssuanceProofs -------------------------
(***************************************************************************)
(* Proofs about InvoiceIssuance when there is one handler: one replica,    *)
(* the consumer's one callback at a time, and no event over HTTP. Crashes, *)
(* redeliveries, lost answers and any number of link requests remain.      *)
(*                                                                         *)
(* What one handler read stays true until it writes, except for what link  *)
(* requests save, and those change neither number nor document. So a save  *)
(* finds the columns it leaves alone as its SELECT saw them, and rows stay *)
(* bare or complete. The invariant says so of each await, and counts the   *)
(* issued invoices of a series, which the abstract registry numbers by     *)
(* counting.                                                               *)
(***************************************************************************)
EXTENDS InvoiceIssuanceProofs, FiniteSetTheorems

BlockedRow == [NoRow EXCEPT !.status = "blocked"]

Bare == {NoRow, BlockedRow}

Complete(r) ==
    /\ Issued(r)
    /\ r.number # 0 /\ r.doc # 0 /\ r.printed = r.number /\ r.token # 0

\* r and s are issued, as the same invoice: statuses and links may differ.
Agrees(r, s) ==
    /\ Complete(r) /\ Complete(s)
    /\ r.number = s.number /\ r.doc = s.doc

\* If r says SENT, the mail went out.
SentOK(i, r) == r.status = "sent" => \E m \in mails[i] : m.number = r.number

SerialHandler(h) ==
    LET i == Target(h)
        r == handler[h].entity
        l == handler[h].loaded IN
    /\ handler[h].pc \in {"order", "block", "payment", "begin", "commit"}
          => ~ Issued(row[i]) /\ r \in Bare /\ l \in Bare
    /\ handler[h].pc \in {"notify", "mark"}
          => Agrees(r, row[i]) /\ (Exists(l) => Agrees(l, row[i]))
    /\ handler[h].pc = "notify" => mails[i] = {}
    /\ handler[h].pc = "mark" => \E m \in mails[i] : m.number = r.number

SerialRotator(q) ==
    LET i == rotator[q].invoice
        r == rotator[q].entity
        l == rotator[q].loaded IN
    Exists(r) => /\ Agrees(r, row[i]) /\ SentOK(i, r)
                 /\ Exists(l) => Agrees(l, row[i])

\* No mail, or one, which names the number on record.
MailTrue(i) ==
    \/ mails[i] = {}
    \/ \E m : mails[i] = {m} /\ Issued(row[i]) /\ m.number = row[i].number

SerialRow(i) ==
    /\ row[i] \in Bare \/ Complete(row[i])
    /\ SentOK(i, row[i])
    /\ row[i].doc <= stamp

IssuedIn(s) == {i \in Invoices : SeriesOf[i] = s /\ Issued(row[i])}

Counted(s) ==
    /\ IsFiniteSet(IssuedIn(s))
    /\ nextNumber[s] = Cardinality(IssuedIn(s)) + 1

SInv ==
    /\ \A h \in Handlers : SerialHandler(h)
    /\ \A q \in Rotators : SerialRotator(q)
    /\ \A i \in Invoices : SerialRow(i) /\ MailTrue(i)
    /\ \A s \in Series : Counted(s)

-----------------------------------------------------------------------------
(* Rows, and what saves make of them *)

LEMMA BareFacts ==
  /\ BlockedRow = [status |-> "blocked", number |-> 0, doc |-> 0,
                   printed |-> 0, token |-> 0]
  /\ NoRow \in Bare /\ BlockedRow \in Bare
  /\ \A r \in Bare : /\ r.number = 0 /\ r.doc = 0 /\ r.printed = 0 /\ r.token = 0
                     /\ r.status \in {"none", "blocked"}
                     /\ ~ Issued(r) /\ ~ Complete(r) /\ r \in Row
  /\ \A r \in Bare : Exists(r) => r = BlockedRow
  /\ \A r \in Bare : ~ Exists(r) => r = NoRow
<1>1. BlockedRow = [status |-> "blocked", number |-> 0, doc |-> 0,
                    printed |-> 0, token |-> 0]
  BY NoRowFacts DEF BlockedRow
<1>2. \A r \in Bare : r = NoRow \/ r = BlockedRow
  BY DEF Bare
<1>3. \A r \in Bare : /\ r.number = 0 /\ r.doc = 0 /\ r.printed = 0 /\ r.token = 0
                      /\ r.status \in {"none", "blocked"} /\ r \in Row
  BY <1>1, <1>2, NoRowFacts DEF Row, Statuses
<1>4. \A r \in Bare : ~ Issued(r) /\ ~ Complete(r)
  BY <1>3 DEF Issued, Complete
<1>5. Exists(BlockedRow)
  BY <1>1 DEF Exists
<1> QED BY <1>1, <1>2, <1>3, <1>4, <1>5, NoRowFacts DEF Bare

\* Saved as BLOCKED over what was bare and still is, a row is BLOCKED and bare.
LEMMA BlockedMerge ==
  ASSUME NEW l \in Bare, NEW c \in Bare, Exists(c) \/ l = NoRow
  PROVE  Merge(BlockedRow, l, c) = BlockedRow
<1>1. l = NoRow \/ l = BlockedRow
  BY DEF Bare
<1>2. CASE l = NoRow
  <2>1. c.number = 0 /\ c.doc = 0 /\ c.printed = 0 /\ c.token = 0
    BY BareFacts
  <2> QED BY <1>2, <2>1, BareFacts, NoRowFacts DEF Merge
<1>3. CASE l # NoRow
  <2>1. l = BlockedRow /\ c = BlockedRow
    BY <1>1, <1>3, BareFacts
  <2> QED BY <2>1, BareFacts DEF Merge
<1> QED BY <1>2, <1>3

\* An invoice rendered over a bare row writes every column.
LEMMA RenderedMerge ==
  ASSUME NEW l \in Bare, NEW c, NEW n \in Nat \ {0}, stamp \in Nat
  PROVE  Merge(Rendered(n), l, c) = Rendered(n)
<1>1. /\ l.number = 0 /\ l.doc = 0 /\ l.printed = 0 /\ l.token = 0
      /\ l.status # "delivery_pending"
  BY BareFacts
<1> QED BY <1>1 DEF Merge, Rendered

\* A save of an invoice that is issued, whose SELECT saw it issued, over it.
LEMMA AgreeingMerge ==
  ASSUME NEW r, NEW l, NEW c, Agrees(r, c), Agrees(l, c)
  PROVE  /\ Agrees(c, Merge(r, l, c))
         /\ Merge(r, l, c).status \in {r.status, c.status}
<1>1. PICK x : x = Merge(r, l, c)
  OBVIOUS
<1>2. /\ x.status \in {r.status, c.status}
      /\ x.number = c.number /\ x.doc = c.doc /\ x.printed = c.printed
      /\ x.token \in {r.token, c.token}
  BY <1>1 DEF Merge, Agrees
<1> QED BY <1>1, <1>2 DEF Agrees, Complete, Issued

-----------------------------------------------------------------------------
(* What a step does to the rows *)

\* Every row stays, or stays issued as the same invoice.
SameInvoices ==
    \A i \in Invoices :
        \/ row'[i] = row[i]
        \/ Agrees(row[i], row'[i]) /\ SentOK(i, row'[i])

Quietly ==
    /\ SameInvoices
    /\ nextNumber' = nextNumber /\ stamp' \in {stamp, stamp + 1}
    /\ \A i \in Invoices : mails[i] \subseteq mails'[i]

LEMMA RowEffect ==
  ASSUME IInv, SInv, [Next]_vars
  PROVE  \/ Quietly
         \/ \E h \in Handlers : SaveBlocked(h)
         \/ \E h \in Handlers : CommitInvoice(h)
<1>1. ASSUME UNCHANGED <<row, nextNumber, stamp, mails>> PROVE Quietly
  BY <1>1 DEF Quietly, SameInvoices
<1>2. ASSUME NEW h \in Handlers, NotifyAccepted(h) \/ NotifyUnanswered(h)
      PROVE  Quietly
  BY <1>2, TypeFacts
     DEF IInv, TypeOK, NotifyAccepted, NotifyUnanswered, Mailed, tables, Quietly,
         SameInvoices
<1>3. ASSUME NEW h \in Handlers, MarkSent(h) PROVE Quietly
  <2> DEFINE i == Target(h)
             r == handler[h].entity
             l == handler[h].loaded
             s == [r EXCEPT !.status = "sent"]
             x == Merge(s, l, row[i])
  <2>1. /\ r \in Row /\ i \in Invoices /\ row \in [Invoices -> Row]
        /\ Agrees(r, row[i]) /\ (Exists(l) => Agrees(l, row[i]))
        /\ \E m \in mails[i] : m.number = r.number
        /\ SentOK(i, row[i])
    BY <1>3, TypeFacts DEF IInv, TypeOK, SInv, SerialHandler, SerialRow, MarkSent, At
  <2>2. /\ row' = [row EXCEPT ![i] = x]
        /\ UNCHANGED <<nextNumber, stamp, mails>>
        /\ Exists(r) => Exists(l)
    BY <1>3 DEF MarkSent, Store, Selected, history
  <2>3. Agrees(s, row[i]) /\ s.number = r.number /\ Agrees(l, row[i])
    BY <2>1, <2>2 DEF Agrees, Complete, Issued, Exists, Row
  <2> HIDE DEF i, r, l, s
  <2>4. /\ Agrees(row[i], x) /\ x.status \in {s.status, row[i].status}
    BY <2>3, AgreeingMerge
  <2> HIDE DEF x
  <2>5. SentOK(i, x)
    BY <2>1, <2>3, <2>4 DEF SentOK, Agrees
  <2> QED
    BY <2>1, <2>2, <2>4, <2>5 DEF Quietly, SameInvoices
<1>4. ASSUME NEW q \in Rotators, RotationSaves(q) PROVE Quietly
  <2> DEFINE i == rotator[q].invoice
             r == rotator[q].entity
             l == rotator[q].loaded
             s == [r EXCEPT !.token = stamp + 1]
             x == Merge(s, l, row[i])
  <2>1. /\ r \in Row /\ i \in Invoices /\ row \in [Invoices -> Row]
        /\ Exists(l) /\ stamp \in Nat
    BY <1>4, TypeFacts DEF IInv, TypeOK, RotationSaves
  <2>2. /\ Agrees(r, row[i]) /\ Agrees(l, row[i]) /\ SentOK(i, r)
        /\ SentOK(i, row[i])
    BY <2>1, NoRowFacts DEF IInv, RotatorOK, MayServe, SInv, SerialRotator, SerialRow
  <2>3. /\ row' = [row EXCEPT ![i] = x]
        /\ UNCHANGED <<nextNumber, mails>> /\ stamp' = stamp + 1
    BY <1>4 DEF RotationSaves, Store
  <2>4. Agrees(s, row[i]) /\ s.number = r.number /\ s.status = r.status
    BY <2>1, <2>2 DEF Agrees, Complete, Issued, Row
  <2> HIDE DEF i, r, l, s
  <2>5. /\ Agrees(row[i], x) /\ x.status \in {s.status, row[i].status}
    BY <2>2, <2>4, AgreeingMerge
  <2> HIDE DEF x
  <2>6. SentOK(i, x)
    BY <2>2, <2>4, <2>5 DEF SentOK, Agrees
  <2> QED
    BY <2>1, <2>3, <2>5, <2>6 DEF Quietly, SameInvoices
<1>5. ASSUME NEW h \in Handlers, Handle(h), ~ SaveBlocked(h), ~ CommitInvoice(h),
             ~ MarkSent(h), ~ NotifyAccepted(h), ~ NotifyUnanswered(h)
      PROVE  UNCHANGED <<row, nextNumber, stamp, mails>>
  BY <1>5 DEF Handle, FindIssued, FindOpen, OrderBlocks, OrderComplete,
     FetchPayment, SaveSelects, BeginTransaction, NotifyFails, RecordSelects,
     RecordProcessed, RecordFailed, Conflict, Fail, Vanish, tables, history
<1>6. ASSUME NEW h \in Handlers, NEW e \in Events,
             Receive(h, e) \/ ReceiveProcessed(h, e)
      PROVE  UNCHANGED <<row, nextNumber, stamp, mails>>
  BY <1>6 DEF Receive, ReceiveProcessed, tables
<1>7. ASSUME NEW q \in Rotators,
             \/ RotationFails(q) \/ RotationSelects(q)
             \/ \E i \in Invoices : RotationReads(q, i)
      PROVE  UNCHANGED <<row, nextNumber, stamp, mails>>
  BY <1>7 DEF RotationFails, RotationSelects, RotationReads, tables, history
<1>8. CASE UNCHANGED vars
  BY <1>1, <1>8 DEF vars
<1> QED
  BY <1>1, <1>2, <1>3, <1>4, <1>5, <1>6, <1>7, <1>8 DEF Next, Rest, Rotate

\* A BLOCKED row is written over an invoice that is not issued.
LEMMA BlockEffect ==
  ASSUME IInv, SInv, NEW h \in Handlers, SaveBlocked(h)
  PROVE  /\ Target(h) \in Invoices /\ row[Target(h)] \in Bare
         /\ row' = [row EXCEPT ![Target(h)] = BlockedRow]
         /\ UNCHANGED <<nextNumber, rotator, stamp, mails, numbers>>
<1> DEFINE i == Target(h)
           r == handler[h].entity
           l == handler[h].loaded
<1>1. /\ i \in Invoices /\ row[i] \in Bare /\ r \in Bare /\ l \in Bare
  BY TypeFacts DEF IInv, SInv, SerialHandler, SerialRow, Complete, SaveBlocked, At
<1>2. Exists(row[i]) \/ l = NoRow
  BY KeepEntity
<1>3. [r EXCEPT !.status = "blocked"] = BlockedRow
  BY <1>1, BareFacts, NoRowFacts DEF Bare
<1>4. /\ row' = [row EXCEPT ![i] = Merge([r EXCEPT !.status = "blocked"], l, row[i])]
      /\ UNCHANGED <<nextNumber, rotator, stamp, mails, numbers>>
  BY DEF SaveBlocked, Store, history
<1> HIDE DEF i, r, l
<1>5. row' = [row EXCEPT ![i] = BlockedRow]
  BY <1>1, <1>2, <1>3, <1>4, BlockedMerge
<1> QED BY <1>1, <1>4, <1>5 DEF i

\* The issuing transaction gives the series' next number to an invoice that is
\* not issued.
LEMMA CommitEffect ==
  ASSUME IInv, SInv, NEW h \in Handlers, CommitInvoice(h)
  PROVE  LET i == Target(h)
             s == SeriesOf[i]
             n == nextNumber[s] IN
         /\ i \in Invoices /\ s \in Series /\ n \in Nat \ {0}
         /\ n = NumberFor(h)
         /\ row[i] \in Bare /\ mails[i] = {}
         /\ row' = [row EXCEPT ![i] = Rendered(n)]
         /\ nextNumber' = [nextNumber EXCEPT ![s] = n + 1]
         /\ stamp' = stamp + 1
         /\ numbers' = [numbers EXCEPT ![i] = @ \cup {n}]
         /\ Saved(h, "notify", Rendered(n))
         /\ UNCHANGED <<rotator, mails>>
<1> DEFINE i == Target(h)
           r == handler[h].entity
           l == handler[h].loaded
           n == nextNumber[SeriesOf[i]]
<1>1. /\ i \in Invoices /\ SeriesOf[i] \in Series /\ n \in Nat \ {0}
      /\ stamp \in Nat
  BY TypeFacts DEF IInv, TypeOK
<1>2. row[i] \in Bare /\ r \in Bare /\ l \in Bare
  BY <1>1 DEF SInv, SerialHandler, SerialRow, Complete, CommitInvoice, At
<1>3. r.number = 0 /\ ~ Issued(row[i])
  BY <1>2, BareFacts
<1>4. mails[i] = {}
  BY <1>1, <1>3 DEF SInv, MailTrue
<1>5. NumberFor(h) = n /\ Allocate(h) = (nextNumber' = [nextNumber EXCEPT ![SeriesOf[i]] = @ + 1])
  BY <1>3 DEF NumberFor, Allocate
<1>6. /\ row' = [row EXCEPT ![i] = Merge(Rendered(n), l, row[i])]
      /\ nextNumber' = [nextNumber EXCEPT ![SeriesOf[i]] = n + 1]
      /\ stamp' = stamp + 1
      /\ numbers' = [numbers EXCEPT ![i] = @ \cup {n}]
      /\ Saved(h, "notify", Rendered(n))
      /\ UNCHANGED <<rotator, mails>>
  BY <1>3, <1>5 DEF CommitInvoice, Store, Allocate
<1>7. Merge(Rendered(n), l, row[i]) = Rendered(n)
  <2> HIDE DEF n, l, i
  <2> QED BY <1>1, <1>2, RenderedMerge
<1> QED
  BY <1>1, <1>2, <1>4, <1>5, <1>6, <1>7

-----------------------------------------------------------------------------
(* The rows' part of the invariant *)

\* Steps that keep the invoices keep what the invariant says of them.
LEMMA QuietlyKeeps ==
  ASSUME IInv, SInv, TypeOK', Quietly
  PROVE  /\ \A i \in Invoices : SerialRow(i)'
         /\ \A s \in Series : Counted(s)'
         /\ \A i \in Invoices : mails'[i] = mails[i] => MailTrue(i)'
         /\ \A q \in Rotators : rotator'[q] = rotator[q] => SerialRotator(q)'
<1>1. \A i \in Invoices : /\ row[i] \in Row /\ row'[i] \in Row
                          /\ row'[i].doc = row[i].doc
                          /\ row'[i].number = row[i].number
                          /\ Issued(row'[i]) <=> Issued(row[i])
                          /\ Complete(row[i]) => Complete(row'[i])
                          /\ row[i] \in Bare => row'[i] \in Bare
  BY BareFacts DEF IInv, TypeOK, Quietly, SameInvoices, Agrees, Complete
<1>2. ASSUME NEW i \in Invoices PROVE SerialRow(i)'
  <2>1. stamp \in Nat /\ row[i].doc \in Nat /\ SerialRow(i)
    BY <1>1 DEF IInv, TypeOK, Row, SInv
  <2>2. row'[i].doc <= stamp'
    BY <1>1, <2>1 DEF SerialRow, Quietly
  <2>3. SentOK(i, row[i])'
    BY <2>1 DEF Quietly, SameInvoices, SerialRow, SentOK
  <2> QED
    BY <1>1, <2>1, <2>2, <2>3 DEF SerialRow
<1>3. ASSUME NEW s \in Series PROVE Counted(s)'
  <2>1. IssuedIn(s)' = IssuedIn(s)
    BY <1>1 DEF IssuedIn
  <2> QED
    BY <2>1 DEF SInv, Counted, Quietly
<1>4. ASSUME NEW i \in Invoices, mails'[i] = mails[i] PROVE MailTrue(i)'
  BY <1>1, <1>4 DEF SInv, MailTrue
<1>5. ASSUME NEW q \in Rotators, rotator'[q] = rotator[q] PROVE SerialRotator(q)'
  <2>1. SerialRotator(q) /\ rotator[q].invoice \in Invoices
    BY TypeFacts DEF IInv, SInv
  <2>2. ASSUME NEW i \in Invoices, NEW r, Agrees(r, row[i]) PROVE Agrees(r, row'[i])
    BY <1>1, <2>2 DEF Agrees
  <2>3. SentOK(rotator[q].invoice, rotator[q].entity)
          => SentOK(rotator[q].invoice, rotator[q].entity)'
    BY <1>5, <2>1 DEF SentOK, Quietly
  <2> QED
    BY <1>5, <2>1, <2>2, <2>3 DEF SerialRotator
<1> QED
  BY <1>2, <1>3, <1>4, <1>5

LEMMA BlockKeeps ==
  ASSUME IInv, SInv, NEW h \in Handlers, SaveBlocked(h)
  PROVE  /\ \A i \in Invoices : SerialRow(i)' /\ MailTrue(i)'
         /\ \A s \in Series : Counted(s)'
         /\ \A q \in Rotators : SerialRotator(q)'
<1> DEFINE t == Target(h)
<1>1. /\ t \in Invoices /\ row[t] \in Bare
      /\ row' = [row EXCEPT ![t] = BlockedRow] /\ row \in [Invoices -> Row]
      /\ UNCHANGED <<nextNumber, rotator, stamp, mails>>
  BY BlockEffect DEF IInv, TypeOK
<1>2. /\ ~ Issued(row[t]) /\ ~ Issued(row'[t]) /\ row'[t].doc = row[t].doc
      /\ row'[t] \in Bare /\ row'[t].status # "sent"
      /\ \A i \in Invoices \ {t} : row'[i] = row[i]
  BY <1>1, BareFacts
<1> HIDE DEF t
<1>3. \A i \in Invoices : MailTrue(i)' /\ SerialRow(i)'
  BY <1>1, <1>2 DEF SInv, MailTrue, SerialRow, SentOK
<1>4. ASSUME NEW s \in Series PROVE Counted(s)'
  <2>1. IssuedIn(s)' = IssuedIn(s)
    BY <1>1, <1>2 DEF IssuedIn
  <2> QED
    BY <1>1, <2>1 DEF SInv, Counted
<1>5. ASSUME NEW q \in Rotators PROVE SerialRotator(q)'
  BY <1>1, <1>2, TypeFacts DEF IInv, SInv, SerialRotator, Agrees, Complete, SentOK
<1> QED
  BY <1>3, <1>4, <1>5

LEMMA CommitKeeps ==
  ASSUME IInv, SInv, NEW h \in Handlers, CommitInvoice(h)
  PROVE  /\ \A i \in Invoices : SerialRow(i)' /\ MailTrue(i)'
         /\ \A s \in Series : Counted(s)'
         /\ \A q \in Rotators : SerialRotator(q)'
<1> DEFINE t == Target(h)
           z == SeriesOf[t]
           n == nextNumber[z]
<1>1. /\ t \in Invoices /\ z \in Series /\ n \in Nat \ {0}
      /\ row[t] \in Bare /\ mails[t] = {}
      /\ row' = [row EXCEPT ![t] = Rendered(n)] /\ row \in [Invoices -> Row]
      /\ nextNumber' = [nextNumber EXCEPT ![z] = n + 1]
      /\ nextNumber \in [Series -> Nat]
      /\ stamp' = stamp + 1 /\ stamp \in Nat
      /\ UNCHANGED <<rotator, mails>>
  BY CommitEffect DEF IInv, TypeOK
<1>2. /\ ~ Issued(row[t]) /\ Issued(row'[t]) /\ row'[t].doc = stamp + 1
      /\ Complete(row'[t]) /\ row'[t].status # "sent"
      /\ \A i \in Invoices \ {t} : row'[i] = row[i]
  BY <1>1, BareFacts DEF Rendered, Issued, Complete
<1>3. \A i \in Invoices : row[i].doc \in Nat /\ row[i].doc <= stamp
  BY <1>1 DEF SInv, SerialRow, Row
<1>4. n = nextNumber[SeriesOf[t]] /\ z = SeriesOf[t]
  OBVIOUS
<1> HIDE DEF t, z, n
<1>5. \A i \in Invoices : MailTrue(i)' /\ SerialRow(i)'
  BY <1>1, <1>2, <1>3 DEF SInv, MailTrue, SerialRow, SentOK
<1>6. ASSUME NEW s \in Series PROVE Counted(s)'
  <2>1. Counted(s)
    BY DEF SInv
  <2>2. CASE s = z
    <3>1. IssuedIn(s)' = IssuedIn(s) \cup {t} /\ t \notin IssuedIn(s)
      BY <1>1, <1>2, <1>4, <2>2 DEF IssuedIn
    <3>2. nextNumber'[s] = nextNumber[s] + 1 /\ Cardinality(IssuedIn(s)) \in Nat
      BY <1>1, <1>4, <2>1, <2>2, FS_CardinalityType DEF Counted
    <3>3. /\ IsFiniteSet(IssuedIn(s) \cup {t})
          /\ Cardinality(IssuedIn(s) \cup {t}) = Cardinality(IssuedIn(s)) + 1
      BY <2>1, <3>1, FS_AddElement DEF Counted
    <3> QED
      BY <2>1, <3>1, <3>2, <3>3 DEF Counted
  <2>3. CASE s # z
    <3>1. IssuedIn(s)' = IssuedIn(s) /\ nextNumber'[s] = nextNumber[s]
      BY <1>1, <1>2, <1>4, <2>3 DEF IssuedIn
    <3> QED
      BY <2>1, <3>1 DEF Counted
  <2> QED
    BY <2>2, <2>3
<1>7. ASSUME NEW q \in Rotators PROVE SerialRotator(q)'
  BY <1>1, <1>2, TypeFacts DEF IInv, SInv, SerialRotator, Agrees, Complete, SentOK
<1> QED
  BY <1>5, <1>6, <1>7

-----------------------------------------------------------------------------
(* The handler's part of the invariant *)

LEMMA Moves ==
  ASSUME TypeOK, NEW h \in Handlers, NEW pc, NEW r, GoWith(h, pc, r)
  PROVE  /\ handler'[h].pc = pc /\ handler'[h].entity = r
         /\ handler'[h].loaded = NoRow
         /\ Target(h)' = Target(h)
BY DEF TypeOK, GoWith, Target

\* Where the invariant asks nothing of a handler.
Free == {"idle", "find", "processed", "failing"}

LEMMA FreeKeeps ==
  ASSUME TypeOK, NEW h \in Handlers,
         Return(h) \/ \E pc \in Free : \E r : GoWith(h, pc, r)
  PROVE  SerialHandler(h)'
<1>1. handler'[h].pc \in Free
  BY IdleFacts, Moves DEF TypeOK, Return, Free
<1> QED
  BY <1>1 DEF SerialHandler, Free

\* Steps of a handler that read, call, mail or give up.
LEMMA ReadKeeps ==
  ASSUME IInv, SInv, NEW h \in Handlers, Handle(h),
         ~ SaveBlocked(h), ~ CommitInvoice(h), ~ MarkSent(h)
  PROVE  SerialHandler(h)'
<1> DEFINE t == Target(h)
           r == handler[h].entity
<1>1. TypeOK /\ t \in Invoices
  BY TypeFacts DEF IInv
<1>2. CASE FindOpen(h)
  <2>1. ~ Issued(row[t]) /\ row[t] \in Bare /\ row' = row
    BY <1>1, <1>2 DEF FindOpen, SInv, SerialRow, Complete, tables
  <2> QED
    BY <1>1, <1>2, <2>1, BareFacts, Moves DEF FindOpen, SerialHandler
<1>3. CASE OrderBlocks(h) \/ OrderComplete(h) \/ FetchPayment(h)
  <2>1. PICK pc \in {"block", "payment", "begin"} : GoWith(h, pc, r)
    BY <1>3 DEF OrderBlocks, OrderComplete, FetchPayment, Go
  <2>2. ~ Issued(row[t]) /\ row' = row /\ r \in Bare
    BY <1>3 DEF SInv, SerialHandler, OrderBlocks, OrderComplete, FetchPayment,
       At, tables
  <2> HIDE DEF r
  <2> QED
    BY <1>1, <2>1, <2>2, BareFacts, Moves DEF SerialHandler
<1>4. CASE BeginTransaction(h)
  <2>1. ~ Issued(row[t]) /\ row' = row /\ r \in Bare
    BY <1>4 DEF SInv, SerialHandler, BeginTransaction, At, tables
  <2>2. row[t] \in Bare
    BY <1>1, <2>1 DEF SInv, SerialRow, Complete
  <2>3. PICK b \in Bare : GoWith(h, "commit", b)
    BY <1>4, <2>1, <2>2 DEF BeginTransaction
  <2> QED
    BY <1>1, <2>1, <2>3, BareFacts, Moves DEF SerialHandler
<1>5. CASE SaveSelects(h)
  <2>1. handler' = [handler EXCEPT ![h].loaded = row[t]] /\ UNCHANGED <<row, mails>>
        /\ handler[h].pc \in Selecting
    BY <1>5 DEF SaveSelects, tables, history
  <2>2. /\ handler'[h].pc = handler[h].pc /\ handler'[h].entity = r
        /\ handler'[h].loaded = row[t] /\ handler'[h].event = handler[h].event
    BY <1>1, <2>1 DEF TypeOK, Handler
  <2>3. SerialHandler(h) /\ SerialRow(t) /\ Target(h)' = t
    BY <1>1, <2>2 DEF SInv, Target
  <2> HIDE DEF r, t
  <2> QED
    BY <2>1, <2>2, <2>3 DEF SerialHandler, SerialRow, Selecting, Agrees, Complete, r, t
<1>6. CASE NotifyAccepted(h)
  <2>1. Agrees(r, row[t]) /\ row' = row /\ Mailed(t, r) /\ GoWith(h, "mark", r)
    BY <1>6 DEF SInv, SerialHandler, NotifyAccepted, At, tables, Go
  <2>2. \E m \in mails'[t] : m.number = r.number
    <3>1. [number |-> r.number, token |-> r.token] \in mails'[t]
      BY <1>1, <2>1 DEF TypeOK, Mailed
    <3> QED BY <3>1
  <2> HIDE DEF r, t
  <2>3. /\ handler'[h].pc = "mark" /\ handler'[h].entity = r
        /\ handler'[h].loaded = NoRow /\ Target(h)' = t
    BY <1>1, <2>1, Moves DEF t
  <2> QED
    BY <2>1, <2>2, <2>3, NoRowFacts DEF SerialHandler
<1>7. CASE RecordSelects(h)
  <2>1. handler'[h].pc \in Free
    BY <1>1, <1>7 DEF RecordSelects, TypeOK, Free
  <2> QED
    BY <2>1 DEF SerialHandler, Free
<1>8. CASE \/ FindIssued(h) \/ NotifyUnanswered(h) \/ NotifyFails(h)
           \/ RecordProcessed(h) \/ RecordFailed(h)
           \/ Conflict(h) \/ Fail(h) \/ Vanish(h)
  BY <1>1, <1>8, FreeKeeps
  DEF FindIssued, NotifyUnanswered, NotifyFails, RecordProcessed, RecordFailed,
      Conflict, Fail, Vanish, Leave, Free
<1> QED
  BY <1>2, <1>3, <1>4, <1>5, <1>6, <1>7, <1>8 DEF Handle

LEMMA WriteKeeps ==
  ASSUME IInv, SInv, NEW h \in Handlers,
         SaveBlocked(h) \/ CommitInvoice(h) \/ MarkSent(h)
  PROVE  SerialHandler(h)'
<1>1. TypeOK
  BY DEF IInv
<1>2. CASE SaveBlocked(h) \/ MarkSent(h)
  BY <1>1, <1>2, FreeKeeps DEF SaveBlocked, MarkSent, Saved, Leave, Free
<1>3. CASE CommitInvoice(h)
  <2>1. PICK i, n : /\ i = Target(h) /\ i \in Invoices /\ mails[i] = {}
                    /\ n \in Nat \ {0}
                    /\ row' = [row EXCEPT ![i] = Rendered(n)] /\ mails' = mails
                    /\ Saved(h, "notify", Rendered(n))
    BY <1>3, CommitEffect
  <2>2. row'[i] = Rendered(n) /\ mails'[i] = {} /\ Complete(Rendered(n))
    BY <1>1, <2>1 DEF TypeOK, Rendered, Issued, Complete
  <2>3. CASE GoWith(h, "notify", Rendered(n))
    <3>1. /\ handler'[h].pc = "notify" /\ handler'[h].entity = Rendered(n)
          /\ handler'[h].loaded = NoRow /\ Target(h)' = i
      BY <1>1, <2>1, <2>3, Moves
    <3> QED
      BY <2>2, <3>1, NoRowFacts DEF SerialHandler, Agrees
  <2>4. CASE Leave(h, "failing")
    BY <1>1, <2>4, FreeKeeps DEF Leave, Free
  <2> QED
    BY <2>1, <2>3, <2>4 DEF Saved
<1> QED
  BY <1>2, <1>3

\* What link requests and other events' arrivals do not take away.
LEMMA StaysTrue ==
  ASSUME IInv, SInv, Quietly, NEW h \in Handlers,
         handler'[h] = handler[h], mails' = mails
  PROVE  SerialHandler(h)'
<1>1. Target(h)' = Target(h) /\ Target(h) \in Invoices
  BY TypeFacts DEF IInv, Target
<1>2. \A i \in Invoices : /\ row'[i].doc = row[i].doc
                          /\ row'[i].number = row[i].number
                          /\ Issued(row'[i]) <=> Issued(row[i])
                          /\ Complete(row[i]) => Complete(row'[i])
  BY DEF Quietly, SameInvoices, Agrees, Complete
<1> QED
  BY <1>1, <1>2 DEF SInv, SerialHandler, Agrees

-----------------------------------------------------------------------------
(* Mails and link requests *)

LEMMA MailKeeps ==
  ASSUME IInv, SInv, Quietly, TypeOK', NEW h \in Handlers,
         NotifyAccepted(h) \/ NotifyUnanswered(h)
  PROVE  \A i \in Invoices : MailTrue(i)'
<1>1. PICK t, m : /\ t \in Invoices /\ mails[t] = {} /\ row' = row
                  /\ Issued(row[t]) /\ m.number = row[t].number
                  /\ mails' = [mails EXCEPT ![t] = @ \cup {m}]
  BY TypeFacts
  DEF IInv, SInv, SerialHandler, NotifyAccepted, NotifyUnanswered, Mailed, At,
      Agrees, Complete, tables
<1>2. mails'[t] = {m} /\ Issued(row'[t]) /\ m.number = row'[t].number
  BY <1>1 DEF IInv, TypeOK
<1>3. MailTrue(t)'
  BY <1>2 DEF MailTrue
<1>4. \A i \in Invoices \ {t} : mails'[i] = mails[i]
  BY <1>1 DEF IInv, TypeOK
<1> QED
  BY <1>3, <1>4, QuietlyKeeps

LEMMA RotatorsKeep ==
  ASSUME IInv, SInv, Quietly, TypeOK', [Next]_vars
  PROVE  \A q \in Rotators : SerialRotator(q)'
<1>1. ASSUME NEW p \in Rotators, NEW i \in Invoices, RotationReads(p, i)
      PROVE  \A q \in Rotators : SerialRotator(q)'
  <2>1. /\ rotator' = [rotator EXCEPT ![p] =
              [invoice |-> i, entity |-> row[i], loaded |-> NoRow]]
        /\ row' = row /\ mails' = mails /\ row[i].doc # 0
    BY <1>1 DEF RotationReads, tables
  <2>2. /\ rotator'[p].invoice = i /\ rotator'[p].entity = row[i]
        /\ rotator'[p].loaded = NoRow
    BY <2>1 DEF IInv, TypeOK
  <2>3. Complete(row[i]) /\ SentOK(i, row[i])
    BY <2>1, BareFacts DEF SInv, SerialRow
  <2>4. SerialRotator(p)'
    BY <2>1, <2>2, <2>3, NoRowFacts DEF SerialRotator, Agrees, SentOK
  <2>5. \A q \in Rotators \ {p} : rotator'[q] = rotator[q]
    BY <2>1 DEF IInv, TypeOK
  <2> QED
    BY <2>4, <2>5, QuietlyKeeps
<1>2. ASSUME NEW p \in Rotators, RotationSelects(p)
      PROVE  \A q \in Rotators : SerialRotator(q)'
  <2>1. /\ rotator' = [rotator EXCEPT ![p].loaded = row[rotator[p].invoice]]
        /\ row' = row /\ mails' = mails /\ Exists(rotator[p].entity)
    BY <1>2 DEF RotationSelects, tables, history
  <2>2. /\ rotator'[p].invoice = rotator[p].invoice
        /\ rotator'[p].entity = rotator[p].entity
        /\ rotator'[p].loaded = row[rotator[p].invoice]
    BY <2>1 DEF IInv, TypeOK
  <2>3. SerialRotator(p)'
    BY <2>1, <2>2 DEF SInv, SerialRotator, Agrees, SentOK
  <2>4. \A q \in Rotators \ {p} : rotator'[q] = rotator[q]
    BY <2>1 DEF IInv, TypeOK
  <2> QED
    BY <2>3, <2>4, QuietlyKeeps
<1>3. ASSUME NEW p \in Rotators, rotator' = [rotator EXCEPT ![p] = NoRequest]
      PROVE  \A q \in Rotators : SerialRotator(q)'
  <2>1. rotator'[p].entity = NoRow
    BY <1>3, NoRequestFacts DEF IInv, TypeOK
  <2>2. SerialRotator(p)'
    BY <2>1, NoRowFacts DEF SerialRotator
  <2>3. \A q \in Rotators \ {p} : rotator'[q] = rotator[q]
    BY <1>3 DEF IInv, TypeOK
  <2> QED
    BY <2>2, <2>3, QuietlyKeeps
<1>4. ASSUME rotator' = rotator PROVE \A q \in Rotators : SerialRotator(q)'
  BY <1>4, QuietlyKeeps
<1>5. \/ rotator' = rotator
      \/ \E q \in Rotators : rotator' = [rotator EXCEPT ![q] = NoRequest]
      \/ \E q \in Rotators : RotationSelects(q)
      \/ \E q \in Rotators, i \in Invoices : RotationReads(q, i)
  BY DEF Next, Rest, Rotate, RotationSaves, RotationFails, Receive,
     ReceiveProcessed, Handle, FindIssued, FindOpen, OrderBlocks, OrderComplete,
     FetchPayment, SaveSelects, SaveBlocked, BeginTransaction, CommitInvoice,
     NotifyAccepted, NotifyUnanswered, NotifyFails, MarkSent, RecordSelects,
     RecordProcessed, RecordFailed, Conflict, Fail, Vanish, vars
<1> QED
  BY <1>1, <1>2, <1>3, <1>4, <1>5

LEMMA MailsKeep ==
  ASSUME IInv, SInv, Quietly, TypeOK', [Next]_vars
  PROVE  \A i \in Invoices : MailTrue(i)'
<1>1. \/ mails' = mails
      \/ \E h \in Handlers : NotifyAccepted(h) \/ NotifyUnanswered(h)
  BY DEF Next, Rest, Rotate, RotationReads, RotationSelects, RotationSaves,
     RotationFails, Receive, ReceiveProcessed, Handle, FindIssued, FindOpen,
     OrderBlocks, OrderComplete, FetchPayment, SaveSelects, SaveBlocked,
     BeginTransaction, CommitInvoice, NotifyFails, MarkSent, RecordSelects,
     RecordProcessed, RecordFailed, Conflict, Fail, Vanish, vars, history
<1>2. CASE mails' = mails
  BY <1>2, QuietlyKeeps
<1> QED
  BY <1>1, <1>2, MailKeeps

-----------------------------------------------------------------------------
(* The invariant of one handler *)

LEMMA HandlerKeeps ==
  ASSUME IInv, SInv, [Next]_vars, NEW h, Handlers = {h}
  PROVE  SerialHandler(h)'
<1>1. CASE Handle(h)
  BY <1>1, ReadKeeps, WriteKeeps
<1>2. ASSUME NEW e \in Events, Receive(h, e)
      PROVE  SerialHandler(h)'
  <2>1. handler'[h].pc = "find"
    BY <1>2, IdleFacts DEF Receive, IInv, TypeOK, Handler
  <2> QED
    BY <2>1 DEF SerialHandler
<1>3. ASSUME handler' = handler, mails' = mails, Quietly PROVE SerialHandler(h)'
  BY <1>3, StaysTrue
<1>4. \/ Handle(h) \/ \E e \in Events : Receive(h, e)
      \/ handler' = handler /\ mails' = mails /\ Quietly
  <2>1. \/ Handle(h) \/ \E e \in Events : Receive(h, e)
        \/ /\ handler' = handler /\ mails' = mails
           /\ \/ \E q \in Rotators : RotationSaves(q)
              \/ UNCHANGED <<row, nextNumber, stamp>>
    BY DEF Next, Rest, Rotate, RotationReads, RotationSelects, RotationSaves,
       RotationFails, ReceiveProcessed, vars, tables, history
  <2>2. ASSUME handler' = handler, mails' = mails,
               ~ Handle(h)
        PROVE  Quietly
    <3>1. ~ SaveBlocked(h) /\ ~ CommitInvoice(h)
      BY <2>2 DEF Handle
    <3> QED BY <3>1, RowEffect
  <2> QED
    BY <2>1, <2>2
<1> QED
  BY <1>1, <1>2, <1>3, <1>4

LEMMA SerialInit == Init => SInv
<1> SUFFICES ASSUME Init PROVE SInv
  OBVIOUS
<1>1. \A h \in Handlers : SerialHandler(h)
  BY IdleFacts DEF Init, SerialHandler
<1>2. \A q \in Rotators : SerialRotator(q)
  BY NoRowFacts, NoRequestFacts DEF Init, SerialRotator
<1>3. \A i \in Invoices : MailTrue(i) /\ SerialRow(i)
  BY NoRowFacts, BareFacts DEF Init, MailTrue, SerialRow, SentOK
<1>4. ASSUME NEW s \in Series PROVE Counted(s)
  <2>1. IssuedIn(s) = {}
    BY NoRowFacts DEF Init, IssuedIn, Issued
  <2> QED
    BY <2>1, FS_EmptySet DEF Init, Counted
<1> QED
  BY <1>1, <1>2, <1>3, <1>4 DEF SInv

LEMMA SerialNext ==
  ASSUME IInv, SInv, [Next]_vars, NEW h, Handlers = {h}
  PROVE  SInv'
<1>1. TypeOK'
  BY NextIInv DEF IInv
<1>2. CASE Quietly
  BY <1>1, <1>2, HandlerKeeps, QuietlyKeeps, MailsKeep, RotatorsKeep DEF SInv
<1>3. CASE SaveBlocked(h) \/ CommitInvoice(h)
  BY <1>3, HandlerKeeps, BlockKeeps, CommitKeeps DEF SInv
<1> QED
  BY <1>2, <1>3, RowEffect

\* The invariant of one handler holds in every reachable state.
THEOREM SerialInductive ==
  ASSUME NEW CONSTANT h, Handlers = {h}
  PROVE  Spec => []SInv
<1>1. IInv /\ SInv /\ [Next]_vars => SInv'
  BY SerialNext
<1> QED
  BY <1>1, SerialInit, Inductive, PTL DEF Spec

-----------------------------------------------------------------------------
(* What follows from it *)

\* With one handler, a customer gets at most one mail about an invoice, and it
\* names the number on record, whatever crashes, is redelivered or unanswered.
THEOREM OneTrueMail ==
  ASSUME NEW CONSTANT h, Handlers = {h}
  PROVE  Spec => []AtMostOneTrueMail
<1>1. SInv => AtMostOneTrueMail
  <2> SUFFICES ASSUME SInv, NEW i \in Invoices
               PROVE  /\ Cardinality(mails[i]) <= 1
                      /\ \A m \in mails[i] : Issued(row[i]) /\ m.number = row[i].number
    BY DEF AtMostOneTrueMail
  <2>1. MailTrue(i)
    BY DEF SInv
  <2>2. CASE mails[i] = {}
    BY <2>2, FS_EmptySet
  <2>3. ASSUME NEW m, mails[i] = {m}, Issued(row[i]) /\ m.number = row[i].number
        PROVE  /\ Cardinality(mails[i]) <= 1
               /\ \A n \in mails[i] : Issued(row[i]) /\ n.number = row[i].number
    <3>1. Cardinality({m}) = 1
      BY FS_Singleton
    <3> QED
      BY <2>3, <3>1
  <2> QED
    BY <2>1, <2>2, <2>3 DEF MailTrue
<1> QED
  BY <1>1, SerialInductive, PTL

\* No partial invoice with one handler: every stored row is bare, or issued with
\* its number, a document that prints it, and a link, whatever columns a link
\* request saved between.
THEOREM NoPartialInvoice ==
  ASSUME NEW CONSTANT h, Handlers = {h}
  PROVE  Spec => []IssuedOrBare
<1>1. ASSUME SInv PROVE IssuedOrBare
  <2> SUFFICES ASSUME NEW i \in Invoices
               PROVE  IF Issued(row[i])
                      THEN row[i].number # 0 /\ row[i].doc # 0
                           /\ row[i].printed = row[i].number /\ row[i].token # 0
                      ELSE row[i] \in {NoRow, BlockedRow}
    BY DEF IssuedOrBare, BlockedRow
  <2>1. row[i] \in Bare \/ Complete(row[i])
    BY <1>1 DEF SInv, SerialRow
  <2>2. CASE Complete(row[i])
    BY <2>2 DEF Complete
  <2>3. CASE row[i] \in Bare
    BY <2>3, BareFacts DEF Bare
  <2> QED BY <2>1, <2>2, <2>3
<1> QED
  BY <1>1, SerialInductive, PTL

\* With one handler a row says SENT only if a mail with its number was accepted,
\* also when a link request wrote the status back.
THEOREM SentIsTrue ==
  ASSUME NEW CONSTANT h, Handlers = {h}
  PROVE  Spec => []SentWasMailed
<1>1. SInv => SentWasMailed
  BY DEF SInv, SerialRow, SentOK, SentWasMailed
<1> QED
  BY <1>1, SerialInductive, PTL

-----------------------------------------------------------------------------
(* Issuance implements InvoiceRegistry *)

\* What the registry sees of a row.
Entry(r) ==
    [state |-> IF Issued(r) THEN "issued" ELSE r.status,
     number |-> r.number, doc |-> r.doc]

Entries == [i \in Invoices |-> Entry(row[i])]

LEMMA EntryFacts ==
  /\ \A r \in Row : Entry(r).state = "issued" <=> Issued(r)
  /\ \A r, s : Agrees(r, s) => Entry(r) = Entry(s)
  /\ Entry(NoRow) = [state |-> "none", number |-> 0, doc |-> 0]
  /\ Entry(BlockedRow) = [state |-> "blocked", number |-> 0, doc |-> 0]
  /\ \A r \in Bare : Entry(r).number = 0 /\ Entry(r).doc = 0
<1>1. \A r \in Row : Entry(r).state = "issued" <=> Issued(r)
  BY DEF Entry, Issued, Row, Statuses
<1>2. \A r, s : Agrees(r, s) => Entry(r) = Entry(s)
  BY DEF Entry, Agrees, Complete
<1>3. \A r \in Bare : Entry(r).number = 0 /\ Entry(r).doc = 0
  BY BareFacts DEF Entry
<1>4. /\ Entry(NoRow) = [state |-> "none", number |-> 0, doc |-> 0]
      /\ Entry(BlockedRow) = [state |-> "blocked", number |-> 0, doc |-> 0]
  BY NoRowFacts, BareFacts DEF Entry, Issued
<1> QED
  BY <1>1, <1>2, <1>3, <1>4

LEMMA BlockIsBlock ==
  ASSUME IInv, SInv, NEW h \in Handlers, SaveBlocked(h)
  PROVE  \E i \in Invoices : Registry!Block(i)
<1>1. PICK i \in Invoices : /\ row[i] \in Bare
                            /\ row' = [row EXCEPT ![i] = BlockedRow]
  BY BlockEffect
<1>2. row \in [Invoices -> Row]
  BY DEF IInv, TypeOK
<1>3. ~ Entries[i].state = "issued"
  BY <1>1, <1>2, EntryFacts, BareFacts DEF Entries
<1>4. Entries' = [Entries EXCEPT ![i].state = "blocked"]
  <2>1. Entry(BlockedRow) = [Entry(row[i]) EXCEPT !.state = "blocked"]
    BY <1>1, EntryFacts DEF Entry
  <2> QED
    BY <1>1, <1>2, <2>1 DEF Entries
<1> QED
  BY <1>3, <1>4 DEF Registry!Block, Registry!IsIssued, Entries, Entry

\* Each module takes Cardinality from the library for itself.
LEMMA SameCardinality == \A S : Registry!Cardinality(S) = Cardinality(S)
BY DEF Registry!Cardinality, Cardinality, Registry!IsFiniteSet, IsFiniteSet

LEMMA CommitIsIssue ==
  ASSUME IInv, SInv, NEW h \in Handlers, CommitInvoice(h)
  PROVE  \E i \in Invoices : Registry!Issue(i)
<1>1. PICK i, n : /\ i \in Invoices
                  /\ n = nextNumber[SeriesOf[i]] /\ SeriesOf[i] \in Series
                  /\ row[i] \in Bare
                  /\ row' = [row EXCEPT ![i] = Rendered(n)]
  BY CommitEffect
<1>2. row \in [Invoices -> Row] /\ stamp \in Nat
  BY DEF IInv, TypeOK
<1>3. ~ Entries[i].state = "issued"
  BY <1>1, <1>2, EntryFacts, BareFacts DEF Entries
<1>4. n = Cardinality({j \in Invoices : SeriesOf[j] = SeriesOf[i]
                                          /\ Entries[j].state = "issued"}) + 1
  <2>1. {j \in Invoices : SeriesOf[j] = SeriesOf[i] /\ Entries[j].state = "issued"}
           = IssuedIn(SeriesOf[i])
    BY <1>2, EntryFacts DEF Entries, IssuedIn
  <2> QED
    BY <1>1, <2>1 DEF SInv, Counted
<1>5. /\ Entries' = [Entries EXCEPT ![i] =
              [state |-> "issued", number |-> n, doc |-> stamp + 1]]
      /\ Entries'[i].doc = stamp + 1
  <2>1. Entry(Rendered(n)) = [state |-> "issued", number |-> n, doc |-> stamp + 1]
    BY DEF Entry, Rendered, Issued
  <2>2. \A j \in Invoices : row'[j] = IF j = i THEN Rendered(n) ELSE row[j]
    BY <1>1, <1>2
  <2>3. \A j \in Invoices : Entries'[j] =
            IF j = i THEN [state |-> "issued", number |-> n, doc |-> stamp + 1]
                     ELSE Entries[j]
    BY <2>1, <2>2 DEF Entries
  <2>4. Entries'[i].doc = stamp + 1
    BY <1>1, <2>3
  <2> QED
    BY <2>3, <2>4 DEF Entries
<1>6. stamp + 1 \notin {0} \cup {Entries[j].doc : j \in Invoices}
  <2>1. \A j \in Invoices : Entries[j].doc \in Nat /\ Entries[j].doc <= stamp
    BY <1>2 DEF Entries, Entry, SInv, SerialRow, Row
  <2> QED
    BY <1>2, <2>1
<1>7. Registry!NextNumber(SeriesOf[i]) = n
  BY <1>4, SameCardinality
  DEF Registry!NextNumber, Registry!IsIssued, Entries, Entry
<1>8. Registry!Issue(i)
  BY <1>3, <1>5, <1>6, <1>7 DEF Registry!Issue, Registry!IsIssued, Entries, Entry
<1> QED
  BY <1>1, <1>8

\* With one handler, and any number of link requests beside it, an invoice is
\* issued at most once, under the number that follows those of its series, and
\* nothing ever changes its number or document.
THEOREM RegistryRefinement ==
  ASSUME NEW CONSTANT h, Handlers = {h}
  PROVE  Spec => ImplementsRegistry
<1>1. Init => Registry!Init
  <2> SUFFICES ASSUME Init PROVE Registry!Init
    OBVIOUS
  <2>1. Entries = [i \in Invoices |-> [state |-> "none", number |-> 0, doc |-> 0]]
    BY EntryFacts DEF Init, Entries
  <2> QED
    BY <2>1 DEF Registry!Init, Entries, Entry
<1>2. IInv /\ SInv /\ [Next]_vars => [Registry!Next]_Entries
  <2> SUFFICES ASSUME IInv, SInv, [Next]_vars PROVE [Registry!Next]_Entries
    OBVIOUS
  <2>1. CASE Quietly
    <3>1. \A i \in Invoices : Entry(row'[i]) = Entry(row[i])
      BY <2>1, EntryFacts DEF Quietly, SameInvoices
    <3> QED
      BY <3>1 DEF Entries
  <2>2. CASE \E u \in Handlers : SaveBlocked(u) \/ CommitInvoice(u)
    BY <2>2, BlockIsBlock, CommitIsIssue DEF Registry!Next
  <2> QED
    BY <2>1, <2>2, RowEffect
<1>3. [Registry!Next]_Entries <=> [Registry!Next]_(
          [i \in Invoices |->
              [state |-> IF Issued(row[i]) THEN "issued" ELSE row[i].status,
               number |-> row[i].number, doc |-> row[i].doc]])
  BY DEF Entries, Entry
<1> QED
  BY <1>1, <1>2, <1>3, SerialInductive, Inductive, PTL
     DEF Spec, ImplementsRegistry, Registry!Spec

-----------------------------------------------------------------------------
(* Every number drawn is on record *)

NumbersOnRecord ==
    \A i \in Invoices :
        numbers[i] = IF Issued(row[i]) THEN {row[i].number} ELSE {}

LEMMA NumbersNext ==
  ASSUME IInv, SInv, NumbersOnRecord, [Next]_vars
  PROVE  NumbersOnRecord'
<1>1. row \in [Invoices -> Row] /\ numbers \in [Invoices -> SUBSET Nat]
  BY DEF IInv, TypeOK
<1>2. numbers' = numbers \/ \E h \in Handlers : CommitInvoice(h)
  BY DEF Next, Rest, Rotate, RotationReads, RotationSelects, RotationSaves,
     RotationFails, Receive, ReceiveProcessed, Handle, FindIssued, FindOpen,
     OrderBlocks, OrderComplete, FetchPayment, SaveSelects, SaveBlocked,
     BeginTransaction, NotifyAccepted, NotifyUnanswered, NotifyFails, MarkSent,
     RecordSelects, RecordProcessed, RecordFailed, Conflict, Fail, Vanish,
     vars, history
<1>3. CASE Quietly /\ numbers' = numbers
  <2>1. \A i \in Invoices : /\ Issued(row'[i]) <=> Issued(row[i])
                            /\ row'[i].number = row[i].number
    BY <1>3 DEF Quietly, SameInvoices, Agrees, Complete
  <2> QED
    BY <1>3, <2>1 DEF NumbersOnRecord
<1>4. ASSUME NEW h \in Handlers, SaveBlocked(h)
      PROVE  NumbersOnRecord'
  <2>1. /\ row' = [row EXCEPT ![Target(h)] = BlockedRow] /\ ~ Issued(row[Target(h)])
        /\ ~ Issued(BlockedRow) /\ numbers' = numbers
    BY <1>4, BlockEffect, BareFacts
  <2> QED
    BY <1>1, <2>1 DEF NumbersOnRecord
<1>5. ASSUME NEW h \in Handlers, CommitInvoice(h)
      PROVE  NumbersOnRecord'
  <2> DEFINE t == Target(h)
             n == NumberFor(h)
  <2>1. /\ t \in Invoices /\ ~ Issued(row[t])
        /\ row' = [row EXCEPT ![t] = Rendered(n)]
        /\ numbers' = [numbers EXCEPT ![t] = @ \cup {n}]
    BY <1>5, CommitEffect, BareFacts
  <2>2. Issued(Rendered(n)) /\ Rendered(n).number = n
    BY DEF Rendered, Issued
  <2> HIDE DEF t, n
  <2>3. ASSUME NEW i \in Invoices
        PROVE  numbers'[i] = IF Issued(row'[i]) THEN {row'[i].number} ELSE {}
    <3>1. CASE i = t
      BY <1>1, <2>1, <2>2, <3>1 DEF NumbersOnRecord
    <3>2. CASE i # t
      BY <1>1, <2>1, <3>2 DEF NumbersOnRecord
    <3> QED
      BY <3>1, <3>2
  <2> QED
    BY <2>3 DEF NumbersOnRecord
<1> QED
  BY <1>2, <1>3, <1>4, <1>5, RowEffect

NumbersCovered ==
    \A s \in Series : \A n \in 1 .. (nextNumber[s] - 1) :
        \E i \in Invoices : SeriesOf[i] = s /\ n \in numbers[i]

\* Only the issuing transaction moves a counter, and it gives the number the
\* counter had to its invoice in the same step.
LEMMA CoveredNext ==
  ASSUME IInv, SInv, NumbersCovered, [Next]_vars
  PROVE  NumbersCovered'
<1>1. ASSUME NEW h \in Handlers, CommitInvoice(h) PROVE NumbersCovered'
  <2>1. PICK i, s, n : /\ i \in Invoices /\ s \in Series /\ s = SeriesOf[i]
                       /\ n \in Nat \ {0} /\ n = nextNumber[s]
                       /\ numbers' = [numbers EXCEPT ![i] = @ \cup {n}]
                       /\ nextNumber' = [nextNumber EXCEPT ![s] = n + 1]
    BY <1>1, CommitEffect
  <2>2. /\ numbers'[i] = numbers[i] \cup {n}
        /\ \A j \in Invoices : numbers[j] \subseteq numbers'[j]
    BY <2>1 DEF IInv, TypeOK
  <2> SUFFICES ASSUME NEW z \in Series, NEW m \in 1 .. (nextNumber'[z] - 1)
               PROVE  \E j \in Invoices : SeriesOf[j] = z /\ m \in numbers'[j]
    BY DEF NumbersCovered
  <2>3. CASE m \in 1 .. (nextNumber[z] - 1)
    <3>1. PICK j \in Invoices : SeriesOf[j] = z /\ m \in numbers[j]
      BY <2>3 DEF NumbersCovered
    <3> QED BY <2>2, <3>1
  <2>4. CASE m \notin 1 .. (nextNumber[z] - 1)
    <3>1. nextNumber \in [Series -> Nat]
      BY DEF IInv, TypeOK
    <3>2. z = s
      BY <2>1, <2>4, <3>1
    <3>3. nextNumber'[z] - 1 = n
      BY <2>1, <3>1, <3>2
    <3>4. m = n
      BY <2>1, <2>4, <3>2, <3>3
    <3> QED BY <2>1, <2>2, <3>2, <3>4
  <2> QED BY <2>3, <2>4
<1>2. CASE UNCHANGED <<nextNumber, numbers>>
  BY <1>2 DEF NumbersCovered
<1>3. ASSUME NEW h \in Handlers, Handle(h), ~ CommitInvoice(h)
      PROVE  UNCHANGED <<nextNumber, numbers>>
  BY <1>3 DEF Handle, FindIssued, FindOpen, OrderBlocks, OrderComplete,
     FetchPayment, SaveSelects, SaveBlocked, BeginTransaction, NotifyAccepted,
     NotifyUnanswered, NotifyFails, MarkSent, RecordSelects, RecordProcessed,
     RecordFailed, Conflict, Fail, Vanish, tables, history
<1>4. ASSUME NEW h \in Handlers, NEW e \in Events,
             Receive(h, e) \/ ReceiveProcessed(h, e)
      PROVE  UNCHANGED <<nextNumber, numbers>>
  BY <1>4 DEF Receive, ReceiveProcessed, tables
<1>5. ASSUME NEW q \in Rotators,
             Rotate(q) \/ \E i \in Invoices : RotationReads(q, i)
      PROVE  UNCHANGED <<nextNumber, numbers>>
  BY <1>5 DEF Rotate, RotationSelects, RotationSaves, RotationFails,
     RotationReads, tables, history
<1>6. CASE UNCHANGED vars
  BY <1>2, <1>6 DEF vars
<1> QED BY <1>1, <1>2, <1>3, <1>4, <1>5, <1>6 DEF Next, Rest

\* With one handler a transaction that fails, conflicts or dies gives its number
\* back, and none is lost later: the issued rows of a series hold every number
\* its counter has given out.
THEOREM NumbersNotLost ==
  ASSUME NEW CONSTANT h, Handlers = {h}
  PROVE  Spec => []NoNumberLost
<1>1. Init => NumbersOnRecord /\ NumbersCovered
  BY NoRowFacts DEF Init, NumbersOnRecord, NumbersCovered, Issued
<1>2. IInv /\ SInv /\ NumbersOnRecord /\ [Next]_vars => NumbersOnRecord'
  BY NumbersNext
<1>3. IInv /\ SInv /\ NumbersCovered /\ [Next]_vars => NumbersCovered'
  BY CoveredNext
<1>4. ASSUME IInv, NumbersOnRecord, NumbersCovered PROVE NoNumberLost
  <2> SUFFICES ASSUME NEW s \in Series
      PROVE  {row[i].number : i \in {j \in Invoices : SeriesOf[j] = s /\ Issued(row[j])}}
                = 1 .. (nextNumber[s] - 1)
    BY DEF NoNumberLost
  <2>1. ASSUME NEW i \in Invoices, SeriesOf[i] = s, Issued(row[i])
        PROVE  row[i].number \in 1 .. (nextNumber[s] - 1)
    BY <1>4, <2>1 DEF IInv, NumbersDrawn, NumbersOnRecord
  <2>2. ASSUME NEW n \in 1 .. (nextNumber[s] - 1)
        PROVE  \E i \in Invoices : SeriesOf[i] = s /\ Issued(row[i]) /\ row[i].number = n
    <3>1. PICK i \in Invoices : SeriesOf[i] = s /\ n \in numbers[i]
      BY <1>4 DEF NumbersCovered
    <3> QED BY <1>4, <3>1 DEF NumbersOnRecord
  <2> QED BY <2>1, <2>2
<1> QED
  BY <1>1, <1>2, <1>3, <1>4, Inductive, SerialInductive, PTL DEF Spec

-----------------------------------------------------------------------------
(* What the documents state and overlapping requests break *)

\* With one handler an invoice is issued under one number, whatever crashes, is
\* redelivered or unanswered: that the code can issue one under two takes handlers
\* that overlap.
THEOREM OneNumber ==
  ASSUME NEW CONSTANT h, Handlers = {h}
  PROVE  Spec => []OneNumberPerInvoice
<1>1. Init => NumbersOnRecord
  BY NoRowFacts DEF Init, NumbersOnRecord, Issued
<1>2. NumbersOnRecord => OneNumberPerInvoice
  <2> SUFFICES ASSUME NumbersOnRecord, NEW i \in Invoices
               PROVE  Cardinality(numbers[i]) <= 1
    BY DEF OneNumberPerInvoice
  <2>1. CASE numbers[i] = {}
    BY <2>1, FS_EmptySet
  <2>2. CASE numbers[i] = {row[i].number}
    <3>1. Cardinality({row[i].number}) = 1
      BY FS_Singleton
    <3> QED
      BY <2>2, <3>1
  <2> QED
    BY <2>1, <2>2 DEF NumbersOnRecord
<1>3. IInv /\ SInv /\ NumbersOnRecord /\ [Next]_vars => NumbersOnRecord'
  BY NumbersNext
<1> QED
  BY <1>1, <1>2, <1>3, Inductive, SerialInductive, PTL DEF Spec

\* The entity the mark will save is the row it will save it over.
Current(h) ==
    handler[h].pc \in {"notify", "mark"} =>
        /\ handler[h].entity = row[Target(h)]
        /\ Exists(handler[h].loaded) => handler[h].loaded = row[Target(h)]

LEMMA CurrentNext ==
  ASSUME IInv, SInv, [Next]_vars, Rotators = {}, NEW h, Handlers = {h}, Current(h)
  PROVE  Current(h)'
<1>1. TypeOK /\ Target(h) \in Invoices /\ row \in [Invoices -> Row]
  BY TypeFacts DEF IInv, TypeOK
<1>2. ASSUME handler'[h].pc \notin {"notify", "mark"}
      PROVE  Current(h)'
  BY <1>2 DEF Current
<1>3. CASE handler' = handler /\ row' = row
  BY <1>3 DEF Current, Target
<1>4. CASE NotifyAccepted(h)
  <2>1. handler[h].entity = row[Target(h)] /\ row' = row
    BY <1>4 DEF Current, NotifyAccepted, At, tables
  <2> QED
    BY <1>1, <1>4, <2>1, NoRowFacts, Moves DEF NotifyAccepted, Go, Current
<1>5. CASE CommitInvoice(h)
  <2>1. PICK i, n : /\ i = Target(h) /\ row' = [row EXCEPT ![i] = Rendered(n)]
                    /\ Saved(h, "notify", Rendered(n))
    BY <1>5, CommitEffect
  <2>2. CASE GoWith(h, "notify", Rendered(n))
    <3>1. /\ handler'[h].entity = Rendered(n) /\ handler'[h].loaded = NoRow
          /\ Target(h)' = i
      BY <1>1, <2>1, <2>2, Moves
    <3>2. row'[i] = Rendered(n)
      BY <1>1, <2>1
    <3> QED
      BY <3>1, <3>2, NoRowFacts DEF Current
  <2>3. CASE Leave(h, "failing")
    BY <1>1, <1>2, <2>3, Moves DEF Leave
  <2> QED
    BY <2>1, <2>2, <2>3 DEF Saved
<1>6. CASE SaveSelects(h)
  <2>1. handler' = [handler EXCEPT ![h].loaded = row[Target(h)]] /\ row' = row
    BY <1>6 DEF SaveSelects, tables
  <2>2. /\ handler'[h].pc = handler[h].pc /\ handler'[h].entity = handler[h].entity
        /\ handler'[h].loaded = row[Target(h)] /\ Target(h)' = Target(h)
    BY <1>1, <2>1 DEF TypeOK, Handler, Target
  <2> QED
    BY <2>1, <2>2 DEF Current
<1>7. CASE RecordSelects(h)
  <2>1. handler'[h].pc \in {"processed", "failing"}
    BY <1>1, <1>7 DEF RecordSelects, TypeOK
  <2> QED
    BY <1>2, <2>1
<1>8. ASSUME \E pc \in PCs \ {"notify", "mark"} : \E r : GoWith(h, pc, r)
      PROVE  Current(h)'
  BY <1>1, <1>2, <1>8, Moves
<1>9. ASSUME Return(h)
      PROVE  Current(h)'
  <2>1. handler'[h].pc = "idle"
    BY <1>1, <1>9, IdleFacts DEF TypeOK, Return
  <2> QED
    BY <1>2, <2>1
<1>10. CASE /\ Handle(h) /\ ~ NotifyAccepted(h) /\ ~ CommitInvoice(h)
            /\ ~ SaveSelects(h) /\ ~ RecordSelects(h)
  BY <1>8, <1>9, <1>10
  DEF Handle, FindIssued, FindOpen, OrderBlocks, OrderComplete, FetchPayment,
      SaveBlocked, BeginTransaction, NotifyUnanswered, NotifyFails, MarkSent,
      RecordProcessed, RecordFailed, Conflict, Fail, Vanish, Saved, Go, Leave, PCs
<1>11. ASSUME NEW e \in Events, Receive(h, e)
       PROVE  Current(h)'
  <2>1. handler'[h].pc = "find"
    BY <1>1, <1>11, IdleFacts DEF Receive, TypeOK, Handler
  <2> QED
    BY <1>2, <2>1
<1>12. ASSUME NEW e \in Events, ReceiveProcessed(h, e)
       PROVE  Current(h)'
  BY <1>3, <1>12 DEF ReceiveProcessed, tables
<1>13. CASE UNCHANGED vars
  BY <1>3, <1>13 DEF vars
<1> QED
  BY <1>4, <1>5, <1>6, <1>7, <1>10, <1>11, <1>12, <1>13 DEF Next, Rest

\* With one handler and no link request the stored token changes only to a newer
\* one: that the SENT mark restores an older link takes a request beside it.
THEOREM LinkOnlyRenewed ==
  ASSUME NEW CONSTANT h, Handlers = {h}, Rotators = {}
  PROVE  Spec => TokenOnlyRenewed
<1>1. Init => Current(h)
  BY IdleFacts DEF Init, Current
<1>2. IInv /\ SInv /\ Current(h) /\ [Next]_vars => Current(h)'
  BY CurrentNext
<1>3. ASSUME IInv, SInv, Current(h), [Next]_vars, NEW i \in Invoices
      PROVE  row'[i].token # row[i].token => row'[i].token > stamp
  <2>1. row \in [Invoices -> Row] /\ stamp \in Nat /\ Target(h) \in Invoices
    BY <1>3, TypeFacts DEF IInv, TypeOK
  <2>2. CASE row' = row
    BY <2>2
  <2>3. CASE SaveBlocked(h)
    <3>1. row[Target(h)] \in Bare /\ row' = [row EXCEPT ![Target(h)] = BlockedRow]
      BY <1>3, <2>3, BlockEffect
    <3>2. BlockedRow.token = 0 /\ row[Target(h)].token = 0
      BY <3>1, BareFacts
    <3> QED
      BY <2>1, <3>1, <3>2
  <2>4. CASE CommitInvoice(h)
    <3>1. PICK n : row' = [row EXCEPT ![Target(h)] = Rendered(n)]
      BY <1>3, <2>4, CommitEffect
    <3>2. Rendered(n).token = stamp + 1
      BY DEF Rendered
    <3> QED
      BY <2>1, <3>1, <3>2
  <2>5. CASE MarkSent(h)
    <3> DEFINE t == Target(h)
               c == row[t]
               x == Merge([c EXCEPT !.status = "sent"], c, c)
    <3>1. Complete(c) /\ handler[h].entity = c /\ t \in Invoices
      BY <1>3, <2>1, <2>5 DEF MarkSent, At, Current, SInv, SerialHandler, Agrees
    <3>2. handler[h].loaded = c
      BY <1>3, <2>5, <3>1 DEF MarkSent, At, Current, Selected, Complete, Issued, Exists
    <3>3. row' = [row EXCEPT ![t] = x]
      BY <2>5, <3>1, <3>2 DEF MarkSent, Store
    <3>4. x.token = c.token
      BY <2>1, <3>1 DEF Merge, Row
    <3> HIDE DEF x
    <3> QED
      BY <2>1, <3>3, <3>4
  <2>6. row' = row \/ SaveBlocked(h) \/ CommitInvoice(h) \/ MarkSent(h)
    BY <1>3 DEF Next, Rest, Receive, ReceiveProcessed, Handle, FindIssued, FindOpen,
       OrderBlocks, OrderComplete, FetchPayment, SaveSelects, BeginTransaction,
       NotifyAccepted, NotifyUnanswered, NotifyFails, RecordSelects, RecordProcessed,
       RecordFailed, Conflict, Fail, Vanish, vars, tables
  <2> QED
    BY <2>2, <2>3, <2>4, <2>5, <2>6
<1>4. IInv /\ SInv /\ Current(h) /\ [Next]_vars =>
        [\A i \in Invoices : row'[i].token # row[i].token => row'[i].token > stamp]_vars
  BY <1>3
<1> QED
  BY <1>1, <1>2, <1>4, Inductive, SerialInductive, PTL DEF Spec, TokenOnlyRenewed

=============================================================================
