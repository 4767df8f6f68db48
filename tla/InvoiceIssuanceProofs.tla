------------------------- MODULE InvoiceIssuanceProofs -------------------------
(***************************************************************************)
(* Proofs about InvoiceIssuance, for any number of concurrent handlers,    *)
(* link requests, events and invoices.                                     *)
(*                                                                         *)
(* The safety properties speak of the tables; what endangers them is the   *)
(* rows in memory, whose columns are written back later, some of them and  *)
(* over another row than the one they were read from. So the inductive     *)
(* invariant says of every entity a handler or a link request holds what   *)
(* it says of the stored rows: each number in it belongs to its invoice.   *)
(* That survives any mixture of columns.                                   *)
(***************************************************************************)
EXTENDS InvoiceIssuance, TLAPS

\* Every number in the row r, which may be in the table or in memory, is one
\* that invoice i has been issued under.
RowOK(i, r) ==
    /\ r.number # 0 => r.number \in numbers[i]
    /\ r.printed # 0 => r.printed \in numbers[i]

\* What a handler for invoice i may hold at pc: the entity r, and what the
\* SELECT of its save saw.
MayHold(i, pc, r, loaded) ==
    /\ RowOK(i, r)
    /\ Exists(r) => Exists(row[i])
    /\ ~ Exists(r) => loaded = NoRow
    /\ pc \in {"notify", "mark"} => r.number # 0
    /\ pc \in {"notify", "mark", "processed"} => Exists(row[i])

HandlerOK(h) ==
    MayHold(Target(h), handler[h].pc, handler[h].entity, handler[h].loaded)

MayServe(i, r, loaded) ==
    /\ RowOK(i, r)
    /\ Exists(r) => Exists(row[i])
    /\ ~ Exists(r) => loaded = NoRow

RotatorOK(q) == MayServe(rotator[q].invoice, rotator[q].entity, rotator[q].loaded)

\* The numbers an invoice has been issued under were drawn from its series, and
\* no other invoice's transaction drew the same.
NumbersDrawn ==
    \A i \in Invoices :
        numbers[i] \subseteq 1 .. (nextNumber[SeriesOf[i]] - 1)

NumbersApart ==
    \A i, j \in Invoices :
        i # j /\ SeriesOf[i] = SeriesOf[j] => numbers[i] \cap numbers[j] = {}

MailsOK == \A i \in Invoices : \A m \in mails[i] : m.number \in numbers[i]

IInv ==
    /\ TypeOK
    /\ \A s \in Series : nextNumber[s] # 0
    /\ NumbersDrawn
    /\ NumbersApart
    /\ MailsOK
    /\ ProcessedIsOnRecord
    /\ \A i \in Invoices : RowOK(i, row[i])
    /\ \A h \in Handlers : HandlerOK(h)
    /\ \A q \in Rotators : RotatorOK(q)

-----------------------------------------------------------------------------
(* Rows and records *)

LEMMA NoRowFacts ==
  /\ NoRow = [status |-> "none", number |-> 0, doc |-> 0, printed |-> 0, token |-> 0]
  /\ NoRow \in Row
  /\ NoRow.number = 0 /\ NoRow.printed = 0 /\ NoRow.doc = 0
  /\ ~ Exists(NoRow)
<1>1. NoRow = [status |-> "none", number |-> 0, doc |-> 0, printed |-> 0, token |-> 0]
  BY DEF NoRow
<1> QED BY <1>1 DEF Row, Statuses, Exists

LEMMA TypeFacts ==
  ASSUME TypeOK
  PROVE  /\ \A i \in Invoices : row[i] \in Row /\ SeriesOf[i] \in Series
         /\ \A h \in Handlers : /\ handler[h] \in Handler
                                /\ handler[h].entity \in Row
                                /\ handler[h].loaded \in Row
                                /\ handler[h].pc \in PCs
                                /\ handler[h].event \in Events
                                /\ handler[h].seen \in {"none", "failed"}
                                /\ handler[h].mark \in Marks
                                /\ Target(h) \in Invoices
                                /\ Target(h) = InvoiceOf[handler[h].event]
         /\ \A q \in Rotators : /\ rotator[q].entity \in Row
                                /\ rotator[q].loaded \in Row
                                /\ rotator[q].invoice \in Invoices
         /\ \A s \in Series : nextNumber[s] \in Nat
BY IssuanceAssumption DEF TypeOK, Target, Handler

LEMMA IdleFacts ==
  /\ Idle \in Handler
  /\ Idle.pc = "idle" /\ Idle.entity = NoRow /\ Idle.loaded = NoRow
  /\ Idle.event \in Events
<1>1. (CHOOSE e \in Events : TRUE) \in Events
  BY IssuanceAssumption
<1> QED BY <1>1, NoRowFacts DEF Idle, PCs, Handler, Marks

LEMMA NoRequestFacts ==
  /\ NoRequest \in [invoice : Invoices, entity : Row, loaded : Row]
  /\ NoRequest.entity = NoRow /\ NoRequest.loaded = NoRow
<1>1. Invoices # {}
  BY IssuanceAssumption
<1>2. (CHOOSE i \in Invoices : TRUE) \in Invoices
  BY <1>1
<1> QED BY <1>2, NoRowFacts DEF NoRequest

\* The columns of an UPDATE come from the entity saved or from the row there.
LEMMA MergeFacts ==
  ASSUME NEW r \in Row, NEW l \in Row, NEW c \in Row
  PROVE  /\ Merge(r, l, c) \in Row
         /\ Merge(r, l, c).number \in {r.number, c.number}
         /\ Merge(r, l, c).printed \in {r.printed, c.printed}
         /\ Exists(r) /\ (Exists(c) \/ l = NoRow) => Exists(Merge(r, l, c))
<1>1. Merge(r, l, c) \in Row
  BY DEF Merge, Row
<1>2. /\ Merge(r, l, c).number \in {r.number, c.number}
      /\ Merge(r, l, c).printed \in {r.printed, c.printed}
      /\ Merge(r, l, c).status = IF r.status # l.status THEN r.status ELSE c.status
  BY DEF Merge
<1> QED BY <1>1, <1>2, NoRowFacts DEF Exists

-----------------------------------------------------------------------------
(* What a step leaves alone *)

\* Nobody's memory is endangered by more numbers, or more rows, in the tables.
LEMMA OthersKeep ==
  ASSUME IInv,
         \A j \in Invoices : numbers[j] \subseteq numbers'[j],
         \A j \in Invoices : Exists(row[j]) => Exists(row'[j])
  PROVE  /\ \A u \in Handlers : handler'[u] = handler[u] => HandlerOK(u)'
         /\ \A q \in Rotators : rotator'[q] = rotator[q] => RotatorOK(q)'
         /\ \A j \in Invoices : row'[j] = row[j] => RowOK(j, row[j])'
<1>1. ASSUME NEW u \in Handlers, handler'[u] = handler[u] PROVE HandlerOK(u)'
  <2>1. HandlerOK(u) /\ Target(u) \in Invoices /\ Target(u)' = Target(u)
    BY <1>1, TypeFacts DEF IInv, Target
  <2> QED BY <1>1, <2>1 DEF HandlerOK, MayHold, RowOK
<1>2. ASSUME NEW q \in Rotators, rotator'[q] = rotator[q] PROVE RotatorOK(q)'
  <2>1. RotatorOK(q) /\ rotator[q].invoice \in Invoices
    BY TypeFacts DEF IInv
  <2> QED BY <1>2, <2>1 DEF RotatorOK, MayServe, RowOK
<1>3. ASSUME NEW j \in Invoices, row'[j] = row[j] PROVE RowOK(j, row[j])'
  BY <1>3 DEF IInv, RowOK
<1> QED BY <1>1, <1>2, <1>3

\* A step that changes no table and no history, but what one handler holds.
LEMMA MoveIInv ==
  ASSUME IInv, NEW h \in Handlers, NEW x \in Handler,
         MayHold(InvoiceOf[x.event], x.pc, x.entity, x.loaded),
         handler' = [handler EXCEPT ![h] = x],
         deliveries' \in [Events -> Nat],
         UNCHANGED <<tables, rotator, stamp, numbers, mails, rotations>>
  PROVE  IInv'
<1>1. /\ TypeOK'
      /\ UNCHANGED <<row, nextNumber, eventRec, numbers, mails>>
  BY DEF IInv, TypeOK, tables
<1>2. /\ handler'[h] = x
      /\ \A u \in Handlers \ {h} : handler'[u] = handler[u]
  BY DEF IInv, TypeOK
<1>3. HandlerOK(h)'
  BY <1>1, <1>2 DEF HandlerOK, MayHold, RowOK, Target
<1>4. /\ \A u \in Handlers : HandlerOK(u)'
      /\ \A q \in Rotators : RotatorOK(q)'
      /\ \A i \in Invoices : RowOK(i, row[i])'
  BY <1>1, <1>2, <1>3, OthersKeep
<1>5. /\ \A s \in Series : nextNumber'[s] # 0
      /\ NumbersDrawn' /\ NumbersApart' /\ MailsOK' /\ ProcessedIsOnRecord'
  BY <1>1 DEF IInv, NumbersDrawn, NumbersApart, MailsOK, ProcessedIsOnRecord
<1> QED BY <1>1, <1>4, <1>5 DEF IInv

\* The same, for the abbreviations the actions use.
LEMMA GoIInv ==
  ASSUME IInv, NEW h \in Handlers, NEW pc \in PCs, NEW r \in Row,
         MayHold(InvoiceOf[handler[h].event], pc, r, NoRow), GoWith(h, pc, r),
         UNCHANGED <<tables, rotator, history>>
  PROVE  IInv'
<1> DEFINE x == [pc |-> pc, event |-> handler[h].event, seen |-> handler[h].seen,
                 entity |-> r, loaded |-> NoRow, mark |-> "none"]
<1>1. x \in Handler
  BY TypeFacts, NoRowFacts DEF IInv, Handler, Marks
<1>2. x.pc = pc /\ x.entity = r /\ x.loaded = NoRow /\ x.event = handler[h].event
  OBVIOUS
<1>3. handler' = [handler EXCEPT ![h] = x]
  BY DEF GoWith
<1>4. /\ UNCHANGED <<tables, rotator, stamp, numbers, mails, rotations>>
      /\ deliveries' \in [Events -> Nat]
  BY DEF history, IInv, TypeOK
<1> HIDE DEF x
<1> QED BY <1>1, <1>2, <1>3, <1>4, MoveIInv

\* h keeps nothing on the way to pc.
LEMMA LeaveIInv ==
  ASSUME IInv, NEW h \in Handlers, NEW pc \in {"processed", "failing"},
         pc = "processed" => Exists(row[Target(h)]),
         Leave(h, pc), UNCHANGED <<tables, rotator, history>>
  PROVE  IInv'
<1>1. MayHold(InvoiceOf[handler[h].event], pc, NoRow, NoRow)
  BY NoRowFacts DEF MayHold, RowOK, Target
<1> QED BY <1>1, NoRowFacts, GoIInv DEF Leave, PCs

\* What h holds while it keeps its entity.
LEMMA KeepEntity ==
  ASSUME IInv, NEW h \in Handlers
  PROVE  LET i == InvoiceOf[handler[h].event]
             r == handler[h].entity IN
         /\ i = Target(h) /\ i \in Invoices /\ r \in Row
         /\ row[i] \in Row /\ RowOK(i, row[i])
         /\ RowOK(i, r)
         /\ Exists(r) => Exists(row[i])
         /\ ~ Exists(r) => handler[h].loaded = NoRow
         /\ handler[h].pc \in {"notify", "mark"} => r.number # 0
         /\ handler[h].pc \in {"notify", "mark", "processed"} => Exists(row[i])
BY TypeFacts DEF IInv, HandlerOK, MayHold, Target

-----------------------------------------------------------------------------
(* Steps of a handler that change nothing but the handler *)

LEMMA ReceiveIInv ==
  ASSUME IInv, NEW h \in Handlers, NEW e \in Events, Receive(h, e)
  PROVE  IInv'
<1> DEFINE x == [Idle EXCEPT !.pc = "find", !.event = e, !.seen = eventRec[e]]
<1>1. eventRec[e] \in {"none", "failed"}
  BY DEF IInv, TypeOK, Receive, Marks
<1>2. /\ x \in Handler
      /\ x.event = e /\ x.pc = "find" /\ x.entity = NoRow /\ x.loaded = NoRow
  BY <1>1, IdleFacts DEF Handler, PCs
<1>3. /\ handler' = [handler EXCEPT ![h] = x]
      /\ deliveries' \in [Events -> Nat]
      /\ UNCHANGED <<tables, rotator, stamp, numbers, mails, rotations>>
  BY DEF IInv, TypeOK, Receive
<1>4. MayHold(e, "find", NoRow, NoRow) /\ MayHold(InvoiceOf[e], "find", NoRow, NoRow)
  BY NoRowFacts DEF MayHold, RowOK
<1> HIDE DEF x
<1> QED BY <1>2, <1>3, <1>4, MoveIInv

LEMMA ReceiveProcessedIInv ==
  ASSUME IInv, NEW h \in Handlers, NEW e \in Events, ReceiveProcessed(h, e)
  PROVE  IInv'
<1>1. /\ deliveries' \in [Events -> Nat]
      /\ UNCHANGED <<row, nextNumber, eventRec, handler, rotator, stamp, numbers,
                     mails, rotations>>
  BY DEF IInv, TypeOK, ReceiveProcessed, tables
<1>2. /\ \A u \in Handlers : HandlerOK(u)'
      /\ \A q \in Rotators : RotatorOK(q)'
      /\ \A i \in Invoices : RowOK(i, row[i])'
  BY <1>1, OthersKeep
<1> QED
  BY <1>1, <1>2 DEF IInv, TypeOK, NumbersDrawn, NumbersApart, MailsOK,
     ProcessedIsOnRecord

\* Every step of a handler that reads, calls another service or gives up.
LEMMA ReadIInv ==
  ASSUME IInv, NEW h \in Handlers,
         \/ FindIssued(h) \/ FindOpen(h) \/ OrderBlocks(h) \/ OrderComplete(h)
         \/ FetchPayment(h) \/ BeginTransaction(h) \/ NotifyFails(h)
         \/ Conflict(h) \/ Fail(h)
  PROVE  IInv'
<1> DEFINE i == InvoiceOf[handler[h].event]
           r == handler[h].entity
<1>1. /\ r \in Row /\ RowOK(i, r) /\ i \in Invoices /\ Target(h) = i
      /\ row[i] \in Row /\ RowOK(i, row[i])
      /\ Exists(r) => Exists(row[i])
  BY KeepEntity
<1>2. /\ MayHold(i, "order", row[i], NoRow)
      /\ MayHold(i, "commit", row[i], NoRow)
      /\ \A pc \in {"block", "payment", "begin", "commit"} : MayHold(i, pc, r, NoRow)
  BY <1>1 DEF MayHold
<1> HIDE DEF i, r
<1>3. CASE FindIssued(h)
  <2>1. Exists(row[Target(h)])
    BY <1>3 DEF FindIssued, Issued, Exists
  <2> QED BY <1>3, <2>1, LeaveIInv DEF FindIssued
<1>4. CASE FindOpen(h)
  BY <1>1, <1>2, <1>4, GoIInv DEF FindOpen, PCs, i
<1>5. CASE OrderBlocks(h)
  BY <1>1, <1>2, <1>5, GoIInv DEF OrderBlocks, Go, PCs, i, r
<1>6. CASE OrderComplete(h)
  <2>1. CASE Target(h) \in FinalInvoices
    BY <1>1, <1>2, <1>6, <2>1, GoIInv DEF OrderComplete, Go, PCs, i, r
  <2>2. CASE Target(h) \notin FinalInvoices
    BY <1>1, <1>2, <1>6, <2>2, GoIInv DEF OrderComplete, Go, PCs, i, r
  <2> QED BY <2>1, <2>2
<1>7. CASE FetchPayment(h)
  BY <1>1, <1>2, <1>7, GoIInv DEF FetchPayment, Go, PCs, i, r
<1>8. CASE BeginTransaction(h)
  <2>1. CASE Exists(r)
    BY <1>1, <1>2, <1>8, <2>1, GoIInv DEF BeginTransaction, PCs, i, r
  <2>2. CASE ~ Exists(r)
    BY <1>1, <1>2, <1>8, <2>2, GoIInv DEF BeginTransaction, PCs, i, r
  <2> QED BY <2>1, <2>2
<1>9. CASE NotifyFails(h)
  <2>1. Exists(row[Target(h)])
    BY <1>9, KeepEntity DEF NotifyFails, At
  <2> QED BY <1>9, <2>1, LeaveIInv DEF NotifyFails
<1>10. CASE Conflict(h) \/ Fail(h)
  BY <1>10, LeaveIInv DEF Conflict, Fail
<1> QED BY <1>3, <1>4, <1>5, <1>6, <1>7, <1>8, <1>9, <1>10

\* The SELECTs of the saves.
LEMMA SelectIInv ==
  ASSUME IInv, NEW h \in Handlers, SaveSelects(h) \/ RecordSelects(h)
  PROVE  IInv'
<1>1. PICK x \in Handler :
         /\ handler' = [handler EXCEPT ![h] = x]
         /\ x.event = handler[h].event /\ x.pc = handler[h].pc
         /\ x.entity = handler[h].entity
         /\ x.loaded = handler[h].loaded \/ Exists(handler[h].entity)
  <2>1. CASE SaveSelects(h)
    <3> DEFINE x == [handler[h] EXCEPT !.loaded = row[Target(h)]]
    <3>1. /\ x \in Handler /\ x.event = handler[h].event
          /\ x.pc = handler[h].pc /\ x.entity = handler[h].entity
      BY TypeFacts DEF IInv, Handler
    <3>2. handler' = [handler EXCEPT ![h] = x]
      BY <2>1 DEF SaveSelects
    <3>3. Exists(handler[h].entity)
      BY <2>1 DEF SaveSelects
    <3> HIDE DEF x
    <3> QED BY <3>1, <3>2, <3>3
  <2>2. CASE RecordSelects(h)
    <3> DEFINE x == [handler[h] EXCEPT !.mark = eventRec[handler[h].event]]
    <3>1. eventRec[handler[h].event] \in Marks
      BY TypeFacts DEF IInv, TypeOK
    <3>2. /\ x \in Handler /\ x.event = handler[h].event
          /\ x.pc = handler[h].pc /\ x.entity = handler[h].entity
          /\ x.loaded = handler[h].loaded
      BY <3>1, TypeFacts DEF IInv, Handler
    <3>3. handler' = [handler EXCEPT ![h] = x]
      BY <2>2 DEF RecordSelects
    <3> HIDE DEF x
    <3> QED BY <3>2, <3>3
  <2> QED BY <2>1, <2>2
<1>2. MayHold(InvoiceOf[x.event], x.pc, x.entity, x.loaded)
  BY <1>1, KeepEntity DEF MayHold
<1>3. /\ UNCHANGED <<tables, rotator, stamp, numbers, mails, rotations>>
      /\ deliveries' \in [Events -> Nat]
  BY DEF SaveSelects, RecordSelects, history, IInv, TypeOK
<1> QED BY <1>1, <1>2, <1>3, MoveIInv

LEMMA VanishIInv ==
  ASSUME IInv, NEW h \in Handlers, Vanish(h)
  PROVE  IInv'
<1>1. MayHold(InvoiceOf[Idle.event], Idle.pc, Idle.entity, Idle.loaded)
  BY NoRowFacts, IdleFacts DEF MayHold, RowOK
<1>2. /\ handler' = [handler EXCEPT ![h] = Idle]
      /\ UNCHANGED <<tables, rotator, stamp, numbers, mails, rotations>>
      /\ deliveries' \in [Events -> Nat]
  BY DEF IInv, TypeOK, Vanish, Return, history
<1> QED BY <1>1, <1>2, IdleFacts, MoveIInv

-----------------------------------------------------------------------------
(* Steps that write a row *)

\* Whoever writes columns with numbers of the invoice itself over its row, and
\* forgets no number, leaves every row and what all the others hold acceptable.
LEMMA StoreKeeps ==
  ASSUME IInv, NEW i \in Invoices, NEW r \in Row, NEW l \in Row, Store(i, r, l),
         RowOK(i, r)', Exists(r), Exists(row[i]) \/ l = NoRow,
         \A j \in Invoices : numbers[j] \subseteq numbers'[j]
  PROVE  /\ row' \in [Invoices -> Row]
         /\ Exists(row'[i])
         /\ \A j \in Invoices : Exists(row[j]) => Exists(row'[j])
         /\ \A j \in Invoices : RowOK(j, row[j])'
         /\ \A u \in Handlers : handler'[u] = handler[u] => HandlerOK(u)'
         /\ \A q \in Rotators : rotator'[q] = rotator[q] => RotatorOK(q)'
<1>1. PICK x : x = Merge(r, l, row[i])
  OBVIOUS
<1>2. /\ x \in Row /\ Exists(x)
      /\ x.number \in {r.number, row[i].number}
      /\ x.printed \in {r.printed, row[i].printed}
  BY <1>1, TypeFacts, MergeFacts DEF IInv
<1>3. /\ row \in [Invoices -> Row]
      /\ row' = [row EXCEPT ![i] = x]
  BY <1>1 DEF IInv, TypeOK, Store
<1>4. /\ row' \in [Invoices -> Row] /\ row'[i] = x
      /\ \A j \in Invoices \ {i} : row'[j] = row[j]
      /\ \A j \in Invoices : Exists(row[j]) => Exists(row'[j])
  BY <1>2, <1>3
<1>5. RowOK(i, row[i])'
  <2>1. RowOK(i, row[i]) /\ numbers[i] \subseteq numbers'[i]
    BY DEF IInv
  <2> QED BY <1>2, <1>4, <2>1 DEF RowOK
<1> QED BY <1>2, <1>4, <1>5, OthersKeep

\* How a handler is left by a save: at pc with the entity r, or failing.
LEMMA SavedFacts ==
  ASSUME IInv, NEW h \in Handlers, NEW pc \in {"notify", "processed"},
         NEW r \in Row, Saved(h, pc, r)
  PROVE  /\ handler' \in [Handlers -> Handler]
         /\ \A u \in Handlers \ {h} : handler'[u] = handler[u]
         /\ Target(h)' = Target(h)
         /\ handler'[h].loaded = NoRow
         /\ \/ handler'[h].pc = pc /\ handler'[h].entity = r
            \/ handler'[h].pc = "failing" /\ handler'[h].entity = NoRow
<1>1. /\ handler[h].event \in Events /\ handler[h].seen \in {"none", "failed"}
      /\ handler \in [Handlers -> Handler]
  BY TypeFacts DEF IInv, TypeOK
<1>2. CASE GoWith(h, pc, r)
  <2> DEFINE x == [pc |-> pc, event |-> handler[h].event, seen |-> handler[h].seen,
                   entity |-> r, loaded |-> NoRow, mark |-> "none"]
  <2>1. /\ x \in Handler /\ x.pc = pc /\ x.entity = r /\ x.loaded = NoRow
        /\ x.event = handler[h].event
    BY <1>1, NoRowFacts DEF Handler, PCs, Marks
  <2>2. handler' = [handler EXCEPT ![h] = x]
    BY <1>2 DEF GoWith
  <2> HIDE DEF x
  <2> QED BY <1>1, <2>1, <2>2 DEF Target
<1>3. CASE Leave(h, "failing")
  <2> DEFINE x == [pc |-> "failing", event |-> handler[h].event,
                   seen |-> handler[h].seen,
                   entity |-> NoRow, loaded |-> NoRow, mark |-> "none"]
  <2>1. /\ x \in Handler /\ x.pc = "failing" /\ x.entity = NoRow /\ x.loaded = NoRow
        /\ x.event = handler[h].event
    BY <1>1, NoRowFacts DEF Handler, PCs, Marks
  <2>2. handler' = [handler EXCEPT ![h] = x]
    BY <1>3 DEF Leave, GoWith
  <2> HIDE DEF x
  <2> QED BY <1>1, <2>1, <2>2 DEF Target
<1> QED BY <1>2, <1>3 DEF Saved

\* The save of a BLOCKED or SENT row that drops the entity.
LEMMA SaveIInv ==
  ASSUME IInv, NEW h \in Handlers, NEW r \in Row, Exists(r), RowOK(Target(h), r),
         Exists(row[Target(h)]) \/ handler[h].loaded = NoRow,
         Store(Target(h), r, handler[h].loaded), Saved(h, "processed", NoRow),
         UNCHANGED <<nextNumber, eventRec, rotator, history>>
  PROVE  IInv'
<1>1. /\ Target(h) \in Invoices /\ handler[h].loaded \in Row
      /\ UNCHANGED <<nextNumber, eventRec, rotator, stamp, numbers, mails,
                     deliveries, rotations>>
  BY TypeFacts DEF IInv, history
<1>2. RowOK(Target(h), r)' /\ Target(h)' = Target(h)
  BY <1>1, NoRowFacts, SavedFacts DEF RowOK
<1>3. PICK i \in Invoices, l \in Row :
         i = Target(h) /\ l = handler[h].loaded /\ Store(i, r, l)
         /\ RowOK(i, r)' /\ (Exists(row[i]) \/ l = NoRow)
  BY <1>1, <1>2
<1>4. /\ row' \in [Invoices -> Row] /\ Exists(row'[i])
      /\ \A j \in Invoices : Exists(row[j]) => Exists(row'[j])
      /\ \A j \in Invoices : RowOK(j, row[j])'
      /\ \A u \in Handlers \ {h} : HandlerOK(u)'
      /\ \A q \in Rotators : RotatorOK(q)'
  BY <1>1, <1>3, StoreKeeps, SavedFacts, NoRowFacts
<1>5. HandlerOK(h)'
  <2>1. handler'[h].pc \in {"processed", "failing"}
        /\ handler'[h].entity = NoRow /\ handler'[h].loaded = NoRow
    BY NoRowFacts, SavedFacts
  <2> QED BY <1>2, <1>3, <1>4, <2>1, NoRowFacts DEF HandlerOK, MayHold, RowOK
<1>6. TypeOK'
  BY <1>1, <1>4, NoRowFacts, SavedFacts DEF IInv, TypeOK
<1>7. ProcessedIsOnRecord'
  BY <1>1, <1>4, IssuanceAssumption DEF IInv, ProcessedIsOnRecord
<1>8. /\ NumbersDrawn' /\ NumbersApart' /\ MailsOK'
      /\ \A s \in Series : nextNumber'[s] # 0
  BY <1>1 DEF IInv, NumbersDrawn, NumbersApart, MailsOK
<1> QED BY <1>4, <1>5, <1>6, <1>7, <1>8 DEF IInv

LEMMA SaveBlockedIInv ==
  ASSUME IInv, NEW h \in Handlers, SaveBlocked(h)
  PROVE  IInv'
<1> DEFINE r == [handler[h].entity EXCEPT !.status = "blocked"]
<1>1. /\ r \in Row /\ r.status = "blocked"
      /\ r.number = handler[h].entity.number /\ r.printed = handler[h].entity.printed
  BY KeepEntity DEF Row, Statuses
<1>2. RowOK(Target(h), r) /\ Exists(r)
  BY <1>1, KeepEntity DEF RowOK, Exists
<1>3. Exists(row[Target(h)]) \/ handler[h].loaded = NoRow
  BY KeepEntity
<1>4. /\ Store(Target(h), r, handler[h].loaded)
      /\ Saved(h, "processed", NoRow)
      /\ UNCHANGED <<nextNumber, eventRec, rotator, history>>
  BY DEF SaveBlocked
<1> HIDE DEF r
<1> QED BY <1>1, <1>2, <1>3, <1>4, SaveIInv

LEMMA MarkSentIInv ==
  ASSUME IInv, NEW h \in Handlers, MarkSent(h)
  PROVE  IInv'
<1> DEFINE r == [handler[h].entity EXCEPT !.status = "sent"]
<1>1. /\ r \in Row /\ r.status = "sent"
      /\ r.number = handler[h].entity.number /\ r.printed = handler[h].entity.printed
  BY KeepEntity DEF Row, Statuses
<1>2. RowOK(Target(h), r) /\ Exists(r)
  BY <1>1, KeepEntity DEF RowOK, Exists
<1>3. Exists(row[Target(h)])
  BY KeepEntity DEF MarkSent, At
<1>4. /\ Store(Target(h), r, handler[h].loaded)
      /\ Saved(h, "processed", NoRow)
      /\ UNCHANGED <<nextNumber, eventRec, rotator, history>>
  BY DEF MarkSent
<1> HIDE DEF r
<1> QED BY <1>1, <1>2, <1>3, <1>4, SaveIInv

\* The issuing transaction: the only step that draws a number. The number is
\* the invoice's own, or the next of the series, which nobody has carried.
LEMMA CommitInvoiceIInv ==
  ASSUME IInv, NEW h \in Handlers, CommitInvoice(h)
  PROVE  IInv'
<1>0. PICK i \in Invoices, r \in Row, l \in Row :
         i = Target(h) /\ r = handler[h].entity /\ l = handler[h].loaded
  BY TypeFacts DEF IInv
<1>1. PICK s \in Series : s = SeriesOf[i]
  BY IssuanceAssumption
<1>2. PICK k \in Nat : k = stamp + 1 /\ k # 0 /\ stamp' = k
  BY DEF IInv, TypeOK, CommitInvoice
<1>3. /\ nextNumber[s] \in Nat \ {0}
      /\ numbers[i] \subseteq 1 .. (nextNumber[s] - 1)
      /\ r.number \in Nat
      /\ r.number # 0 => r.number \in numbers[i]
      /\ Exists(row[i]) \/ l = NoRow
  <2>1. RowOK(i, r) /\ (Exists(r) => Exists(row[i])) /\ (~ Exists(r) => l = NoRow)
    BY <1>0, KeepEntity
  <2> QED BY <1>0, <1>1, <2>1 DEF IInv, TypeOK, NumbersDrawn, RowOK, Row
<1>4. PICK n \in Nat \ {0} : n = NumberFor(h)
  BY <1>0, <1>1, <1>3 DEF NumberFor
<1>5. \/ /\ n \in numbers[i]
         /\ nextNumber' = nextNumber
      \/ /\ n = nextNumber[s]
         /\ nextNumber' = [nextNumber EXCEPT ![s] = n + 1]
  BY <1>0, <1>1, <1>3, <1>4 DEF CommitInvoice, NumberFor, Allocate
<1>6. PICK x \in Row :
         /\ x = [status |-> "delivery_pending", number |-> n, doc |-> k,
                 printed |-> n, token |-> k]
         /\ x = Rendered(n)
  BY <1>2, <1>4 DEF Rendered, Row, Statuses
<1>7. /\ Store(i, x, l)
      /\ numbers' = [numbers EXCEPT ![i] = @ \cup {n}]
      /\ Saved(h, "notify", x)
      /\ UNCHANGED <<eventRec, rotator, mails, deliveries, rotations>>
  BY <1>0, <1>4, <1>6 DEF CommitInvoice
<1>8. Exists(x) /\ x.number = n /\ x.printed = n
  BY <1>6 DEF Exists
<1>9. /\ numbers \in [Invoices -> SUBSET Nat]
      /\ nextNumber \in [Series -> Nat]
  BY DEF IInv, TypeOK
<1>10. /\ numbers' \in [Invoices -> SUBSET Nat]
       /\ numbers'[i] = numbers[i] \cup {n}
       /\ \A j \in Invoices \ {i} : numbers'[j] = numbers[j]
       /\ \A j \in Invoices : numbers[j] \subseteq numbers'[j]
  BY <1>4, <1>7, <1>9
<1>11. RowOK(i, x)'
  BY <1>8, <1>10 DEF RowOK
<1>12. /\ row' \in [Invoices -> Row] /\ Exists(row'[i])
       /\ \A j \in Invoices : Exists(row[j]) => Exists(row'[j])
       /\ \A j \in Invoices : RowOK(j, row[j])'
       /\ \A u \in Handlers : handler'[u] = handler[u] => HandlerOK(u)'
       /\ \A q \in Rotators : rotator'[q] = rotator[q] => RotatorOK(q)'
  BY <1>3, <1>7, <1>8, <1>10, <1>11, StoreKeeps
<1>13. /\ handler' \in [Handlers -> Handler]
       /\ \A u \in Handlers \ {h} : handler'[u] = handler[u]
       /\ Target(h)' = Target(h)
       /\ handler'[h].loaded = NoRow
       /\ \/ handler'[h].pc = "notify" /\ handler'[h].entity = x
          \/ handler'[h].pc = "failing" /\ handler'[h].entity = NoRow
  BY <1>7, SavedFacts
<1>14. HandlerOK(h)'
  BY <1>0, <1>4, <1>8, <1>11, <1>12, <1>13, NoRowFacts DEF HandlerOK, MayHold, RowOK
<1>15. /\ nextNumber' \in [Series -> Nat]
       /\ \A z \in Series : nextNumber'[z] # 0
       /\ \A z \in Series : nextNumber[z] <= nextNumber'[z]
       /\ n < nextNumber'[s]
  BY <1>3, <1>4, <1>5, <1>9 DEF IInv
<1>16. TypeOK'
  BY <1>2, <1>7, <1>10, <1>12, <1>13, <1>15 DEF IInv, TypeOK
<1>17. NumbersDrawn'
  <2> SUFFICES ASSUME NEW j \in Invoices, NEW m \in numbers'[j]
               PROVE  m \in 1 .. (nextNumber'[SeriesOf[j]] - 1)
    BY DEF NumbersDrawn
  <2>1. SeriesOf[j] \in Series /\ nextNumber'[SeriesOf[j]] \in Nat
        /\ nextNumber[SeriesOf[j]] \in Nat
    BY <1>9, <1>15, IssuanceAssumption
  <2>2. CASE m \in numbers[j]
    BY <1>15, <2>1, <2>2 DEF IInv, NumbersDrawn
  <2>3. CASE m \notin numbers[j]
    BY <1>1, <1>4, <1>10, <1>15, <2>1, <2>3
  <2> QED BY <2>2, <2>3
<1>18. NumbersApart'
  <2> SUFFICES ASSUME NEW j \in Invoices, j # i, SeriesOf[j] = s
               PROVE  n \notin numbers[j]
    BY <1>1, <1>10 DEF IInv, NumbersApart
  <2>1. CASE n \in numbers[i]
    BY <1>1, <2>1 DEF IInv, NumbersApart
  <2>2. CASE n = nextNumber[s]
    BY <1>3, <2>2 DEF IInv, NumbersDrawn
  <2> QED BY <1>5, <2>1, <2>2
<1>19. MailsOK'
  BY <1>7, <1>10 DEF IInv, MailsOK
<1>20. ProcessedIsOnRecord'
  BY <1>7, <1>12, IssuanceAssumption DEF IInv, ProcessedIsOnRecord
<1>21. /\ \A u \in Handlers : HandlerOK(u)'
       /\ \A q \in Rotators : RotatorOK(q)'
  BY <1>7, <1>12, <1>13, <1>14
<1> QED BY <1>12, <1>15, <1>16, <1>17, <1>18, <1>19, <1>20, <1>21 DEF IInv

\* Steps of a link request touch no handler, no counter and no history.
LEMMA RotatorIInv ==
  ASSUME IInv, NEW q \in Rotators,
         NEW x \in [invoice : Invoices, entity : Row, loaded : Row],
         MayServe(x.invoice, x.entity, x.loaded),
         rotator' = [rotator EXCEPT ![q] = x],
         UNCHANGED <<row, nextNumber, eventRec, handler, stamp, numbers, mails,
                     deliveries>>,
         rotations' \in Nat
  PROVE  IInv'
<1>1. TypeOK'
  BY DEF IInv, TypeOK
<1>2. /\ rotator'[q] = x
      /\ \A u \in Rotators \ {q} : rotator'[u] = rotator[u]
  BY DEF IInv, TypeOK
<1>3. RotatorOK(q)'
  BY <1>2 DEF RotatorOK, MayServe, RowOK
<1>4. /\ \A u \in Handlers : HandlerOK(u)'
      /\ \A u \in Rotators : RotatorOK(u)'
      /\ \A i \in Invoices : RowOK(i, row[i])'
  BY <1>2, <1>3, OthersKeep
<1>5. /\ NumbersDrawn' /\ NumbersApart' /\ MailsOK' /\ ProcessedIsOnRecord'
      /\ \A s \in Series : nextNumber'[s] # 0
  BY DEF IInv, NumbersDrawn, NumbersApart, MailsOK, ProcessedIsOnRecord
<1> QED BY <1>1, <1>4, <1>5 DEF IInv

LEMMA RotationStepsIInv ==
  ASSUME IInv, NEW q \in Rotators,
         \/ \E i \in Invoices : RotationReads(q, i)
         \/ RotationSelects(q) \/ RotationFails(q)
  PROVE  IInv'
<1>1. /\ UNCHANGED <<row, nextNumber, eventRec, handler, stamp, numbers, mails,
                     deliveries>>
      /\ rotations' \in Nat
  BY DEF IInv, TypeOK, RotationReads, RotationSelects, RotationFails, tables, history
<1>2. CASE RotationFails(q)
  <2>1. MayServe(NoRequest.invoice, NoRequest.entity, NoRequest.loaded)
    BY NoRequestFacts, NoRowFacts DEF MayServe, RowOK
  <2> QED BY <1>1, <1>2, <2>1, NoRequestFacts, RotatorIInv DEF RotationFails
<1>3. CASE RotationSelects(q)
  <2> DEFINE x == [rotator[q] EXCEPT !.loaded = row[rotator[q].invoice]]
  <2>1. /\ x \in [invoice : Invoices, entity : Row, loaded : Row]
        /\ x.invoice = rotator[q].invoice /\ x.entity = rotator[q].entity
    BY TypeFacts DEF IInv, TypeOK
  <2>2. rotator' = [rotator EXCEPT ![q] = x]
    BY <1>3 DEF RotationSelects
  <2>3. RotatorOK(q) /\ Exists(rotator[q].entity)
    BY <1>3 DEF IInv, RotationSelects
  <2> HIDE DEF x
  <2>4. MayServe(x.invoice, x.entity, x.loaded)
    BY <2>1, <2>3 DEF RotatorOK, MayServe
  <2> QED BY <1>1, <2>1, <2>2, <2>4, RotatorIInv
<1>4. ASSUME NEW i \in Invoices, RotationReads(q, i) PROVE IInv'
  <2> DEFINE x == [invoice |-> i, entity |-> row[i], loaded |-> NoRow]
  <2>1. row[i] \in Row /\ RowOK(i, row[i])
    BY TypeFacts DEF IInv
  <2>2. /\ x \in [invoice : Invoices, entity : Row, loaded : Row]
        /\ x.invoice = i /\ x.entity = row[i] /\ x.loaded = NoRow
    BY <2>1, NoRowFacts
  <2>3. rotator' = [rotator EXCEPT ![q] = x]
    BY <1>4 DEF RotationReads
  <2> HIDE DEF x
  <2>4. MayServe(x.invoice, x.entity, x.loaded)
    BY <2>1, <2>2 DEF MayServe
  <2> QED BY <1>1, <2>2, <2>3, <2>4, RotatorIInv
<1> QED BY <1>2, <1>3, <1>4

LEMMA RotationSavesIInv ==
  ASSUME IInv, NEW q \in Rotators, RotationSaves(q)
  PROVE  IInv'
<1>0. PICK i \in Invoices, r \in Row, l \in Row :
         i = rotator[q].invoice /\ r = rotator[q].entity /\ l = rotator[q].loaded
  BY TypeFacts DEF IInv
<1>1. PICK k \in Nat : k = stamp + 1 /\ stamp' = k
  BY DEF IInv, TypeOK, RotationSaves
<1> DEFINE x == [r EXCEPT !.token = k]
<1>2. RowOK(i, r) /\ Exists(r) /\ Exists(row[i])
  BY <1>0, NoRowFacts DEF IInv, RotatorOK, MayServe, RotationSaves
<1>3. /\ x \in Row /\ x.number = r.number /\ x.printed = r.printed
      /\ x.status = r.status
  BY <1>1 DEF Row
<1>4. /\ Store(i, x, l)
      /\ rotator' = [rotator EXCEPT ![q] = NoRequest]
      /\ UNCHANGED <<nextNumber, eventRec, handler, numbers, mails,
                     deliveries, rotations>>
  BY <1>0, <1>1 DEF RotationSaves
<1> HIDE DEF x
<1>5. RowOK(i, x)' /\ Exists(x)
  BY <1>2, <1>3, <1>4 DEF RowOK, Exists
<1>6. /\ row' \in [Invoices -> Row]
      /\ \A j \in Invoices : Exists(row[j]) => Exists(row'[j])
      /\ \A j \in Invoices : RowOK(j, row[j])'
      /\ \A u \in Handlers : HandlerOK(u)'
      /\ \A u \in Rotators : rotator'[u] = rotator[u] => RotatorOK(u)'
  BY <1>2, <1>3, <1>4, <1>5, StoreKeeps
<1>7. rotator'[q] = NoRequest /\ \A u \in Rotators \ {q} : rotator'[u] = rotator[u]
  BY <1>4 DEF IInv, TypeOK
<1>8. RotatorOK(q)'
  BY <1>7, NoRequestFacts, NoRowFacts DEF RotatorOK, MayServe, RowOK
<1>9. TypeOK'
  BY <1>1, <1>4, <1>6, NoRequestFacts DEF IInv, TypeOK
<1>10. ProcessedIsOnRecord'
  BY <1>4, <1>6, IssuanceAssumption DEF IInv, ProcessedIsOnRecord
<1>11. /\ NumbersDrawn' /\ NumbersApart' /\ MailsOK'
       /\ \A s \in Series : nextNumber'[s] # 0
  BY <1>4 DEF IInv, NumbersDrawn, NumbersApart, MailsOK
<1> QED BY <1>6, <1>7, <1>8, <1>9, <1>10, <1>11 DEF IInv

-----------------------------------------------------------------------------
(* The other steps *)

\* Notifications accepts the mail, whatever the handler learns of it.
LEMMA MailIInv ==
  ASSUME IInv, NEW h \in Handlers, NotifyAccepted(h) \/ NotifyUnanswered(h)
  PROVE  IInv'
<1>0. PICK i \in Invoices, r \in Row : i = Target(h) /\ r = handler[h].entity
  BY TypeFacts DEF IInv
<1>1. /\ At(h, "notify")
      /\ mails' = [mails EXCEPT ![i] =
                      @ \cup {[number |-> r.number, token |-> r.token]}]
      /\ UNCHANGED <<row, nextNumber, eventRec, rotator, stamp, numbers,
                     deliveries, rotations>>
  BY <1>0 DEF NotifyAccepted, NotifyUnanswered, Mailed, tables
<1>2. /\ r.number \in numbers[i] /\ RowOK(i, r) /\ Exists(row[i])
      /\ i = InvoiceOf[handler[h].event]
      /\ r.number # 0 /\ r.number \in Nat /\ r.token \in Nat
  BY <1>0, <1>1, KeepEntity DEF At, RowOK, Row
<1>3. mails' \in [Invoices -> SUBSET [number : Nat, token : Nat]]
  <2>1. [number |-> r.number, token |-> r.token] \in [number : Nat, token : Nat]
    BY <1>2
  <2> QED BY <1>1, <2>1 DEF IInv, TypeOK
<1>4. MailsOK'
  <2> SUFFICES ASSUME NEW j \in Invoices, NEW m \in mails'[j]
               PROVE  m.number \in numbers[j]
    BY <1>1 DEF MailsOK
  <2>1. CASE m \in mails[j]
    BY <2>1 DEF IInv, MailsOK
  <2>2. CASE m \notin mails[j]
    <3>1. j = i /\ m = [number |-> r.number, token |-> r.token]
      BY <1>1, <2>2 DEF IInv, TypeOK
    <3> QED BY <1>2, <3>1
  <2> QED BY <2>1, <2>2
<1>5. PICK x \in Handler :
         /\ handler' = [handler EXCEPT ![h] = x]
         /\ MayHold(InvoiceOf[x.event], x.pc, x.entity, x.loaded)
  <2>1. CASE NotifyAccepted(h)
    <3> DEFINE x == [pc |-> "mark", event |-> handler[h].event,
                     seen |-> handler[h].seen, entity |-> r,
                     loaded |-> NoRow, mark |-> "none"]
    <3>1. /\ x \in Handler /\ x.event = handler[h].event /\ x.pc = "mark"
          /\ x.entity = r /\ x.loaded = NoRow
      BY TypeFacts, NoRowFacts DEF IInv, Handler, PCs, Marks
    <3>2. handler' = [handler EXCEPT ![h] = x]
      BY <1>0, <2>1 DEF NotifyAccepted, Go, GoWith
    <3> HIDE DEF x
    <3>3. MayHold(InvoiceOf[x.event], x.pc, x.entity, x.loaded)
      BY <1>2, <3>1 DEF MayHold
    <3> QED BY <3>1, <3>2, <3>3
  <2>2. CASE NotifyUnanswered(h)
    <3> DEFINE x == [pc |-> "processed", event |-> handler[h].event,
                     seen |-> handler[h].seen, entity |-> NoRow,
                     loaded |-> NoRow, mark |-> "none"]
    <3>1. /\ x \in Handler /\ x.event = handler[h].event /\ x.pc = "processed"
          /\ x.entity = NoRow /\ x.loaded = NoRow
      BY TypeFacts, NoRowFacts DEF IInv, Handler, PCs, Marks
    <3>2. handler' = [handler EXCEPT ![h] = x]
      BY <2>2 DEF NotifyUnanswered, Leave, GoWith
    <3> HIDE DEF x
    <3>3. MayHold(InvoiceOf[x.event], x.pc, x.entity, x.loaded)
      BY <1>2, <3>1, NoRowFacts DEF MayHold, RowOK
    <3> QED BY <3>1, <3>2, <3>3
  <2> QED BY <2>1, <2>2
<1>6. TypeOK'
  BY <1>1, <1>3, <1>5 DEF IInv, TypeOK
<1>7. /\ handler'[h] = x
      /\ \A u \in Handlers \ {h} : handler'[u] = handler[u]
  BY <1>5 DEF IInv, TypeOK
<1>8. HandlerOK(h)'
  BY <1>1, <1>5, <1>7 DEF HandlerOK, MayHold, RowOK, Target
<1>9. /\ \A u \in Handlers : HandlerOK(u)'
      /\ \A q \in Rotators : RotatorOK(q)'
      /\ \A j \in Invoices : RowOK(j, row[j])'
  BY <1>1, <1>7, <1>8, OthersKeep
<1>10. /\ NumbersDrawn' /\ NumbersApart' /\ ProcessedIsOnRecord'
       /\ \A s \in Series : nextNumber'[s] # 0
  BY <1>1 DEF IInv, NumbersDrawn, NumbersApart, ProcessedIsOnRecord
<1> QED BY <1>4, <1>6, <1>9, <1>10 DEF IInv

\* An event is marked PROCESSED where its invoice is on record, and FAILED
\* anywhere; or its mark is left alone, whatever it has become.
LEMMA RecordIInv ==
  ASSUME IInv, NEW h \in Handlers, RecordProcessed(h) \/ RecordFailed(h)
  PROVE  IInv'
<1>0. PICK e \in Events : e = handler[h].event
  BY TypeFacts DEF IInv
<1>1. /\ UNCHANGED <<row, nextNumber, rotator, stamp, numbers, mails,
                     deliveries, rotations>>
      /\ \E m \in {"processed", "failed", eventRec[e]} :
            /\ eventRec' = [eventRec EXCEPT ![e] = m]
            /\ m = "processed" => Exists(row[InvoiceOf[e]])
  <2>1. CASE RecordProcessed(h)
    BY <1>0, <2>1, KeepEntity DEF RecordProcessed, RecordAs, At, history
  <2>2. CASE RecordFailed(h)
    BY <1>0, <2>2 DEF RecordFailed, RecordAs, history, IInv, ProcessedIsOnRecord
  <2> QED BY <2>1, <2>2
<1>2. PICK m \in Marks : /\ eventRec' = [eventRec EXCEPT ![e] = m]
                         /\ m = "processed" => Exists(row[InvoiceOf[e]])
  BY <1>1 DEF Marks, IInv, TypeOK
<1>3. PICK x \in Handler :
         /\ handler' = [handler EXCEPT ![h] = x]
         /\ x.entity = NoRow /\ x.loaded = NoRow /\ x.pc \in {"idle", "failing"}
  <2>1. CASE Return(h)
    BY <2>1, IdleFacts DEF Return
  <2>2. CASE Leave(h, "failing")
    <3> DEFINE x == [pc |-> "failing", event |-> handler[h].event,
                     seen |-> handler[h].seen, entity |-> NoRow,
                     loaded |-> NoRow, mark |-> "none"]
    <3>1. /\ x \in Handler /\ x.pc = "failing"
          /\ x.entity = NoRow /\ x.loaded = NoRow
      BY TypeFacts, NoRowFacts DEF IInv, Handler, PCs, Marks
    <3>2. handler' = [handler EXCEPT ![h] = x]
      BY <2>2 DEF Leave, GoWith
    <3> HIDE DEF x
    <3> QED BY <3>1, <3>2
  <2> QED BY <2>1, <2>2 DEF RecordProcessed, RecordFailed
<1>4. TypeOK'
  BY <1>1, <1>2, <1>3 DEF IInv, TypeOK
<1>5. /\ handler'[h] = x
      /\ \A u \in Handlers \ {h} : handler'[u] = handler[u]
  BY <1>3 DEF IInv, TypeOK
<1>6. HandlerOK(h)'
  BY <1>3, <1>5, NoRowFacts DEF HandlerOK, MayHold, RowOK
<1>7. /\ \A u \in Handlers : HandlerOK(u)'
      /\ \A q \in Rotators : RotatorOK(q)'
      /\ \A j \in Invoices : RowOK(j, row[j])'
  BY <1>1, <1>5, <1>6, OthersKeep
<1>8. ProcessedIsOnRecord'
  BY <1>1, <1>2 DEF IInv, TypeOK, ProcessedIsOnRecord
<1>9. /\ NumbersDrawn' /\ NumbersApart' /\ MailsOK'
      /\ \A s \in Series : nextNumber'[s] # 0
  BY <1>1 DEF IInv, NumbersDrawn, NumbersApart, MailsOK
<1> QED BY <1>4, <1>7, <1>8, <1>9 DEF IInv

-----------------------------------------------------------------------------
(* The inductive invariant *)

LEMMA InitIInv == Init => IInv
<1> SUFFICES ASSUME Init PROVE IInv
  OBVIOUS
<1>1. TypeOK
  BY NoRowFacts, IdleFacts, NoRequestFacts DEF Init, TypeOK, Marks
<1>2. /\ \A s \in Series : nextNumber[s] # 0
      /\ NumbersDrawn /\ NumbersApart /\ MailsOK /\ ProcessedIsOnRecord
  BY DEF Init, NumbersDrawn, NumbersApart, MailsOK, ProcessedIsOnRecord
<1>3. \A i \in Invoices : RowOK(i, row[i])
  BY NoRowFacts DEF Init, RowOK
<1>4. \A h \in Handlers : HandlerOK(h)
  BY NoRowFacts, IdleFacts DEF Init, HandlerOK, MayHold, RowOK
<1>5. \A q \in Rotators : RotatorOK(q)
  BY NoRowFacts, NoRequestFacts DEF Init, RotatorOK, MayServe, RowOK
<1> QED BY <1>1, <1>2, <1>3, <1>4, <1>5 DEF IInv

LEMMA NextIInv == IInv /\ [Next]_vars => IInv'
<1> SUFFICES ASSUME IInv, [Next]_vars PROVE IInv'
  OBVIOUS
<1>1. ASSUME NEW h \in Handlers, NEW e \in Events,
             Receive(h, e) \/ ReceiveProcessed(h, e)
      PROVE  IInv'
  BY <1>1, ReceiveIInv, ReceiveProcessedIInv
<1>2. ASSUME NEW h \in Handlers, Handle(h) PROVE IInv'
  BY <1>2, ReadIInv, SelectIInv, SaveBlockedIInv, CommitInvoiceIInv, MailIInv,
     MarkSentIInv, RecordIInv, VanishIInv DEF Handle
<1>3. ASSUME NEW q \in Rotators, NEW i \in Invoices, RotationReads(q, i)
      PROVE  IInv'
  BY <1>3, RotationStepsIInv
<1>4. ASSUME NEW q \in Rotators, Rotate(q) PROVE IInv'
  BY <1>4, RotationStepsIInv, RotationSavesIInv DEF Rotate
<1>5. CASE UNCHANGED vars
  <2>1. UNCHANGED <<row, nextNumber, eventRec, handler, rotator, stamp, numbers,
                    mails, deliveries, rotations>>
    BY <1>5 DEF vars
  <2>2. /\ \A u \in Handlers : HandlerOK(u)'
        /\ \A q \in Rotators : RotatorOK(q)'
        /\ \A j \in Invoices : RowOK(j, row[j])'
    BY <2>1, OthersKeep
  <2> QED BY <2>1, <2>2 DEF IInv, TypeOK, NumbersDrawn, NumbersApart, MailsOK,
      ProcessedIsOnRecord
<1> QED BY <1>1, <1>2, <1>3, <1>4, <1>5 DEF Next, Rest

THEOREM Inductive == Spec => []IInv
  BY InitIInv, NextIInv, PTL DEF Spec

-----------------------------------------------------------------------------
(* What follows from it *)

\* Every step leaves the tables, the handlers and the link requests with
\* values of their types.
THEOREM TypeCorrect == Spec => []TypeOK
<1>1. IInv => TypeOK
  BY DEF IInv
<1> QED BY <1>1, Inductive, PTL

\* Whatever overlaps, fails or is retried, and however saves mix their columns,
\* no number is ever drawn for, mailed for, stored in or printed on two invoices
\* of a series.
THEOREM NumbersUnique == Spec => []NumbersNeverShared
<1>1. ASSUME IInv, NEW i \in Invoices PROVE Carried(i) \subseteq numbers[i]
  BY <1>1 DEF IInv, Carried, MailsOK, RowOK
<1>2. IInv => NumbersNeverShared
  BY <1>1 DEF IInv, NumbersApart, NumbersNeverShared
<1> QED BY <1>2, Inductive, PTL

\* The deduplication by event never hides an event that left no row behind.
THEOREM DedupeIsSound == Spec => []ProcessedIsOnRecord
<1>1. IInv => ProcessedIsOnRecord
  BY DEF IInv
<1> QED BY <1>1, Inductive, PTL

-----------------------------------------------------------------------------
(* Issuance implements EventRecords *)

\* A save of an existing row puts its invoice on record, or leaves it there.
LEMMA StoreRecords ==
  ASSUME IInv, NEW i \in Invoices, NEW r \in Row, NEW l \in Row, Store(i, r, l),
         Exists(r), Exists(row[i]) \/ l = NoRow, UNCHANGED eventRec
  PROVE  Records!PutOnRecord(i)
<1>1. PICK x : x = Merge(r, l, row[i]) /\ Exists(x)
  BY TypeFacts, MergeFacts DEF IInv
<1>2. row' = [row EXCEPT ![i] = x] /\ row \in [Invoices -> Row]
  BY <1>1 DEF Store, IInv, TypeOK
<1> DEFINE onRecord == [j \in Invoices |-> Exists(row[j])]
<1>3. \A j \in Invoices : row'[j] = IF j = i THEN x ELSE row[j]
  BY <1>2
<1>4. [j \in Invoices |-> Exists(row'[j])] = [onRecord EXCEPT ![i] = TRUE]
  BY <1>1, <1>3 DEF Exists
<1> QED BY <1>4 DEF Records!PutOnRecord

LEMMA RecordsNext ==
  ASSUME IInv, [Next]_vars
  PROVE  [Records!Next]_<<eventRec, [i \in Invoices |-> Exists(row[i])]>>
<1>1. ASSUME UNCHANGED <<row, eventRec>>
      PROVE  UNCHANGED <<eventRec, [i \in Invoices |-> Exists(row[i])]>>
  BY <1>1
<1>2. ASSUME NEW h \in Handlers
      PROVE  /\ Target(h) \in Invoices
             /\ handler[h].entity \in Row /\ handler[h].loaded \in Row
             /\ Exists(row[Target(h)]) \/ handler[h].loaded = NoRow
  BY TypeFacts, KeepEntity DEF IInv
<1>3. ASSUME NEW h \in Handlers, SaveBlocked(h) PROVE Records!Next
  <2> DEFINE r == [handler[h].entity EXCEPT !.status = "blocked"]
  <2>1. r \in Row /\ Exists(r)
    BY <1>2 DEF Row, Statuses, Exists
  <2>2. Store(Target(h), r, handler[h].loaded) /\ UNCHANGED eventRec
    BY <1>3 DEF SaveBlocked
  <2> HIDE DEF r
  <2>3. Records!PutOnRecord(Target(h))
    BY <1>2, <2>1, <2>2, StoreRecords
  <2> QED BY <1>2, <2>3 DEF Records!Next
<1>4. ASSUME NEW h \in Handlers, CommitInvoice(h) PROVE Records!Next
  <2>1. PICK r \in Row : r = Rendered(NumberFor(h)) /\ Exists(r)
    <3>1. NumberFor(h) \in Nat /\ stamp + 1 \in Nat
      BY <1>2, TypeFacts DEF IInv, TypeOK, NumberFor, Row
    <3>2. ASSUME NEW n \in Nat PROVE Rendered(n) \in Row /\ Exists(Rendered(n))
      BY <3>1 DEF Rendered, Row, Statuses, Exists
    <3> QED BY <3>1, <3>2
  <2>2. Store(Target(h), r, handler[h].loaded) /\ UNCHANGED eventRec
    BY <1>4, <2>1 DEF CommitInvoice
  <2>3. Records!PutOnRecord(Target(h))
    BY <1>2, <2>1, <2>2, StoreRecords
  <2> QED BY <1>2, <2>3 DEF Records!Next
<1>5. ASSUME NEW h \in Handlers, MarkSent(h) PROVE Records!Next
  <2> DEFINE r == [handler[h].entity EXCEPT !.status = "sent"]
  <2>1. r \in Row /\ Exists(r)
    BY <1>2 DEF Row, Statuses, Exists
  <2>2. Store(Target(h), r, handler[h].loaded) /\ UNCHANGED eventRec
    BY <1>5 DEF MarkSent
  <2> HIDE DEF r
  <2>3. Records!PutOnRecord(Target(h))
    BY <1>2, <2>1, <2>2, StoreRecords
  <2> QED BY <1>2, <2>3 DEF Records!Next
<1>6. ASSUME NEW q \in Rotators, RotationSaves(q) PROVE Records!Next
  <2> DEFINE r == [rotator[q].entity EXCEPT !.token = stamp + 1]
             i == rotator[q].invoice
  <2>1. /\ i \in Invoices /\ rotator[q].entity \in Row /\ rotator[q].loaded \in Row
        /\ stamp \in Nat
    BY TypeFacts DEF IInv, TypeOK
  <2>2. Exists(rotator[q].entity) /\ Exists(row[i])
    BY <1>6, NoRowFacts DEF IInv, RotatorOK, MayServe, RotationSaves
  <2>3. r \in Row /\ Exists(r)
    BY <2>1, <2>2 DEF Row, Exists
  <2>4. Store(i, r, rotator[q].loaded) /\ UNCHANGED eventRec
    BY <1>6 DEF RotationSaves
  <2> HIDE DEF r, i
  <2>5. Records!PutOnRecord(i)
    BY <2>1, <2>2, <2>3, <2>4, StoreRecords
  <2> QED BY <2>1, <2>5 DEF Records!Next
<1>7. ASSUME NEW h \in Handlers, RecordProcessed(h)
      PROVE  Records!Next \/ UNCHANGED <<row, eventRec>>
  <2>1. /\ Exists(row[Target(h)]) /\ handler[h].event \in Events
        /\ Target(h) = InvoiceOf[handler[h].event] /\ Target(h) \in Invoices
    BY <1>7, TypeFacts, KeepEntity DEF IInv, RecordProcessed, At
  <2>2. UNCHANGED row /\ UNCHANGED [i \in Invoices |-> Exists(row[i])]
    BY <1>7 DEF RecordProcessed
  <2>3. eventRec \in [Events -> Marks]
    BY DEF IInv, TypeOK
  <2>4. \/ eventRec' = [eventRec EXCEPT ![handler[h].event] = "processed"]
        \/ UNCHANGED eventRec
    BY <1>7, <2>1, <2>3 DEF RecordProcessed, RecordAs
  <2>5. ASSUME eventRec' = [eventRec EXCEPT ![handler[h].event] = "processed"]
        PROVE  Records!MarkProcessed(handler[h].event)
    BY <2>1, <2>2, <2>5 DEF Records!MarkProcessed
  <2> QED BY <2>1, <2>2, <2>4, <2>5 DEF Records!Next
<1>8. ASSUME NEW h \in Handlers, RecordFailed(h)
      PROVE  Records!Next \/ UNCHANGED <<row, eventRec>>
  <2>1. handler[h].event \in Events /\ eventRec \in [Events -> Marks]
    BY TypeFacts DEF IInv, TypeOK
  <2>2. UNCHANGED row /\ UNCHANGED [i \in Invoices |-> Exists(row[i])]
    BY <1>8 DEF RecordFailed
  <2>3. \/ eventRec' = [eventRec EXCEPT ![handler[h].event] = "failed"]
        \/ UNCHANGED eventRec
    BY <1>8, <2>1 DEF RecordFailed, RecordAs
  <2>4. ASSUME eventRec' = [eventRec EXCEPT ![handler[h].event] = "failed"]
        PROVE  Records!MarkFailed(handler[h].event)
    BY <2>2, <2>4 DEF Records!MarkFailed
  <2> QED BY <2>1, <2>2, <2>3, <2>4 DEF Records!Next
<1>9. ASSUME NEW h \in Handlers, Handle(h), ~ SaveBlocked(h),
             ~ CommitInvoice(h), ~ MarkSent(h), ~ RecordProcessed(h),
             ~ RecordFailed(h)
      PROVE  UNCHANGED <<row, eventRec>>
  BY <1>9 DEF Handle, FindIssued, FindOpen, OrderBlocks, OrderComplete,
     FetchPayment, SaveSelects, BeginTransaction, NotifyAccepted,
     NotifyUnanswered, NotifyFails, RecordSelects, Conflict, Fail, Vanish, tables
<1>10. ASSUME NEW h \in Handlers, NEW e \in Events,
              Receive(h, e) \/ ReceiveProcessed(h, e)
       PROVE  UNCHANGED <<row, eventRec>>
  BY <1>10 DEF Receive, ReceiveProcessed, tables
<1>11. ASSUME NEW q \in Rotators,
              \/ RotationFails(q) \/ RotationSelects(q)
              \/ \E i \in Invoices : RotationReads(q, i)
       PROVE  UNCHANGED <<row, eventRec>>
  BY <1>11 DEF RotationFails, RotationSelects, RotationReads, tables
<1>12. CASE UNCHANGED vars
  BY <1>1, <1>12 DEF vars
<1> QED BY <1>1, <1>3, <1>4, <1>5, <1>6, <1>7, <1>8, <1>9, <1>10, <1>11, <1>12
        DEF Next, Rest, Rotate

\* Whatever overlaps, crashes or fails, issuance keeps the promise its callers
\* are built on: invoices stay on record, and an event is PROCESSED only after.
THEOREM RecordsRefinement == Spec => ImplementsEventRecords
<1>1. Init => Records!Init
  <2> SUFFICES ASSUME Init PROVE Records!Init
    OBVIOUS
  <2>1. \A i \in Invoices : row[i].status = "none"
    BY DEF Init, NoRow
  <2>2. [i \in Invoices |-> Exists(row[i])] = [i \in Invoices |-> FALSE]
    BY <2>1 DEF Exists
  <2> QED BY <2>2 DEF Init, Records!Init
<1>2. IInv /\ [Next]_vars
         => [Records!Next]_<<eventRec, [i \in Invoices |-> Exists(row[i])]>>
  BY RecordsNext
<1> QED BY <1>1, <1>2, Inductive, PTL
        DEF Spec, ImplementsEventRecords, Records!Spec

=============================================================================
