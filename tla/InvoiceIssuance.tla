---------------------------- MODULE InvoiceIssuance ----------------------------
(***************************************************************************)
(* InvoicesService: the handling of Orders events, from the lookup of the  *)
(* event record to its PROCESSED or FAILED mark, and the rotation of       *)
(* download links, over the tables invoice_documents,                      *)
(* invoice_event_records and invoice_sequence_counters.                    *)
(*                                                                         *)
(* A handler is one execution of handleOrdersEvent: the broker's consumer, *)
(* the HTTP ingestion route, or the same in the second pod of a rolling    *)
(* update. It holds entities in memory across its awaits, and every await  *)
(* is a point where the others act: so one action is the code from one     *)
(* await to the next.                                                      *)
(*                                                                         *)
(* TypeORM's save of an entity that has an id is two statements: a SELECT  *)
(* by id, and an UPDATE of the columns in which the entity differs from    *)
(* what was selected, over whatever the row has become meanwhile. So two   *)
(* saves that overlap can mix their columns. The save of an entity that    *)
(* has no id is an INSERT the unique constraints may refuse. Either may    *)
(* take effect and its answer be lost, which the code sees as an           *)
(* exception.                                                              *)
(*                                                                         *)
(* A transaction that draws a number holds the counter's row from the      *)
(* allocation to the commit, as InvoiceNumbering checks statement by       *)
(* statement; so nobody else draws from the series between its SELECT and  *)
(* its UPDATE.                                                             *)
(***************************************************************************)
EXTENDS Naturals, FiniteSets

CONSTANTS
    Handlers,       \* concurrent executions of handleOrdersEvent
    Rotators,       \* concurrent download-link requests
    Events,         \* Orders events, by eventId
    Invoices,       \* the (orderId, type) pairs
    Series,         \* the (type, year) pairs
    InvoiceOf,      \* InvoiceOf[e]: the invoice event e asks for
    SeriesOf,       \* SeriesOf[i]: the series invoice i is numbered in
    FinalInvoices,  \* the invoices of type final
    MaxDeliveries,  \* bound: times an event reaches a handler
    MaxRotations    \* bound: link rotations begun

ASSUME IssuanceAssumption ==
    /\ Events # {}
    /\ InvoiceOf \in [Events -> Invoices]
    /\ SeriesOf \in [Invoices -> Series]
    /\ FinalInvoices \subseteq Invoices
    /\ \A i, j \in Invoices :
          SeriesOf[i] = SeriesOf[j] => (i \in FinalInvoices <=> j \in FinalInvoices)
    /\ MaxDeliveries \in Nat
    /\ MaxRotations \in Nat

VARIABLES
    row,        \* invoice_documents, by (orderId, type)
    nextNumber, \* invoice_sequence_counters: the series' next number
    eventRec,   \* invoice_event_records, by sourceEventId
    handler,    \* what each execution of handleOrdersEvent is doing
    rotator,    \* what each download-link request is doing
    stamp,      \* tokens generated so far; names tokens and documents
    numbers,    \* history: numbers committed invoices have carried
    mails,      \* history: the invoice-ready mails Notifications accepted
    deliveries, \* history: times each event reached a handler
    rotations   \* history: rotations begun

vars == <<row, nextNumber, eventRec, handler, rotator, stamp,
          numbers, mails, deliveries, rotations>>

tables == <<row, nextNumber, eventRec>>
history == <<stamp, numbers, mails, deliveries, rotations>>

-----------------------------------------------------------------------------
(* Rows. 0 stands for NULL. A document is named by the token generated with  *)
(* it, and remembers the number printed on it.                               *)

Statuses == {"none", "blocked", "delivery_pending", "sent"}

Row == [status : Statuses, number : Nat, doc : Nat, printed : Nat, token : Nat]

NoRow ==
    [status |-> "none", number |-> 0, doc |-> 0, printed |-> 0, token |-> 0]

Exists(r) == r.status # "none"

\* existing && existing.status !== BLOCKED
Issued(r) == r.status \in {"delivery_pending", "sent"}

PCs == {"idle", "find", "order", "block", "payment", "begin", "commit",
        "notify", "mark", "processed", "failing"}

Marks == {"none", "failed", "processed"}

\* What an execution of handleOrdersEvent has in memory: the event, its record
\* when it arrived, the row it is to save; and what the SELECT of a save under
\* way saw of the row (loaded) or of the event's record (mark).
Handler == [pc : PCs, event : Events, seen : {"none", "failed"},
            entity : Row, loaded : Row, mark : Marks]

TypeOK ==
    /\ row \in [Invoices -> Row]
    /\ nextNumber \in [Series -> Nat]
    /\ eventRec \in [Events -> Marks]
    /\ handler \in [Handlers -> Handler]
    /\ rotator \in [Rotators -> [invoice : Invoices, entity : Row, loaded : Row]]
    /\ stamp \in Nat
    /\ numbers \in [Invoices -> SUBSET Nat]
    /\ mails \in [Invoices -> SUBSET [number : Nat, token : Nat]]
    /\ deliveries \in [Events -> Nat]
    /\ rotations \in Nat

\* An execution that is not running, a request that is not being served.
Idle == [pc |-> "idle", event |-> CHOOSE e \in Events : TRUE, seen |-> "none",
         entity |-> NoRow, loaded |-> NoRow, mark |-> "none"]

NoRequest == [invoice |-> CHOOSE i \in Invoices : TRUE,
              entity |-> NoRow, loaded |-> NoRow]

Init ==
    /\ row = [i \in Invoices |-> NoRow]
    /\ nextNumber = [s \in Series |-> 1]
    /\ eventRec = [e \in Events |-> "none"]
    /\ handler = [h \in Handlers |-> Idle]
    /\ rotator = [r \in Rotators |-> NoRequest]
    /\ stamp = 0
    /\ numbers = [i \in Invoices |-> {}]
    /\ mails = [i \in Invoices |-> {}]
    /\ deliveries = [e \in Events |-> 0]
    /\ rotations = 0

-----------------------------------------------------------------------------
(* Handlers *)

At(h, pc) == handler[h].pc = pc

Target(h) == InvoiceOf[handler[h].event]

\* h goes on to pc, holding the entity r; no save is under way.
GoWith(h, pc, r) ==
    handler' = [handler EXCEPT ![h] =
        [pc |-> pc, event |-> handler[h].event, seen |-> handler[h].seen,
         entity |-> r, loaded |-> NoRow, mark |-> "none"]]

Go(h, pc) == GoWith(h, pc, handler[h].entity)

\* issueInvoiceForEvent returns (pc is "processed") or throws ("failing").
Leave(h, pc) == GoWith(h, pc, NoRow)

\* handleOrdersEvent returns, or throws to its caller; either way h is done.
Return(h) == handler' = [handler EXCEPT ![h] = Idle]

-----------------------------------------------------------------------------
(* handleOrdersEvent: deduplication by event *)

\* Deviation: the event is marked PROCESSED when it is received.
ReceiveMarking(h, e) ==
    /\ At(h, "idle")
    /\ deliveries[e] < MaxDeliveries
    /\ eventRec[e] # "processed"
    /\ eventRec' = [eventRec EXCEPT ![e] = "processed"]
    /\ deliveries' = [deliveries EXCEPT ![e] = @ + 1]
    /\ handler' = [handler EXCEPT ![h] =
          [Idle EXCEPT !.pc = "find", !.event = e, !.seen = "failed"]]
    /\ UNCHANGED <<row, nextNumber, rotator, stamp, numbers, mails, rotations>>

\* A valid event arrives; its record is read and is not PROCESSED.
Receive(h, e) ==
    /\ At(h, "idle")
    /\ deliveries[e] < MaxDeliveries
    /\ eventRec[e] # "processed"
    /\ deliveries' = [deliveries EXCEPT ![e] = @ + 1]
    /\ handler' = [handler EXCEPT ![h] =
          [Idle EXCEPT !.pc = "find", !.event = e, !.seen = eventRec[e]]]
    /\ UNCHANGED <<tables, rotator, stamp, numbers, mails, rotations>>

\* Its record is PROCESSED: the handler answers "deduped" and does nothing.
ReceiveProcessed(h, e) ==
    /\ At(h, "idle")
    /\ deliveries[e] < MaxDeliveries
    /\ eventRec[e] = "processed"
    /\ deliveries' = [deliveries EXCEPT ![e] = @ + 1]
    /\ UNCHANGED <<tables, handler, rotator, stamp, numbers, mails, rotations>>

-----------------------------------------------------------------------------
(* issueInvoiceForEvent: deduplication by (orderId, type), issuance inputs *)

\* The invoice is issued already: nothing is rendered, stored or mailed.
FindIssued(h) ==
    /\ At(h, "find")
    /\ Issued(row[Target(h)])
    /\ Leave(h, "processed")
    /\ UNCHANGED <<tables, rotator, history>>

\* Deviation: no look at the status of the row found.
FindAny(h) ==
    /\ At(h, "find")
    /\ GoWith(h, "order", row[Target(h)])
    /\ UNCHANGED <<tables, rotator, history>>

\* There is no row, or a BLOCKED one, which h keeps in memory as `existing`.
FindOpen(h) ==
    /\ At(h, "find")
    /\ ~ Issued(row[Target(h)])
    /\ GoWith(h, "order", row[Target(h)])
    /\ UNCHANGED <<tables, rotator, history>>

\* Orders cannot be read, or the seller or the order lack what an invoice
\* must state, or a final invoice's order is not paid.
OrderBlocks(h) ==
    /\ At(h, "order")
    /\ Go(h, "block")
    /\ UNCHANGED <<tables, rotator, history>>

\* The order is complete; a final invoice reads the payment before it goes on.
OrderComplete(h) ==
    /\ At(h, "order")
    /\ Go(h, IF Target(h) \in FinalInvoices THEN "payment" ELSE "begin")
    /\ UNCHANGED <<tables, rotator, history>>

\* A snapshot, or null when Payments does not answer: both go on. (It throws
\* when the token is not configured: Fail.)
FetchPayment(h) ==
    /\ At(h, "payment")
    /\ Go(h, "begin")
    /\ UNCHANGED <<tables, rotator, history>>

-----------------------------------------------------------------------------
(* repository.save *)

\* The row after the UPDATE of a save of r, whose SELECT saw l, over c. An HTML
\* and PDF differ with every token, and the number printed is part of them.
Merge(r, l, c) ==
    [status  |-> IF r.status # l.status THEN r.status ELSE c.status,
     number  |-> IF r.number # l.number THEN r.number ELSE c.number,
     doc     |-> IF r.doc # l.doc THEN r.doc ELSE c.doc,
     printed |-> IF r.doc # l.doc THEN r.printed ELSE c.printed,
     token   |-> IF r.token # l.token THEN r.token ELSE c.token]

\* The UPDATE, or INSERT, of invoice i's row.
Store(i, r, l) == row' = [row EXCEPT ![i] = Merge(r, l, row[i])]

\* h is about to save its entity as a row that exists.
Selecting == {"block", "commit", "mark"}

\* The transaction of h draws a number, and holds the counter's row already.
HoldsCounter(h) ==
    At(h, "commit") /\ Exists(handler[h].loaded) /\ handler[h].entity.number = 0

\* The transaction of h draws none, or no other one keeps it waiting.
CounterFree(h) ==
    \/ handler[h].entity.number # 0
    \/ \A u \in Handlers \ {h} :
          HoldsCounter(u) => SeriesOf[Target(u)] # SeriesOf[Target(h)]

\* The SELECT of a save; in the issuing transaction it follows the allocation.
SaveSelects(h) ==
    /\ handler[h].pc \in Selecting
    /\ Exists(handler[h].entity) /\ ~ Exists(handler[h].loaded)
    /\ At(h, "commit") => CounterFree(h)
    /\ handler' = [handler EXCEPT ![h].loaded = row[Target(h)]]
    /\ UNCHANGED <<tables, rotator, history>>

\* h's save has selected, or has nothing to select: it is an INSERT.
Selected(h) == Exists(handler[h].entity) => Exists(handler[h].loaded)

\* save of h's entity would be the INSERT of a second row of (orderId, type).
InsertConflicts(h) == ~ Exists(handler[h].entity) /\ Exists(row[Target(h)])

\* h after a save that took effect: its answer may be lost.
Saved(h, pc, r) == GoWith(h, pc, r) \/ Leave(h, "failing")

\* saveBlockedInvoice: `existing`, or a new entity, saved as BLOCKED.
SaveBlocked(h) ==
    LET record == [handler[h].entity EXCEPT !.status = "blocked"] IN
    /\ At(h, "block")
    /\ Selected(h) /\ ~ InsertConflicts(h)
    /\ Store(Target(h), record, handler[h].loaded)
    /\ Saved(h, "processed", NoRow)
    /\ UNCHANGED <<nextNumber, eventRec, rotator, history>>

-----------------------------------------------------------------------------
(* issueInvoiceForEvent: the issuing transaction *)

\* `existing` if there was a BLOCKED row; else the row, read in the transaction.
BeginTransaction(h) ==
    LET existing == handler[h].entity IN
    /\ At(h, "begin")
    /\ GoWith(h, "commit",
              IF Exists(existing) THEN existing ELSE row[Target(h)])
    /\ UNCHANGED <<tables, rotator, history>>

\* record.invoiceNumber || allocate(...)
NumberFor(h) ==
    LET record == handler[h].entity IN
    IF record.number # 0 THEN record.number
                         ELSE nextNumber[SeriesOf[Target(h)]]

\* Deviation: the row is left with the unused status of the enumeration.
RenderedAsIssued(n) ==
    [status |-> "issued", number |-> n,
     doc |-> stamp + 1, printed |-> n, token |-> stamp + 1]

\* The entity save writes: rendered under number n with a new token.
Rendered(n) ==
    [status |-> "delivery_pending", number |-> n,
     doc |-> stamp + 1, printed |-> n, token |-> stamp + 1]

\* Deviation: the incremented counter is not saved.
AllocateUnsaved(h) == nextNumber' = nextNumber

\* allocate moves the counter of the series when the record has no number.
Allocate(h) ==
    nextNumber' = IF handler[h].entity.number # 0 THEN nextNumber
                  ELSE [nextNumber EXCEPT ![SeriesOf[Target(h)]] = @ + 1]

\* The document rendered under the number drawn is saved, and the transaction
\* commits; h keeps the entity, not the row, as `invoice`.
CommitInvoice(h) ==
    LET i == Target(h)
        n == NumberFor(h) IN
    /\ At(h, "commit")
    /\ Selected(h) /\ ~ InsertConflicts(h) /\ CounterFree(h)
    /\ Allocate(h)
    /\ Store(i, Rendered(n), handler[h].loaded)
    /\ stamp' = stamp + 1
    /\ numbers' = [numbers EXCEPT ![i] = @ \cup {n}]
    /\ Saved(h, "notify", Rendered(n))
    /\ UNCHANGED <<eventRec, rotator, mails, deliveries, rotations>>

-----------------------------------------------------------------------------
(* issueInvoiceForEvent: delivery *)

\* Notifications has accepted the mail with the number and the link of m.
Mailed(i, m) ==
    mails' = [mails EXCEPT ![i] =
                 @ \cup {[number |-> m.number, token |-> m.token]}]

\* sendInvoiceReady returns true.
NotifyAccepted(h) ==
    /\ At(h, "notify")
    /\ Mailed(Target(h), handler[h].entity)
    /\ Go(h, "mark")
    /\ UNCHANGED <<tables, rotator, stamp, numbers, deliveries, rotations>>

\* It returns false, and the mail was accepted all the same: a timeout, or an
\* answer lost.
NotifyUnanswered(h) ==
    /\ At(h, "notify")
    /\ Mailed(Target(h), handler[h].entity)
    /\ Leave(h, "processed")
    /\ UNCHANGED <<tables, rotator, stamp, numbers, deliveries, rotations>>

\* Deviation: the answer of sendInvoiceReady is not looked at.
NotifyFailsUnseen(h) ==
    /\ At(h, "notify")
    /\ Go(h, "mark")
    /\ UNCHANGED <<tables, rotator, history>>

\* It returns false and no mail left: not configured, no recipient, refused.
NotifyFails(h) ==
    /\ At(h, "notify")
    /\ Leave(h, "processed")
    /\ UNCHANGED <<tables, rotator, history>>

\* invoice.status = SENT, saved.
MarkSent(h) ==
    LET invoice == [handler[h].entity EXCEPT !.status = "sent"] IN
    /\ At(h, "mark") /\ Selected(h)
    /\ Store(Target(h), invoice, handler[h].loaded)
    /\ Saved(h, "processed", NoRow)
    /\ UNCHANGED <<nextNumber, eventRec, rotator, history>>

-----------------------------------------------------------------------------
(* handleOrdersEvent: the event record *)

\* The record is an INSERT when none was seen: eventId is unique.
RecordConflicts(h) ==
    handler[h].seen = "none" /\ eventRec[handler[h].event] # "none"

\* The SELECT of a save of the record seen.
RecordSelects(h) ==
    /\ handler[h].pc \in {"processed", "failing"}
    /\ handler[h].seen # "none" /\ handler[h].mark = "none"
    /\ handler' = [handler EXCEPT ![h].mark = eventRec[handler[h].event]]
    /\ UNCHANGED <<tables, rotator, history>>

\* The INSERT of the event's record, or the UPDATE of its mark, which leaves the
\* mark alone if the SELECT saw it as it should be.
RecordAs(h, m) ==
    /\ handler[h].seen # "none" => handler[h].mark # "none"
    /\ ~ RecordConflicts(h)
    /\ eventRec' = [eventRec EXCEPT ![handler[h].event] =
                       IF handler[h].mark = m THEN @ ELSE m]

\* Issued or blocked, the event is PROCESSED; handleOrdersEvent returns.
RecordProcessed(h) ==
    /\ At(h, "processed")
    /\ RecordAs(h, "processed")
    /\ Return(h) \/ Leave(h, "failing")
    /\ UNCHANGED <<row, nextNumber, rotator, history>>

\* The catch block marks the event FAILED; handleOrdersEvent throws.
RecordFailed(h) ==
    /\ At(h, "failing")
    /\ RecordAs(h, "failed")
    /\ Return(h)
    /\ UNCHANGED <<row, nextNumber, rotator, history>>

\* A save of the three above, or the COMMIT, meets a unique constraint.
Conflict(h) ==
    /\ \/ At(h, "block") /\ InsertConflicts(h)
       \/ At(h, "commit") /\ InsertConflicts(h)
       \/ At(h, "processed") /\ RecordConflicts(h)
    /\ Leave(h, "failing")
    /\ UNCHANGED <<tables, rotator, history>>

\* Deviation: the number is allocated outside the issuing transaction, and so
\* survives its rollback.
FailAfterAllocation(h) ==
    /\ At(h, "commit")
    /\ Allocate(h)
    /\ Leave(h, "failing")
    /\ UNCHANGED <<row, eventRec, rotator, history>>

\* Deviation: the mail is sent inside the issuing transaction, before COMMIT.
FailAfterMail(h) ==
    /\ At(h, "commit")
    /\ Mailed(Target(h), Rendered(NumberFor(h)))
    /\ Leave(h, "failing")
    /\ UNCHANGED <<tables, rotator, stamp, numbers, deliveries, rotations>>

\* Any other awaited call throws, with no effect on the tables: the database
\* refuses a statement, the transaction is rolled back, the PDF is not drawn,
\* PAYMENTS_SERVICE_TOKEN is missing. sendInvoiceReady never throws.
Fail(h) ==
    /\ handler[h].pc \in {"find", "block", "payment", "begin", "commit",
                          "mark", "processed"}
    /\ Leave(h, "failing")
    /\ UNCHANGED <<tables, rotator, history>>

\* The FAILED mark cannot be saved either (another handler has recorded the
\* event, or the database is down), or the process stops at any await: what h
\* held in memory is lost and nothing more is written.
Vanish(h) ==
    /\ ~ At(h, "idle")
    /\ Return(h)
    /\ UNCHANGED <<tables, rotator, history>>

-----------------------------------------------------------------------------
(* createDownloadLinks and rotateDownloadLinks *)

\* The request reads the row of an invoice that has a document.
RotationReads(r, i) ==
    /\ rotator[r] = NoRequest
    /\ rotations < MaxRotations
    /\ row[i].doc # 0
    /\ rotator' = [rotator EXCEPT ![r] =
          [invoice |-> i, entity |-> row[i], loaded |-> NoRow]]
    /\ rotations' = rotations + 1
    /\ UNCHANGED <<tables, handler, stamp, numbers, mails, deliveries>>

\* It saves the entity with a new token: the SELECT.
RotationSelects(r) ==
    /\ Exists(rotator[r].entity) /\ ~ Exists(rotator[r].loaded)
    /\ rotator' = [rotator EXCEPT ![r].loaded = row[rotator[r].invoice]]
    /\ UNCHANGED <<tables, handler, history>>

\* The UPDATE; the request is answered with the new link.
RotationSaves(r) ==
    LET invoice == [rotator[r].entity EXCEPT !.token = stamp + 1] IN
    /\ Exists(rotator[r].loaded)
    /\ Store(rotator[r].invoice, invoice, rotator[r].loaded)
    /\ stamp' = stamp + 1
    /\ rotator' = [rotator EXCEPT ![r] = NoRequest]
    /\ UNCHANGED <<nextNumber, eventRec, handler,
                   numbers, mails, deliveries, rotations>>

\* The save fails, or the process stops: no link is answered.
RotationFails(r) ==
    /\ Exists(rotator[r].entity)
    /\ rotator' = [rotator EXCEPT ![r] = NoRequest]
    /\ UNCHANGED <<tables, handler, history>>

-----------------------------------------------------------------------------

\* Nothing runs. Without it TLC would report the end of the deliveries the
\* bounds allow as a deadlock.
Rest ==
    /\ \A h \in Handlers : At(h, "idle")
    /\ \A r \in Rotators : rotator[r] = NoRequest
    /\ UNCHANGED vars

Handle(h) ==
    \/ FindIssued(h) \/ FindOpen(h)
    \/ OrderBlocks(h) \/ OrderComplete(h) \/ FetchPayment(h)
    \/ SaveSelects(h)
    \/ SaveBlocked(h) \/ BeginTransaction(h) \/ CommitInvoice(h)
    \/ NotifyAccepted(h) \/ NotifyUnanswered(h) \/ NotifyFails(h)
    \/ MarkSent(h)
    \/ RecordSelects(h) \/ RecordProcessed(h) \/ RecordFailed(h)
    \/ Conflict(h) \/ Fail(h) \/ Vanish(h)

Rotate(r) == RotationSelects(r) \/ RotationSaves(r) \/ RotationFails(r)

Next ==
    \/ \E h \in Handlers, e \in Events : Receive(h, e) \/ ReceiveProcessed(h, e)
    \/ \E h \in Handlers : Handle(h)
    \/ \E r \in Rotators, i \in Invoices : RotationReads(r, i)
    \/ \E r \in Rotators : Rotate(r)
    \/ Rest

Spec == Init /\ [][Next]_vars

-----------------------------------------------------------------------------
(* Properties that hold whatever runs concurrently *)

\* Every number an invoice has been issued under, was announced with, or has in
\* its row or printed on its document now.
Carried(i) ==
    (numbers[i] \cup {m.number : m \in mails[i]}
        \cup {row[i].number, row[i].printed}) \ {0}

\* No two invoices of a series ever carry the same number (INV-INV-002): not in
\* a mail that left before a failure, not in a row two saves have mixed, not
\* when one of them is given another number later.
NumbersNeverShared ==
    \A i, j \in Invoices :
        i # j /\ SeriesOf[i] = SeriesOf[j] => Carried(i) \cap Carried(j) = {}

\* An event is PROCESSED only when its invoice is on record, issued or blocked:
\* the dedupe never hides an event that left nothing behind.
ProcessedIsOnRecord ==
    \A e \in Events : eventRec[e] = "processed" => Exists(row[InvoiceOf[e]])

Records == INSTANCE EventRecords WITH
    onRecord <- [i \in Invoices |-> Exists(row[i])]

\* Seen through the two tables alone, issuance puts invoices on record for good
\* and marks an event PROCESSED only after: what its callers count on.
ImplementsEventRecords == Records!Spec

-----------------------------------------------------------------------------
(* Properties that hold when one handler runs at a time: one replica, the    *)
(* consumer's prefetch of one, and no event through the HTTP route meanwhile *)

Registry == INSTANCE InvoiceRegistry WITH
    entry <- [i \in Invoices |->
        [state |-> IF Issued(row[i]) THEN "issued" ELSE row[i].status,
         number |-> row[i].number, doc |-> row[i].doc]]

\* Through crashes, redeliveries, lost answers and link rotations, an invoice
\* is issued once, and its number and document never change.
ImplementsRegistry == Registry!Spec

\* The numbers on the issued rows of a series are those the counter has given
\* out, every one of them: a transaction that fails gives its number back.
NoNumberLost ==
    \A s \in Series :
        {row[i].number : i \in {j \in Invoices : SeriesOf[j] = s /\ Issued(row[j])}}
            = 1 .. (nextNumber[s] - 1)

\* Issuance is all or nothing, whatever a link request saved between: a row is
\* issued with a number, a document that prints this number and a link, or it is
\* BLOCKED and has none of them.
IssuedOrBare ==
    \A i \in Invoices :
        LET r == row[i] IN
        IF Issued(r) THEN r.number # 0 /\ r.doc # 0 /\ r.printed = r.number
                          /\ r.token # 0
                     ELSE r \in {NoRow, [NoRow EXCEPT !.status = "blocked"]}

\* SENT means a mail with this row's number was accepted, also when the status
\* was written by a link rotation that had read it earlier.
SentWasMailed ==
    \A i \in Invoices : row[i].status = "sent" =>
        \E m \in mails[i] : m.number = row[i].number

\* The customer gets at most one mail about an invoice, and the number it
\* names is the one on record: nothing announced is later taken back.
AtMostOneTrueMail ==
    \A i \in Invoices :
        /\ Cardinality(mails[i]) <= 1
        /\ \A m \in mails[i] : Issued(row[i]) /\ m.number = row[i].number

-----------------------------------------------------------------------------
(* Properties the documents state and the code does not have when handlers,  *)
(* or a handler and a link request, overlap                                  *)

\* "Every issued invoice is idempotent by (orderId, type)": no invoice is issued
\* under two numbers, be it by two handlers at once, or because a stale BLOCKED
\* save has wiped the first from the row before the next retry.
OneNumberPerInvoice ==
    \A i \in Invoices : Cardinality(numbers[i]) <= 1

\* A download link "rotates" to a "fresh" one: the stored token changes only to
\* a token generated since, so that the latest link answered opens.
TokenOnlyRenewed ==
    [][\A i \in Invoices :
          row'[i].token # row[i].token => row'[i].token > stamp]_vars

=============================================================================
