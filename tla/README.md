# invoices-microservice in TLA+

This directory models invoices-microservice: the service that turns Orders
events into numbered proforma and final invoices, stores their documents, mails
links to them and serves them. It holds TLA+ modules translated from `src/`, TLC
configurations that check them on small instances, and proofs checked by TLAPS.
Paths below are relative to the repository; `S` is
`src/invoices/invoices.service.ts`.

## The system

| Component | Code | State it keeps | Operations |
| --- | --- | --- | --- |
| Start | `main.ts`, `database-bootstrap.ts`, `database.module.ts`, the migration | the database itself | create it, connect, migrate, subscribe, listen |
| RabbitMQ consumer | `src/events/rabbitmq-orders.consumer.ts` | connection, channel, the message in hand | subscribe at start, callback, ack, nack |
| Event envelope | `src/invoices/orders-event.dto.ts` | none | validate an event, refuse forbidden keys |
| Event idempotency | S 69-106 | `invoice_event_records` | look up, mark PROCESSED, SKIPPED or FAILED |
| Issuance | S 200-345 | `invoice_documents` | find, fetch order, validate, block, issue, mail, mark SENT |
| Numbering | `invoice-numbering.service.ts` | `invoice_sequence_counters` | allocate, inside the issuing transaction |
| Clients | `orders-`, `payments-`, `notifications-client.service.ts` | none | one HTTP call each, with a timeout |
| Rendering | `invoice-template.service.ts`, `invoice-pdf.service.ts` | none | HTML and PDF of an order |
| Download links | S 119-198, 365-396, 445-492 | `downloadTokenHash` in the row | rotate, verify |
| Guards and controller | `src/common/*-auth.guard.ts`, `invoices.controller.ts` | none | ask Auth, route |
| Customer scope | `customer-auth.guard.ts`, S 108-117, 421-492 | `orderSnapshot` in the row | identity, imported users, whose invoices |

An event arrives from the queue or from the route `POST invoices/events/orders`
and runs through `handleOrdersEvent`: record lookup, row lookup, Orders call,
validation, (final invoices only) Payments call, one transaction that draws the
number, renders and saves, then the mail and the SENT mark, then the PROCESSED
mark. Every arrow is an `await`, and other handlers, the second pod of a rolling
update and link requests act between any two of them. `repository.save(entity)`
with an id is two statements of TypeORM: a SELECT by id, and an UPDATE of the
columns in which the entity in memory differs from the row selected. Nothing in the
process locks; the database offers two unique constraints and the counter's row lock.

### What is hard here

* Overlapping handlers of one event or of one invoice, with entities read before
  an await and saved after it, over rows that have changed meanwhile: a save sets
  columns back, and two saves mix theirs.
* The number series: unique and without gaps under rollbacks, crashes, and the
  race on a counter row that does not exist yet.
* Crashes between commit, mail and marks; a save or a mail whose answer is lost.
* At-least-once delivery: redelivery while the first handler still runs; nack
  without requeue; a connection nobody watches.
* Pods that come up side by side on a database that may not exist yet, or without
  a broker.
* A customer who is named in ten places of an order, in any case and with any
  spaces, and a classification of users by the keys of a nested preference object.
* Two renderers, a validator and a storing function that each decide what an
  absent, blank, zero or non-numeric field means.
* Guards and link rotations that wait, while rows and Auth change.

`PROJECT.json` lists each hazard at its line with the properties aimed at it.

### What makes each component correct

| Component | Correctness |
| --- | --- |
| Numbering | consecutive numbers per series; a number in hand is on no invoice; every transaction ends |
| Issuance | no number shared, whatever overlaps; while handlers do not overlap, one number and one document per (order, type), no number lost, no half-issued row, SENT means mailed |
| Idempotency | PROCESSED implies on record; one true mail while handlers do not overlap |
| Start | every pod comes to serve, whatever race its start loses |
| Consumer | acked implies on record; one callback per process; every message settled |
| Inputs | HTML and PDF state the same facts, and the order's; no complete order is blocked; a final invoice means paid |
| Access | a link opens until a later one replaces it, outside the races of issuance named below; reached only by right; requests end |
| Customer scope | refused are only users an import has made, and exactly those nobody else knows as far as preferences are searched; an account lists only invoices that name it, and those that do in a text the query compares |

## Modules

| Module | What it is |
| --- | --- |
| `SequenceAuthority` | abstract: a series' ledger, to which the next integer is appended |
| `InvoiceNumbering` | `allocate` and the transaction around it, statement by statement, over row locks |
| `EventRecords` | abstract: event records and invoices on record, one action per await |
| `InvoiceRegistry` | abstract: an invoice is absent, blocked or issued for good |
| `InvoiceIssuance` | `handleOrdersEvent` and `rotateDownloadLinks`, one action per await |
| `ServiceStart` | a process comes up: database created, connected, migrated |
| `OrdersConsumer` | broker, queue, pods, subscription, callback; uses `ServiceStart` for the start, `EventRecords` for the handler |
| `IssuanceInputs` | one event's data from the envelope to the printed facts |
| `DocumentAccess` | guards, routes, rotation and public links over issued rows |
| `CustomerScope` | Auth's answer, identity, stored snapshot and query of one account |
| `InvoiceNumberingProofs`, `InvoiceIssuanceProofs`, `SerialIssuanceProofs`, `OrdersConsumerProofs`, `DocumentAccessProofs`, `IssuanceInputsProofs`, `CustomerScopeProofs` | the theorems |
| `MC...` | instances for TLC |

Composition:

* `InvoiceNumbering` implements `SequenceAuthority`. `InvoiceIssuance` relies on
  it: its issuing transaction is the read of the row (`BeginTransaction`), the
  SELECT of the save (`SaveSelects`) and the commit (`CommitInvoice`), and no other
  handler draws from the series between the last two, because the counter's row is
  locked from the allocation to the commit (`CounterFree`).
* `InvoiceIssuance` implements `EventRecords` (checked and proved), with any
  handlers overlapping. `OrdersConsumer` is built on `EventRecords`' actions, so
  what it shows of the consumer does not depend on how issuance works inside.
  It shows in turn that a process runs one callback at a time
  (`OneCallbackPerProcess`), the premise of the serial run of issuance.
* `OrdersConsumer` takes the steps of a start from `ServiceStart` and adds the
  last one: `Subscribe`, on which the bootstrap waits and which the broker decides.
* With one handler at a time `InvoiceIssuance` implements `InvoiceRegistry`
  (checked and proved).
* `IssuanceInputs` opens the two choices `OrderBlocks` and `OrderComplete` that
  `InvoiceIssuance` leaves nondeterministic.
* `DocumentAccess` keeps of issuance what a caller can notice: the commit, the mail,
  the two statements of the SENT save, and the BLOCKED save of an overlapping handler
  that wipes a row (`StaleBlock`). `CustomerScope` opens what it takes for given: whether a customer is only an
  imported user (`imported`), and when an order names the customer (`Owns`).

Definitions carry the names of the code where TLA+ allows it; `map` in
`PROJECT.json` gives the lines of each. A definition whose comment starts with
"Deviation" is a plausible bug that no specification uses; it stands before the
definition it would replace, and shows that a property is sensitive to it.

### State and actions against the code

* **InvoiceNumbering.** `counter` is the table (0: no row), `owner` the row locks,
  `ledger` the committed invoices, `tx` each transaction's statement. `SelectForUpdate`, `SelectNothing`,
  `InsertCounter`, `InsertViolatesUnique`, `Increment` and `Commit` are the
  statements of `allocateWithManager` and the end of the transaction; `Rollback`
  is any failure, at any statement.
* **InvoiceIssuance.** `row`, `nextNumber`, `eventRec` are the three tables;
  `handler[h]` has the await it is at, the entity it holds, and what the SELECT of a
  save under way saw (`loaded`; `mark` for the event's record). `Receive` ...
  `RecordProcessed`/`RecordFailed` go through the method in order; `Vanish` is a
  process that ends. A save is `SaveSelects` (`RecordSelects`, `RotationSelects`) and
  then the action with the UPDATE, whose effect `Merge` computes: the columns in which
  entity and selected row differ are written, the others stay what they are by then. An
  entity without id is an INSERT. Either may take effect and still be seen as an
  exception (`Saved`). `numbers` and `mails` are history variables no guard reads.
* **ServiceStart.** `pod[p]` is the step of the start, `database` what the pods
  share: absent, empty or migrated. Each step is one query or transaction; one that
  rejects ends the process, except those TypeOrmModule tries again.
* **OrdersConsumer.** `pod[p]` goes on to the subscription: consuming,
  cancelled (the channel is open, the consumer gone), cut (connection closed in an
  orderly way) or down. `running[p]` are its callbacks by stage.
* **IssuanceInputs.** One pass from `Receive` to `Block` or `Issue`; `row`, `html`
  and `pdf` hold the facts each of them states, the lines of the items included. The
  two renderers are two services with their own copies of every fallback, and so are
  the definitions (`HtmlMoney`, `PdfMoney`, ...).
* **DocumentAccess.** `request[q]` waits for a guard, is in a handler, or waits
  for a statement of the save of a token; `issuing[i]` is the handler that has
  committed an invoice and still holds its entity; `links` and `listed` are what
  callers have got; `overlapped` remembers the links saved while `issuing` held one.
* **CustomerScope.** Some order's invoice is issued and a customer lists: the guard
  (`pc`, `scope`), then the query (`listed`). `NormalizeSubject`, `NormalizeEmail`,
  `ToStored` and the columns are the code's lists, one by one; the searches of the
  preferences are the three recursive methods of the guard with their depths.

## Abstractions

* Tokens and documents are named by the order of their saves; hashing and the
  constant-time comparison are equality. HTML and PDF are one document, except in
  `IssuanceInputs`. A document column differs whenever the token it was named by does,
  since every rendering gets a new issue date.
* Of a row's columns `InvoiceIssuance` keeps status, number, document with the number
  printed on it, and token; `DocumentAccess` the token and whether there is a document.
  Amounts, snapshots, reason and timestamps are written by the same saves and tell no
  property apart.
* Rows are not deleted: no code deletes them.
* An invoice's series is fixed (`SeriesOf`): all attempts to issue it fall into
  one year. A failing `findOne` of `Receive` is a no-op: nothing has been written.
* Event status SKIPPED is not in the models: the validation refuses every type but
  the two that `routeVerifiedEvent` knows (`orders-event.dto.ts:98`), so no event
  that reaches it is skipped.
* A crash is per handler. A process that ends takes all its handlers with it,
  which is several such steps.
* The FAILED mark of one handler may overwrite the PROCESSED mark of another, and
  a replayed event whose invoice is BLOCKED is answered "deduped": both are in the
  models as they are in the code. So is the customer who is never mailed because
  the process ended between commit and mail.
* The consumer runs on Node 20: an unhandled rejection or 'error' event ends the
  process; an orderly close by the broker emits only 'close'. SIGTERM equals a
  crash, because `main.ts` enables no shutdown hooks. When the broker is down
  while a pod starts, `onModuleInit` rejects, the process exits and is started
  again. The production ConfigMap disables the
  consumer; `OrdersConsumer` is about deployments that enable it.
* TypeOrmModule gives up after ten attempts and the process ends; in `ServiceStart`
  it goes on trying, which differs by a restart.
* In `IssuanceInputs` subtotal and shipping are left out: they are printed like tax
  and total. The order's id is always there, since the client
  throws otherwise. Header fields compared with constants are one flag.
* In `DocumentAccess` one handler issues an invoice at a time, and of what overlapping
  ones do there is only the BLOCKED save that wipes the row, at most once for each
  invoice; `InvoiceIssuance` has the rest. `INVOICES_PUBLIC_BASE_URL` is set (otherwise every link
  request is refused); imported users and the fields that name a customer are those
  of `CustomerScope`.
* In `CustomerScope` a text is a word in a form (plain, upper case, padded), which
  is all that `trim`, `toLowerCase` and SQL's `LOWER` tell apart; a preference key
  is a member of the classes that `includes`, `startsWith` and `===` tell apart.

## Runs

| Run | Instance | Shows |
| --- | --- | --- |
| `numbering` | 3 transactions, 2 series, `MaxNumber` = 2 | `Gapless`, `NumberInHandIsNew`, `CounterFollowsLedger`, refinement of `SequenceAuthority`, `TransactionsEnd` |
| `issuance_concurrent` | 2 handlers, 2 orders in one series, 3 deliveries each | what holds whatever overlaps: `NumbersNeverShared`, `ProcessedIsOnRecord`, refinement of `EventRecords` |
| `issuance_serial` | 1 handler, 1 rotation, 3 events for 2 invoices, 2 deliveries each | refinement of `InvoiceRegistry`, `NoNumberLost`, `IssuedOrBare`, `SentWasMailed`, `AtMostOneTrueMail` |
| `consumer` | 2 pods on a database absent, empty or migrated; 3 messages (an order, one not JSON, one refused), 1 crash, 2 closures | `AckedIsOnRecord`, `OneCallbackPerProcess`, `UnackedIsHandled`, `EveryMessageSettled`, `EveryPodServes` |
| `inputs` | every event and order over the value classes, payloads 3 deep, no items or two | `TriggerOnly`, `PartiesFromOrder`, `RenderersAgree`, `StatedAmountsAgree`, `FinalMeansPaid`, `CompleteIsIssued` |
| `access` | 2 requests in flight, 4 callers (one has nothing to do with the order), 1 invoice with its commit, mail and SENT save, which a stale BLOCKED save may wipe and which may then be issued again, 1 outage | `ReachedByRight`, `LinksOpenUnlessOverlapped`, `RequestsEnd` |
| `scope` | 2 customers, every answer and order over the forms of their names, preferences up to 6 keys deep | `ImportedOnlyIsExact`, `AccountIsOwn` |

Five runs check a sentence of the documents that the code does not keep; TLC
finds the shortest behaviour, and `findings` quotes the sentence.

| Run | Sentence | Behaviour |
| --- | --- | --- |
| `issuance_replay_race` | issued invoices are idempotent by (orderId, type) | two handlers retry a BLOCKED invoice: two numbers. (Behind the shortest behaviour there is another: one handler issues the invoice, the other blocks it, number and document are wiped, and the next retry draws a second number) |
| `issuance_link_race` | a link request returns a fresh URL | the SENT mark restores the older token |
| `consumer_deaf` | every created order has a proforma record | the connection is closed in an orderly way, or the consumer cancelled, and nobody hears it |
| `consumer_start` | without a consumer, issuance can be driven through the HTTP route | a pod that starts without a broker never serves HTTP either |
| `inputs_tax` | tax is never invented | an order without a tax amount is printed with a tax of 0.00 |

The first needs handlers that overlap: the HTTP route beside the consumer, or two
pods. That one handler at a time does not have the problem is the serial run's
`ImplementsRegistry`, and for any number of events and link requests the theorem
`OneNumber`.

### Why the bounds are enough

* `MaxNumber` (guard of `Begin`): no transaction begins once the counter has
  passed it. Three transactions reach the race on the missing row with a third
  arriving after the commit, and numbers drawn after a rollback.
* `MaxDeliveries`: 3 in `issuance_concurrent` has a delivery that leaves the invoice
  BLOCKED and two that overlap in retrying it, which is what the races take;
  2 in `issuance_serial` has a delivery and its redelivery. `MaxRotations`: one
  rotation beside the handler shows each order of its read, SELECT and UPDATE
  against the handler's. `issuance_concurrent` has no rotation, which draws no number
  and marks no event; in `issuance_serial` the invoices are final, so that the
  Payments call is exercised there.
* `MaxCrashes`, `MaxClosures`: one crash, at any point of a start or a callback, and
  two closures: a connection that is closed in an orderly way and then a stop of the
  broker, or each pod's. A stop of the broker and the end of a consumer count as
  closures; the broker's return is free.
* `Payloads` and `Values` are the JSON values that may be searched, each closed
  under its parts: in the runs payloads nested three levels, which is one below an
  array of objects, where the recursion has used each of its branches, and
  preferences nested six; the theorems hold for any such set.
* `MaxDepth` is the code's own 4. Preferences six keys deep lie on both sides of it.
* `MaxRequests`: 2, both in flight, has two overlapping rotations, or a link saved at
  any point of issuance and one opened after it. `MaxOutages`: one outage starts and
  ends at any point of either request. `MaxWiped`: one, at any point.

Every specification has a step (`NoRequest`, `Rest`, `Quiet`, `Return`) that is
enabled only when there is nothing left to do, so that TLC's deadlock check is
on in every run and means something is stuck.
Handlers are symmetric in `issuance_concurrent`, which has no liveness property
(`ImplementsEventRecords` is a safety property: `EventRecords` states no fairness).

### Fairness

* Numbering: PostgreSQL executes a statement that can be executed (weak fairness),
  and queues the waiters for a row lock, so a waiter whose lock is free again and
  again gets it (strong fairness for the two statements that take it). Nobody has
  to begin, nothing has to fail.
* Consumer: Kubernetes starts a process that ended, a start goes on to its next
  step (the database answers or refuses), the broker delivers what it
  can, and the calls a callback awaits return: the clients have timeouts, the
  database answers or refuses. No fairness for publishing, for faults, or for the
  broker's return; `EveryMessageSettled` is conditional on some pod consuming
  again and again, `EveryPodServes` and the broken `EveryOrderOnRecord` on a broker
  that some day stays up.
* Access: a request proceeds by itself, since the guards' calls have timeouts.
  Nobody has to send one, and Auth need not recover.

Issuance is checked for safety only: no code retries what a crash has cut off.

## Proofs

`tlapm` proves, for every number of transactions, handlers, rotations, events,
invoices, series and orders, and for data nested to any depth:

* `InvoiceNumberingProofs`: `TypeCorrect`, `NumbersGapless`, `CounterCorrect`,
  `NumberFresh`, and `Refinement` (the protocol implements `SequenceAuthority`).
  The invariant `IInv` adds two facts to the properties: a transaction past its
  SELECT or INSERT holds the counter's row (`ReaderHoldsRow`), and what it read
  is what the table still has (`ReadIsCurrent`). Without them `Increment` could
  write a stale number, which is exactly what the row lock prevents.
* `InvoiceIssuanceProofs`: `TypeCorrect`, `NumbersUnique`, `DedupeIsSound`, and
  `RecordsRefinement` (issuance implements `EventRecords`), whatever overlaps. The
  difficulty is that columns of every entity held in memory may be written back later,
  over another row than it was read from. `IInv` therefore says of each handler's and
  each rotation's entity, and of what its save has selected, what it says of the rows
  (`RowOK`): every number in it has been drawn for this invoice (`NumbersDrawn` bounds
  it by the counter, `NumbersApart` says nobody else drew it). That survives any mixture
  of columns; completeness of a row does not, and is not claimed here.
* `SerialIssuanceProofs`: for one handler (`Handlers = {h}`) beside any number of link
  requests `RegistryRefinement` (issuance implements `InvoiceRegistry`),
  `OneTrueMail`, `NoPartialInvoice`, `SentIsTrue` and `NumbersNotLost`. `SInv` says of
  each await what the handler's reads still mean there: before the transaction its
  invoice is not issued, after it the entity, what a save has selected and the row agree
  on number and document, whatever links were saved since; so the columns a save
  leaves alone are as it saw them, and rows stay bare or complete (`SerialRow`). It
  counts the issued invoices of a series (`Counted`), since the registry numbers by
  counting and the code by a counter. `OneNumber` and `LinkOnlyRenewed` are the other
  side of two of the disagreements above: with one handler no invoice is issued under
  two numbers, and with no link request beside it the SENT mark restores no older link
  (`Current`: the entity it saves is the row it saves it over). So it takes an overlap
  for each.
* `OrdersConsumerProofs`: `TypeCorrect`, `AckedOnRecord`, `OneCallback`,
  `NothingForgotten`. What a pod owes the broker (`unacked`) and what its process
  does (`running`) are changed by different actors. `IInv` ties them (`CallbackOK`):
  a process has no callback and owes nothing, or it has one, which handles what it
  owes, or whose message the broker took back when the connection was cut. `JobOK`
  says that a callback past the handler's record has its invoice on record, and
  `ProcessedOnRecord` the same of the deduplication an overlapping delivery meets.
* `DocumentAccessProofs`: `TypeCorrect`, `LinksOpen` (`LinksOpenUnlessOverlapped`) and
  `OnlyByRight`. A request is let through at one time, finds its invoice at another
  and saves at a third, while the handler that issued the invoice holds an entity of its
  own. `IInv` says what the earlier steps settled for the later ones (`RequestOK`), that
  no token is newer than the last stored (`TokensStored`), and of each invoice no stale
  save has wiped (`InvoiceOK`) that its row stays issued, has no older token than the
  entity the handler still holds, and that both are as new as every link given out
  while no handler held one.
* `IssuanceInputsProofs`: `TypeCorrect`, `StaysTriggerOnly`, `NoPartyInvented`,
  `SameDocument`, `AmountsAgree`, `FinalIsPaid`, `NeverHeldBack`, for any events,
  orders with any number of items, and sellers. `IInv` says what each stage knows:
  from routing on the event is one the validation accepted (`EventKnown`), an issued
  row and its documents are the storing and the rendering of one order without
  blockers, a blocked row has its event's payload (`OutcomeKnown`). The lemmas say
  what the recursive search of a payload finds (`SearchIsComplete`) and what
  the renderers make of every list of items (`LinesFacts`).
* `CustomerScopeProofs`: `TypeCorrect`, `ImportedAreRefused`, `OwnInvoicesOnly`, for any
  answers of Auth and any orders. The guard's three recursive searches are compared
  with one notion that has no recursion, the trail (a way down from a value, part
  after part): `MarkerFound`, `PreferenceValueFound` and `ApplicationFound` say of
  each search which trails make it succeed, at every depth it may have reached.
  They differ in what counts (a key with "marathon" in it, an exact marathon key)
  and in where they stop, which is where the guard could contradict itself. The property
  itself knows no search depth: `FirstVouches` shows that in preferences no deeper than
  `MaxDepth` keys the search gets to whatever names an application, because the first
  part of a trail that does so has no `authSources` before it that would stop it.
  `IInv` ties the four places a customer's identity passes through: Auth's answer
  (`Decided`), the request (`Carried`), the stored snapshot and the query
  (`Compared`).

### Recursion over data

The searches are recursive functions over a set of values (`Payloads`, `Values`), not
RECURSIVE operators, so that they can be reasoned about. Such a function is a CHOOSE:
each proof exhibits a solution of its equation first, so that the function satisfies
it. What the search of a payload leaves unfound is a closed set; of the guard's
searches the rest follows by induction. The library's induction theorems take an
operator as a parameter; these are stated with sets instead, and come from the
well-foundedness of the numbers: `LeastNumber`, `HeightInduction` (what holds of a value
when it holds of its parts), `DepthInduction` (from the deepest call upwards).

### Assumptions

`NumberingAssumption`, `IssuanceAssumption`, `ConsumerAssumption`, `AccessAssumption`: the
bounds are naturals, a placeholder is not a transaction or a message, every event has
an invoice and every invoice a series, there are a caller and an invoice.
`InputsAssumption`, `ScopeAssumption` and `ValuesAssumption` say what JSON, the
environment and the order's type give: the parts of a value are values; a leaf has no
parts; nesting is finite, each part less high than the whole (`Height`), which
JSON.parse cannot violate; an order has the fields of `InvoiceOrderSnapshot`. Of the key
classes of the guard they say that `app:marathon` has "marathon" in it and that
`authSources` is neither an application's key nor the marathon's, as its string
comparisons have it. TLC evaluates all of them in the runs.

### Only model-checked

Liveness (`TransactionsEnd`, `EveryMessageSettled`, `EveryPodServes`, `RequestsEnd`),
since the provers handle neither fairness nor ENABLED. Every invariant and every other
action property or refinement of the passing runs is a theorem.

## Remarks

What modelling met and no run is about:

* `INTEGRATION_CONTRACT.md:28` says that internal routes are unaffected when Auth is
  unavailable. `InternalAuthGuard` asks Auth and answers 401.
* Two deliveries of one event that overlap both issue: the second renders over the
  document of the first and mails again (`InvoiceRegistry` is refined by one handler
  only).
* Two overlapping handlers can leave a row that is SENT and has neither number nor
  document, or a number nobody mailed: one handler's SENT save has selected its own
  row and writes only the status, after the other's save has changed number and
  document. `IssuedOrBare`, `SentWasMailed` and `NoNumberLost` are therefore checked and
  proved for one handler.
* An account does not find an order that names it by `customer.authSubject` alone:
  the snapshot stores that text (S 429), and the query has no column for it
  (S 452-465), though `SYSTEM.md:90` ties full account lookup to it. Nor does it find
  a stored id or e-mail with spaces around it, since the query lowers a text and does
  not trim it. `AccountIsOwn` claims neither.
* A user with a marathon marker whose only other application is named more than five
  keys deep in the preferences is refused as imported (`customer-auth.guard.ts:150`).
  `ImportedOnlyIsExact` says nothing of preferences deeper than four keys but that who
  is refused has a marker.
* A name or address of nothing but spaces passes the validation of an order
  (`invoices.service.ts:337-340`) and is printed.
* `InternalAuthGuard` clears its 3 s timer when the headers of Auth's answer are there;
  a body that never ends is not covered by it. `RequestsEnd` takes the body for given.
* A preference key such as `marathon-microservice` counts as a name of the marathon
  and as an application of its own, and so never makes a user an imported one.
* An item without a quantity is printed with the quantity `undefined`.

## Not modelled

* The logger (ships lines and forgets them) and the credential self-reporter
  (vendored script that probes one token and reports it): no state of the service
  depends on them.
* Module wiring, configuration files, `/health`, the migration's `down`, and the
  scripts that verify a deployment.
* Layout, page breaks and escaping of documents; file names; the JSON projections
  `toSafeInvoice` and `toAccountInvoice`.

## Plan

1. Done: numbering, issuance, event records, start and consumer, inputs with items,
   document access, customer scope; the theorems above, which state every invariant
   of the passing runs.
2. Composition of consumer, HTTP ingestion route and issuance in one module, with
   the mail as its outcome: which orders are mailed when nothing crashes.
3. `LinksOpenUnlessOverlapped` over any number of overlapping handlers: a composed
   model of `InvoiceIssuance` and the public routes.
4. Proofs: the consumer over issuance, as refinements that compose: `OrdersConsumer`
   uses `EventRecords`' actions, `InvoiceIssuance` implements them, and what an
   acknowledgement promises follows of the two.
5. Page breaks of `writePdf` as arithmetic over its positions.
