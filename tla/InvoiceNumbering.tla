--------------------------- MODULE InvoiceNumbering ---------------------------
(***************************************************************************)
(* InvoiceNumberingService.allocateWithManager, run inside the database    *)
(* transaction of InvoicesService.issueInvoiceForEvent, at the grain of    *)
(* the statements it sends to PostgreSQL (READ COMMITTED):                 *)
(*                                                                         *)
(*   SELECT ... FOR UPDATE of the counter row of (type, year)              *)
(*   INSERT of that row, when the SELECT found none                        *)
(*   UPDATE of nextNumber                                                  *)
(*   (the document is rendered and the invoice row saved)                  *)
(*   COMMIT, or ROLLBACK whatever made the transaction fail                *)
(*                                                                         *)
(* Every transaction issues an invoice of an order of its own; the races   *)
(* between two transactions of the same order are InvoiceIssuance's.       *)
(***************************************************************************)
EXTENDS Naturals, Sequences

CONSTANTS
    Tx,         \* concurrent transactions (database connections)
    Series,     \* (type, year) pairs
    NoTx,       \* "nobody holds the row"
    MaxNumber   \* bound: no transaction begins in a series past this number

ASSUME NumberingAssumption ==
    /\ NoTx \notin Tx
    /\ MaxNumber \in Nat

VARIABLES
    counter,    \* committed nextNumber of the series' row; 0: there is no row
    owner,      \* transaction holding the row lock, or an uncommitted INSERT
    tx,         \* what each transaction is doing, and its private values
    ledger      \* numbers on the committed invoice rows, in commit order

vars == <<counter, owner, tx, ledger>>

PCs == {"idle", "select", "insert", "increment", "save"}

\* next is the nextNumber of the counter entity the transaction holds in memory
Idle(s) == [pc |-> "idle", series |-> s, next |-> 0]

TypeOK ==
    /\ counter \in [Series -> Nat]
    /\ owner \in [Series -> Tx \cup {NoTx}]
    /\ tx \in [Tx -> [pc : PCs, series : Series, next : Nat]]
    /\ ledger \in [Series -> Seq(Nat)]

Init ==
    /\ counter = [s \in Series |-> 0]
    /\ owner = [s \in Series |-> NoTx]
    /\ tx \in [Tx -> {Idle(s) : s \in Series}]
    /\ ledger = [s \in Series |-> << >>]

-----------------------------------------------------------------------------
(* Row locks *)

\* The lock COMMIT and ROLLBACK release, whichever row t held.
Released(t) == [s \in Series |-> IF owner[s] = t THEN NoTx ELSE owner[s]]

\* t goes on to the statement pc, with n as its counter.nextNumber in memory.
Proceed(t, pc, n) ==
    tx' = [tx EXCEPT ![t] = [pc |-> pc, series |-> tx[t].series, next |-> n]]

End(t) == Proceed(t, "idle", 0)

-----------------------------------------------------------------------------
(* The transaction, statement by statement *)

\* BEGIN: issuedAt was taken before, so the year, and the series, are fixed.
Begin(t, s) ==
    /\ tx[t].pc = "idle"
    /\ counter[s] <= MaxNumber
    /\ tx' = [tx EXCEPT ![t] = [pc |-> "select", series |-> s, next |-> 0]]
    /\ UNCHANGED <<counter, owner, ledger>>

\* Deviation: the SELECT without FOR UPDATE.
SelectWithoutLock(t) ==
    LET s == tx[t].series IN
    /\ tx[t].pc = "select"
    /\ counter[s] # 0
    /\ Proceed(t, "increment", counter[s])
    /\ UNCHANGED <<counter, owner, ledger>>

\* manager.findOne(..., lock: pessimistic_write) finds the row: it waits for
\* the row lock and reads the value committed by the last holder.
SelectForUpdate(t) ==
    LET s == tx[t].series IN
    /\ tx[t].pc = "select"
    /\ counter[s] # 0
    /\ owner[s] = NoTx
    /\ owner' = [owner EXCEPT ![s] = t]
    /\ Proceed(t, "increment", counter[s])
    /\ UNCHANGED <<counter, ledger>>

\* The same SELECT finds no committed row. It locks nothing, and does not see
\* (nor wait for) a row another transaction has inserted and not committed.
SelectNothing(t) ==
    /\ tx[t].pc = "select"
    /\ counter[tx[t].series] = 0
    /\ Proceed(t, "insert", 0)
    /\ UNCHANGED <<counter, owner, ledger>>

\* manager.save of a new counter: the INSERT waits for an uncommitted INSERT
\* of the same (type, year), and succeeds if that one was rolled back.
InsertCounter(t) ==
    LET s == tx[t].series IN
    /\ tx[t].pc = "insert"
    /\ counter[s] = 0
    /\ owner[s] = NoTx
    /\ owner' = [owner EXCEPT ![s] = t]
    /\ Proceed(t, "increment", 1)
    /\ UNCHANGED <<counter, ledger>>

\* Deviation: the failed transaction is not rolled back but left open.
UndoLeftOpen(t) ==
    /\ owner' = Released(t)
    /\ Proceed(t, "aborted", tx[t].next)
    /\ UNCHANGED <<counter, ledger>>

\* Deviation: the client forgets the transaction, the server keeps its locks.
UndoKeepsLock(t) ==
    /\ End(t)
    /\ UNCHANGED <<counter, owner, ledger>>

\* ROLLBACK of t's transaction: nothing it wrote remains.
Undo(t) ==
    /\ owner' = Released(t)
    /\ End(t)
    /\ UNCHANGED <<counter, ledger>>

\* The INSERT meets a row committed since the SELECT: the unique constraint on
\* (type, year) fails it, and with it the whole transaction.
InsertViolatesUnique(t) ==
    /\ tx[t].pc = "insert"
    /\ counter[tx[t].series] # 0
    /\ Undo(t)

\* Deviation: allocate called without the manager, so that the increment commits
\* in a transaction of its own, before the invoice is saved.
IncrementCommitted(t) ==
    LET s == tx[t].series IN
    /\ tx[t].pc = "increment"
    /\ counter' = [counter EXCEPT ![s] = tx[t].next + 1]
    /\ owner' = Released(t)
    /\ Proceed(t, "save", tx[t].next + 1)
    /\ UNCHANGED ledger

\* const current = counter.nextNumber; counter.nextNumber += 1; save
Increment(t) ==
    /\ tx[t].pc = "increment"
    /\ Proceed(t, "save", tx[t].next + 1)
    /\ UNCHANGED <<counter, owner, ledger>>

\* The invoice row is saved under `current` and the transaction commits: the
\* counter, the invoice and the release of the lock become visible together.
Commit(t) ==
    LET s == tx[t].series
        current == tx[t].next - 1 IN
    /\ tx[t].pc = "save"
    /\ counter' = [counter EXCEPT ![s] = tx[t].next]
    /\ ledger' = [ledger EXCEPT ![s] = Append(@, current)]
    /\ owner' = Released(t)
    /\ End(t)

\* Anything else that ends the transaction: rendering the PDF throws, the
\* invoice row violates a constraint, the connection or the process is lost.
Rollback(t) ==
    /\ tx[t].pc # "idle"
    /\ Undo(t)

\* No request is being served. Makes TLC's deadlock check mean "somebody waits
\* and nobody can move" instead of "there is no more work".
NoRequest ==
    /\ \A t \in Tx : tx[t].pc = "idle"
    /\ UNCHANGED vars

Step(t) ==
    \/ SelectForUpdate(t)
    \/ SelectNothing(t)
    \/ InsertCounter(t)
    \/ InsertViolatesUnique(t)
    \/ Increment(t)
    \/ Commit(t)

Next ==
    \/ \E t \in Tx : \E s \in Series : Begin(t, s)
    \/ \E t \in Tx : Step(t)
    \/ \E t \in Tx : Rollback(t)
    \/ NoRequest

\* PostgreSQL executes a statement that can execute, and queues the waiters of
\* a row lock, so a waiter whose lock is free again and again gets it (SF).
\* No client begins, and nothing fails, by fairness.
Fairness ==
    \A t \in Tx :
        /\ WF_vars(SelectNothing(t))
        /\ WF_vars(InsertViolatesUnique(t))
        /\ WF_vars(Increment(t))
        /\ WF_vars(Commit(t))
        /\ SF_vars(SelectForUpdate(t))
        /\ SF_vars(InsertCounter(t))

Spec == Init /\ [][Next]_vars

FairSpec == Spec /\ Fairness

-----------------------------------------------------------------------------
(* Properties *)

\* The invoices of a series carry 1, 2, 3, ... in the order they committed: no
\* number twice, no gap left by a rollback (INV-INV-002, SYSTEM.md).
Gapless ==
    \A s \in Series : \A i \in DOMAIN ledger[s] : ledger[s][i] = i

\* The number a transaction is about to print on a document is not on any
\* committed invoice, nor in the hands of another transaction.
NumberInHandIsNew ==
    \A t \in Tx : tx[t].pc = "save" =>
        LET s == tx[t].series
            current == tx[t].next - 1 IN
        /\ \A i \in DOMAIN ledger[s] : ledger[s][i] # current
        /\ \A u \in Tx \ {t} :
              tx[u].pc = "save" /\ tx[u].series = s => tx[u].next - 1 # current

\* The row the next allocation reads is the one the last invoice left: there is
\* a counter row exactly when the series has an invoice, and it is one ahead.
CounterFollowsLedger ==
    \A s \in Series :
        counter[s] = IF ledger[s] = << >> THEN 0 ELSE Len(ledger[s]) + 1

\* Seen through its ledger, the service is the abstract authority.
Authority == INSTANCE SequenceAuthority

ImplementsAuthority == Authority!Spec

\* A transaction waits for a counter row, but never for ever: whatever the
\* others do, it commits or is rolled back.
TransactionsEnd ==
    \A t \in Tx : (tx[t].pc # "idle") ~> (tx[t].pc = "idle")

=============================================================================
