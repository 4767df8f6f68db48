------------------------ MODULE InvoiceNumberingProofs ------------------------
(***************************************************************************)
(* Proofs about InvoiceNumbering, for any number of connections, series    *)
(* and invoices.                                                           *)
(*                                                                         *)
(* The safety properties are not inductive: they say nothing of what a     *)
(* transaction has read. The strengthening adds the two facts the row lock *)
(* is there for: a transaction past its SELECT holds its row, and what it  *)
(* holds in memory is still the next number of the ledger. TypeOK needs    *)
(* it too: current is a natural number only because next is at least one.  *)
(***************************************************************************)
EXTENDS InvoiceNumbering, TLAPS

\* A transaction that has read the counter, or inserted it, holds its row.
ReaderHoldsRow ==
    \A t \in Tx :
        tx[t].pc \in {"increment", "save"} => owner[tx[t].series] = t

\* What it read has not moved since.
ReadIsCurrent ==
    \A t \in Tx :
        /\ tx[t].pc = "increment" => tx[t].next = Len(ledger[tx[t].series]) + 1
        /\ tx[t].pc = "save" => tx[t].next = Len(ledger[tx[t].series]) + 2

IInv ==
    /\ TypeOK
    /\ Gapless
    /\ CounterFollowsLedger
    /\ ReaderHoldsRow
    /\ ReadIsCurrent

-----------------------------------------------------------------------------
(* The inductive invariant *)

LEMMA InitIInv == Init => IInv
<1> SUFFICES ASSUME Init PROVE IInv
  OBVIOUS
<1> USE DEF Init, Idle, PCs
<1>1. TypeOK
  BY NumberingAssumption DEF TypeOK
<1>2. Gapless
  BY DEF Gapless
<1>3. CounterFollowsLedger
  BY DEF CounterFollowsLedger
<1>4. ReaderHoldsRow /\ ReadIsCurrent
  BY DEF ReaderHoldsRow, ReadIsCurrent
<1> QED BY <1>1, <1>2, <1>3, <1>4 DEF IInv

LEMMA BeginIInv ==
  ASSUME IInv, NEW t \in Tx, NEW s \in Series, Begin(t, s)
  PROVE  IInv'
<1> USE DEF IInv, Begin, TypeOK, PCs
<1>1. TypeOK'
  OBVIOUS
<1>2. Gapless' /\ CounterFollowsLedger'
  BY DEF Gapless, CounterFollowsLedger
<1>3. ReaderHoldsRow' /\ ReadIsCurrent'
  BY DEF ReaderHoldsRow, ReadIsCurrent
<1> QED BY <1>1, <1>2, <1>3

\* A rollback releases its own rows only, and changes no committed value.
LEMMA UndoIInv ==
  ASSUME IInv, NEW t \in Tx, Undo(t)
  PROVE  IInv'
<1> USE DEF IInv, Undo, End, Proceed, Released, TypeOK, PCs
<1>1. TypeOK'
  OBVIOUS
<1>2. Gapless' /\ CounterFollowsLedger'
  BY DEF Gapless, CounterFollowsLedger
<1>3. ReaderHoldsRow' /\ ReadIsCurrent'
  BY DEF ReaderHoldsRow, ReadIsCurrent
<1> QED BY <1>1, <1>2, <1>3

\* The row was free, and nobody but its holder counts on it: so taking it with
\* the next number of the ledger in hand keeps the invariant.
LEMMA AcquireIInv ==
  ASSUME IInv, NEW t \in Tx, NEW n \in Nat,
         owner[tx[t].series] = NoTx,
         n = Len(ledger[tx[t].series]) + 1,
         owner' = [owner EXCEPT ![tx[t].series] = t],
         Proceed(t, "increment", n),
         UNCHANGED <<counter, ledger>>
  PROVE  IInv'
<1> USE DEF IInv
<1>1. /\ \A u \in Tx \ {t} : tx'[u] = tx[u]
      /\ tx'[t] = [pc |-> "increment", series |-> tx[t].series, next |-> n]
      /\ tx[t].series \in Series
      /\ ledger' = ledger
  BY DEF TypeOK, Proceed
<1>2. TypeOK'
  BY <1>1 DEF TypeOK, Proceed, PCs
<1>3. Gapless' /\ CounterFollowsLedger'
  BY DEF Gapless, CounterFollowsLedger
<1>4. ReaderHoldsRow'
  <2> SUFFICES ASSUME NEW u \in Tx, tx'[u].pc \in {"increment", "save"}
               PROVE  owner'[tx'[u].series] = u
    BY DEF ReaderHoldsRow
  <2>1. CASE u = t
    BY <2>1, <1>1 DEF TypeOK
  <2>2. CASE u # t
    BY <2>2, <1>1, NumberingAssumption DEF ReaderHoldsRow, TypeOK
  <2> QED BY <2>1, <2>2
<1>5. ReadIsCurrent'
  BY <1>1 DEF ReadIsCurrent
<1> QED BY <1>2, <1>3, <1>4, <1>5

\* The two ways to get it: lock the committed row, or insert the missing one.
LEMMA SelectForUpdateIInv ==
  ASSUME IInv, NEW t \in Tx, SelectForUpdate(t)
  PROVE  IInv'
<1>1. tx[t].series \in Series
  BY DEF IInv, TypeOK
<1>2. /\ counter[tx[t].series] \in Nat
      /\ counter[tx[t].series] = Len(ledger[tx[t].series]) + 1
  BY <1>1 DEF IInv, TypeOK, CounterFollowsLedger, SelectForUpdate
<1> QED BY <1>2, AcquireIInv DEF SelectForUpdate

LEMMA InsertCounterIInv ==
  ASSUME IInv, NEW t \in Tx, InsertCounter(t)
  PROVE  IInv'
<1>1. tx[t].series \in Series
  BY DEF IInv, TypeOK
<1>2. 1 = Len(ledger[tx[t].series]) + 1
  BY <1>1 DEF IInv, TypeOK, CounterFollowsLedger, InsertCounter
<1> QED BY <1>2, AcquireIInv DEF InsertCounter

LEMMA SelectNothingIInv ==
  ASSUME IInv, NEW t \in Tx, SelectNothing(t)
  PROVE  IInv'
<1> USE DEF IInv, SelectNothing, Proceed, TypeOK, PCs
<1>1. TypeOK'
  OBVIOUS
<1>2. Gapless' /\ CounterFollowsLedger'
  BY DEF Gapless, CounterFollowsLedger
<1>3. ReaderHoldsRow' /\ ReadIsCurrent'
  BY DEF ReaderHoldsRow, ReadIsCurrent
<1> QED BY <1>1, <1>2, <1>3

LEMMA IncrementIInv ==
  ASSUME IInv, NEW t \in Tx, Increment(t)
  PROVE  IInv'
<1> USE DEF IInv, Increment, Proceed, TypeOK, PCs
<1>1. TypeOK'
  OBVIOUS
<1>2. Gapless' /\ CounterFollowsLedger'
  BY DEF Gapless, CounterFollowsLedger
<1>3. /\ \A u \in Tx \ {t} : tx'[u] = tx[u]
      /\ tx'[t] = [pc |-> "save", series |-> tx[t].series,
                   next |-> tx[t].next + 1]
      /\ tx[t].pc = "increment"
      /\ tx[t].series \in Series
  OBVIOUS
<1>4. ReaderHoldsRow'
  <2> SUFFICES ASSUME NEW u \in Tx, tx'[u].pc \in {"increment", "save"}
               PROVE  owner'[tx'[u].series] = u
    BY DEF ReaderHoldsRow
  <2>1. CASE u = t
    BY <2>1, <1>3 DEF ReaderHoldsRow
  <2>2. CASE u # t
    BY <2>2, <1>3 DEF ReaderHoldsRow
  <2> QED BY <2>1, <2>2
<1>5. ReadIsCurrent'
  <2>1. Len(ledger[tx[t].series]) \in Nat
    BY <1>3
  <2>2. tx[t].next + 1 = Len(ledger[tx[t].series]) + 2
    BY <1>3, <2>1 DEF ReadIsCurrent
  <2>3. ledger' = ledger
    OBVIOUS
  <2> QED BY <1>3, <2>2, <2>3 DEF ReadIsCurrent
<1> QED BY <1>1, <1>2, <1>4, <1>5

\* The number a transaction holds is one past the ledger it is appended to.
LEMMA NumberInHand ==
  ASSUME IInv, NEW t \in Tx, tx[t].pc = "save"
  PROVE  /\ tx[t].series \in Series
         /\ Len(ledger[tx[t].series]) \in Nat
         /\ tx[t].next - 1 = Len(ledger[tx[t].series]) + 1
         /\ owner[tx[t].series] = t
BY DEF IInv, TypeOK, ReaderHoldsRow, ReadIsCurrent

LEMMA CommitIInv ==
  ASSUME IInv, NEW t \in Tx, Commit(t)
  PROVE  IInv'
<1> DEFINE s == tx[t].series
           n == Len(ledger[s]) + 1
<1>1. /\ s \in Series
      /\ n \in Nat \ {0}
      /\ tx[t].next = n + 1
      /\ owner[s] = t
  BY NumberInHand DEF Commit, IInv, TypeOK
<1>2. /\ counter' = [counter EXCEPT ![s] = n + 1]
      /\ ledger' = [ledger EXCEPT ![s] = Append(ledger[s], n)]
      /\ owner' = Released(t)
      /\ End(t)
  BY <1>1 DEF Commit
<1>3. /\ ledger \in [Series -> Seq(Nat)]
      /\ ledger'[s] = Append(ledger[s], n)
      /\ Len(ledger'[s]) = n
      /\ \A r \in Series \ {s} : ledger'[r] = ledger[r]
      /\ \A i \in 1 .. n : ledger'[s][i] = IF i = n THEN n ELSE ledger[s][i]
  BY <1>1, <1>2 DEF IInv, TypeOK
<1>4. TypeOK'
  BY <1>1, <1>2, <1>3 DEF IInv, TypeOK, Released, End, Proceed, PCs
<1>5. Gapless'
  BY <1>1, <1>2, <1>3, <1>4 DEF IInv, Gapless, TypeOK
<1>6. CounterFollowsLedger'
  BY <1>1, <1>2, <1>3, <1>4 DEF IInv, CounterFollowsLedger, TypeOK
<1>7. \A u \in Tx \ {t} :
         /\ tx'[u] = tx[u]
         /\ tx[u].pc \in {"increment", "save"} => tx[u].series # s
  BY <1>1, <1>2 DEF IInv, ReaderHoldsRow, TypeOK, End, Proceed
<1>8. tx'[t].pc = "idle"
  BY <1>2 DEF IInv, TypeOK, End, Proceed
<1>9. ReaderHoldsRow'
  BY <1>1, <1>2, <1>7, <1>8 DEF IInv, ReaderHoldsRow, TypeOK, Released
<1>10. ReadIsCurrent'
  <2> SUFFICES ASSUME NEW u \in Tx, tx'[u].pc \in {"increment", "save"}
               PROVE  /\ tx'[u] = tx[u]
                      /\ ledger'[tx[u].series] = ledger[tx[u].series]
    BY DEF IInv, ReadIsCurrent
  <2>1. u # t
    BY <1>8
  <2>2. tx'[u] = tx[u] /\ tx[u].series \in Series \ {s}
    BY <2>1, <1>7 DEF IInv, TypeOK
  <2> QED BY <2>2, <1>3
<1> QED BY <1>4, <1>5, <1>6, <1>9, <1>10 DEF IInv

LEMMA NextIInv == IInv /\ [Next]_vars => IInv'
<1> SUFFICES ASSUME IInv, [Next]_vars PROVE IInv'
  OBVIOUS
<1>1. ASSUME NEW t \in Tx, NEW s \in Series, Begin(t, s) PROVE IInv'
  BY <1>1, BeginIInv
<1>2. ASSUME NEW t \in Tx, Step(t) PROVE IInv'
  BY <1>2, SelectForUpdateIInv, SelectNothingIInv, InsertCounterIInv,
     IncrementIInv, UndoIInv, CommitIInv
     DEF Step, InsertViolatesUnique
<1>3. ASSUME NEW t \in Tx, Rollback(t) PROVE IInv'
  BY <1>3, UndoIInv DEF Rollback
<1>4. CASE UNCHANGED vars
  BY <1>4 DEF vars, IInv, TypeOK, Gapless, CounterFollowsLedger,
              ReaderHoldsRow, ReadIsCurrent
<1> QED BY <1>1, <1>2, <1>3, <1>4 DEF Next, NoRequest

THEOREM Inductive == Spec => []IInv
  BY InitIInv, NextIInv, PTL DEF Spec

-----------------------------------------------------------------------------
(* What follows from it *)

\* Every step leaves the tables and the transactions with values of their
\* types; a number printed on an invoice is a natural number.
THEOREM TypeCorrect == Spec => []TypeOK
<1>1. IInv => TypeOK
  BY DEF IInv
<1> QED BY <1>1, Inductive, PTL

\* However transactions interleave, fail and are rolled back, the committed
\* invoices of a series are numbered 1, 2, 3, ... in the order they committed.
THEOREM NumbersGapless == Spec => []Gapless
<1>1. IInv => Gapless
  BY DEF IInv
<1> QED BY <1>1, Inductive, PTL

\* The counter row exists exactly when the series has an invoice, and holds
\* the number after its last.
THEOREM CounterCorrect == Spec => []CounterFollowsLedger
<1>1. IInv => CounterFollowsLedger
  BY DEF IInv
<1> QED BY <1>1, Inductive, PTL

\* The number a transaction prints on a document, before it commits, is on no
\* other invoice and in no other transaction's hands.
THEOREM NumberFresh == Spec => []NumberInHandIsNew
<1>1. ASSUME IInv PROVE NumberInHandIsNew
  <2> SUFFICES ASSUME NEW t \in Tx, tx[t].pc = "save"
               PROVE  LET s == tx[t].series
                          current == tx[t].next - 1 IN
                      /\ \A i \in DOMAIN ledger[s] : ledger[s][i] # current
                      /\ \A u \in Tx \ {t} :
                            tx[u].pc = "save" /\ tx[u].series = s
                              => tx[u].next - 1 # current
    BY DEF NumberInHandIsNew
  <2> DEFINE s == tx[t].series
  <2>1. s \in Series /\ Len(ledger[s]) \in Nat
        /\ tx[t].next - 1 = Len(ledger[s]) + 1 /\ owner[s] = t
    BY <1>1, NumberInHand
  <2>2. \A i \in DOMAIN ledger[s] : ledger[s][i] # tx[t].next - 1
    BY <1>1, <2>1 DEF IInv, TypeOK, Gapless
  <2>3. \A u \in Tx \ {t} : ~ (tx[u].pc = "save" /\ tx[u].series = s)
    BY <1>1, <2>1 DEF IInv, ReaderHoldsRow
  <2> QED BY <2>2, <2>3
<1> QED BY <1>1, Inductive, PTL

\* Locks, rollbacks and retries are invisible from outside: every step either
\* appends the next number to one ledger or leaves the ledgers alone.
THEOREM Refinement == Spec => ImplementsAuthority
<1>1. Init => Authority!Init
  BY DEF Init, Authority!Init
<1>2. IInv /\ [Next]_vars => [Authority!Next]_ledger
  <2> SUFFICES ASSUME IInv, [Next]_vars PROVE [Authority!Next]_ledger
    OBVIOUS
  <2>1. ASSUME NEW t \in Tx, Commit(t) PROVE Authority!Next
    <3> DEFINE s == tx[t].series
    <3>1. s \in Series /\ tx[t].next - 1 = Len(ledger[s]) + 1
      BY <2>1, NumberInHand DEF Commit
    <3>2. Authority!Issue(s)
      BY <2>1, <3>1 DEF Commit, Authority!Issue
    <3> QED BY <3>1, <3>2 DEF Authority!Next
  <2>2. ASSUME NEW t \in Tx, Step(t), ~ Commit(t) PROVE UNCHANGED ledger
    BY <2>2 DEF Step, SelectForUpdate, SelectNothing, InsertCounter,
                InsertViolatesUnique, Increment, Undo
  <2>3. ASSUME NEW t \in Tx, Rollback(t) PROVE UNCHANGED ledger
    BY <2>3 DEF Rollback, Undo
  <2>4. ASSUME NEW t \in Tx, NEW s \in Series, Begin(t, s)
        PROVE  UNCHANGED ledger
    BY <2>4 DEF Begin
  <2>5. CASE UNCHANGED vars
    BY <2>5 DEF vars
  <2> QED BY <2>1, <2>2, <2>3, <2>4, <2>5 DEF Next, NoRequest
<1> QED BY <1>1, <1>2, Inductive, PTL DEF Spec, Authority!Spec, ImplementsAuthority

=============================================================================
