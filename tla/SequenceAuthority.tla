-------------------------- MODULE SequenceAuthority --------------------------
(***************************************************************************)
(* What the annual numbering promises, with no transaction in sight: each  *)
(* series (an invoice type in a year) has one ledger of the numbers of its *)
(* issued invoices, and issuing an invoice appends the next integer to it. *)
(*                                                                         *)
(* InvoiceNumbering implements this specification: its counter rows, row   *)
(* locks and rollbacks are invisible here.                                 *)
(***************************************************************************)
EXTENDS Naturals, Sequences

CONSTANT Series     \* the (type, year) pairs of invoice_sequence_counters

VARIABLE ledger     \* ledger[s]: numbers of the invoices issued in s, in order

Init == ledger = [s \in Series |-> << >>]

\* One more invoice of series s exists, and it has the next number.
Issue(s) ==
    ledger' = [ledger EXCEPT ![s] = Append(@, Len(@) + 1)]

Next == \E s \in Series : Issue(s)

Spec == Init /\ [][Next]_ledger

=============================================================================
