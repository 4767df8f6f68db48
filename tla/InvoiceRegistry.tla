--------------------------- MODULE InvoiceRegistry ---------------------------
(***************************************************************************)
(* What invoice issuance promises of an (orderId, type), with no handler,  *)
(* event, retry or crash in sight: it may be refused any number of times,  *)
(* and it is issued at most once, with the next number of its series and   *)
(* one document. Nothing changes an issued invoice (INV-INV-001, 002).     *)
(*                                                                         *)
(* InvoiceIssuance implements this specification when one handler runs at  *)
(* a time, and does not when two do.                                       *)
(***************************************************************************)
EXTENDS Naturals, FiniteSets

CONSTANTS
    Invoices,   \* the (orderId, type) pairs
    Series,     \* the (type, year) pairs
    SeriesOf    \* the series an invoice is numbered in

VARIABLE entry  \* entry[i]: [state, number, doc]; 0 stands for "none yet"

Init ==
    entry = [i \in Invoices |-> [state |-> "none", number |-> 0, doc |-> 0]]

IsIssued(i) == entry[i].state = "issued"

\* The invoice is on record, and waits for what it lacks.
Block(i) ==
    /\ ~ IsIssued(i)
    /\ entry' = [entry EXCEPT ![i].state = "blocked"]

NextNumber(s) ==
    Cardinality({j \in Invoices : SeriesOf[j] = s /\ IsIssued(j)}) + 1

\* The invoice is issued, with a document no other invoice has.
Issue(i) ==
    LET doc == entry'[i].doc IN
    /\ ~ IsIssued(i)
    /\ entry' = [entry EXCEPT ![i] =
          [state |-> "issued", number |-> NextNumber(SeriesOf[i]), doc |-> doc]]
    /\ doc \notin {0} \cup {entry[j].doc : j \in Invoices}

Next == \E i \in Invoices : Block(i) \/ Issue(i)

Spec == Init /\ [][Next]_entry

=============================================================================
