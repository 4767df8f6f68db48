----------------------------- MODULE EventRecords -----------------------------
(***************************************************************************)
(* What handleOrdersEvent promises to whoever calls it, seen through two   *)
(* tables only: the mark an event has in invoice_event_records, and        *)
(* whether its invoice has a row, issued or BLOCKED, in invoice_documents. *)
(*                                                                         *)
(* InvoiceIssuance implements this specification whatever runs             *)
(* concurrently, and OrdersConsumer is built on it.                        *)
(***************************************************************************)
CONSTANTS
    Events,     \* Orders events, by eventId
    Invoices,   \* the (orderId, type) pairs
    InvoiceOf   \* InvoiceOf[e]: the invoice event e asks for

VARIABLES
    eventRec,   \* eventRec[e]: none, failed or processed
    onRecord    \* onRecord[i]: invoice i has a row

Init ==
    /\ eventRec = [e \in Events |-> "none"]
    /\ onRecord = [i \in Invoices |-> FALSE]

\* The invoice is issued, or recorded as blocked; it is never removed.
PutOnRecord(i) ==
    /\ onRecord' = [onRecord EXCEPT ![i] = TRUE]
    /\ UNCHANGED eventRec

\* An event is done when its invoice is on record, and not before.
MarkProcessed(e) ==
    /\ onRecord[InvoiceOf[e]]
    /\ eventRec' = [eventRec EXCEPT ![e] = "processed"]
    /\ UNCHANGED onRecord

\* A failed attempt may even hide that another one succeeded.
MarkFailed(e) ==
    /\ eventRec' = [eventRec EXCEPT ![e] = "failed"]
    /\ UNCHANGED onRecord

Next ==
    \/ \E i \in Invoices : PutOnRecord(i)
    \/ \E e \in Events : MarkProcessed(e) \/ MarkFailed(e)

Spec == Init /\ [][Next]_<<eventRec, onRecord>>

=============================================================================
