------------------------- MODULE MCInvoiceIssuance -------------------------
(* Two orders' final invoices share the series of final invoices. The first  *)
(* order's event was published twice under different ids, once as it is and  *)
(* once as a replay.                                                         *)
EXTENDS InvoiceIssuance, TLC

CONSTANTS h1, h2, r1, paidA, paidAgainA, paidB, invoiceA, invoiceB, finals

OneHandler == {h1}
TwoHandlers == {h1, h2}
NoRotator == {}
OneRotator == {r1}
OneEvent == {paidA}
EventsOfTwo == {paidA, paidB}
EventsOfOne == {paidA, paidAgainA}
AllEvents == {paidA, paidAgainA, paidB}
MCInvoices == {invoiceA, invoiceB}
OneInvoice == {invoiceA}
MCSeries == {finals}

NoInvoice == {}

\* The handlers are interchangeable (used where no liveness is checked).
HandlerSymmetry == Permutations(TwoHandlers)

MCInvoiceOf ==
    [e \in Events |-> IF e = paidB THEN invoiceB ELSE invoiceA]
MCSeriesOf == [i \in Invoices |-> finals]

=============================================================================
