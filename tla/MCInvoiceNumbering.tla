-------------------------- MODULE MCInvoiceNumbering --------------------------
(* Three connections allocate in two series, three numbers in each: enough   *)
(* for two to race on a missing row while a third arrives after the commit.  *)
EXTENDS InvoiceNumbering

CONSTANTS t1, t2, t3, proforma2026, final2026

MCTx == {t1, t2, t3}
MCSeries == {proforma2026, final2026}

=============================================================================
