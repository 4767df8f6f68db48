-------------------------- MODULE MCDocumentAccess --------------------------
(* One invoice, whose order names a customer's subject and an e-mail address *)
(* that only an imported user has; a stranger, whom it does not name; and a  *)
(* service that may read and write.                                          *)
EXTENDS DocumentAccess

CONSTANTS q1, q2, customer, imported, stranger, service, invoice,
          subject1, subject2, email1

BothRequests == {q1, q2}
AllCallers == {customer, imported, stranger, service}
OneInvoice == {invoice}
MCIdentities == {subject1, subject2, email1}

Nobody == [valid |-> TRUE, imported |-> FALSE, subject |-> Unknown,
           email |-> Unknown, roles |-> {}]

MCAnswer == [c \in Callers |->
    CASE c = customer -> [Nobody EXCEPT !.subject = subject1]
      [] c = imported -> [Nobody EXCEPT !.email = email1, !.imported = TRUE]
      [] c = stranger -> [Nobody EXCEPT !.subject = subject2]
      [] c = service  -> [Nobody EXCEPT !.roles = {"service"}]]

MCSnapshot == [i \in Invoices |-> [subject |-> subject1, email |-> email1]]

=============================================================================
