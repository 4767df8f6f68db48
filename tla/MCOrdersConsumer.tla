-------------------------- MODULE MCOrdersConsumer --------------------------
(* An order's event, a message that is not JSON and one whose envelope is     *)
(* refused; one pod, or two during a rollout. A message that is delivered     *)
(* again while it is handled overlaps as an event published twice would.      *)
EXTENDS OrdersConsumer

CONSTANTS p1, p2, created, garbage, refused,
          createdEvent, proforma

OnePod == {p1}
TwoPods == {p1, p2}
OneMessage == {created}
AllMessages == {created, garbage, refused}
NoneOf == {}
OnlyGarbage == {garbage}
OnlyRefused == {refused}
MCEvents == {createdEvent}
MCInvoices == {proforma}
MCInvoiceOf == [e \in Events |-> proforma]
MCEventOf == [m \in Messages |-> createdEvent]

=============================================================================
