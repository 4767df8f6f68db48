---------------------------- MODULE IssuanceInputs ----------------------------
(***************************************************************************)
(* What one event makes of its data, from its envelope to the printed      *)
(* document: validateOrdersEventEnvelope, routeVerifiedEvent, the order    *)
(* the Orders service answers with, resolveSeller, validateIssuanceInputs, *)
(* the columns stored and the facts the HTML and the PDF state. Several    *)
(* files read the same optional fields, each with its own idea of what is  *)
(* missing.                                                                *)
(*                                                                         *)
(* A text is what JavaScript tells apart: absent (undefined, null, ''),    *)
(* blank (spaces: it is truthy, and nothing once trimmed) or given. So is  *)
(* an amount: absent, '', zero, stated, or words that are no number.       *)
(*                                                                         *)
(* InvoiceIssuance leaves the outcome of these decisions open.             *)
(***************************************************************************)
EXTENDS Naturals, Sequences

CONSTANTS
    Inputs,     \* events that may arrive
    Answers,    \* orders that may be answered
    Sellers,    \* the seller's configured name and address
    Lower,      \* Lower[k]: the payload key k in lower case
    Forbidden,  \* FORBIDDEN_KEYS
    Payloads    \* the JSON values in the events' data, the nested ones included

VARIABLES
    stage,      \* how far the event has come
    event,      \* the event being handled
    env,        \* the configured seller
    order,      \* the order answered for it
    row,        \* what its invoice_documents row states
    html,       \* the facts the stored HTML states
    pdf         \* the facts the stored PDF states

vars == <<stage, event, env, order, row, html, pdf>>

Texts == {"absent", "blank", "given"}
Amounts == {"absent", "empty", "zero", "stated", "words"}
Money == {"null", "zero", "stated"}

Truthy(text) == text # "absent"

Trimmed(text) == IF text = "blank" THEN "absent" ELSE text

\* A payload is an object; a value is one, an array, or a leaf without parts.
Leaf == [kind |-> "leaf", parts |-> {}]

NoEvent == [type |-> "none", header |-> FALSE, payload |-> Leaf,
            orderId |-> "absent", channel |-> "absent", paid |-> FALSE]

NoOrder == [currency |-> "absent", total |-> "absent", taxAmount |-> "absent",
            companyName |-> "absent", billingName |-> "absent",
            customerName |-> "absent", street |-> "absent", city |-> "absent",
            country |-> "absent", paymentStatus |-> "absent", items |-> <<>>]

NoRow == [status |-> "none", blockedReason |-> {}, payload |-> Leaf,
          totalAmount |-> "null", taxAmount |-> "null"]

NoDocument == [seller |-> "absent", buyer |-> "none", address |-> {},
               currency |-> "absent", total |-> "null", tax |-> "null",
               lines |-> <<>>]

Items == [productName : Texts, sku : Texts, productId : Texts, quantity : Texts,
          unitPrice : Amounts, totalPrice : Amounts]

Orders == [currency : Texts, total : Amounts, taxAmount : Amounts,
           companyName : Texts, billingName : Texts, customerName : Texts,
           street : Texts, city : Texts, country : Texts,
           paymentStatus : {"absent", "paid", "pending"}, items : Seq(Items)]

\* What JSON.parse and the environment can give.
ASSUME InputsAssumption ==
    /\ \A e \in Inputs : e.payload \in Payloads /\ e.paid \in BOOLEAN
    /\ Leaf \in Payloads
    /\ \A v \in Payloads : \A part \in v.parts : part.value \in Payloads
    /\ Answers \subseteq Orders
    /\ Sellers \subseteq [name : Texts, address : Texts]

Stages == {"idle", "received", "ignored", "fetch", "validate", "blocked", "issued"}

Reasons == {"order_snapshot_unavailable", "seller_legal_config_missing",
            "order_currency_missing", "order_total_missing",
            "buyer_name_missing", "buyer_billing_address_missing",
            "order_not_paid"}

\* A row of the items table.
Lines == [label : {"productName", "sku", "productId", "Item", "Order total"},
          quantity : {"undefined", "given", "one"}, unit : Money, total : Money]

Documents == [seller : Texts,
              buyer : {"none", "companyName", "billingName", "customerName", "Customer"},
              address : SUBSET {"street", "city", "country"},
              currency : Texts \cup {"CZK"}, total : Money, tax : Money,
              lines : Seq(Lines)]

TypeOK ==
    /\ stage \in Stages
    /\ event = NoEvent \/ event \in Inputs
    /\ env \in Sellers
    /\ order = NoOrder \/ order \in Answers
    /\ row.status \in {"none", "blocked", "delivery_pending"}
    /\ row.blockedReason \subseteq Reasons
    /\ row.payload \in {Leaf, event.payload}
    /\ {row.totalAmount, row.taxAmount} \subseteq Money
    /\ html \in Documents
    /\ pdf \in Documents

Init ==
    /\ stage = "idle"
    /\ event = NoEvent
    /\ env \in Sellers
    /\ order = NoOrder
    /\ row = NoRow
    /\ html = NoDocument
    /\ pdf = NoDocument

-----------------------------------------------------------------------------
(* orders-event.dto *)

ValidTypes == {"created", "paid"}

HasForbiddenPayloadKey[v \in Payloads] ==
    \/ v.kind = "object" /\ \E part \in v.parts : Lower[part.key] \in Forbidden
    \/ \E part \in v.parts : HasForbiddenPayloadKey[part.value]

\* Deviation: only the payload's own keys are looked at.
AcceptedByTopKeys(e) ==
    /\ e.type \in ValidTypes
    /\ e.header
    /\ e.payload.kind = "object"
    /\ \A part \in e.payload.parts : Lower[part.key] \notin Forbidden
    /\ Trimmed(e.orderId) = "given"
    /\ \/ e.type = "created" /\ Trimmed(e.channel) = "given"
       \/ e.type = "paid" /\ e.paid

\* validateOrdersEventEnvelope finds nothing to object to. `header` stands for
\* eventVersion, eventId, occurredAt and source being what they should.
Accepted(e) ==
    /\ e.type \in ValidTypes
    /\ e.header
    /\ e.payload.kind = "object"
    /\ ~ HasForbiddenPayloadKey[e.payload]
    /\ Trimmed(e.orderId) = "given"
    /\ \/ e.type = "created" /\ Trimmed(e.channel) = "given"
       \/ e.type = "paid" /\ e.paid

Receive ==
    /\ stage = "idle"
    /\ stage' = "received"
    /\ event' \in Inputs
    /\ UNCHANGED <<env, order, row, html, pdf>>

Ignore ==
    /\ stage = "received"
    /\ ~ Accepted(event)
    /\ stage' = "ignored"
    /\ UNCHANGED <<event, env, order, row, html, pdf>>

\* routeVerifiedEvent: a proforma for a created order, a final for a paid one; the
\* validation lets no other type come here.
Route ==
    /\ stage = "received"
    /\ Accepted(event)
    /\ stage' = "fetch"
    /\ UNCHANGED <<event, env, order, row, html, pdf>>

Type == IF event.type = "created" THEN "proforma" ELSE "final"

-----------------------------------------------------------------------------
(* issueInvoiceForEvent: the facts an invoice must state *)

\* resolveSeller gives null unless both are there once trimmed.
SellerResolved ==
    Trimmed(env.name) = "given" /\ Trimmed(env.address) = "given"

\* Deviation: a total of zero counts as missing, as every falsy value would.
FalsyTotal(o) == o.total \in {"absent", "empty", "zero"}

\* undefined or null
NoTotal(o) == o.total = "absent"

\* Deviation: shippingAddress stands in for a missing billingAddress.
NeverNoAddress(o) == FALSE

NoAddress(o) == \A t \in {o.street, o.city, o.country} : ~ Truthy(t)

NoBuyerName(o) ==
    \A t \in {o.companyName, o.billingName, o.customerName} : ~ Truthy(t)

\* Deviation: only an order without any status counts as not paid.
NoPaymentStatus(o) == Type = "final" /\ o.paymentStatus = "absent"

\* An empty paymentStatus is as good as none.
NotPaid(o) == Type = "final" /\ o.paymentStatus \notin {"absent", "paid"}

\* validateIssuanceInputs. fetchOrderSnapshot has refused an order without id.
Blockers(o) ==
    LET missing == [
            seller_legal_config_missing |-> ~ SellerResolved,
            order_currency_missing |-> ~ Truthy(o.currency),
            order_total_missing |-> NoTotal(o),
            buyer_name_missing |-> NoBuyerName(o),
            buyer_billing_address_missing |-> NoAddress(o),
            order_not_paid |-> NotPaid(o)]
    IN  { reason \in DOMAIN missing : missing[reason] }

\* saveBlockedInvoice
SaveBlocked(reasons) ==
    /\ stage' = "blocked"
    /\ row' = [row EXCEPT !.status = "blocked", !.blockedReason = reasons,
                          !.payload = event.payload]
    /\ UNCHANGED <<event, env, html, pdf>>

\* fetchOrderSnapshot throws: no configuration, no answer, or an answer that
\* is no order.
OrderUnavailable ==
    /\ stage = "fetch"
    /\ SaveBlocked({"order_snapshot_unavailable"})
    /\ UNCHANGED order

OrderFetched ==
    /\ stage = "fetch"
    /\ stage' = "validate"
    /\ order' \in Answers
    /\ UNCHANGED <<event, env, row, html, pdf>>

Block ==
    /\ stage = "validate"
    /\ Blockers(order) # {}
    /\ SaveBlocked(Blockers(order))
    /\ UNCHANGED order

-----------------------------------------------------------------------------
(* issueInvoiceForEvent: the amounts stored *)

\* Deviation: `if (!value) return null`.
DecimalStringFalsy(amount) ==
    IF amount = "stated" THEN "stated" ELSE "null"

\* decimalString: Number('') is 0, and what is not a number is null.
DecimalString(amount) ==
    CASE amount = "stated" -> "stated"
      [] amount \in {"zero", "empty"} -> "zero"
      [] amount \in {"absent", "words"} -> "null"

\* a || b || ... || otherwise
FirstTruthy(o, fields, otherwise) ==
    LET truthy == {n \in DOMAIN fields : Truthy(o[fields[n]])}
    IN  IF truthy = {} THEN otherwise
        ELSE fields[CHOOSE n \in truthy : \A m \in truthy : n <= m]

\* String(item.quantity) prints a missing quantity as the word undefined.
QuantityOf(item) == IF item.quantity = "absent" THEN "undefined" ELSE "given"

-----------------------------------------------------------------------------
(* The HTML: InvoiceTemplateService *)

\* money(value): Number(value || 0), or 0.00.
HtmlMoney(amount) == IF amount = "stated" THEN "stated" ELSE "zero"

HtmlLine(item) ==
    [label |-> FirstTruthy(item, <<"productName", "sku", "productId">>, "Item"),
     quantity |-> QuantityOf(item),
     unit |-> HtmlMoney(item.unitPrice), total |-> HtmlMoney(item.totalPrice)]

\* normalizeItems: an order without items has one line, its total.
HtmlLines(o) ==
    IF o.items # <<>>
    THEN [n \in DOMAIN o.items |-> HtmlLine(o.items[n])]
    ELSE <<[label |-> "Order total", quantity |-> "one",
            unit |-> HtmlMoney(o.total), total |-> HtmlMoney(o.total)]>>

\* The facts render states, in the order of its sections.
HtmlFacts(o) ==
    [seller |-> Trimmed(env.name),
     buyer |-> FirstTruthy(o, <<"companyName", "billingName", "customerName">>, "Customer"),
     address |-> {line \in {"street", "city", "country"} : Truthy(o[line])},
     lines |-> HtmlLines(o),
     currency |-> IF Truthy(o.currency) THEN o.currency ELSE "CZK",
     tax |-> HtmlMoney(o.taxAmount), total |-> HtmlMoney(o.total)]

-----------------------------------------------------------------------------
(* The PDF: InvoicePdfService, with its own copies of these methods *)

\* Deviation: toFixed without asking first whether there is a number.
PdfMoneyUnchecked(amount) ==
    CASE amount = "stated" -> "stated"
      [] amount = "words" -> "null"
      [] amount \in {"absent", "empty", "zero"} -> "zero"

PdfMoney(amount) == IF amount = "stated" THEN "stated" ELSE "zero"

PdfLine(item) ==
    [label |-> FirstTruthy(item, <<"productName", "sku", "productId">>, "Item"),
     quantity |-> QuantityOf(item),
     unit |-> PdfMoney(item.unitPrice), total |-> PdfMoney(item.totalPrice)]

PdfLines(o) ==
    IF o.items # <<>>
    THEN [n \in DOMAIN o.items |-> PdfLine(o.items[n])]
    ELSE <<[label |-> "Order total", quantity |-> "one",
            unit |-> PdfMoney(o.total), total |-> PdfMoney(o.total)]>>

\* The facts writePdf states; an address line that is missing is an empty text.
PdfFacts(o) ==
    [seller |-> Trimmed(env.name),
     buyer |-> FirstTruthy(o, <<"companyName", "billingName", "customerName">>, "Customer"),
     address |-> {line \in {"street", "city", "country"} : Truthy(o[line])},
     lines |-> PdfLines(o),
     currency |-> IF Truthy(o.currency) THEN o.currency ELSE "CZK",
     tax |-> PdfMoney(o.taxAmount), total |-> PdfMoney(o.total)]

-----------------------------------------------------------------------------
(* issueInvoiceForEvent: the row and both documents, in one transaction *)

\* Deviation: the row is saved with the unused status of the enumeration.
StoredAsIssued(o) ==
    [NoRow EXCEPT !.status = "issued", !.totalAmount = DecimalString(o.total),
                  !.taxAmount = DecimalString(o.taxAmount)]

\* The columns of an issued row.
Stored(o) ==
    [NoRow EXCEPT !.status = "delivery_pending",
                  !.totalAmount = DecimalString(o.total),
                  !.taxAmount = DecimalString(o.taxAmount)]

Issue ==
    /\ stage = "validate"
    /\ Blockers(order) = {}
    /\ stage' = "issued"
    /\ row' = Stored(order)
    /\ html' = HtmlFacts(order)
    /\ pdf' = PdfFacts(order)
    /\ UNCHANGED <<event, env, order>>

\* handleOrdersEvent returns, and the next event is another invoice's.
Return ==
    /\ stage \in {"ignored", "blocked", "issued"}
    /\ stage' = "idle"
    /\ event' = NoEvent
    /\ order' = NoOrder
    /\ row' = NoRow
    /\ html' = NoDocument
    /\ pdf' = NoDocument
    /\ UNCHANGED env

Next ==
    \/ Receive \/ Ignore \/ Route
    \/ OrderUnavailable \/ OrderFetched
    \/ Block \/ Issue \/ Return

Spec == Init /\ [][Next]_vars

-----------------------------------------------------------------------------
(* Properties *)

\* A set with no way out: what is nested in its values is in it.
Closed(S) == \A v \in S : \A part \in v.parts : part.value \in S

\* The values nested in v, v included: those no closed set with v can be without.
Nested ==
    [v \in Payloads |->
        {w \in Payloads : \A S \in SUBSET Payloads : v \in S /\ Closed(S) => w \in S}]

\* "Orders events remain trigger-only" (INV-INV-003): the payload a blocked row
\* stores has a forbidden key nowhere, however deep and in whatever case.
TriggerOnly ==
    \A v \in Nested[row.payload] :
        v.kind = "object" => \A part \in v.parts : Lower[part.key] \notin Forbidden

\* What the validation lets pass, the renderers can print without a fallback:
\* no issued document names the buyer 'Customer', falls back to CZK, or lacks
\* the seller or every line of the address.
PartiesFromOrder ==
    stage = "issued" =>
        \A doc \in {html, pdf} :
            /\ doc.seller = "given"
            /\ doc.buyer \in {"companyName", "billingName", "customerName"}
            /\ doc.currency = order.currency
            /\ doc.address # {}

\* The HTML and the PDF are written by two services, each with its own copies of
\* the fallbacks: whatever an order leaves out or fills with words, they state
\* the same facts.
RenderersAgree == html = pdf

\* An amount the order states, zero included, is stored and printed the same, and
\* its items are the lines of both documents, one by one: no item is lost, and
\* the line that stands in for missing items carries the total the row stores.
StatedAmountsAgree ==
    stage = "issued" =>
        /\ order.total \in {"zero", "stated"} =>
              {row.totalAmount, html.total, pdf.total} = {order.total}
        /\ order.taxAmount \in {"zero", "stated"} =>
              {row.taxAmount, html.tax, pdf.tax} = {order.taxAmount}
        /\ \A lines \in {html.lines, pdf.lines} :
              /\ Len(lines) = IF order.items = <<>> THEN 1 ELSE Len(order.items)
              /\ order.items = <<>> /\ row.totalAmount # "null" =>
                    lines[1].total = row.totalAmount
              /\ \A n \in DOMAIN order.items :
                    /\ order.items[n].unitPrice \in {"zero", "stated"} =>
                          lines[n].unit = order.items[n].unitPrice
                    /\ order.items[n].totalPrice \in {"zero", "stated"} =>
                          lines[n].total = order.items[n].totalPrice

\* A final invoice is generated "when the order is paid" (BUSINESS.md:40): the
\* event and the order come from two services' reads at two times, and no final
\* invoice is issued while either says otherwise. An order without a status does
\* not contradict the event.
FinalMeansPaid ==
    stage = "issued" /\ event.type # "created" =>
        event.paid /\ order.paymentStatus # "pending"

\* An order that states everything, free of charge or not, is never blocked
\* while the seller is configured, and a proforma needs no payment.
CompleteIsIssued ==
    stage = "blocked" /\ order # NoOrder =>
        \/ "given" \notin {order.companyName, order.billingName, order.customerName}
        \/ "given" \notin {order.street, order.city, order.country}
        \/ order.currency # "given"
        \/ order.total \notin {"zero", "stated"}
        \/ event.type = "paid" /\ order.paymentStatus = "pending"
        \/ env.name # "given" \/ env.address # "given"

-----------------------------------------------------------------------------
(* A property the documents state and the code does not have *)

\* "Seller, buyer, address, tax, and payment facts are never invented": the
\* document of an order that states no tax states none.
TaxNotInvented ==
    row.taxAmount = "null" => html.tax = "null" /\ pdf.tax = "null"

=============================================================================
