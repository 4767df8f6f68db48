------------------------ MODULE IssuanceInputsProofs ------------------------
(* What an event's data has become at each stage, and what follows for the   *)
(* invoice, whatever the events, the orders and the configured seller are.   *)
EXTENDS IssuanceInputs, SequenceTheorems, TLAPS

-----------------------------------------------------------------------------
(* The search through a payload *)

\* What is in every closed set with v.
LEMMA NestedFacts ==
  ASSUME NEW v \in Payloads, NEW S \in SUBSET Payloads, v \in S, Closed(S)
  PROVE  Nested[v] \subseteq S
BY DEF Nested

Forbids(v) == v.kind = "object" /\ \E part \in v.parts : Lower[part.key] \in Forbidden

\* A function that satisfies the recursion of hasForbiddenPayloadKey: some value
\* nested in v forbids it.
LEMMA SearchExists ==
  \E f : f = [v \in Payloads |-> \/ Forbids(v)
                                 \/ \E part \in v.parts : f[part.value]]
<1> DEFINE f == [v \in Payloads |-> \E w \in Nested[v] : Forbids(w)]
<1>1. \A v \in Payloads : \A part \in v.parts : part.value \in Payloads
  BY InputsAssumption
<1>2. ASSUME NEW v \in Payloads
      PROVE  Nested[v] = {v} \cup UNION {Nested[part.value] : part \in v.parts}
  <2> DEFINE Inner == {v} \cup UNION {Nested[part.value] : part \in v.parts}
  <2>1. Inner \subseteq Payloads /\ v \in Inner
    BY <1>1 DEF Nested
  <2>2. Closed(Inner)
    <3> SUFFICES ASSUME NEW x \in Inner, NEW p \in x.parts
                 PROVE  p.value \in Inner
      BY DEF Closed
    <3>1. p.value \in Payloads
      BY <1>1, <2>1
    <3>2. CASE x = v
      BY <1>1, <3>1, <3>2 DEF Nested
    <3>3. ASSUME NEW part \in v.parts, x \in Nested[part.value]
          PROVE  p.value \in Nested[part.value]
      BY <1>1, <3>1, <3>3 DEF Nested, Closed
    <3> QED
      BY <3>2, <3>3
  <2>3. Nested[v] \subseteq Inner
    BY <2>1, <2>2, NestedFacts
  <2>4. v \in Nested[v]
    BY DEF Nested
  <2>5. ASSUME NEW part \in v.parts
        PROVE  Nested[part.value] \subseteq Nested[v]
    BY <1>1 DEF Nested, Closed
  <2> QED
    BY <2>3, <2>4, <2>5
<1>3. ASSUME NEW v \in Payloads
      PROVE  f[v] = (Forbids(v) \/ \E part \in v.parts : f[part.value])
  <2>1. f[v] <=> Forbids(v) \/ \E part \in v.parts : \E w \in Nested[part.value] : Forbids(w)
    BY <1>2
  <2>2. \A part \in v.parts : f[part.value] <=> \E w \in Nested[part.value] : Forbids(w)
    BY <1>1
  <2> QED
    BY <2>1, <2>2
<1>4. f = [v \in Payloads |-> Forbids(v) \/ \E part \in v.parts : f[part.value]]
  BY <1>3
<1> QED
  BY <1>4

\* hasForbiddenPayloadKey is what its recursion says it is.
LEMMA SearchEquation ==
  ASSUME NEW v \in Payloads
  PROVE  HasForbiddenPayloadKey[v] <=>
           Forbids(v) \/ \E part \in v.parts : HasForbiddenPayloadKey[part.value]
<1>1. HasForbiddenPayloadKey =
        [u \in Payloads |-> \/ Forbids(u)
                            \/ \E part \in u.parts : HasForbiddenPayloadKey[part.value]]
  BY SearchExists, Zenon DEF HasForbiddenPayloadKey, Forbids
<1> QED
  BY <1>1

\* Where the search finds nothing, nothing nested forbids anything.
LEMMA SearchIsComplete ==
  ASSUME NEW v \in Payloads, ~ HasForbiddenPayloadKey[v]
  PROVE  \A w \in Nested[v] : ~ Forbids(w)
<1> DEFINE Clean == {w \in Payloads : ~ HasForbiddenPayloadKey[w]}
<1>1. Closed(Clean)
  BY SearchEquation, InputsAssumption DEF Closed
<1>2. Nested[v] \subseteq Clean
  BY <1>1, NestedFacts
<1> QED
  BY <1>2, SearchEquation

-----------------------------------------------------------------------------
(* The renderings *)

LEMMA LeastOf ==
  ASSUME NEW S \in SUBSET Nat, NEW n \in S, \A m \in S : n <= m
  PROVE  (CHOOSE k \in S : \A m \in S : k <= m) = n
<1> DEFINE least == CHOOSE k \in S : \A m \in S : k <= m
<1>1. least \in S /\ \A m \in S : least <= m
  BY Zenon
<1> HIDE DEF least
<1>2. least = n
  BY <1>1
<1> QED
  BY <1>2 DEF least

LEMMA FirstOfThree ==
  ASSUME NEW o, NEW a, NEW b, NEW c, NEW otherwise
  PROVE  FirstTruthy(o, <<a, b, c>>, otherwise) =
           IF Truthy(o[a]) THEN a
           ELSE IF Truthy(o[b]) THEN b
           ELSE IF Truthy(o[c]) THEN c ELSE otherwise
<1> DEFINE fields == <<a, b, c>>
           truthy == {n \in DOMAIN fields : Truthy(o[fields[n]])}
<1>1. DOMAIN fields = {1, 2, 3} /\ fields[1] = a /\ fields[2] = b /\ fields[3] = c
  OBVIOUS
<1>2. /\ truthy = {} => FirstTruthy(o, fields, otherwise) = otherwise
      /\ \A n \in truthy :
            (\A m \in truthy : n <= m) => FirstTruthy(o, fields, otherwise) = fields[n]
  <2>1. truthy \in SUBSET Nat
    BY <1>1
  <2>2. FirstTruthy(o, fields, otherwise) =
          IF truthy = {} THEN otherwise
          ELSE fields[CHOOSE n \in truthy : \A m \in truthy : n <= m]
    BY DEF FirstTruthy
  <2> HIDE DEF truthy, fields
  <2> QED
    BY <2>1, <2>2, LeastOf, Zenon
<1>3. /\ 1 \in truthy <=> Truthy(o[a])
      /\ 2 \in truthy <=> Truthy(o[b])
      /\ 3 \in truthy <=> Truthy(o[c])
      /\ truthy \subseteq {1, 2, 3}
  BY <1>1
<1> HIDE DEF truthy
<1>4. CASE Truthy(o[a])
  <2>1. 1 \in truthy /\ \A m \in truthy : 1 <= m
    BY <1>3, <1>4
  <2> QED
    BY <1>1, <1>2, <1>4, <2>1
<1>5. CASE ~ Truthy(o[a]) /\ Truthy(o[b])
  <2>1. 2 \in truthy /\ \A m \in truthy : 2 <= m
    BY <1>3, <1>5
  <2> QED
    BY <1>1, <1>2, <1>5, <2>1
<1>6. CASE ~ Truthy(o[a]) /\ ~ Truthy(o[b]) /\ Truthy(o[c])
  <2>1. 3 \in truthy /\ \A m \in truthy : 3 <= m
    BY <1>3, <1>6
  <2> QED
    BY <1>1, <1>2, <1>6, <2>1
<1>7. CASE ~ Truthy(o[a]) /\ ~ Truthy(o[b]) /\ ~ Truthy(o[c])
  BY <1>2, <1>3, <1>7
<1> QED
  BY <1>4, <1>5, <1>6, <1>7

LEMMA MoneyFacts ==
  ASSUME NEW amount \in Amounts
  PROVE  /\ HtmlMoney(amount) \in Money
         /\ DecimalString(amount) \in Money
         /\ amount \in {"zero", "stated"} =>
               HtmlMoney(amount) = amount /\ DecimalString(amount) = amount
         /\ DecimalString(amount) # "null" => HtmlMoney(amount) = DecimalString(amount)
BY DEF Amounts, Money, HtmlMoney, DecimalString

\* Each line is typed and states its item's amounts.
LEMMA LineFacts ==
  ASSUME NEW item \in Items
  PROVE  /\ HtmlLine(item) \in Lines
         /\ HtmlLine(item).unit = HtmlMoney(item.unitPrice)
         /\ HtmlLine(item).total = HtmlMoney(item.totalPrice)
<1>1. FirstTruthy(item, <<"productName", "sku", "productId">>, "Item")
        \in {"productName", "sku", "productId", "Item"}
  BY FirstOfThree
<1>2. HtmlMoney(item.unitPrice) \in Money /\ HtmlMoney(item.totalPrice) \in Money
  BY MoneyFacts DEF Items
<1> QED
  BY <1>1, <1>2 DEF HtmlLine, Lines, QuantityOf

LEMMA LinesFacts ==
  ASSUME NEW o \in Orders
  PROVE  /\ HtmlLines(o) \in Seq(Lines)
         /\ o.items # <<>> =>
               /\ Len(HtmlLines(o)) = Len(o.items)
               /\ \A n \in DOMAIN o.items : HtmlLines(o)[n] = HtmlLine(o.items[n])
         /\ o.items = <<>> =>
               Len(HtmlLines(o)) = 1 /\ HtmlLines(o)[1].total = HtmlMoney(o.total)
<1>1. o.items \in Seq(Items) /\ o.total \in Amounts
  BY DEF Orders
<1>2. CASE o.items # <<>>
  <2>1. HtmlLines(o) = [n \in 1 .. Len(o.items) |-> HtmlLine(o.items[n])]
    BY <1>1, <1>2 DEF HtmlLines
  <2>2. \A n \in 1 .. Len(o.items) : HtmlLine(o.items[n]) \in Lines
    BY <1>1, LineFacts
  <2>3. Len(o.items) \in Nat /\ DOMAIN o.items = 1 .. Len(o.items)
    BY <1>1
  <2>4. HtmlLines(o) \in Seq(Lines) /\ Len(HtmlLines(o)) = Len(o.items)
    BY <2>1, <2>2, <2>3
  <2> QED
    BY <1>2, <2>1, <2>3, <2>4
<1>3. CASE o.items = <<>>
  <2>1. HtmlMoney(o.total) \in Money
    BY <1>1, MoneyFacts
  <2> DEFINE line == [label |-> "Order total", quantity |-> "one",
                      unit |-> HtmlMoney(o.total), total |-> HtmlMoney(o.total)]
  <2>2. HtmlLines(o) = <<line>>
    BY <1>3 DEF HtmlLines
  <2>3. line \in Lines /\ line.total = HtmlMoney(o.total)
    BY <2>1 DEF Lines
  <2> HIDE DEF line
  <2>4. <<line>> \in Seq(Lines) /\ Len(<<line>>) = 1 /\ <<line>>[1] = line
    BY <2>3
  <2> QED
    BY <1>3, <2>2, <2>3, <2>4
<1> QED
  BY <1>2, <1>3

\* The two services' copies agree, for any order.
LEMMA SameFacts ==
  ASSUME NEW o
  PROVE  HtmlFacts(o) = PdfFacts(o)
<1>1. \A amount : HtmlMoney(amount) = PdfMoney(amount)
  BY DEF HtmlMoney, PdfMoney
<1>2. \A item : HtmlLine(item) = PdfLine(item)
  BY <1>1, Zenon DEF HtmlLine, PdfLine
<1>3. HtmlLines(o) = PdfLines(o)
  BY <1>1, <1>2, Zenon DEF HtmlLines, PdfLines
<1> QED
  BY <1>1, <1>3, Zenon DEF HtmlFacts, PdfFacts

LEMMA FactsTyped ==
  ASSUME NEW o \in Orders, env \in [name : Texts, address : Texts]
  PROVE  HtmlFacts(o) \in Documents
<1>1. FirstTruthy(o, <<"companyName", "billingName", "customerName">>, "Customer")
        \in {"companyName", "billingName", "customerName", "Customer"}
  BY FirstOfThree
<1>2. Trimmed(env.name) \in Texts
  BY DEF Trimmed, Texts
<1>3. HtmlMoney(o.total) \in Money /\ HtmlMoney(o.taxAmount) \in Money
  BY MoneyFacts DEF Orders
<1>4. HtmlLines(o) \in Seq(Lines)
  BY LinesFacts
<1>5. (IF Truthy(o.currency) THEN o.currency ELSE "CZK") \in Texts \cup {"CZK"}
  BY DEF Orders
<1>6. {line \in {"street", "city", "country"} : Truthy(o[line])}
        \in SUBSET {"street", "city", "country"}
  OBVIOUS
<1> QED
  BY <1>1, <1>2, <1>3, <1>4, <1>5, <1>6 DEF HtmlFacts, Documents

-----------------------------------------------------------------------------
(* The invariant: what each stage knows of the data *)

\* Whatever is being handled is an event that came in, and from routing on one
\* that the validation had nothing against.
EventKnown ==
    /\ stage # "idle" => event \in Inputs
    /\ stage \in {"fetch", "validate", "blocked", "issued"} => Accepted(event)

OrderKnown ==
    /\ stage \in {"idle", "received", "ignored", "fetch"} => order = NoOrder
    /\ stage \in {"validate", "issued"} => order \in Answers

NothingStored == row = NoRow /\ html = NoDocument /\ pdf = NoDocument

\* An issued document is the rendering of an order without blockers, and a
\* blocked row stores the payload of its event.
OutcomeKnown ==
    /\ stage \notin {"blocked", "issued"} => NothingStored
    /\ stage = "issued" =>
          /\ Blockers(order) = {}
          /\ row = Stored(order) /\ html = HtmlFacts(order) /\ pdf = PdfFacts(order)
    /\ stage = "blocked" =>
          /\ row.payload = event.payload
          /\ html = NoDocument /\ pdf = NoDocument
          /\ order # NoOrder => order \in Answers /\ Blockers(order) # {}

IInv == TypeOK /\ EventKnown /\ OrderKnown /\ OutcomeKnown

LEMMA NoDocumentTyped == NoDocument \in Documents
BY DEF NoDocument, Documents, Texts, Money

LEMMA InitIInv ==
  ASSUME Init
  PROVE  IInv
<1>1. TypeOK
  BY NoDocumentTyped DEF Init, TypeOK, Stages, NoRow, Money
<1> QED
  BY <1>1 DEF Init, IInv, EventKnown, OrderKnown, OutcomeKnown, NothingStored

LEMMA StoredFacts ==
  ASSUME NEW o \in Orders
  PROVE  /\ Stored(o).status = "delivery_pending"
         /\ Stored(o).blockedReason = {}
         /\ Stored(o).payload = Leaf
         /\ Stored(o).totalAmount = DecimalString(o.total)
         /\ Stored(o).taxAmount = DecimalString(o.taxAmount)
         /\ {Stored(o).totalAmount, Stored(o).taxAmount} \subseteq Money
<1>1. DecimalString(o.total) \in Money /\ DecimalString(o.taxAmount) \in Money
  BY MoneyFacts DEF Orders
<1> QED
  BY <1>1 DEF Stored, NoRow

\* The table of validateIssuanceInputs, read row by row.
LEMMA BlockersFacts ==
  ASSUME NEW o
  PROVE  Blockers(o) = {} <=>
            /\ SellerResolved /\ Truthy(o.currency) /\ ~ NoTotal(o)
            /\ ~ NoBuyerName(o) /\ ~ NoAddress(o) /\ ~ NotPaid(o)
<1> DEFINE missing == [
            seller_legal_config_missing |-> ~ SellerResolved,
            order_currency_missing |-> ~ Truthy(o.currency),
            order_total_missing |-> NoTotal(o),
            buyer_name_missing |-> NoBuyerName(o),
            buyer_billing_address_missing |-> NoAddress(o),
            order_not_paid |-> NotPaid(o)]
<1>1. Blockers(o) = { reason \in DOMAIN missing : missing[reason] }
  BY DEF Blockers
<1>2. DOMAIN missing = Reasons \ {"order_snapshot_unavailable"}
  BY DEF Reasons
<1>3. /\ missing.seller_legal_config_missing <=> ~ SellerResolved
      /\ missing.order_currency_missing <=> ~ Truthy(o.currency)
      /\ missing.order_total_missing <=> NoTotal(o)
      /\ missing.buyer_name_missing <=> NoBuyerName(o)
      /\ missing.buyer_billing_address_missing <=> NoAddress(o)
      /\ missing.order_not_paid <=> NotPaid(o)
  BY DEF SellerResolved, Truthy, NoTotal, NoBuyerName, NoAddress, NotPaid
<1> HIDE DEF missing
<1> QED
  BY <1>1, <1>2, <1>3, Zenon DEF Reasons

LEMMA BlockersAreReasons ==
  ASSUME NEW o
  PROVE  Blockers(o) \subseteq Reasons
BY DEF Blockers, Reasons

\* A blocked row states the reasons and the payload, and nothing is printed.
LEMMA SaveBlockedKeeps ==
  ASSUME IInv, NEW reasons \in SUBSET Reasons, SaveBlocked(reasons), order' = order,
         stage \in {"fetch", "validate"},
         order # NoOrder => order \in Answers /\ Blockers(order) # {}
  PROVE  IInv'
<1>1. row = NoRow /\ html = NoDocument /\ pdf = NoDocument
  BY DEF IInv, OutcomeKnown, NothingStored
<1>2. /\ row' = [NoRow EXCEPT !.status = "blocked", !.blockedReason = reasons,
                              !.payload = event.payload]
      /\ stage' = "blocked"
      /\ event' = event /\ env' = env /\ html' = html /\ pdf' = pdf
  BY <1>1 DEF SaveBlocked
<1>3. /\ row'.status = "blocked" /\ row'.blockedReason = reasons
      /\ row'.payload = event.payload
      /\ row'.totalAmount = "null" /\ row'.taxAmount = "null"
  BY <1>2 DEF NoRow
<1>4. TypeOK'
  BY <1>2, <1>3 DEF IInv, TypeOK, Stages, Money
<1>5. EventKnown' /\ OrderKnown'
  BY <1>2 DEF IInv, EventKnown, OrderKnown, Accepted
<1>6. OutcomeKnown'
  BY <1>1, <1>2, <1>3
  DEF OutcomeKnown, Blockers, SellerResolved, NotPaid, Type
<1> QED
  BY <1>4, <1>5, <1>6 DEF IInv

LEMMA IssueKeeps ==
  ASSUME IInv, Issue
  PROVE  IInv'
<1>1. order \in Orders /\ env \in [name : Texts, address : Texts]
  BY InputsAssumption DEF IInv, OrderKnown, TypeOK, Issue
<1>2. /\ stage' = "issued" /\ row' = Stored(order)
      /\ html' = HtmlFacts(order) /\ pdf' = PdfFacts(order)
      /\ event' = event /\ env' = env /\ order' = order /\ Blockers(order) = {}
  BY DEF Issue
<1>3. TypeOK'
  BY <1>1, <1>2, FactsTyped, SameFacts, StoredFacts DEF IInv, TypeOK, Stages, Reasons
<1>4. EventKnown' /\ OrderKnown'
  BY <1>2 DEF IInv, EventKnown, OrderKnown, Accepted, Issue
<1>5. /\ Blockers(order)' = Blockers(order)
      /\ HtmlFacts(order)' = HtmlFacts(order) /\ PdfFacts(order)' = PdfFacts(order)
  BY <1>2 DEF Blockers, SellerResolved, NotPaid, Type, HtmlFacts, PdfFacts
<1>6. OutcomeKnown'
  BY <1>2, <1>5 DEF OutcomeKnown
<1> QED
  BY <1>3, <1>4, <1>6 DEF IInv

LEMMA NextIInv ==
  ASSUME IInv, [Next]_vars
  PROVE  IInv'
<1> USE DEF IInv
<1>1. CASE Receive
  BY <1>1 DEF Receive, TypeOK, Stages, EventKnown, OrderKnown, OutcomeKnown,
              NothingStored, NoRow
<1>2. CASE Ignore
  BY <1>2 DEF Ignore, TypeOK, Stages, EventKnown, OrderKnown, OutcomeKnown,
              NothingStored
<1>3. CASE Route
  BY <1>3 DEF Route, TypeOK, Stages, EventKnown, OrderKnown, OutcomeKnown,
              NothingStored, Accepted
<1>4. CASE OrderUnavailable
  <2>1. order = NoOrder /\ {"order_snapshot_unavailable"} \in SUBSET Reasons
    BY <1>4 DEF OrderUnavailable, OrderKnown, Reasons
  <2> QED
    BY <1>4, <2>1, SaveBlockedKeeps DEF OrderUnavailable
<1>5. CASE OrderFetched
  BY <1>5 DEF OrderFetched, TypeOK, Stages, EventKnown, OrderKnown, OutcomeKnown,
              NothingStored, Accepted
<1>6. CASE Block
  <2>1. order \in Answers /\ Blockers(order) \in SUBSET Reasons
    BY <1>6, BlockersAreReasons DEF Block, OrderKnown
  <2> QED
    BY <1>6, <2>1, SaveBlockedKeeps DEF Block
<1>7. CASE Issue
  BY <1>7, IssueKeeps
<1>8. CASE Return
  BY <1>8, NoDocumentTyped
  DEF Return, TypeOK, Stages, EventKnown, OrderKnown, OutcomeKnown,
      NothingStored, NoRow, Money
<1>9. CASE UNCHANGED vars
  BY <1>9 DEF vars, TypeOK, EventKnown, OrderKnown, OutcomeKnown, NothingStored,
              Accepted, Blockers, SellerResolved, NotPaid, Type, HtmlFacts, PdfFacts
<1> QED
  BY <1>1, <1>2, <1>3, <1>4, <1>5, <1>6, <1>7, <1>8, <1>9 DEF Next

LEMMA Inductive == Spec => []IInv
BY InitIInv, NextIInv, PTL DEF Spec

-----------------------------------------------------------------------------
(* Theorems *)

\* Every variable keeps its type: above all the columns of a row and the facts
\* of a document, which are computed from whatever the order states.
THEOREM TypeCorrect == Spec => []TypeOK
<1>1. IInv => TypeOK
  BY DEF IInv
<1> QED
  BY <1>1, Inductive, PTL

\* However deep a payload is nested and however its keys are written, what a
\* blocked row stores of it has no forbidden key: the recursive search of the
\* validation misses nothing, and nothing else is ever stored.
THEOREM StaysTriggerOnly == Spec => []TriggerOnly
<1>1. IInv => TriggerOnly
  <2> SUFFICES ASSUME IInv
               PROVE  \A v \in Nested[row.payload] : ~ Forbids(v)
    BY DEF TriggerOnly, Forbids
  <2>1. CASE stage = "blocked"
    <3>1. row.payload \in Payloads /\ ~ HasForbiddenPayloadKey[row.payload]
      BY <2>1, InputsAssumption DEF IInv, EventKnown, OutcomeKnown, Accepted
    <3> QED
      BY <3>1, SearchIsComplete
  <2>2. CASE stage # "blocked"
    <3>1. stage = "issued" => row = Stored(order) /\ order \in Orders
      BY InputsAssumption DEF IInv, OutcomeKnown, OrderKnown
    <3>2. row.payload = Leaf
      <4>1. NoRow.payload = Leaf
        BY DEF NoRow
      <4> QED
        BY <2>2, <3>1, <4>1, StoredFacts DEF IInv, OutcomeKnown, NothingStored
    <3>3. Leaf \in Payloads /\ Leaf.parts = {}
      BY InputsAssumption DEF Leaf
    <3>4. Closed({Leaf})
      BY <3>3 DEF Closed
    <3>5. Nested[Leaf] \subseteq {Leaf}
      BY <3>3, <3>4, NestedFacts
    <3> QED
      BY <3>2, <3>3, <3>5 DEF Forbids
  <2> QED
    BY <2>1, <2>2
<1> QED
  BY <1>1, Inductive, PTL

\* The validation asks for whatever the renderers would have a fallback for.
THEOREM NoPartyInvented == Spec => []PartiesFromOrder
<1>1. IInv => PartiesFromOrder
  <2> SUFFICES ASSUME IInv, stage = "issued", NEW doc \in {html, pdf}
               PROVE  /\ doc.seller = "given"
                      /\ doc.buyer \in {"companyName", "billingName", "customerName"}
                      /\ doc.currency = order.currency
                      /\ doc.address # {}
    BY DEF PartiesFromOrder
  <2>1. doc = HtmlFacts(order) /\ Blockers(order) = {}
    BY SameFacts DEF IInv, OutcomeKnown
  <2>2. /\ SellerResolved /\ Truthy(order.currency)
        /\ ~ NoBuyerName(order) /\ ~ NoAddress(order)
    BY <2>1, BlockersFacts
  <2>3. FirstTruthy(order, <<"companyName", "billingName", "customerName">>, "Customer")
          \in {"companyName", "billingName", "customerName"}
    BY <2>2, FirstOfThree DEF NoBuyerName
  <2>4. {line \in {"street", "city", "country"} : Truthy(order[line])} # {}
    BY <2>2 DEF NoAddress
  <2> QED
    BY <2>1, <2>2, <2>3, <2>4 DEF HtmlFacts, SellerResolved
<1> QED
  BY <1>1, Inductive, PTL

\* The HTML and the PDF state the same facts: where the order states nothing, and
\* where it states words for an amount, their fallbacks are the same.
THEOREM SameDocument == Spec => []RenderersAgree
<1>1. IInv => RenderersAgree
  BY SameFacts DEF IInv, OutcomeKnown, NothingStored, RenderersAgree
<1> QED
  BY <1>1, Inductive, PTL

\* Every amount an order states reaches the row, the HTML and the PDF unchanged,
\* and so does every item.
THEOREM AmountsAgree == Spec => []StatedAmountsAgree
<1>1. IInv => StatedAmountsAgree
  <2> SUFFICES ASSUME IInv, stage = "issued"
               PROVE  StatedAmountsAgree
    BY DEF StatedAmountsAgree
  <2>1. /\ order \in Orders /\ row = Stored(order)
        /\ html = HtmlFacts(order) /\ pdf = HtmlFacts(order)
    BY InputsAssumption, SameFacts DEF IInv, OrderKnown, OutcomeKnown
  <2>2. /\ row.totalAmount = DecimalString(order.total)
        /\ row.taxAmount = DecimalString(order.taxAmount)
    BY <2>1, StoredFacts
  <2>3. \A doc \in {html, pdf} :
            /\ doc.total = HtmlMoney(order.total) /\ doc.tax = HtmlMoney(order.taxAmount)
            /\ doc.lines = HtmlLines(order)
    BY <2>1 DEF HtmlFacts
  <2>4. order.total \in Amounts /\ order.taxAmount \in Amounts
        /\ order.items \in Seq(Items)
    BY <2>1 DEF Orders
  <2>5. /\ order.total \in {"zero", "stated"} =>
              {row.totalAmount, html.total, pdf.total} = {order.total}
        /\ order.taxAmount \in {"zero", "stated"} =>
              {row.taxAmount, html.tax, pdf.tax} = {order.taxAmount}
    BY <2>2, <2>3, <2>4, MoneyFacts
  <2>6. ASSUME order.items = <<>>
        PROVE  /\ Len(HtmlLines(order)) = 1
               /\ row.totalAmount # "null" =>
                     HtmlLines(order)[1].total = row.totalAmount
    BY <2>1, <2>2, <2>4, <2>6, LinesFacts, MoneyFacts
  <2>7. ASSUME order.items # <<>>
        PROVE  /\ Len(HtmlLines(order)) = Len(order.items)
               /\ \A n \in DOMAIN order.items :
                    /\ order.items[n].unitPrice \in {"zero", "stated"} =>
                          HtmlLines(order)[n].unit = order.items[n].unitPrice
                    /\ order.items[n].totalPrice \in {"zero", "stated"} =>
                          HtmlLines(order)[n].total = order.items[n].totalPrice
    <3> SUFFICES ASSUME NEW n \in DOMAIN order.items
                 PROVE
                    /\ order.items[n].unitPrice \in {"zero", "stated"} =>
                          HtmlLines(order)[n].unit = order.items[n].unitPrice
                    /\ order.items[n].totalPrice \in {"zero", "stated"} =>
                          HtmlLines(order)[n].total = order.items[n].totalPrice
      BY <2>1, <2>7, LinesFacts
    <3>1. order.items[n] \in Items
      BY <2>4
    <3>2. HtmlLines(order)[n] = HtmlLine(order.items[n])
      BY <2>1, <2>7, LinesFacts
    <3>3. order.items[n].unitPrice \in Amounts /\ order.items[n].totalPrice \in Amounts
      BY <3>1 DEF Items
    <3> QED
      BY <3>1, <3>2, <3>3, LineFacts, MoneyFacts
  <2>8. order.items = <<>> => DOMAIN order.items = {}
    OBVIOUS
  <2> QED
    BY <2>3, <2>5, <2>6, <2>7, <2>8 DEF StatedAmountsAgree
<1> QED
  BY <1>1, Inductive, PTL

\* No final invoice is issued while the event or the order says it is not paid.
THEOREM FinalIsPaid == Spec => []FinalMeansPaid
<1>1. IInv => FinalMeansPaid
  <2> SUFFICES ASSUME IInv, stage = "issued", event.type # "created"
               PROVE  event.paid /\ order.paymentStatus # "pending"
    BY DEF FinalMeansPaid
  <2>1. Accepted(event) /\ Blockers(order) = {}
    BY DEF IInv, EventKnown, OutcomeKnown
  <2>2. event.type = "paid"
    BY <2>1 DEF Accepted, ValidTypes
  <2>3. ~ NotPaid(order)
    BY <2>1, BlockersFacts
  <2> QED
    BY <2>1, <2>2, <2>3 DEF Accepted, NotPaid, Type
<1> QED
  BY <1>1, Inductive, PTL

\* An order that lacks nothing is never held back.
THEOREM NeverHeldBack == Spec => []CompleteIsIssued
<1>1. IInv => CompleteIsIssued
  <2> SUFFICES ASSUME IInv, stage = "blocked", order # NoOrder
               PROVE  CompleteIsIssued
    BY DEF CompleteIsIssued
  <2>1. /\ order \in Answers /\ Blockers(order) # {}
        /\ Accepted(event)
    BY DEF IInv, OutcomeKnown, EventKnown
  <2>2. \/ ~ SellerResolved \/ ~ Truthy(order.currency) \/ NoTotal(order)
        \/ NoBuyerName(order) \/ NoAddress(order) \/ NotPaid(order)
    BY <2>1, BlockersFacts
  <2>3. order.paymentStatus \in {"absent", "paid", "pending"}
    BY <2>1, InputsAssumption DEF Orders
  <2>4. NotPaid(order) => event.type = "paid" /\ order.paymentStatus = "pending"
    BY <2>1, <2>3 DEF NotPaid, Type, Accepted, ValidTypes
  <2> QED
    BY <2>2, <2>4
    DEF CompleteIsIssued, SellerResolved, Trimmed, Truthy, NoTotal, NoBuyerName,
        NoAddress
<1> QED
  BY <1>1, Inductive, PTL

=============================================================================
