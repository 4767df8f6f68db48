-------------------------- MODULE MCIssuanceInputs --------------------------
(* Payloads nested up to three levels, orders with every combination of the *)
(* fields the validation and the renderers read, sellers half configured.   *)
EXTENDS IssuanceInputs

Object(parts) == [kind |-> "object", parts |-> parts]
Array(values) == [kind |-> "array", parts |-> {[key |-> "none", value |-> v] : v \in values}]
Entry(k, v) == [key |-> k, value |-> v]

MCLower == [k \in {"none", "items", "sku", "email", "Email"} |->
               IF k = "Email" THEN "email" ELSE k]
MCForbidden == {"email"}

Plain == Object({Entry("items", Array({Object({Entry("sku", Leaf)})}))})
Shallow == Object({Entry("email", Leaf)})
Deep == Object({Entry("items", Array({Object({Entry("Email", Leaf)})}))})

RECURSIVE Within(_)
Within(v) == {v} \cup UNION {Within(part.value) : part \in v.parts}

Given == {Leaf, Array({Plain}), Plain, Shallow, Deep}
MCPayloads == UNION {Within(v) : v \in Given}

MCInputs ==
    [type : {"created", "paid", "cancelled"}, header : BOOLEAN, payload : Given,
     orderId : {"blank", "given"}, channel : {"absent", "given"}, paid : BOOLEAN]

Named == [productName |-> "given", sku |-> "given", productId |-> "absent",
          quantity |-> "given", unitPrice |-> "stated", totalPrice |-> "zero"]
Bare == [productName |-> "absent", sku |-> "absent", productId |-> "absent",
         quantity |-> "absent", unitPrice |-> "words", totalPrice |-> "stated"]

MCAnswers ==
    [currency : {"absent", "given"}, total : Amounts, taxAmount : Amounts,
     companyName : Texts, billingName : {"absent", "given"}, customerName : Texts,
     street : {"absent", "given"}, city : {"absent", "given"},
     country : {"absent", "given"}, paymentStatus : {"absent", "paid", "pending"},
     items : {<<>>, <<Named, Bare>>}]

MCSellers == {[name |-> "given", address |-> "given"],
              [name |-> "given", address |-> "blank"]}

=============================================================================
