------------------------- MODULE DocumentAccessProofs -------------------------
(***************************************************************************)
(* Proofs about DocumentAccess, for any requests in flight, callers,       *)
(* invoices, answers of Auth and snapshots.                                *)
(*                                                                         *)
(* A request is let through at one time, finds its invoice at another and  *)
(* saves a token at a third, while the handler that issued the invoice     *)
(* holds an entity of its own. The inductive invariant says what earlier   *)
(* steps have settled for later ones: a request past the guard has the     *)
(* right its route asks for, one about to save has found an invoice, of    *)
(* its own if it is a customer's, and what a handler still has to save     *)
(* holds no older token than a link given out when none was held.          *)
(***************************************************************************)
EXTENDS DocumentAccess, TLAPS

Saving == {"select", "update"}

RequestOK(q) ==
    LET r == request[q] IN
    /\ r.pc \in {"handler"} \cup Saving =>
          /\ Internal(r.route) => Answer[r.caller].roles \cap RequiredRoles(r.route) # {}
          /\ r.route \in {"account", "accountLink"} => ~ Answer[r.caller].imported
    /\ r.pc \in Saving =>
          \/ r.route = "internalLink"
          \/ r.route = "accountLink" /\ Owns(r.caller, r.link.invoice)

\* No token is newer than the last stored.
TokensStored ==
    /\ \A i \in Invoices : row[i].token <= stamp /\ issuing[i].token <= stamp
    /\ \A q \in Requests : request[q].loaded.token <= stamp

Opens(l) ==
    /\ row[l.invoice].issued
    /\ row[l.invoice].token >= l.token
    /\ issuing[l.invoice].pc # "none" => issuing[l.invoice].token >= l.token

InvoiceOK(i) == i \notin wiped =>
    /\ issuing[i].pc # "none" => row[i].issued /\ row[i].token >= issuing[i].token
    /\ \A q \in Requests :
          request[q].pc \in Saving /\ request[q].link.invoice = i => row[i].issued
    /\ \A c \in Callers : \A l \in links[c] \ overlapped :
          l.invoice = i => Opens(l)

IInv ==
    /\ TypeOK
    /\ TokensStored
    /\ \A q \in Requests : RequestOK(q)
    /\ \A i \in Invoices : InvoiceOK(i)
    /\ ReachedByRight

-----------------------------------------------------------------------------
(* Types *)

LEMMA NoneTyped ==
  /\ NoRow \in Row /\ NoHandler \in Handler
  /\ Idle \in Request /\ Idle.pc = "idle" /\ Idle.loaded = NoRow
  /\ NoRow.token = 0 /\ ~ NoRow.issued
  /\ NoHandler.pc = "none" /\ NoHandler.token = 0
<1>1. (CHOOSE c \in Callers : TRUE) \in Callers
  BY AccessAssumption
<1>2. (CHOOSE i \in Invoices : TRUE) \in Invoices
  BY AccessAssumption
<1>3. NoRow \in Row /\ NoRow.token = 0 /\ ~ NoRow.issued
  BY DEF NoRow, Row
<1>4. NoHandler \in Handler /\ NoHandler.pc = "none" /\ NoHandler.token = 0
  BY <1>3 DEF NoHandler, Handler
<1>5. Idle \in Request /\ Idle.pc = "idle" /\ Idle.loaded = NoRow
  BY <1>1, <1>2, <1>3 DEF Idle, Request, PCs, Routes, Link
<1> QED
  BY <1>3, <1>4, <1>5

LEMMA InitTyped == Init => TypeOK
BY AccessAssumption, NoneTyped DEF TypeOK, Init

LEMMA MergeTyped ==
  ASSUME NEW r \in Row, NEW l \in Row, NEW c \in Row
  PROVE  Merge(r, l, c) \in Row
BY DEF Merge, Row

LEMMA StoreTyped ==
  ASSUME TypeOK, NEW i \in Invoices, NEW t \in Nat, NEW l \in Row, Store(i, t, l)
  PROVE  row' \in [Invoices -> Row]
<1>1. [issued |-> TRUE, token |-> t] \in Row
  BY DEF Row
<1>2. Merge([issued |-> TRUE, token |-> t], l, row[i]) \in Row
  BY <1>1, MergeTyped DEF TypeOK
<1> QED
  BY <1>2 DEF TypeOK, Store

LEMMA HandlesTyped ==
  ASSUME TypeOK, NEW i \in Invoices, NEW pc \in {"mail", "select", "update"},
         NEW t \in Nat, NEW l \in Row, Handles(i, pc, t, l)
  PROVE  /\ issuing' \in [Invoices -> Handler]
         /\ issuing' = [issuing EXCEPT ![i] = issuing'[i]]
         /\ issuing'[i].pc = pc /\ issuing'[i].token = t /\ issuing'[i].loaded = l
<1>1. [pc |-> pc, token |-> t, loaded |-> l] \in Handler
  BY DEF Handler
<1> QED
  BY <1>1 DEF TypeOK, Handles

LEMMA FieldsTyped ==
  ASSUME TypeOK
  PROVE  /\ \A i \in Invoices : /\ row[i] \in Row /\ row[i].token \in Nat
                                /\ row[i].issued \in BOOLEAN
                                /\ issuing[i].token \in Nat
                                /\ issuing[i].loaded \in Row
                                /\ issuing[i].loaded.token \in Nat
         /\ \A q \in Requests : /\ request[q] \in Request
                                /\ request[q].caller \in Callers
                                /\ request[q].link \in Link
                                /\ request[q].link.invoice \in Invoices
                                /\ request[q].loaded \in Row
                                /\ request[q].loaded.token \in Nat
         /\ \A c \in Callers : \A l \in links[c] :
                l \in Link /\ l.invoice \in Invoices /\ l.token \in Nat
         /\ stamp \in Nat /\ stamp + 1 \in Nat
BY DEF TypeOK, Row, Handler, Request, Link

LEMMA IssueTyped ==
  ASSUME TypeOK, NEW i \in Invoices, Issue(i)
  PROVE  TypeOK'
<1> USE FieldsTyped, NoneTyped DEF TypeOK
<1>1. CASE Commit(i)
  <2>1. [issued |-> TRUE, token |-> stamp + 1] \in Row
    BY DEF Row
  <2>2. row' \in [Invoices -> Row] /\ issuing' \in [Invoices -> Handler]
    BY <1>1, <2>1, HandlesTyped DEF Commit
  <2> QED
    BY <1>1, <2>2 DEF Commit, callers, bounds
<1>2. CASE Mail(i)
  <2> DEFINE k == [invoice |-> i, token |-> issuing[i].token]
  <2>1. k \in Link
    BY DEF Link
  <2>2. links' \in [Callers -> SUBSET Link]
    BY <1>2, <2>1 DEF Mail
  <2>3. issuing' \in [Invoices -> Handler]
    BY <1>2, HandlesTyped DEF Mail
  <2> QED
    BY <1>2, <2>2, <2>3 DEF Mail, bounds
<1>3. CASE MarkSelects(i)
  <2>1. issuing' \in [Invoices -> Handler]
    BY <1>3, HandlesTyped DEF MarkSelects
  <2> QED
    BY <1>3, <2>1 DEF MarkSelects, callers, bounds
<1>4. CASE MarkSaves(i)
  <2>1. row' \in [Invoices -> Row]
    BY <1>4, StoreTyped DEF MarkSaves
  <2> QED
    BY <1>4, <2>1 DEF MarkSaves, callers, bounds
<1>5. CASE HandlerEnds(i) \/ StaleBlock(i)
  BY <1>5 DEF HandlerEnds, StaleBlock, callers, bounds
<1> QED
  BY <1>1, <1>2, <1>3, <1>4, <1>5 DEF Issue

LEMMA SelectTyped ==
  ASSUME TypeOK, NEW q \in Requests, SelectRow(q)
  PROVE  /\ request' = [request EXCEPT ![q] = request'[q]]
         /\ request'[q] \in Request
         /\ request'[q].pc = "update" /\ request'[q].route = request[q].route
         /\ request'[q].caller = request[q].caller
         /\ request'[q].link = request[q].link
         /\ request'[q].loaded = row[request[q].link.invoice]
<1>1. request'[q] = [request[q] EXCEPT !.pc = "update",
                                       !.loaded = row[request[q].link.invoice]]
  BY DEF TypeOK, SelectRow
<1>2. /\ request' = [request EXCEPT ![q] = request'[q]]
      /\ request[q] \in Request /\ row[request[q].link.invoice] \in Row
  BY FieldsTyped DEF TypeOK, SelectRow
<1>3. "update" \in PCs
  BY DEF PCs
<1> QED
  BY <1>1, <1>2, <1>3 DEF Request

LEMMA GoesTyped ==
  ASSUME TypeOK, NEW q \in Requests, NEW pc \in PCs, Goes(q, pc)
  PROVE  /\ request' = [request EXCEPT ![q] = request'[q]]
         /\ request'[q] \in Request
         /\ request'[q].pc = pc /\ request'[q].route = request[q].route
         /\ request'[q].caller = request[q].caller
         /\ request'[q].link = request[q].link
         /\ request'[q].loaded = request[q].loaded
<1>1. request' = [request EXCEPT ![q] = [@ EXCEPT !.pc = pc]]
  BY DEF Goes
<1>2. request'[q] = [request[q] EXCEPT !.pc = pc]
  BY <1>1 DEF TypeOK
<1>3. request[q] \in Request
  BY FieldsTyped
<1> QED
  BY <1>1, <1>2, <1>3 DEF TypeOK, Request

LEMMA ServeTyped ==
  ASSUME TypeOK, NEW q \in Requests, Serve(q) \/ Fails(q)
  PROVE  TypeOK'
<1> USE NoneTyped DEF TypeOK, issuance, callers, bounds
<1>1. ASSUME NEW pc \in PCs, Goes(q, pc),
             UNCHANGED <<row, issuance, authUp, callers, stamp, bounds>>
      PROVE  TypeOK'
  <2>1. request' \in [Requests -> Request]
    BY <1>1, GoesTyped
  <2> QED
    BY <1>1, <2>1
<1>2. ASSUME Ends(q), UNCHANGED <<row, issuance, authUp, callers, stamp, bounds>>
      PROVE  TypeOK'
  BY <1>2 DEF Ends
<1>3. CASE AuthAnswers(q) \/ AuthIsSilent(q)
  BY <1>1, <1>3 DEF AuthAnswers, AuthIsSilent, PCs
<1>4. CASE ListAccount(q)
  BY <1>4 DEF ListAccount, Ends
<1>5. CASE ReadInternal(q) \/ ServePublic(q)
  BY <1>1, <1>2, <1>5 DEF ReadInternal, ServePublic, PCs
<1>6. CASE ReadForLink(q)
  BY <1>1, <1>6 DEF ReadForLink, PCs
<1>7. CASE SelectRow(q)
  <2>1. request' \in [Requests -> Request]
    BY <1>7, SelectTyped
  <2> QED
    BY <1>7, <2>1 DEF SelectRow
<1>8. CASE SaveToken(q)
  <2> DEFINE l == [invoice |-> request[q].link.invoice, token |-> stamp + 1]
  <2>1. l \in Link /\ l.invoice \in Invoices /\ l.token \in Nat
    BY FieldsTyped DEF Link
  <2>2. row' \in [Invoices -> Row]
    BY <1>8, <2>1, FieldsTyped, StoreTyped DEF SaveToken
  <2>3. links' \in [Callers -> SUBSET Link] /\ overlapped' \in SUBSET Link
    BY <1>8, <2>1 DEF SaveToken
  <2>4. stamp' \in Nat /\ request' \in [Requests -> Request]
    BY <1>8 DEF SaveToken, Ends
  <2> QED
    BY <1>8, <2>2, <2>3, <2>4 DEF SaveToken
<1>9. CASE Done(q) \/ Fails(q)
  BY <1>2, <1>9 DEF Done, Fails
<1> QED
  BY <1>3, <1>4, <1>5, <1>6, <1>7, <1>8, <1>9 DEF Serve

LEMMA SendTyped ==
  ASSUME TypeOK, NEW q \in Requests, NEW c \in Callers, NEW route \in Routes,
         NEW link \in Link, Send(q, c, route, link)
  PROVE  TypeOK'
<1>1. sent' \in 0 .. MaxRequests
  BY AccessAssumption DEF TypeOK, Send
<1>2. [pc |-> IF route = "public" THEN "handler" ELSE "guard",
       route |-> route, caller |-> c, link |-> link, loaded |-> NoRow] \in Request
  BY NoneTyped DEF PCs, Request
<1> QED
  BY <1>1, <1>2 DEF TypeOK, Send, issuance, callers

LEMMA NextTyped == TypeOK /\ [Next]_vars => TypeOK'
<1> SUFFICES ASSUME TypeOK, [Next]_vars
             PROVE  TypeOK'
  OBVIOUS
<1>1. ASSUME NEW i \in Invoices, Issue(i) PROVE TypeOK'
  BY <1>1, IssueTyped
<1>2. CASE AuthFails
  <2>1. outages' \in 0 .. MaxOutages
    BY <1>2, AccessAssumption DEF TypeOK, AuthFails
  <2> QED
    BY <1>2, <2>1 DEF TypeOK, AuthFails, issuance, callers
<1>3. CASE AuthRecovers
  BY <1>3 DEF TypeOK, AuthRecovers, issuance, callers, bounds
<1>4. ASSUME NEW q \in Requests, NEW c \in Callers, NEW i \in Invoices,
             NEW r \in Routes, SendGuarded(q, c, r, i)
      PROVE  TypeOK'
  <2>1. [invoice |-> i, token |-> 0] \in Link
    BY DEF Link
  <2> QED
    BY <1>4, <2>1, SendTyped DEF SendGuarded
<1>5. ASSUME NEW q \in Requests, NEW c \in Callers, NEW l \in links[c],
             OpenLink(q, c, l)
      PROVE  TypeOK'
  BY <1>5, SendTyped DEF TypeOK, OpenLink, Routes
<1>6. ASSUME NEW q \in Requests, Serve(q) \/ Fails(q) PROVE TypeOK'
  BY <1>6, ServeTyped
<1>7. CASE UNCHANGED vars
  BY <1>7 DEF TypeOK, vars
<1> QED
  BY <1>1, <1>2, <1>3, <1>4, <1>5, <1>6, <1>7 DEF Next, Quiet

\* Every reachable state of the routes is well typed.
THEOREM TypeCorrect == Spec => []TypeOK
BY InitTyped, NextTyped, PTL DEF Spec

-----------------------------------------------------------------------------
(* What a request has settled *)

\* What a step of request q's may make of it.
Step(q) ==
    \/ request'[q] = request[q]
    \/ /\ request'[q].pc \notin {"handler"} \cup Saving
       /\ request'[q].loaded.token \in {0, request[q].loaded.token}
    \/ /\ request'[q].route = "public" /\ request'[q].pc = "handler"
       /\ request'[q].loaded.token = 0
    \/ /\ request'[q].route = request[q].route /\ request'[q].caller = request[q].caller
       /\ request'[q].link = request[q].link
       /\ \/ /\ request[q].pc = "guard" /\ request'[q].pc = "handler"
             /\ request'[q].loaded = request[q].loaded
             /\ LetThrough(request[q].route, Answer[request[q].caller])
          \/ /\ request[q].pc = "handler" /\ request'[q].pc = "select"
             /\ request'[q].loaded = request[q].loaded
             /\ row[request[q].link.invoice].issued
             /\ \/ request[q].route = "internalLink"
                \/ request[q].route = "accountLink"
                   /\ Owns(request[q].caller, request[q].link.invoice)
          \/ /\ request[q].pc = "select" /\ request'[q].pc = "update"
             /\ request'[q].loaded = row[request[q].link.invoice]

LEMMA RequestsStep ==
  ASSUME TypeOK, [Next]_vars, NEW q \in Requests
  PROVE  Step(q)
<1> USE DEF Saving, At
<1>1. CASE UNCHANGED request
  BY <1>1 DEF Step
<1>2. ASSUME NEW p \in Requests, NEW r, request' = [request EXCEPT ![p] = r], p # q
      PROVE  Step(q)
  BY <1>2 DEF Step, TypeOK
<1>3. ASSUME NEW pc \in PCs \ {"handler", "select", "update"}, Goes(q, pc)
      PROVE  Step(q)
  BY <1>3, GoesTyped DEF Step
<1>4. CASE Ends(q)
  <2>1. request'[q] = Idle
    BY <1>4 DEF Ends, TypeOK
  <2> QED
    BY <2>1, NoneTyped DEF Step
<1>5. ASSUME NEW c \in Callers, NEW route \in Routes, NEW link \in Link,
             Send(q, c, route, link)
      PROVE  Step(q)
  <2>1. request'[q] = [pc |-> IF route = "public" THEN "handler" ELSE "guard",
                       route |-> route, caller |-> c, link |-> link,
                       loaded |-> NoRow]
    BY <1>5 DEF Send, TypeOK
  <2>2. \/ request'[q].pc = "handler" /\ request'[q].route = "public"
        \/ request'[q].pc = "guard"
    BY <2>1
  <2>3. request'[q].loaded.token = 0
    BY <2>1, NoneTyped
  <2> QED
    BY <2>2, <2>3 DEF Step
<1>6. CASE AuthAnswers(q)
  <2>1. CASE LetThrough(request[q].route, Answer[request[q].caller])
    <3>1. Goes(q, "handler") /\ "handler" \in PCs
      BY <1>6, <2>1 DEF AuthAnswers, PCs
    <3> QED
      BY <1>6, <2>1, <3>1, GoesTyped DEF Step, AuthAnswers
  <2>2. CASE ~ LetThrough(request[q].route, Answer[request[q].caller])
    BY <1>3, <1>6, <2>2 DEF AuthAnswers, PCs
  <2> QED
    BY <2>1, <2>2
<1>7. CASE ReadForLink(q)
  <2>1. CASE Goes(q, "unavailable")
    BY <1>3, <2>1 DEF PCs
  <2>2. CASE Goes(q, "select") /\ ~ Goes(q, "unavailable")
    <3>1. /\ request[q].pc = "handler"
          /\ row[request[q].link.invoice].issued
          /\ \/ request[q].route = "internalLink"
             \/ request[q].route = "accountLink"
                /\ Owns(request[q].caller, request[q].link.invoice)
      BY <1>7, <2>2 DEF ReadForLink, AccountRow
    <3>2. "select" \in PCs
      BY DEF PCs
    <3> QED
      BY <2>2, <3>1, <3>2, GoesTyped DEF Step
  <2> QED
    BY <1>7, <2>1, <2>2 DEF ReadForLink
<1>8. CASE SelectRow(q)
  BY <1>8, SelectTyped DEF Step, SelectRow
<1>9. CASE Serve(q) \/ Fails(q)
  BY <1>3, <1>4, <1>6, <1>7, <1>8, <1>9
  DEF Serve, Fails, AuthIsSilent, ListAccount, ReadInternal, SaveToken,
      ServePublic, Done, PCs
<1>10. ASSUME NEW p \in Requests, Serve(p) \/ Fails(p), p # q
       PROVE  Step(q)
  BY <1>2, <1>10
  DEF Serve, Fails, AuthAnswers, AuthIsSilent, ListAccount, ReadInternal,
      ReadForLink, SelectRow, SaveToken, ServePublic, Done, Goes, Ends
<1>11. ASSUME NEW p \in Requests, NEW c \in Callers, NEW route \in Routes,
              NEW link \in Link, Send(p, c, route, link)
       PROVE  Step(q)
  BY <1>2, <1>5, <1>11 DEF Send
<1>12. ASSUME NEW p \in Requests, NEW c \in Callers, NEW i \in Invoices,
              NEW r \in Routes, SendGuarded(p, c, r, i)
       PROVE  Step(q)
  BY <1>11, <1>12 DEF SendGuarded, Link
<1>13. ASSUME NEW p \in Requests, NEW c \in Callers, NEW l \in links[c],
              OpenLink(p, c, l)
       PROVE  Step(q)
  BY <1>11, <1>13, FieldsTyped DEF OpenLink, Routes
<1>14. CASE \/ UNCHANGED vars \/ AuthFails \/ AuthRecovers
            \/ \E i \in Invoices : Issue(i)
  BY <1>1, <1>14 DEF vars, AuthFails, AuthRecovers, Issue, Commit, Mail,
     MarkSelects, MarkSaves, HandlerEnds, StaleBlock
<1> QED
  BY <1>9, <1>10, <1>12, <1>13, <1>14 DEF Next, Quiet

LEMMA RequestsKept ==
  ASSUME TypeOK, [Next]_vars, NEW q \in Requests, RequestOK(q)
  PROVE  RequestOK(q)'
BY RequestsStep
DEF Step, RequestOK, Saving, LetThrough, Owns, Mailed, Internal, RequiredRoles

-----------------------------------------------------------------------------
(* Rows, tokens and links *)

\* What steps that neither issue nor save leave alone.
records == <<row, issuing, links, wiped, overlapped, stamp>>

LEMMA OnlyWriters ==
  ASSUME [Next]_vars
  PROVE  \/ UNCHANGED records
         \/ \E i \in Invoices : Issue(i)
         \/ \E q \in Requests : SaveToken(q)
BY DEF Next, Quiet, Serve, Fails, Done, AuthAnswers, AuthIsSilent, ListAccount,
       ReadInternal, ReadForLink, SelectRow, ServePublic, SendGuarded, OpenLink,
       Send, AuthFails, AuthRecovers, vars, records, issuance, callers, bounds

\* A save of an entity with a document, as it changes the row.
LEMMA Stored ==
  ASSUME TypeOK, NEW i \in Invoices, NEW t \in Nat, NEW l \in Row, Store(i, t, l)
  PROVE  /\ row[i].issued => row'[i].issued
         /\ row'[i].token = IF t # l.token THEN t ELSE row[i].token
         /\ \A k \in Invoices : k # i => row'[k] = row[k]
<1>1. row'[i] = Merge([issued |-> TRUE, token |-> t], l, row[i])
  BY DEF Store, TypeOK
<1>2. \A k \in Invoices : k # i => row'[k] = row[k]
  BY DEF Store, TypeOK
<1>3. row'[i].issued = (IF TRUE # l.issued THEN TRUE ELSE row[i].issued)
  BY <1>1 DEF Merge
<1>4. row'[i].token = IF t # l.token THEN t ELSE row[i].token
  BY <1>1 DEF Merge
<1>5. row[i].issued => row'[i].issued
  BY <1>3
<1> QED
  BY <1>2, <1>4, <1>5

\* What the handler's steps and the token's save do, field by field.
LEMMA IssueDoes ==
  ASSUME TypeOK, NEW i \in Invoices, Issue(i)
  PROVE  /\ \A k \in Invoices : k # i => row'[k] = row[k] /\ issuing'[k] = issuing[k]
         /\ overlapped' = overlapped /\ request' = request
         /\ \/ /\ ~ row[i].issued /\ row'[i].issued
               /\ row'[i].token = stamp + 1 /\ issuing'[i].token = stamp + 1
               /\ stamp' = stamp + 1 /\ links' = links /\ wiped' = wiped
            \/ /\ issuing[i].pc # "none" /\ issuing'[i].token = issuing[i].token
               /\ row' = row /\ stamp' = stamp /\ wiped' = wiped
               /\ \A c \in Callers : links'[c] \subseteq
                      links[c] \cup {[invoice |-> i, token |-> issuing[i].token]}
            \/ /\ issuing[i].pc # "none" /\ issuing'[i].pc = "none"
               /\ issuing'[i].token = 0
               /\ row'[i].token \in {row[i].token, issuing[i].token}
               /\ row[i].issued => row'[i].issued
               /\ stamp' = stamp /\ links' = links /\ wiped' = wiped
            \/ /\ row' = [row EXCEPT ![i] = NoRow] /\ wiped' = wiped \cup {i}
               /\ issuing' = issuing /\ stamp' = stamp /\ links' = links
<1> USE FieldsTyped, NoneTyped DEF callers, bounds
<1>1. CASE Commit(i)
  <2>1. issuing'[i].token = stamp + 1
    BY <1>1, HandlesTyped DEF Commit
  <2>2. /\ row'[i].issued /\ row'[i].token = stamp + 1
        /\ \A k \in Invoices : k # i => row'[k] = row[k] /\ issuing'[k] = issuing[k]
    BY <1>1 DEF Commit, Handles, TypeOK
  <2> QED
    BY <1>1, <2>1, <2>2 DEF Commit
<1>2. CASE Mail(i)
  <2>1. /\ issuing'[i].token = issuing[i].token /\ issuing[i].pc # "none"
        /\ \A k \in Invoices : k # i => issuing'[k] = issuing[k]
    BY <1>2, HandlesTyped DEF Mail, Handles, TypeOK
  <2>2. \A c \in Callers : links'[c] \subseteq
            links[c] \cup {[invoice |-> i, token |-> issuing[i].token]}
    BY <1>2 DEF Mail
  <2> QED
    BY <1>2, <2>1, <2>2 DEF Mail
<1>3. CASE MarkSelects(i)
  <2>1. /\ issuing'[i].token = issuing[i].token /\ issuing[i].pc # "none"
        /\ \A k \in Invoices : k # i => issuing'[k] = issuing[k]
    BY <1>3, HandlesTyped DEF MarkSelects, Handles, TypeOK
  <2> QED
    BY <1>3, <2>1 DEF MarkSelects
<1>4. CASE MarkSaves(i)
  <2>1. /\ row[i].issued => row'[i].issued
        /\ row'[i].token \in {row[i].token, issuing[i].token}
        /\ \A k \in Invoices : k # i => row'[k] = row[k]
    BY <1>4, Stored DEF MarkSaves
  <2>2. /\ issuing[i].pc # "none"
        /\ issuing'[i] = NoHandler
        /\ \A k \in Invoices : k # i => issuing'[k] = issuing[k]
    BY <1>4 DEF MarkSaves, TypeOK
  <2> QED
    BY <1>4, <2>1, <2>2 DEF MarkSaves
<1>5. CASE HandlerEnds(i)
  <2>1. /\ issuing'[i] = NoHandler
        /\ \A k \in Invoices : k # i => issuing'[k] = issuing[k]
    BY <1>5 DEF HandlerEnds, TypeOK
  <2> QED
    BY <1>5, <2>1 DEF HandlerEnds
<1>6. CASE StaleBlock(i)
  BY <1>6 DEF StaleBlock, TypeOK
<1> QED
  BY <1>1, <1>2, <1>3, <1>4, <1>5, <1>6 DEF Issue

LEMMA SaveDoes ==
  ASSUME TypeOK, TokensStored, NEW q \in Requests, SaveToken(q)
  PROVE  \E i, l :
         /\ i \in Invoices
         /\ i = request[q].link.invoice /\ l = [invoice |-> i, token |-> stamp + 1]
         /\ row'[i].token = stamp + 1 /\ stamp' = stamp + 1
         /\ row[i].issued => row'[i].issued
         /\ \A k \in Invoices : k # i => row'[k] = row[k]
         /\ issuing' = issuing /\ wiped' = wiped
         /\ \A c \in Callers : links'[c] \subseteq links[c] \cup {l}
         /\ overlapped \subseteq overlapped'
         /\ issuing[i].pc # "none" => l \in overlapped'
<1> DEFINE i == request[q].link.invoice
           l == [invoice |-> i, token |-> stamp + 1]
<1>1. /\ i \in Invoices /\ request[q].caller \in Callers
      /\ request[q].loaded \in Row /\ stamp + 1 \in Nat
      /\ request[q].loaded.token # stamp + 1
  BY FieldsTyped DEF TokensStored
<1>2. l.invoice = i /\ l.token = stamp + 1
  OBVIOUS
<1>3. Store(i, stamp + 1, request[q].loaded)
  BY DEF SaveToken
<1>4. /\ row'[i].token = stamp + 1
      /\ row[i].issued => row'[i].issued
      /\ \A k \in Invoices : k # i => row'[k] = row[k]
  BY <1>1, <1>3, Stored
<1>5. overlapped' = overlapped \cup {k \in {l} : issuing[i].pc # "none"}
  BY <1>2 DEF SaveToken
<1>6. \A c \in Callers : links'[c] \subseteq links[c] \cup {l}
  BY <1>1, <1>2 DEF SaveToken, TypeOK
<1>7. stamp' = stamp + 1 /\ issuing' = issuing /\ wiped' = wiped
  BY DEF SaveToken, issuance
<1> QED
  BY <1>1, <1>4, <1>5, <1>6, <1>7

LEMMA TokensKept ==
  ASSUME TypeOK, [Next]_vars, TokensStored
  PROVE  TokensStored'
<1> USE FieldsTyped
<1>1. /\ stamp' >= stamp
      /\ \A i \in Invoices : row'[i].token <= stamp' /\ issuing'[i].token <= stamp'
  <2>1. CASE UNCHANGED records
    BY <2>1 DEF records, TokensStored
  <2>2. ASSUME NEW i \in Invoices, Issue(i) PROVE <1>1
    BY <2>2, IssueDoes, NoneTyped DEF TokensStored, TypeOK
  <2>3. ASSUME NEW q \in Requests, SaveToken(q) PROVE <1>1
    <3>1. PICK k \in Invoices :
             /\ row'[k].token = stamp + 1 /\ stamp' = stamp + 1 /\ issuing' = issuing
             /\ \A i \in Invoices : i # k => row'[i] = row[i]
      BY <2>3, SaveDoes
    <3> QED
      BY <3>1 DEF TokensStored
  <2> QED
    BY <2>1, <2>2, <2>3, OnlyWriters
<1>2. ASSUME NEW q \in Requests PROVE request'[q].loaded.token <= stamp'
  <2>1. stamp' \in Nat
    BY NextTyped DEF TypeOK
  <2>2. \/ request'[q].loaded.token \in {0, request[q].loaded.token}
        \/ request'[q].loaded = row[request[q].link.invoice]
    BY RequestsStep DEF Step
  <2> QED
    BY <1>1, <2>1, <2>2 DEF TokensStored
<1> QED
  BY <1>1, <1>2 DEF TokensStored

LEMMA InvoicesKept ==
  ASSUME TypeOK, [Next]_vars, TokensStored, NEW i \in Invoices, InvoiceOK(i)
  PROVE  InvoiceOK(i)'
<1> USE FieldsTyped
<1> DEFINE Stays == row[i].issued => row'[i].issued
           Held == issuing'[i].pc # "none" =>
                      row'[i].issued /\ row'[i].token >= issuing'[i].token
           Open(l) == /\ row'[i].issued /\ row'[i].token >= l.token
                      /\ issuing'[i].pc # "none" => issuing'[i].token >= l.token
           Linked == \A c \in Callers : \A l \in links'[c] \ overlapped' :
                        l.invoice = i => Open(l)
<1>1. SUFFICES ASSUME i \notin wiped' PROVE Stays /\ Held /\ Linked
  <2>1. ASSUME i \notin wiped', Stays, Held, Linked,
               NEW q \in Requests, request'[q].pc \in Saving, request'[q].link.invoice = i
        PROVE  row'[i].issued
    <3>1. i \notin wiped
      BY <2>1, OnlyWriters, IssueDoes, SaveDoes DEF records
    <3>2. row[i].issued
      BY <2>1, <3>1, RequestsStep DEF Step, InvoiceOK, Saving
    <3> QED
      BY <2>1, <3>2
  <2> QED
    BY <1>1, <2>1 DEF InvoiceOK, Opens
<1>2. CASE UNCHANGED records
  BY <1>1, <1>2 DEF records, InvoiceOK, Opens
<1>3. ASSUME NEW k \in Invoices, Issue(k) PROVE Stays /\ Held /\ Linked
  <2>1. i \notin wiped
    BY <1>1, <1>3, IssueDoes
  <2>2. CASE k # i
    <3>1. row'[i] = row[i] /\ issuing'[i] = issuing[i] /\ overlapped' = overlapped
      BY <1>3, <2>2, IssueDoes
    <3>2. \A c \in Callers : \A l \in links'[c] : l.invoice = i => l \in links[c]
      BY <1>3, <2>2, IssueDoes
    <3> QED
      BY <2>1, <3>1, <3>2 DEF InvoiceOK, Opens
  <2>3. CASE k = i
    BY <1>1, <1>3, <2>1, <2>3, IssueDoes, NoneTyped DEF InvoiceOK, Opens, TokensStored
  <2> QED
    BY <2>2, <2>3
<1>4. ASSUME NEW q \in Requests, SaveToken(q) PROVE Stays /\ Held /\ Linked
  <2>1. PICK k, n :
           /\ k \in Invoices
           /\ k = request[q].link.invoice /\ n = [invoice |-> k, token |-> stamp + 1]
           /\ row'[k].token = stamp + 1
           /\ row[k].issued => row'[k].issued
           /\ \A j \in Invoices : j # k => row'[j] = row[j]
           /\ issuing' = issuing /\ wiped' = wiped
           /\ \A c \in Callers : links'[c] \subseteq links[c] \cup {n}
           /\ overlapped \subseteq overlapped'
           /\ issuing[k].pc # "none" => n \in overlapped'
    BY <1>4, SaveDoes
  <2>2. i \notin wiped
    BY <1>1, <2>1
  <2>3. CASE k # i
    <3>1. \A c \in Callers : \A l \in links'[c] : l.invoice = i => l \in links[c]
      BY <2>1, <2>3
    <3> QED
      BY <2>1, <2>2, <2>3, <3>1 DEF InvoiceOK, Opens
  <2>4. CASE k = i
    <3>1. row[i].token <= stamp /\ row'[i].issued
      BY <1>4, <2>1, <2>2, <2>4 DEF TokensStored, InvoiceOK, SaveToken, At, Saving
    <3>2. ASSUME NEW c \in Callers, NEW l \in links'[c] \ overlapped', l.invoice = i
          PROVE  Open(l)
      <4>1. CASE l = n
        BY <2>1, <2>4, <3>1, <3>2, <4>1
      <4>2. CASE l \in links[c] \ overlapped
        BY <2>1, <2>2, <2>4, <3>1, <3>2, <4>2 DEF InvoiceOK, Opens
      <4> QED
        BY <2>1, <3>2, <4>1, <4>2
    <3>3. Held
      BY <2>1, <2>2, <2>4, <3>1 DEF InvoiceOK
    <3> QED
      BY <3>1, <3>2, <3>3
  <2> QED
    BY <2>3, <2>4
<1> QED
  BY <1>2, <1>3, <1>4, OnlyWriters

-----------------------------------------------------------------------------
(* Rights *)

MayHold(c, i) ==
    \/ Mailed(c, i)
    \/ ~ Answer[c].imported /\ Answer[c].subject \in {Snapshot[i].subject} \ {Unknown}
    \/ Answer[c].roles \cap {"write", "service"} # {}

MayList(c, i) ==
    ~ Answer[c].imported /\ Owns(c, i)

LEMMA RightIs ==
  ReachedByRight <=>
      \A c \in Callers :
          /\ \A l \in links[c] : MayHold(c, l.invoice)
          /\ \A i \in listed[c] : MayList(c, i)
BY DEF ReachedByRight, MayHold, MayList, Owns, Mailed

LEMMA LinksByRight ==
  ASSUME TypeOK, [Next]_vars, \A q \in Requests : RequestOK(q),
         NEW c \in Callers, \A l \in links[c] : MayHold(c, l.invoice),
         NEW l \in links'[c]
  PROVE  MayHold(c, l.invoice)
<1>1. CASE links' = links
  BY <1>1
<1>2. ASSUME NEW i \in Invoices, Mail(i)
      PROVE  MayHold(c, l.invoice)
  BY <1>2 DEF Mail, MayHold
<1>3. ASSUME NEW q \in Requests, SaveToken(q)
      PROVE  MayHold(c, l.invoice)
  <2>1. CASE l \in links[c]
    BY <2>1
  <2>2. CASE l \notin links[c]
    <3>1. request[q].caller = c /\ l.invoice = request[q].link.invoice
      BY <1>3, <2>2 DEF SaveToken, TypeOK
    <3>2. request[q].pc = "update" /\ RequestOK(q)
      BY <1>3 DEF SaveToken, At
    <3> QED
      BY <3>1, <3>2 DEF RequestOK, Saving, MayHold, Owns, Internal, RequiredRoles
  <2> QED
    BY <2>1, <2>2
<1>4. \/ links' = links
      \/ \E i \in Invoices : Mail(i)
      \/ \E q \in Requests : SaveToken(q)
  BY OnlyWriters DEF records, Issue, Commit, MarkSelects, MarkSaves, HandlerEnds,
     StaleBlock, callers
<1> QED
  BY <1>1, <1>2, <1>3, <1>4

LEMMA ListsByRight ==
  ASSUME TypeOK, [Next]_vars, \A q \in Requests : RequestOK(q),
         NEW c \in Callers, \A i \in listed[c] : MayList(c, i),
         NEW i \in listed'[c]
  PROVE  MayList(c, i)
<1>1. CASE listed' = listed
  BY <1>1
<1>2. ASSUME NEW q \in Requests, ListAccount(q)
      PROVE  MayList(c, i)
  <2>1. CASE i \in listed[c]
    BY <2>1
  <2>2. CASE i \notin listed[c]
    <3>1. request[q].caller = c /\ Owns(c, i)
      BY <1>2, <2>2 DEF ListAccount, TypeOK
    <3>2. request[q].pc = "handler" /\ request[q].route = "account" /\ RequestOK(q)
      BY <1>2 DEF ListAccount, At
    <3> QED
      BY <3>1, <3>2 DEF RequestOK, MayList
  <2> QED
    BY <2>1, <2>2
<1>3. \/ listed' = listed
      \/ \E q \in Requests : ListAccount(q)
  BY DEF Next, Quiet, Serve, Fails, Done, AuthAnswers, AuthIsSilent, SaveToken,
         ReadInternal, ReadForLink, SelectRow, ServePublic, SendGuarded, OpenLink,
         Send, AuthFails, AuthRecovers, Issue, Commit, Mail, MarkSelects, MarkSaves,
         HandlerEnds, StaleBlock, vars, callers
<1> QED
  BY <1>1, <1>2, <1>3

LEMMA RightsKept ==
  ASSUME TypeOK, [Next]_vars, \A q \in Requests : RequestOK(q), ReachedByRight
  PROVE  ReachedByRight'
<1>1. \A c \in Callers : \A l \in links'[c] : MayHold(c, l.invoice)
  BY RightIs, LinksByRight
<1>2. \A c \in Callers : \A i \in listed'[c] : MayList(c, i)
  BY RightIs, ListsByRight
<1> QED
  BY <1>1, <1>2 DEF ReachedByRight, MayHold, MayList, Owns, Mailed

-----------------------------------------------------------------------------
(* The inductive invariant and the theorems *)

LEMMA InitIInv == Init => IInv
<1> SUFFICES ASSUME Init PROVE IInv
  OBVIOUS
<1> USE NoneTyped DEF Init, Saving
<1>1. \A q \in Requests : RequestOK(q)
  BY DEF RequestOK
<1>2. TokensStored
  BY DEF TokensStored
<1>3. (\A i \in Invoices : InvoiceOK(i)) /\ ReachedByRight
  BY DEF InvoiceOK, ReachedByRight
<1> QED
  BY <1>1, <1>2, <1>3, InitTyped DEF IInv

LEMMA NextIInv == IInv /\ [Next]_vars => IInv'
BY NextTyped, RequestsKept, TokensKept, InvoicesKept, RightsKept DEF IInv

\* The invariant holds in every reachable state: what the guard, the read or the
\* commit of an earlier step settled is still true when a later step relies on it.
THEOREM Inductive == Spec => []IInv
BY InitIInv, NextIInv, PTL DEF Spec

\* A link somebody holds opens its invoice, or a later link has replaced it, but
\* for an invoice a stale BLOCKED save has wiped and for a link saved between an
\* invoice's commit and its SENT save.
THEOREM LinksOpen == Spec => []LinksOpenUnlessOverlapped
<1>1. IInv => LinksOpenUnlessOverlapped
  BY FieldsTyped DEF IInv, InvoiceOK, Opens, LinksOpenUnlessOverlapped
<1> QED
  BY <1>1, Inductive, PTL

\* Whatever an account has listed or a caller holds was the caller's to have.
THEOREM OnlyByRight == Spec => []ReachedByRight
<1>1. IInv => ReachedByRight
  BY DEF IInv
<1> QED
  BY <1>1, Inductive, PTL

=============================================================================
