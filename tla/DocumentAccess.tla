---------------------------- MODULE DocumentAccess ----------------------------
(***************************************************************************)
(* InvoicesController and its two guards: how callers reach the invoices   *)
(* that issuance has stored. A guarded request first waits for Auth's      *)
(* POST /auth/validate; a request for a link then reads the row and waits  *)
(* again for the two statements of the save of the new token; a public     *)
(* link needs no guard, only the token the row has at that moment.         *)
(*                                                                         *)
(* Beside them issuance commits an invoice, waits for its mail and saves   *)
(* the entity it has held since as SENT. A save is a SELECT and an UPDATE  *)
(* of the columns in which the entity differs from what was selected, as   *)
(* in InvoiceIssuance. One handler issues an invoice at a time; of what    *)
(* overlapping ones can do, the stale BLOCKED save that wipes the row is   *)
(* here, at most once for each invoice.                                    *)
(*                                                                         *)
(* HTML and PDF are stored together and told apart nowhere. A token is     *)
(* named by the order in which tokens were stored; the hash and the        *)
(* constant-time comparison are equality. What makes a customer an         *)
(* imported user, and which texts of an order are compared with whom, is   *)
(* CustomerScope's. INVOICES_PUBLIC_BASE_URL is set, and POST              *)
(* invoices/events/orders, once let through as the other routes are, is a  *)
(* handler of InvoiceIssuance.                                             *)
(***************************************************************************)
EXTENDS FiniteSets, Naturals

CONSTANTS
    Requests,     \* requests in flight at a time
    Callers,      \* who sends them
    Invoices,
    Answer,       \* Answer[c]: what Auth says of c's bearer token
    Identities,   \* subjects and e-mail addresses, in lower case
    Unknown,      \* no identity
    Snapshot,     \* Snapshot[i]: the customer in invoice i's order
    MaxRequests,  \* bound: requests sent
    MaxOutages,   \* bound: outages of Auth
    MaxWiped      \* bound: invoices a stale save makes BLOCKED

Roles == {"read", "write", "service"}

ASSUME AccessAssumption ==
    /\ Callers # {} /\ Invoices # {}
    /\ Unknown \notin Identities
    /\ Answer \in [Callers -> [valid : BOOLEAN, imported : BOOLEAN,
                               subject : Identities \cup {Unknown},
                               email : Identities \cup {Unknown},
                               roles : SUBSET Roles]]
    /\ Snapshot \in [Invoices -> [subject : Identities \cup {Unknown},
                                  email : Identities \cup {Unknown}]]
    /\ MaxRequests \in Nat
    /\ MaxOutages \in Nat
    /\ MaxWiped \in Nat

VARIABLES
    row,      \* row[i]: whether invoice i has a document, and its token
    issuing,  \* issuing[i]: the handler that has committed invoice i
    authUp,   \* whether Auth answers
    request,  \* what each request is doing
    links,    \* links[c]: the links c holds, from mails and answers
    listed,   \* listed[c]: invoices c's account has shown as available
    wiped,    \* invoices a stale save has made BLOCKED again
    overlapped, \* history: links saved between a commit and its SENT save
    stamp,    \* tokens stored so far
    sent,     \* requests sent
    outages

vars == <<row, issuing, authUp, request, links, listed, wiped, overlapped, stamp,
          sent, outages>>

issuance == <<issuing, wiped>>
callers == <<links, listed, overlapped>>
bounds == <<sent, outages>>

Routes == {"internalRead", "internalLink", "account", "accountLink", "public"}

\* unauthorized: Auth did not validate the caller, or there is no role or customer
\* scope. unavailable: there is no such document, or the token is not its. What
\* comes of any other request shows in links and listed.
PCs == {"idle", "guard", "handler", "select", "update", "unauthorized",
        "unavailable"}

Link == [invoice : Invoices, token : Nat]

\* The columns of a row: a document with what else is written with it, and a token.
Row == [issued : BOOLEAN, token : Nat]

NoRow == [issued |-> FALSE, token |-> 0]

\* token is the one in the entity held; loaded, what a save's SELECT saw.
Handler == [pc : {"none", "mail", "select", "update"}, token : Nat, loaded : Row]

Request == [pc : PCs, route : Routes, caller : Callers, link : Link, loaded : Row]

TypeOK ==
    /\ row \in [Invoices -> Row]
    /\ issuing \in [Invoices -> Handler]
    /\ authUp \in BOOLEAN
    /\ request \in [Requests -> Request]
    /\ links \in [Callers -> SUBSET Link]
    /\ listed \in [Callers -> SUBSET Invoices]
    /\ wiped \in SUBSET Invoices
    /\ overlapped \in SUBSET Link
    /\ stamp \in Nat
    /\ sent \in 0 .. MaxRequests
    /\ outages \in 0 .. MaxOutages

Idle == [pc |-> "idle", route |-> "public", caller |-> CHOOSE c \in Callers : TRUE,
         link |-> [invoice |-> CHOOSE i \in Invoices : TRUE, token |-> 0],
         loaded |-> NoRow]

NoHandler == [pc |-> "none", token |-> 0, loaded |-> NoRow]

Init ==
    /\ row = [i \in Invoices |-> NoRow]
    /\ issuing = [i \in Invoices |-> NoHandler]
    /\ authUp = TRUE
    /\ request = [q \in Requests |-> Idle]
    /\ links = [c \in Callers |-> {}]
    /\ listed = [c \in Callers |-> {}]
    /\ wiped = {}
    /\ overlapped = {}
    /\ stamp = 0
    /\ sent = 0
    /\ outages = 0

-----------------------------------------------------------------------------
(* The surroundings: issuance and Auth *)

\* The customer's e-mail address in invoice i's order is c's.
Mailed(c, i) == Answer[c].email # Unknown /\ Answer[c].email = Snapshot[i].email

\* The row after the UPDATE of a save of r, whose SELECT saw l, over c.
Merge(r, l, c) ==
    [issued |-> IF r.issued # l.issued THEN r.issued ELSE c.issued,
     token  |-> IF r.token # l.token THEN r.token ELSE c.token]

\* The save of an entity that has its document, with token t.
Store(i, t, l) ==
    row' = [row EXCEPT ![i] = Merge([issued |-> TRUE, token |-> t], l, row[i])]

Handles(i, pc, t, l) ==
    issuing' = [issuing EXCEPT ![i] = [pc |-> pc, token |-> t, loaded |-> l]]

\* The issuing transaction; the handler keeps the entity over the mail.
Commit(i) ==
    /\ issuing[i].pc = "none"
    /\ ~ row[i].issued
    /\ stamp' = stamp + 1
    /\ row' = [row EXCEPT ![i] = [issued |-> TRUE, token |-> stamp + 1]]
    /\ Handles(i, "mail", stamp + 1, NoRow)
    /\ UNCHANGED <<authUp, request, callers, wiped, bounds>>

\* Notifications accepts the mail, to the address in the order; invoice.status =
\* SENT is to be saved.
Mail(i) ==
    LET l == [invoice |-> i, token |-> issuing[i].token] IN
    /\ issuing[i].pc = "mail"
    /\ links' = [c \in Callers |-> links[c] \cup {k \in {l} : Mailed(c, i)}]
    /\ Handles(i, "select", l.token, NoRow)
    /\ UNCHANGED <<row, authUp, request, listed, wiped, overlapped, stamp, bounds>>

MarkSelects(i) ==
    /\ issuing[i].pc = "select"
    /\ Handles(i, "update", issuing[i].token, row[i])
    /\ UNCHANGED <<row, authUp, request, callers, wiped, stamp, bounds>>

\* The SENT save: it writes the token it has held if another was selected.
MarkSaves(i) ==
    /\ issuing[i].pc = "update"
    /\ Store(i, issuing[i].token, issuing[i].loaded)
    /\ issuing' = [issuing EXCEPT ![i] = NoHandler]
    /\ UNCHANGED <<authUp, request, callers, wiped, stamp, bounds>>

\* No mail is accepted, a save fails or the process stops: no SENT save.
HandlerEnds(i) ==
    /\ issuing[i].pc # "none"
    /\ issuing' = [issuing EXCEPT ![i] = NoHandler]
    /\ UNCHANGED <<row, authUp, request, callers, wiped, stamp, bounds>>

\* saveBlockedInvoice of an overlapping handler that had read the row BLOCKED.
StaleBlock(i) ==
    /\ row[i].issued /\ i \notin wiped
    /\ Cardinality(wiped) < MaxWiped
    /\ row' = [row EXCEPT ![i] = NoRow]
    /\ wiped' = wiped \cup {i}
    /\ UNCHANGED <<issuing, authUp, request, callers, stamp, bounds>>

AuthFails ==
    /\ authUp
    /\ outages < MaxOutages
    /\ authUp' = FALSE
    /\ outages' = outages + 1
    /\ UNCHANGED <<row, issuance, request, callers, stamp, sent>>

AuthRecovers ==
    /\ ~ authUp
    /\ authUp' = TRUE
    /\ UNCHANGED <<row, issuance, request, callers, stamp, bounds>>

-----------------------------------------------------------------------------
(* A request arrives *)

At(q, pc) == request[q].pc = pc

Goes(q, pc) == request' = [request EXCEPT ![q].pc = pc]

Ends(q) == request' = [request EXCEPT ![q] = Idle]

Send(q, c, route, link) ==
    /\ At(q, "idle")
    /\ sent < MaxRequests
    /\ sent' = sent + 1
    /\ request' = [request EXCEPT ![q] =
          [pc |-> IF route = "public" THEN "handler" ELSE "guard",
           route |-> route, caller |-> c, link |-> link, loaded |-> NoRow]]
    /\ UNCHANGED <<row, issuance, authUp, callers, stamp, outages>>

\* A guarded request names an invoice, but for the account's list; a public
\* link names the token as well.
SendGuarded(q, c, route, i) ==
    /\ route # "public"
    /\ route = "account" => i = Idle.link.invoice
    /\ Send(q, c, route, [invoice |-> i, token |-> 0])

OpenLink(q, c, l) ==
    /\ l \in links[c]
    /\ Send(q, c, "public", l)

-----------------------------------------------------------------------------
(* InternalAuthGuard and CustomerAuthGuard *)

\* INVOICES_READ_ROLES and INVOICES_WRITE_ROLES
RequiredRoles(route) ==
    IF route = "internalRead" THEN {"read", "service"} ELSE {"write", "service"}

Internal(route) == route \in {"internalRead", "internalLink"}

\* Deviation: an imported user without a subject is not recognised as one.
LetThroughImported(route, a) ==
    /\ a.valid
    /\ IF Internal(route)
       THEN a.roles \cap RequiredRoles(route) # {}
       ELSE a.subject # Unknown \/ a.email # Unknown

\* A role the route asks for; or the identity of a customer who is more than
\* an imported one.
LetThrough(route, a) ==
    /\ a.valid
    /\ IF Internal(route)
       THEN a.roles \cap RequiredRoles(route) # {}
       ELSE (a.subject # Unknown \/ a.email # Unknown) /\ ~ a.imported

AuthAnswers(q) ==
    /\ At(q, "guard")
    /\ authUp
    /\ Goes(q, IF LetThrough(request[q].route, Answer[request[q].caller])
               THEN "handler" ELSE "unauthorized")
    /\ UNCHANGED <<row, issuance, authUp, callers, stamp, bounds>>

\* Deviation: AbortController without a timer.
WaitsForAuth(q) ==
    /\ At(q, "guard")
    /\ ~ authUp
    /\ Internal(request[q].route)
    /\ UNCHANGED vars

\* No connection, an error status, or the timeout of 3 s: 401.
AuthIsSilent(q) ==
    /\ At(q, "guard")
    /\ ~ authUp
    /\ Goes(q, "unauthorized")
    /\ UNCHANGED <<row, issuance, authUp, callers, stamp, bounds>>

-----------------------------------------------------------------------------
(* The handlers *)

\* The WHERE clause of findByCustomerIdentity and of the link request: NULL
\* equals nothing.
Owns(c, i) ==
    \/ Answer[c].subject # Unknown /\ Answer[c].subject = Snapshot[i].subject
    \/ Mailed(c, i)

\* findForAccount: the snapshot of a blocked invoice has no customer.
ListAccount(q) ==
    LET c == request[q].caller IN
    /\ At(q, "handler") /\ request[q].route = "account"
    /\ listed' = [listed EXCEPT ![c] =
          @ \cup {i \in Invoices : row[i].issued /\ Owns(c, i)}]
    /\ Ends(q)
    /\ UNCHANGED <<row, issuance, authUp, links, overlapped, stamp, bounds>>

\* Deviation: without `?.` a row that is not there throws, and nothing answers.
ReadUnchecked(q) ==
    /\ At(q, "handler") /\ request[q].route = "internalRead"
    /\ IF row[request[q].link.invoice].issued
       THEN Ends(q) ELSE Goes(q, "hanging")
    /\ UNCHANGED <<row, issuance, authUp, callers, stamp, bounds>>

\* findByOrder and the internal document routes, which change nothing.
ReadInternal(q) ==
    /\ At(q, "handler") /\ request[q].route = "internalRead"
    /\ IF row[request[q].link.invoice].issued
       THEN Ends(q) ELSE Goes(q, "unavailable")
    /\ UNCHANGED <<row, issuance, authUp, callers, stamp, bounds>>

\* createCustomerDownloadLinksForIdentity finds the invoice, with a document.
AccountRow(c, i) == row[i].issued /\ Owns(c, i)

\* Either link route: the row is read, or there is nothing to link to.
ReadForLink(q) ==
    LET c == request[q].caller
        i == request[q].link.invoice IN
    /\ At(q, "handler") /\ request[q].route \in {"internalLink", "accountLink"}
    /\ Goes(q, IF \/ request[q].route = "accountLink" /\ AccountRow(c, i)
                  \/ request[q].route = "internalLink" /\ row[i].issued
               THEN "select" ELSE "unavailable")
    /\ UNCHANGED <<row, issuance, authUp, callers, stamp, bounds>>

\* rotateDownloadLinks saves the entity with the new token: the SELECT.
SelectRow(q) ==
    /\ At(q, "select")
    /\ request' = [request EXCEPT ![q] =
          [@ EXCEPT !.pc = "update", !.loaded = row[request[q].link.invoice]]]
    /\ UNCHANGED <<row, issuance, authUp, callers, stamp, bounds>>

\* Deviation: the link is answered and its token's hash is not saved.
SaveNothing(q) ==
    LET l == [invoice |-> request[q].link.invoice, token |-> stamp + 1] IN
    /\ At(q, "update")
    /\ stamp' = stamp + 1
    /\ links' = [links EXCEPT ![request[q].caller] = @ \cup {l}]
    /\ Ends(q)
    /\ UNCHANGED <<row, issuance, authUp, listed, overlapped, bounds>>

\* The UPDATE; the link is answered, or the answer is lost.
SaveToken(q) ==
    LET l == [invoice |-> request[q].link.invoice, token |-> stamp + 1] IN
    /\ At(q, "update")
    /\ stamp' = stamp + 1
    /\ Store(l.invoice, l.token, request[q].loaded)
    /\ \/ links' = [links EXCEPT ![request[q].caller] = @ \cup {l}]
       \/ links' = links
    /\ overlapped' = overlapped \cup {k \in {l} : issuing[l.invoice].pc # "none"}
    /\ Ends(q)
    /\ UNCHANGED <<issuance, authUp, listed, bounds>>

\* getDocumentHtml and getDocumentPdf: verifyToken against the stored hash.
ServePublic(q) ==
    LET l == request[q].link IN
    /\ At(q, "handler") /\ request[q].route = "public"
    /\ IF row[l.invoice].issued /\ row[l.invoice].token = l.token
       THEN Ends(q) ELSE Goes(q, "unavailable")
    /\ UNCHANGED <<row, issuance, authUp, callers, stamp, bounds>>

\* The database fails: 500. Or the process stops, and the client sees no more.
Fails(q) ==
    /\ request[q].pc \in {"guard", "handler", "select", "update"}
    /\ Ends(q)
    /\ UNCHANGED <<row, issuance, authUp, callers, stamp, bounds>>

\* The caller has the refusal.
Done(q) ==
    /\ request[q].pc \in {"unauthorized", "unavailable"}
    /\ Ends(q)
    /\ UNCHANGED <<row, issuance, authUp, callers, stamp, bounds>>

-----------------------------------------------------------------------------

\* Without it TLC would report the end of the requests the bounds allow as a
\* deadlock.
Quiet ==
    /\ \A q \in Requests : At(q, "idle")
    /\ UNCHANGED vars

Serve(q) ==
    \/ AuthAnswers(q) \/ AuthIsSilent(q)
    \/ ListAccount(q) \/ ReadInternal(q)
    \/ ReadForLink(q) \/ SelectRow(q) \/ SaveToken(q)
    \/ ServePublic(q) \/ Done(q)

Issue(i) ==
    \/ Commit(i) \/ Mail(i) \/ MarkSelects(i) \/ MarkSaves(i) \/ HandlerEnds(i)
    \/ StaleBlock(i)

Next ==
    \/ \E i \in Invoices : Issue(i)
    \/ AuthFails \/ AuthRecovers
    \/ \E q \in Requests, c \in Callers, i \in Invoices, r \in Routes :
          SendGuarded(q, c, r, i)
    \/ \E q \in Requests, c \in Callers : \E l \in links[c] : OpenLink(q, c, l)
    \/ \E q \in Requests : Serve(q) \/ Fails(q)
    \/ Quiet

Spec == Init /\ [][Next]_vars

\* A request goes on by itself: the guards' calls have timeouts and the
\* database answers. Nobody has to send one, and Auth need not recover.
FairSpec == Spec /\ \A q \in Requests : WF_vars(Serve(q))

-----------------------------------------------------------------------------
(* Properties *)

\* A link somebody holds opens, or a later one of its invoice has taken its place.
\* What breaks this is a row that a stale save has wiped, and a link made between
\* an invoice's commit and its SENT save, which may bring the mailed one back.
LinksOpenUnlessOverlapped ==
    \A c \in Callers : \A l \in links[c] :
        \/ row[l.invoice].issued /\ row[l.invoice].token >= l.token
        \/ l.invoice \in wiped \/ l \in overlapped

\* Whatever an account shows or a caller holds was the caller's to have, through
\* guard, query, rotation and mail: the mail went to the order's address, the
\* caller is a service that may write, or a customer of the shop, known to Auth
\* as more than an imported user, whose subject the order names.
ReachedByRight ==
    \A c \in Callers :
        LET Customer(i) == /\ ~ Answer[c].imported
                           /\ Answer[c].subject \in {Snapshot[i].subject} \ {Unknown}
            Writer == Answer[c].roles \cap {"write", "service"} # {}
        IN  /\ \A l \in links[c] :
                  Mailed(c, l.invoice) \/ Customer(l.invoice) \/ Writer
            /\ \A i \in listed[c] :
                  ~ Answer[c].imported /\ (Mailed(c, i) \/ Customer(i))

\* Every request is answered, refused or fails, Auth's outages included.
RequestsEnd == \A q \in Requests : ~ At(q, "idle") ~> At(q, "idle")

=============================================================================
