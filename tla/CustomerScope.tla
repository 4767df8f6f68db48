---------------------------- MODULE CustomerScope ----------------------------
(***************************************************************************)
(* Whose invoices an account lists. CustomerAuthGuard turns Auth's answer  *)
(* into an identity, and refuses the users an import from the marathon     *)
(* application has made and nobody else knows; findByCustomerIdentity      *)
(* compares the identity with the order snapshots that issuance has        *)
(* stored. DocumentAccess has the routes around it.                        *)
(*                                                                         *)
(* A text is a word in some form: trim().toLowerCase() sees no form, SQL's *)
(* LOWER sees the spaces. Keys and roles are members of small classes, and *)
(* what the code finds out by string functions is which class it is.       *)
(***************************************************************************)
EXTENDS Naturals, Sequences

CONSTANTS
    Words,
    Addresses,       \* the words with an '@'
    None, Blank,     \* no text, nothing but spaces
    Answers,         \* what Auth may answer
    Orders,          \* the customer in an order: texts by field
    MarathonKeys,    \* marathon, app:marathon, app:marathon:...
    MarathonNamed,   \* keys with "marathon" anywhere in them
    ApplicationKeys, \* invoices, app:..., ...microservice..., ...-service
    Values, Height,  \* JSON values, and how deep each is nested
    MaxDepth         \* 4: how deep the preferences are searched

Text == [word : Words \cup {None, Blank}, form : {"plain", "upper", "padded"}]

\* The texts about the customer that toStoredOrderSnapshot copies, `customer` as
\* it is.
StoredFields ==
    {"customer.id", "customer.userId", "customer.authUserId", "customer.subject",
     "customer.sub", "customer.authSubject", "customer.email",
     "customerId", "customerUserId", "authUserId", "userId"}

ASSUME ScopeAssumption ==
    /\ Addresses \subseteq Words
    /\ None \notin Words /\ Blank \notin Words /\ None # Blank
    /\ MarathonKeys \subseteq MarathonNamed
    /\ "authSources" \notin MarathonNamed \cup ApplicationKeys
    /\ \A a \in Answers : /\ a.valid \in BOOLEAN /\ a.preferences \in Values
                          /\ {a.sub, a.id, a.email} \subseteq Text
    /\ \A o \in Orders : /\ DOMAIN o \subseteq StoredFields \cup {"authSubject"}
                         /\ \A f \in DOMAIN o : o[f] \in Text
    /\ MaxDepth \in Nat

\* JSON: null, false, any other leaf (plain, or a text with "marathon" in it),
\* or an array or object with parts. An array's part has its index for a key.
ASSUME ValuesAssumption ==
    \A v \in Values :
        /\ v.kind \in {"null", "false", "plain", "marathonText", "array", "object"}
        /\ v.kind \notin {"array", "object"} => v.parts = {}
        /\ Height[v] \in Nat
        /\ \A e \in v.parts : e.value \in Values /\ Height[e.value] < Height[v]

VARIABLES
    pc,      \* idle, unauthorized (401), forbidden (403), scoped or answered
    answer,  \* Auth's answer; when the guard is done, of its user only who it is
    scope,   \* request.customerAuth
    order,   \* the order of some issued invoice
    listed   \* whether the account lists that invoice

vars == <<pc, answer, scope, order, listed>>

NoText == [word |-> None, form |-> "plain"]
NoScope == [subject |-> None, email |-> None]
Null == [kind |-> "null", parts |-> {}]
Nobody == [valid |-> FALSE, sub |-> NoText, id |-> NoText, email |-> NoText,
           roles |-> {}, source |-> "none", preferences |-> Null]
NoOrder == [f \in {} |-> NoText]

TypeOK ==
    /\ pc \in {"idle", "unauthorized", "forbidden", "scoped", "answered"}
    /\ answer.valid \in BOOLEAN
    /\ {answer.sub, answer.id, answer.email} \subseteq Text
    /\ scope \in [subject : Words \cup {None}, email : Addresses \cup {None}]
    /\ order \in Orders \cup {NoOrder}
    /\ listed \in BOOLEAN

Init ==
    /\ pc = "idle"
    /\ answer = Nobody
    /\ scope = NoScope
    /\ order = NoOrder
    /\ listed = FALSE

-----------------------------------------------------------------------------
(* Who the user is *)

\* Deviation: an id of nothing but spaces is an id.
NormalizeSubjectKeeping(t) == t.word

NormalizeSubject(t) == IF t.word = Blank THEN None ELSE t.word

NormalizeEmail(t) == IF t.word \in Addresses THEN t.word ELSE None

Identity(a) ==
    [subject |-> IF NormalizeSubject(a.sub) # None THEN NormalizeSubject(a.sub)
                 ELSE NormalizeSubject(a.id),
     email   |-> NormalizeEmail(a.email)]

-----------------------------------------------------------------------------
(* The searches through the user's preferences, by the depth they have reached  *)
(* where they count it.                                                         *)

\* Deviation: `depth >= 4`.
NearerThanMax(depth) == depth < MaxDepth

Searched(depth) == depth <= MaxDepth

ContainsMarathonMarker[depth \in 0 .. MaxDepth + 1] ==
    [v \in Values |->
        /\ Searched(depth)
        /\ \/ v.kind = "marathonText"
           \/ \E e \in v.parts : \/ e.key \in MarathonNamed
                                 \/ ContainsMarathonMarker[depth + 1][e.value]]

HasPreferenceValue[v \in Values] ==
    IF v.kind \in {"array", "object"}
    THEN \E e \in v.parts : HasPreferenceValue[e.value]
    ELSE v.kind \notin {"null", "false"}

\* What is under a marathon key counts for nothing, and under authSources every
\* key is an application's.
ContainsNonMarathonApplicationPreference[depth \in 0 .. MaxDepth + 1] ==
    [v \in Values |->
        /\ Searched(depth)
        /\ \E e \in v.parts :
              /\ e.key \notin MarathonKeys
              /\ IF e.key = "authSources"
                 THEN \E s \in e.value.parts :
                         s.key \notin MarathonKeys /\ HasPreferenceValue[s.value]
                 ELSE \/ e.key \in ApplicationKeys /\ HasPreferenceValue[e.value]
                      \/ ContainsNonMarathonApplicationPreference[depth + 1][e.value]]

\* readRoles drops what is not a text, and a blank role is none.
RolesOf(a) == a.roles \ {"notText", "blank"}

IsMarathonOnlyImportedUser(a) ==
    /\ \/ "marathon" \in RolesOf(a)
       \/ a.source = "marathon"
       \/ ContainsMarathonMarker[0][a.preferences]
    /\ RolesOf(a) \subseteq {"marathon"}
    /\ ~ ContainsNonMarathonApplicationPreference[0][a.preferences]

-----------------------------------------------------------------------------
(* The request *)

\* No bearer token, Auth is not configured, or its answer does not come.
Unauthenticated ==
    /\ pc = "idle"
    /\ pc' = "unauthorized"
    /\ UNCHANGED <<answer, scope, order, listed>>

\* The guard has Auth's answer.
Authenticate(a) ==
    /\ pc = "idle"
    /\ answer' = a
    /\ IF a.valid /\ Identity(a) # NoScope /\ ~ IsMarathonOnlyImportedUser(a)
       THEN pc' = "scoped" /\ scope' = Identity(a)
       ELSE pc' = "forbidden" /\ scope' = NoScope
    /\ UNCHANGED <<order, listed>>

\* Deviation: the order's userId is not copied.
ToStoredLeavingOut(o) == [f \in (DOMAIN o \cap StoredFields) \ {"userId"} |-> o[f]]

ToStored(o) == [f \in DOMAIN o \cap StoredFields |-> o[f]]

\* The columns customerIdentityWhereClause compares with the subject.
SubjectColumns ==
    {"customer.id", "customer.userId", "customer.authUserId", "customer.subject",
     "customer.sub", "customerId", "customerUserId", "authUserId", "userId"}

\* LOWER(column) = :word; null equals nothing.
Equals(stored, f, word) ==
    /\ word # None
    /\ f \in DOMAIN stored
    /\ stored[f].word = word /\ stored[f].form # "padded"

\* findByCustomerIdentity over the invoice with order o.
List(o) ==
    /\ pc = "scoped"
    /\ order' = o
    /\ listed' = \/ \E f \in SubjectColumns : Equals(ToStored(o), f, scope.subject)
                 \/ Equals(ToStored(o), "customer.email", scope.email)
    /\ pc' = "answered"
    /\ answer' = [Nobody EXCEPT !.valid = TRUE, !.sub = answer.sub,
                                !.id = answer.id, !.email = answer.email]
    /\ UNCHANGED scope

\* The next request knows nothing of this one.
Return ==
    /\ pc \in {"unauthorized", "forbidden", "answered"}
    /\ pc' = "idle"
    /\ answer' = Nobody
    /\ scope' = NoScope
    /\ order' = NoOrder
    /\ listed' = FALSE

Next ==
    \/ Unauthenticated
    \/ \E a \in Answers : Authenticate(a)
    \/ \E o \in Orders : List(o)
    \/ Return

Spec == Init /\ [][Next]_vars

-----------------------------------------------------------------------------
(* Properties *)

\* Every way down from v: the parts passed, one after the other.
Trails[v \in Values] ==
    UNION {{<<e>>} \cup {<<e>> \o t : t \in Trails[e.value]} : e \in v.parts}

\* Somewhere in v, at any depth, there is a key or a text with "marathon" in it.
NamesMarathon(v) ==
    \/ v.kind = "marathonText"
    \/ \E t \in Trails[v] : LET last == t[Len(t)] IN
          last.key \in MarathonNamed \/ last.value.kind = "marathonText"

\* Somewhere in v, at any depth, a leaf of substance is at or below an
\* application's key, or a key right below authSources, and no marathon key is
\* on the way to that key.
NamesApplication(v) ==
    \E t \in Trails[v] :
        /\ t[Len(t)].value.kind \in {"plain", "marathonText"}
        /\ \E k \in 1 .. Len(t) :
              /\ \A i \in 1 .. k : t[i].key \notin MarathonKeys
              /\ \/ t[k].key \in ApplicationKeys
                 \/ k > 1 /\ t[k - 1].key = "authSources"

\* Of the users Auth knows by subject or address only those are turned away of
\* whom it knows marathon; and where the preferences are nested no deeper than
\* MaxDepth keys, exactly those of whom it knows nothing but marathon: the guard's
\* three searches, which tell keys apart by different rules, find what there is to
\* find. Nothing is said of deeper preferences, which the guard does not see to
\* their end: it turns away a marathon user whose other application lies there.
ImportedOnlyIsExact ==
    pc \in {"scoped", "forbidden"} /\ answer.valid /\ Identity(answer) # NoScope =>
        LET preferences == answer.preferences
            marathon == \/ "marathon" \in answer.roles
                        \/ answer.source = "marathon"
                        \/ NamesMarathon(preferences)
            other == \/ ~ answer.roles \subseteq {"marathon", "blank", "notText"}
                     \/ NamesApplication(preferences)
        IN  /\ pc = "forbidden" => marathon
            /\ (\A t \in Trails[preferences] : Len(t) <= MaxDepth) =>
                 (pc = "forbidden" <=> marathon /\ ~ other)

\* The texts of InvoiceOrderSnapshot that say who the customer is.
OrderNames(word, forms) ==
    \E f \in DOMAIN order \ {"customer.email", "customer.authSubject", "authSubject"} :
        order[f].word = word /\ order[f].form \in forms

\* An account lists only invoices whose order names it, by one of the nine texts
\* the query has a column for or by the customer's e-mail address; and it lists
\* every one of them that does so in any case and without spaces around it. Auth's
\* answer, the guard's identity, the stored snapshot and the columns of the query
\* agree so far, and no missing text matches a missing text. A stored text in
\* spaces, which LOWER does not trim, and customer.authSubject are not found.
AccountIsOwn ==
    pc = "answered" =>
        LET who == IF answer.sub.word \in {None, Blank} THEN answer.id.word
                   ELSE answer.sub.word
            Named(forms) ==
                \/ who \notin {None, Blank} /\ OrderNames(who, forms)
                \/ /\ answer.email.word \in Addresses
                   /\ "customer.email" \in DOMAIN order
                   /\ order["customer.email"].word = answer.email.word
                   /\ order["customer.email"].form \in forms
        IN  /\ listed => Named({"plain", "upper", "padded"})
            /\ Named({"plain", "upper"}) => listed

=============================================================================
