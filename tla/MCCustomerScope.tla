--------------------------- MODULE MCCustomerScope ---------------------------
(* Every way to say who somebody is with one profile, and one way with many   *)
(* profiles; orders that name somebody in one text, or in two.                *)
EXTENDS CustomerScope, FiniteSets

CONSTANTS alice, bob, aliceMail, noMail

MCWords == {alice, bob, aliceMail, noMail}
MCMarathonKeys == {"marathon"}
MCMarathonNamed == {"marathon", "marathonNews", "marathonMicroservice"}
MCApplicationKeys == {"app:shop", "marathonMicroservice"}
Keys == MCMarathonNamed \cup MCApplicationKeys \cup {"authSources", "theme"}

Of(word, form) == [word |-> word, form |-> form]
Plain(word) == Of(word, "plain")
Forms(word) == {Of(word, form) : form \in {"plain", "upper", "padded"}}

-----------------------------------------------------------------------------
(* Profiles *)

Leaf(kind) == [kind |-> kind, parts |-> {}]
Object(parts) == [kind |-> "object", parts |-> parts]
Part(k, v) == [key |-> k, value |-> v]
List1(v) == [kind |-> "array", parts |-> {Part("0", v)}]

Leaves == {Leaf(k) : k \in {"null", "false", "plain", "marathonText"}}
Parts(values) == {Part(k, v) : k \in Keys, v \in values}
Nest(values) == {Object({e}) : e \in Parts(values)}

Flat == Nest(Leaves)
Lists == {List1(v) : v \in Leaves}
Empty == {Object({})}
Pairs == {Object({d, e}) : d \in Parts(Leaves), e \in Parts({Leaf("plain"), Leaf("null")})}
Proper(values) ==
    {v \in values : \A d, e \in v.parts : d # e => d.key # e.key}
Two == Nest(Flat \cup Lists \cup Empty)
Three == Nest(Nest(Nest({Leaf("plain"), Leaf("marathonText")})))

\* v below n keys that say nothing, or n applications'.
RECURSIVE Below(_, _, _)
Below(v, key, n) == IF n = 0 THEN v ELSE Object({Part(key, Below(v, key, n - 1))})

Deep == {Below(v, k, n) : v \in Flat, k \in {"theme", "app:shop"}, n \in 2 .. 5}

SmallPreferences == Leaves \cup Empty \cup Flat \cup Lists
Preferences == Proper(Pairs) \cup Two \cup Three \cup Deep

RECURSIVE HeightOf(_)
HeightOf(v) ==
    IF v.parts = {} THEN 0
    ELSE LET heights == {HeightOf(e.value) : e \in v.parts}
         IN  1 + CHOOSE h \in heights : \A g \in heights : g <= h

\* The values of their parts are among them.
MCValues == SmallPreferences \cup Preferences
MCHeight == [v \in MCValues |-> HeightOf(v)]

Profile(roles, source, preferences) ==
    [roles |-> roles, source |-> source, preferences |-> preferences]

Profiles ==
    {Profile(r, s, p) : r \in SUBSET {"marathon", "shop", "blank", "notText"},
                        s \in {"none", "marathon", "marathonLike"}, p \in SmallPreferences}
    \cup {Profile(r, "none", p) : r \in {{}, {"marathon"}}, p \in Preferences}

-----------------------------------------------------------------------------
(* Answers and orders *)

Says(valid, sub, id, email, profile) ==
    [valid |-> valid, sub |-> sub, id |-> id, email |-> email,
     roles |-> profile.roles, source |-> profile.source,
     preferences |-> profile.preferences]

Subjects == Forms(alice) \cup {Plain(bob), Plain(Blank), Plain(None)}
Emails == Forms(aliceMail) \cup {Plain(noMail), Plain(None)}

Customer == Profile({"shop"}, "none", Null)

MCAnswers ==
    {Says(v, s, i, e, Customer) : v \in BOOLEAN, s \in Subjects, i \in Subjects, e \in Emails}
    \cup {Says(TRUE, Plain(alice), Plain(None), Plain(None), p) : p \in Profiles}

Fields == StoredFields \cup {"authSubject"}
Texts == Forms(alice) \cup Forms(aliceMail) \cup {Plain(bob), Plain(Blank)}

MCOrders ==
    {NoOrder} \cup {[f \in {g} |-> t] : g \in Fields, t \in Texts}
    \cup {[f \in {g, "customer.email"} |-> IF f = g THEN Plain(bob) ELSE Plain(aliceMail)] :
             g \in Fields \ {"customer.email"}}

=============================================================================
