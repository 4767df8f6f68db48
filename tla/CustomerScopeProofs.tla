------------------------- MODULE CustomerScopeProofs -------------------------
(* What the guard's three searches find, in values nested to any depth, and    *)
(* which invoices an account lists, whatever Auth answers and the orders say.  *)
EXTENDS CustomerScope, SequenceTheorems, WellFoundedInduction, TLAPS

-----------------------------------------------------------------------------
(* Induction over depths and over nested values *)

LEMMA LeastNumber ==
  ASSUME NEW S \in SUBSET Nat, S # {}
  PROVE  \E n \in S : \A m \in S : n <= m
<1>1. PICK n \in S : \A m \in S : ~ (<<m, n>> \in OpToRel(<, Nat))
  BY NatLessThanWellFounded, WFMin, Zenon
<1>2. ASSUME NEW m \in S
      PROVE  ~ (m < n)
  <2>1. m < n => <<m, n>> \in OpToRel(<, Nat)
    BY Zenon DEF OpToRel
  <2> QED
    BY <1>1, <2>1
<1> QED
  BY <1>2

\* What holds of a value when it holds of its parts holds of every value.
LEMMA HeightInduction ==
  ASSUME NEW S,
         \A v \in Values : (\A e \in v.parts : e.value \in S) => v \in S
  PROVE  Values \subseteq S
<1> DEFINE Left == {Height[v] : v \in Values \ S}
<1> SUFFICES ASSUME Values \ S # {}
             PROVE  FALSE
  OBVIOUS
<1>1. Left \in SUBSET Nat /\ Left # {}
  BY ValuesAssumption
<1>2. PICK n \in Left : \A m \in Left : n <= m
  BY <1>1, LeastNumber
<1>3. PICK v \in Values \ S : n = Height[v]
  BY <1>2
<1>4. ASSUME NEW e \in v.parts
      PROVE  e.value \in S
  <2>1. e.value \in Values /\ Height[e.value] < n /\ Height[e.value] \in Nat /\ n \in Nat
    BY <1>3, ValuesAssumption
  <2>2. e.value \notin S => Height[e.value] \in Left
    BY <2>1
  <2> QED
    BY <1>2, <2>1, <2>2
<1> QED
  BY <1>3, <1>4

\* What holds below the deepest call, and of each call when it holds of the next,
\* holds of all of them.
LEMMA DepthInduction ==
  ASSUME NEW S, MaxDepth + 1 \in S,
         \A depth \in 0 .. MaxDepth : depth + 1 \in S => depth \in S
  PROVE  0 .. MaxDepth + 1 \subseteq S
<1> DEFINE Left == {n \in 0 .. MaxDepth + 1 : MaxDepth + 1 - n \notin S}
<1>1. MaxDepth \in Nat
  BY ScopeAssumption
<1>2. CASE Left = {}
  <2>1. ASSUME NEW depth \in 0 .. MaxDepth + 1
        PROVE  depth \in S
    <3>1. MaxDepth + 1 - depth \in 0 .. MaxDepth + 1
          /\ MaxDepth + 1 - (MaxDepth + 1 - depth) = depth
      BY <1>1
    <3> QED
      BY <1>2, <3>1
  <2> QED
    BY <2>1
<1>3. CASE Left # {}
  <2>1. PICK n \in Left : \A m \in Left : n <= m
    <3>1. Left \in SUBSET Nat
      BY <1>1
    <3> HIDE DEF Left
    <3> QED
      BY <1>3, <3>1, LeastNumber
  <2>2. n # 0 /\ n - 1 \in 0 .. MaxDepth + 1 /\ n - 1 \notin Left
    BY <1>1, <2>1
  <2>3. MaxDepth + 1 - n \in 0 .. MaxDepth
        /\ MaxDepth + 1 - (n - 1) = (MaxDepth + 1 - n) + 1
    BY <1>1, <2>1, <2>2
  <2>4. (MaxDepth + 1 - n) + 1 \in S
    BY <2>2, <2>3
  <2> QED
    BY <2>1, <2>3, <2>4
<1> QED
  BY <1>2, <1>3

-----------------------------------------------------------------------------
(* Trails *)

AllParts == UNION {v.parts : v \in Values}

\* The trails of v, without recursion: each part is one of the value before it.
TrailsOf(v) ==
    {t \in Seq(AllParts) :
        /\ t # <<>> /\ t[1] \in v.parts
        /\ \A i \in 1 .. Len(t) - 1 : t[i + 1] \in t[i].value.parts}

LEMMA PartFacts ==
  ASSUME NEW v \in Values, NEW e \in v.parts
  PROVE  e \in AllParts /\ e.value \in Values
BY ValuesAssumption DEF AllParts

LEMMA ShortTrail ==
  ASSUME NEW v \in Values, NEW e \in v.parts
  PROVE  /\ <<e>> \in TrailsOf(v)
         /\ Len(<<e>>) = 1 /\ <<e>>[1] = e
<1>1. e \in AllParts
  BY PartFacts
<1>2. <<e>> \in Seq(AllParts) /\ Len(<<e>>) = 1 /\ <<e>>[1] = e /\ <<e>> # <<>>
  BY <1>1
<1> QED
  BY <1>2 DEF TrailsOf

LEMMA TrailTyped ==
  ASSUME NEW v, NEW t \in TrailsOf(v)
  PROVE  /\ t \in Seq(AllParts) /\ Len(t) \in Nat /\ Len(t) >= 1
         /\ \A i \in 1 .. Len(t) : t[i] \in AllParts
         /\ t[1] \in v.parts
BY DEF TrailsOf

LEMMA LongTrail ==
  ASSUME NEW v \in Values, NEW e \in v.parts, NEW u \in TrailsOf(e.value)
  PROVE  /\ <<e>> \o u \in TrailsOf(v)
         /\ Len(<<e>> \o u) = Len(u) + 1
         /\ (<<e>> \o u)[1] = e
         /\ \A i \in 1 .. Len(u) : (<<e>> \o u)[i + 1] = u[i]
<1> DEFINE t == <<e>> \o u
<1>1. /\ u \in Seq(AllParts) /\ Len(u) \in Nat /\ Len(u) >= 1
      /\ u[1] \in e.value.parts
      /\ \A i \in 1 .. Len(u) - 1 : u[i + 1] \in u[i].value.parts
  BY DEF TrailsOf
<1>2. <<e>> \in Seq(AllParts) /\ Len(<<e>>) = 1 /\ <<e>>[1] = e
  BY PartFacts
<1>3. /\ t \in Seq(AllParts) /\ Len(t) = Len(u) + 1
      /\ t[1] = e
      /\ \A i \in 1 .. Len(u) : t[i + 1] = u[i]
  BY <1>1, <1>2
<1> HIDE DEF t
<1>4. ASSUME NEW i \in 1 .. Len(t) - 1
      PROVE  t[i + 1] \in t[i].value.parts
  <2>1. CASE i = 1
    BY <1>1, <1>3, <2>1
  <2>2. CASE i # 1
    <3>1. i - 1 \in 1 .. Len(u) - 1 /\ i - 1 + 1 = i /\ i \in 1 .. Len(u)
      BY <1>1, <1>3, <2>2
    <3>2. u[i] \in u[i - 1].value.parts
      BY <1>1, <3>1
    <3>3. t[i] = u[i - 1] /\ t[i + 1] = u[i]
      BY <1>1, <1>3, <3>1
    <3> QED
      BY <3>2, <3>3
  <2> QED
    BY <2>1, <2>2
<1>5. t # <<>>
  BY <1>1, <1>3
<1>6. t \in TrailsOf(v)
  BY <1>3, <1>4, <1>5 DEF TrailsOf
<1> QED
  BY <1>3, <1>6 DEF t

\* A trail is its first part, or that and a trail of the part's value.
LEMMA TrailSplit ==
  ASSUME NEW v \in Values, NEW t \in TrailsOf(v)
  PROVE  /\ t[1] \in v.parts
         /\ \/ t = <<t[1]>>
            \/ \E u \in TrailsOf(t[1].value) : t = <<t[1]>> \o u
<1>1. /\ t \in Seq(AllParts) /\ Len(t) \in Nat /\ Len(t) >= 1 /\ t # <<>>
      /\ t[1] \in v.parts
      /\ \A i \in 1 .. Len(t) - 1 : t[i + 1] \in t[i].value.parts
  BY DEF TrailsOf
<1>2. CASE Len(t) = 1
  BY <1>1, <1>2
<1>3. CASE Len(t) # 1
  <2> DEFINE u == Tail(t)
  <2>1. /\ u \in Seq(AllParts) /\ Len(u) = Len(t) - 1
        /\ \A i \in 1 .. Len(u) : u[i] = t[i + 1]
    BY <1>1
  <2>2. t = <<t[1]>> \o u
    BY <1>1
  <2> HIDE DEF u
  <2>3. u # <<>> /\ u[1] \in t[1].value.parts
    BY <1>1, <1>3, <2>1
  <2>4. ASSUME NEW i \in 1 .. Len(u) - 1
        PROVE  u[i + 1] \in u[i].value.parts
    <3>1. i + 1 \in 1 .. Len(t) - 1 /\ i \in 1 .. Len(u) /\ i + 1 \in 1 .. Len(u)
      BY <1>1, <2>1
    <3>2. t[i + 1 + 1] \in t[i + 1].value.parts
      BY <1>1, <3>1
    <3> QED
      BY <2>1, <3>1, <3>2
  <2>5. u \in TrailsOf(t[1].value)
    BY <2>1, <2>3, <2>4 DEF TrailsOf
  <2> QED
    BY <1>1, <2>2, <2>5, Zenon
<1> QED
  BY <1>2, <1>3, Zenon

Longer(e, trails) == {<<e>>} \cup {<<e>> \o t : t \in trails}

LEMMA LongerFacts ==
  ASSUME NEW e, NEW trails, NEW t
  PROVE  t \in Longer(e, trails) <=> t = <<e>> \/ \E u \in trails : t = <<e>> \o u
BY Zenon DEF Longer

LEMMA TrailStep ==
  ASSUME NEW v \in Values
  PROVE  TrailsOf(v) = UNION {Longer(e, TrailsOf(e.value)) : e \in v.parts}
<1>1. ASSUME NEW e \in v.parts, NEW t \in Longer(e, TrailsOf(e.value))
      PROVE  t \in TrailsOf(v)
  <2>1. CASE t = <<e>>
    BY <2>1, ShortTrail, Zenon
  <2>2. ASSUME NEW u \in TrailsOf(e.value), t = <<e>> \o u
        PROVE  t \in TrailsOf(v)
    BY <2>2, LongTrail, Zenon
  <2>3. t = <<e>> \/ \E u \in TrailsOf(e.value) : t = <<e>> \o u
    BY <1>1, LongerFacts
  <2> QED
    BY <2>1, <2>2, <2>3, Zenon
<1>2. ASSUME NEW t \in TrailsOf(v)
      PROVE  t[1] \in v.parts /\ t \in Longer(t[1], TrailsOf(t[1].value))
  BY TrailSplit, LongerFacts, Zenon
<1> QED
  BY <1>1, <1>2

\* The recursion enumerates the trails.
LEMMA TrailsAreTrails ==
  ASSUME NEW v \in Values
  PROVE  Trails[v] = TrailsOf(v)
<1> DEFINE f == [w \in Values |-> TrailsOf(w)]
           S == {w \in Values : Trails[w] = TrailsOf(w)}
<1>1. ASSUME NEW w \in Values
      PROVE  TrailsOf(w) = UNION {Longer(e, f[e.value]) : e \in w.parts}
  <2>1. \A e \in w.parts : f[e.value] = TrailsOf(e.value)
    BY PartFacts, Zenon
  <2> HIDE DEF f
  <2> QED
    BY <2>1, TrailStep
<1>2. f = [w \in Values |-> UNION {Longer(e, f[e.value]) : e \in w.parts}]
  BY <1>1, Zenon
<1> HIDE DEF f
<1>3. Trails = [w \in Values |-> UNION {Longer(e, Trails[e.value]) : e \in w.parts}]
  <2>1. \E g : g = [w \in Values |-> UNION {Longer(e, g[e.value]) : e \in w.parts}]
    BY <1>2, Zenon
  <2> QED
    BY <2>1, Zenon DEF Trails, Longer
<1>4. ASSUME NEW w \in Values, \A e \in w.parts : e.value \in S
      PROVE  w \in S
  <2>1. Trails[w] = UNION {Longer(e, Trails[e.value]) : e \in w.parts}
    BY <1>3, Zenon
  <2>2. \A e \in w.parts : Trails[e.value] = TrailsOf(e.value)
    BY <1>4
  <2>3. Trails[w] = TrailsOf(w)
    BY <2>1, <2>2, TrailStep
  <2> QED
    BY <2>3
<1> HIDE DEF S
<1>5. Values \subseteq S
  BY <1>4, HeightInduction
<1> QED
  BY <1>5 DEF S

EndOf(t) == t[Len(t)]

LEMMA EndFacts ==
  ASSUME NEW v \in Values, NEW e \in v.parts
  PROVE  /\ EndOf(<<e>>) = e
         /\ \A u \in TrailsOf(e.value) : EndOf(<<e>> \o u) = EndOf(u)
<1>1. EndOf(<<e>>) = e
  BY ShortTrail DEF EndOf
<1>2. ASSUME NEW u \in TrailsOf(e.value)
      PROVE  EndOf(<<e>> \o u) = EndOf(u)
  <2>1. Len(<<e>> \o u) = Len(u) + 1 /\ Len(u) \in 1 .. Len(u)
    BY LongTrail, TrailTyped
  <2>2. (<<e>> \o u)[Len(u) + 1] = u[Len(u)]
    BY <2>1, LongTrail
  <2> QED
    BY <2>1, <2>2 DEF EndOf
<1> QED
  BY <1>1, <1>2

LEMMA TrailCases ==
  ASSUME NEW v \in Values, NEW t \in TrailsOf(v)
  PROVE  \E e \in v.parts :
            /\ t[1] = e
            /\ \/ Len(t) = 1 /\ EndOf(t) = e
               \/ \E u \in TrailsOf(e.value) :
                     /\ Len(t) = Len(u) + 1
                     /\ EndOf(t) = EndOf(u)
                     /\ \A i \in 1 .. Len(u) : t[i + 1] = u[i]
<1>1. PICK e \in v.parts : /\ t[1] = e
                          /\ \/ t = <<e>>
                             \/ \E u \in TrailsOf(e.value) : t = <<e>> \o u
  BY TrailSplit
<1>2. t = <<e>> => Len(t) = 1 /\ EndOf(t) = e
  BY ShortTrail, EndFacts
<1>3. ASSUME NEW u \in TrailsOf(e.value), t = <<e>> \o u
      PROVE  /\ Len(t) = Len(u) + 1
             /\ EndOf(t) = EndOf(u)
             /\ \A i \in 1 .. Len(u) : t[i + 1] = u[i]
  BY <1>3, LongTrail, EndFacts
<1>4. \/ Len(t) = 1 /\ EndOf(t) = e
      \/ \E u \in TrailsOf(e.value) :
            /\ Len(t) = Len(u) + 1
            /\ EndOf(t) = EndOf(u)
            /\ \A i \in 1 .. Len(u) : t[i + 1] = u[i]
  <2>1. CASE \E u \in TrailsOf(e.value) : t = <<e>> \o u
    BY <2>1, <1>3, Zenon
  <2> QED
    BY <1>1, <1>2, <2>1, Zenon
<1>5. t[1] = e
  BY <1>1
<1> WITNESS e \in v.parts
<1> QED
  BY <1>4, <1>5

-----------------------------------------------------------------------------
(* hasPreferenceValue *)

Substance(v) == v.kind \in {"plain", "marathonText"}

HasSubstance(v) == Substance(v) \/ \E t \in TrailsOf(v) : Substance(EndOf(t).value)

LEMMA SubstanceStep ==
  ASSUME NEW v \in Values
  PROVE  HasSubstance(v) <=>
           IF v.kind \in {"array", "object"}
           THEN \E e \in v.parts : HasSubstance(e.value)
           ELSE v.kind \notin {"null", "false"}
<1>1. CASE v.kind \in {"array", "object"}
  <2>1. ASSUME NEW e \in v.parts, HasSubstance(e.value)
        PROVE  HasSubstance(v)
    <3>1. CASE Substance(e.value)
      BY <3>1, ShortTrail, EndFacts DEF HasSubstance
    <3>2. ASSUME NEW u \in TrailsOf(e.value), Substance(EndOf(u).value)
          PROVE  HasSubstance(v)
      <4>1. <<e>> \o u \in TrailsOf(v) /\ EndOf(<<e>> \o u) = EndOf(u)
        BY LongTrail, EndFacts
      <4> QED
        BY <3>2, <4>1 DEF HasSubstance
    <3> QED
      BY <2>1, <3>1, <3>2 DEF HasSubstance
  <2>2. ASSUME HasSubstance(v)
        PROVE  \E e \in v.parts : HasSubstance(e.value)
    <3>1. PICK t \in TrailsOf(v) : Substance(EndOf(t).value)
      BY <1>1, <2>2 DEF HasSubstance, Substance
    <3>2. PICK e \in v.parts :
             \/ EndOf(t) = e
             \/ \E u \in TrailsOf(e.value) : EndOf(t) = EndOf(u)
      BY TrailCases
    <3> QED
      BY <3>1, <3>2 DEF HasSubstance
  <2> QED
    BY <1>1, <2>1, <2>2
<1>2. CASE v.kind \notin {"array", "object"}
  <2>1. v.parts = {} /\ v.kind \in {"null", "false", "plain", "marathonText"}
    BY <1>2, ValuesAssumption
  <2>2. TrailsOf(v) = {}
    BY <2>1 DEF TrailsOf
  <2> QED
    BY <1>2, <2>1, <2>2 DEF HasSubstance, Substance
<1> QED
  BY <1>1, <1>2

\* hasPreferenceValue finds the leaves of substance, however deep they are.
LEMMA PreferenceValueFound ==
  ASSUME NEW v \in Values
  PROVE  HasPreferenceValue[v] <=> HasSubstance(v)
<1> DEFINE f == [w \in Values |-> HasSubstance(w)]
           Body(g, w) == IF w.kind \in {"array", "object"}
                         THEN \E e \in w.parts : g[e.value]
                         ELSE w.kind \notin {"null", "false"}
           S == {w \in Values : HasPreferenceValue[w] <=> HasSubstance(w)}
<1>1. ASSUME NEW w \in Values
      PROVE  HasSubstance(w) = Body(f, w)
  <2>1. HasSubstance(w) \in BOOLEAN
    BY DEF HasSubstance
  <2>2. \A e \in w.parts : f[e.value] = HasSubstance(e.value)
    BY PartFacts
  <2> QED
    BY <2>1, <2>2, SubstanceStep
<1>2. f = [w \in Values |-> Body(f, w)]
  BY <1>1
<1> HIDE DEF f
<1>3. HasPreferenceValue = [w \in Values |-> Body(HasPreferenceValue, w)]
  BY <1>2, Zenon DEF HasPreferenceValue
<1>4. ASSUME NEW w \in Values, \A e \in w.parts : e.value \in S
      PROVE  w \in S
  <2>1. HasPreferenceValue[w] = Body(HasPreferenceValue, w)
    BY <1>3
  <2>2. \A e \in w.parts : HasPreferenceValue[e.value] <=> HasSubstance(e.value)
    BY <1>4
  <2> QED
    BY <2>1, <2>2, SubstanceStep
<1> HIDE DEF S
<1>5. Values \subseteq S
  BY <1>4, HeightInduction
<1> QED
  BY <1>5 DEF S

-----------------------------------------------------------------------------
(* containsMarathonMarker *)

\* Within reach of a search that is at v, at some depth: a text, the key of a part,
\* the text at a part.
MarkedAt(v, depth) ==
    /\ depth <= MaxDepth
    /\ \/ v.kind = "marathonText"
       \/ \E t \in TrailsOf(v) :
             \/ Len(t) + depth <= MaxDepth + 1 /\ EndOf(t).key \in MarathonNamed
             \/ Len(t) + depth <= MaxDepth /\ EndOf(t).value.kind = "marathonText"

LEMMA MarkedStep ==
  ASSUME NEW v \in Values, NEW depth \in 0 .. MaxDepth
  PROVE  MarkedAt(v, depth) <=>
           \/ v.kind = "marathonText"
           \/ \E e \in v.parts : e.key \in MarathonNamed \/ MarkedAt(e.value, depth + 1)
<1>1. MaxDepth \in Nat /\ depth \in Nat /\ depth <= MaxDepth
  BY ScopeAssumption
<1>2. ASSUME NEW e \in v.parts, e.key \in MarathonNamed
      PROVE  MarkedAt(v, depth)
  <2>1. <<e>> \in TrailsOf(v) /\ Len(<<e>>) + depth <= MaxDepth + 1 /\ EndOf(<<e>>) = e
    BY <1>1, ShortTrail, EndFacts
  <2> QED
    BY <1>1, <1>2, <2>1 DEF MarkedAt
<1>3. ASSUME NEW e \in v.parts, MarkedAt(e.value, depth + 1)
      PROVE  MarkedAt(v, depth)
  <2>1. depth + 1 <= MaxDepth
    BY <1>3 DEF MarkedAt
  <2>2. CASE e.value.kind = "marathonText"
    <3>1. <<e>> \in TrailsOf(v) /\ Len(<<e>>) + depth <= MaxDepth /\ EndOf(<<e>>) = e
      BY <1>1, <2>1, ShortTrail, EndFacts
    <3> QED
      BY <1>1, <2>2, <3>1 DEF MarkedAt
  <2>3. ASSUME NEW u \in TrailsOf(e.value),
               \/ Len(u) + (depth + 1) <= MaxDepth + 1 /\ EndOf(u).key \in MarathonNamed
               \/ Len(u) + (depth + 1) <= MaxDepth
                    /\ EndOf(u).value.kind = "marathonText"
        PROVE  MarkedAt(v, depth)
    <3>1. /\ <<e>> \o u \in TrailsOf(v)
          /\ Len(<<e>> \o u) + depth = Len(u) + (depth + 1)
          /\ EndOf(<<e>> \o u) = EndOf(u)
      BY <1>1, LongTrail, EndFacts, TrailTyped
    <3> QED
      BY <1>1, <2>3, <3>1 DEF MarkedAt
  <2> QED
    BY <1>3, <2>2, <2>3 DEF MarkedAt
<1>4. ASSUME NEW t \in TrailsOf(v), NEW e \in v.parts,
             \/ Len(t) + depth <= MaxDepth + 1 /\ EndOf(t).key \in MarathonNamed
             \/ Len(t) + depth <= MaxDepth /\ EndOf(t).value.kind = "marathonText",
             \/ Len(t) = 1 /\ EndOf(t) = e
             \/ \E u \in TrailsOf(e.value) : Len(t) = Len(u) + 1 /\ EndOf(t) = EndOf(u)
      PROVE  e.key \in MarathonNamed \/ MarkedAt(e.value, depth + 1)
  <2>1. CASE Len(t) = 1 /\ EndOf(t) = e
    BY <1>1, <1>4, <2>1 DEF MarkedAt
  <2>2. ASSUME NEW u \in TrailsOf(e.value), Len(t) = Len(u) + 1, EndOf(t) = EndOf(u)
        PROVE  MarkedAt(e.value, depth + 1)
    <3>1. /\ Len(t) + depth = Len(u) + (depth + 1)
          /\ Len(u) \in Nat /\ Len(u) >= 1
      BY <1>1, <2>2, TrailTyped
    <3>2. depth + 1 <= MaxDepth
      BY <1>1, <1>4, <3>1
    <3> QED
      BY <1>4, <2>2, <3>1, <3>2 DEF MarkedAt
  <2> QED
    BY <1>4, <2>1, <2>2
<1>5. ASSUME MarkedAt(v, depth), v.kind # "marathonText"
      PROVE  \E e \in v.parts : e.key \in MarathonNamed \/ MarkedAt(e.value, depth + 1)
  <2>1. PICK t \in TrailsOf(v) :
             \/ Len(t) + depth <= MaxDepth + 1 /\ EndOf(t).key \in MarathonNamed
             \/ Len(t) + depth <= MaxDepth /\ EndOf(t).value.kind = "marathonText"
    BY <1>5 DEF MarkedAt
  <2>2. PICK e \in v.parts :
             \/ Len(t) = 1 /\ EndOf(t) = e
             \/ \E u \in TrailsOf(e.value) : Len(t) = Len(u) + 1 /\ EndOf(t) = EndOf(u)
    BY TrailCases
  <2> QED
    BY <1>4, <2>1, <2>2
<1>6. v.kind = "marathonText" => MarkedAt(v, depth)
  BY <1>1 DEF MarkedAt
<1> QED
  BY <1>2, <1>3, <1>5, <1>6

LEMMA MarkerFound ==
  ASSUME NEW depth \in 0 .. MaxDepth + 1, NEW v \in Values
  PROVE  ContainsMarathonMarker[depth][v] <=> MarkedAt(v, depth)
<1> DEFINE Depths == 0 .. MaxDepth + 1
           f == [d \in Depths |-> [w \in Values |-> MarkedAt(w, d)]]
           Body(g, d, w) ==
               /\ Searched(d)
               /\ \/ w.kind = "marathonText"
                  \/ \E e \in w.parts : e.key \in MarathonNamed \/ g[d + 1][e.value]
           S == {d \in Depths :
                    \A w \in Values : ContainsMarathonMarker[d][w] <=> MarkedAt(w, d)}
<1>0. MaxDepth \in Nat
  BY ScopeAssumption
<1>1. ASSUME NEW d \in Depths, NEW w \in Values
      PROVE  MarkedAt(w, d) = Body(f, d, w)
  <2>1. MarkedAt(w, d) \in BOOLEAN
    BY DEF MarkedAt
  <2>2. CASE d = MaxDepth + 1
    <3>1. ~ Searched(d) /\ ~ MarkedAt(w, d)
      BY <1>0, <2>2 DEF MarkedAt, Searched
    <3> QED
      BY <2>1, <3>1
  <2>3. CASE d \in 0 .. MaxDepth
    <3>1. \A e \in w.parts : f[d + 1][e.value] = MarkedAt(e.value, d + 1)
      BY <1>0, <2>3, PartFacts
    <3>2. Searched(d)
      BY <1>0, <2>3 DEF Searched
    <3> QED
      BY <2>1, <2>3, <3>1, <3>2, MarkedStep
  <2>4. d = MaxDepth + 1 \/ d \in 0 .. MaxDepth
    BY <1>0
  <2> QED
    BY <2>2, <2>3, <2>4, Zenon
<1>2. f = [d \in Depths |-> [w \in Values |-> Body(f, d, w)]]
  BY <1>1
<1> HIDE DEF f
<1>3. ContainsMarathonMarker =
        [d \in Depths |-> [w \in Values |-> Body(ContainsMarathonMarker, d, w)]]
  BY <1>2, Zenon DEF ContainsMarathonMarker
<1>4. ASSUME NEW d \in Depths, NEW w \in Values
      PROVE  ContainsMarathonMarker[d][w] = Body(ContainsMarathonMarker, d, w)
  <2> HIDE DEF Body
  <2>1. ContainsMarathonMarker[d] = [x \in Values |-> Body(ContainsMarathonMarker, d, x)]
    BY <1>3, Zenon
  <2> QED
    BY <2>1, Zenon
<1>5. MaxDepth + 1 \in S
  <2>1. ASSUME NEW w \in Values
        PROVE  ~ ContainsMarathonMarker[MaxDepth + 1][w] /\ ~ MarkedAt(w, MaxDepth + 1)
    <3>1. ~ Searched(MaxDepth + 1) /\ ~ MarkedAt(w, MaxDepth + 1)
          /\ MaxDepth + 1 \in Depths
      BY <1>0 DEF MarkedAt, Searched
    <3> QED
      BY <1>4, <3>1, Zenon
  <2> QED
    BY <1>0, <2>1
<1>6. ASSUME NEW d \in 0 .. MaxDepth, d + 1 \in S
      PROVE  d \in S
  <2>1. d \in Depths /\ Searched(d)
    BY <1>0 DEF Searched
  <2>2. ASSUME NEW w \in Values
        PROVE  ContainsMarathonMarker[d][w] <=> MarkedAt(w, d)
    <3>1. \A e \in w.parts :
             ContainsMarathonMarker[d + 1][e.value] <=> MarkedAt(e.value, d + 1)
      BY <1>6, PartFacts
    <3> QED
      BY <1>4, <2>1, <3>1, MarkedStep
  <2> QED
    BY <2>1, <2>2
<1> HIDE DEF S
<1>7. Depths \subseteq S
  BY <1>5, <1>6, DepthInduction
<1> QED
  BY <1>7 DEF S

-----------------------------------------------------------------------------
(* containsNonMarathonApplicationPreference *)

\* A part's value has substance where a trail that starts with the part does.
LEMMA SubstanceTrail ==
  ASSUME NEW v \in Values, NEW e \in v.parts
  PROVE  HasSubstance(e.value) <=>
           \E t \in TrailsOf(v) : t[1] = e /\ Substance(EndOf(t).value)
<1>1. ASSUME Substance(e.value)
      PROVE  \E t \in TrailsOf(v) : t[1] = e /\ Substance(EndOf(t).value)
  BY <1>1, ShortTrail, EndFacts
<1>2. ASSUME NEW u \in TrailsOf(e.value), Substance(EndOf(u).value)
      PROVE  \E t \in TrailsOf(v) : t[1] = e /\ Substance(EndOf(t).value)
  <2>1. /\ <<e>> \o u \in TrailsOf(v) /\ (<<e>> \o u)[1] = e
        /\ EndOf(<<e>> \o u) = EndOf(u)
    BY LongTrail, EndFacts
  <2> QED
    BY <1>2, <2>1
<1>3. ASSUME NEW t \in TrailsOf(v), t[1] = e, Substance(EndOf(t).value)
      PROVE  HasSubstance(e.value)
  <2>1. EndOf(t) = e \/ \E u \in TrailsOf(e.value) : EndOf(t) = EndOf(u)
    BY <1>3, TrailCases
  <2> QED
    BY <1>3, <2>1 DEF HasSubstance
<1> QED
  BY <1>1, <1>2, <1>3 DEF HasSubstance

\* The k-th part of a trail names an application to a search that is at its start,
\* at some depth.
Vouches(t, k, depth) ==
    LET source == k > 1 /\ t[k - 1].key = "authSources" IN
    /\ \A i \in 1 .. k : t[i].key \notin MarathonKeys
    /\ \A i \in 1 .. k - 1 : t[i].key = "authSources" => source /\ i = k - 1
    /\ \/ source /\ k - 1 + depth <= MaxDepth + 1
       \/ t[k].key \in ApplicationKeys /\ ~ source /\ k + depth <= MaxDepth + 1

NamedAt(v, depth) ==
    /\ depth <= MaxDepth
    /\ \E t \in TrailsOf(v) :
          Substance(EndOf(t).value) /\ \E k \in 1 .. Len(t) : Vouches(t, k, depth)

Counts(e, depth) ==
    /\ e.key \notin MarathonKeys
    /\ IF e.key = "authSources"
       THEN \E s \in e.value.parts : s.key \notin MarathonKeys /\ HasSubstance(s.value)
       ELSE \/ e.key \in ApplicationKeys /\ HasSubstance(e.value)
            \/ NamedAt(e.value, depth + 1)

\* One part further into a trail, one level deeper.
LEMMA VouchesShift ==
  ASSUME NEW t, NEW u, NEW k \in Nat, k >= 1, NEW n \in Nat, k <= n,
         NEW depth \in Nat,
         \A i \in 1 .. n : t[i + 1] = u[i],
         t[1].key \notin MarathonKeys, t[1].key # "authSources"
  PROVE  Vouches(t, k + 1, depth) <=> Vouches(u, k, depth + 1)
<1> DEFINE here == k + 1 > 1 /\ t[k + 1 - 1].key = "authSources"
           there == k > 1 /\ u[k - 1].key = "authSources"
<1>0. MaxDepth \in Nat
  BY ScopeAssumption
<1>1. here <=> there
  <2>1. CASE k = 1
    BY <2>1
  <2>2. CASE k # 1
    <3>1. k - 1 \in 1 .. n /\ k - 1 + 1 = k /\ k + 1 - 1 = k
      BY <2>2
    <3>2. t[k] = u[k - 1]
      BY <3>1
    <3> QED
      BY <2>2, <3>1, <3>2
  <2> QED
    BY <2>1, <2>2
<1>2. (\A i \in 1 .. k + 1 : t[i].key \notin MarathonKeys)
        <=> \A i \in 1 .. k : u[i].key \notin MarathonKeys
  <2>1. ASSUME NEW i \in 1 .. k
        PROVE  u[i] = t[i + 1] /\ i + 1 \in 1 .. k + 1
    BY <2>1
  <2>2. ASSUME NEW i \in 1 .. k + 1, i # 1
        PROVE  t[i] = u[i - 1] /\ i - 1 \in 1 .. k
    <3>1. i - 1 \in 1 .. n /\ i - 1 \in 1 .. k /\ i - 1 + 1 = i
      BY <2>2
    <3> QED
      BY <3>1
  <2> QED
    BY <2>1, <2>2
<1>3. Vouches(t, k + 1, depth) <=>
        /\ \A i \in 1 .. k + 1 : t[i].key \notin MarathonKeys
        /\ \A i \in 1 .. k : t[i].key = "authSources" => here /\ i = k
        /\ \/ here /\ k + depth <= MaxDepth + 1
           \/ t[k + 1].key \in ApplicationKeys /\ ~ here /\ k + 1 + depth <= MaxDepth + 1
  <2>1. k + 1 - 1 = k
    OBVIOUS
  <2> QED
    BY <2>1 DEF Vouches
<1>4. Vouches(u, k, depth + 1) <=>
        /\ \A i \in 1 .. k : u[i].key \notin MarathonKeys
        /\ \A i \in 1 .. k - 1 : u[i].key = "authSources" => there /\ i = k - 1
        /\ \/ there /\ k + depth <= MaxDepth + 1
           \/ u[k].key \in ApplicationKeys /\ ~ there /\ k + 1 + depth <= MaxDepth + 1
  <2>1. k - 1 + (depth + 1) = k + depth /\ k + (depth + 1) = k + 1 + depth
    OBVIOUS
  <2> QED
    BY <2>1 DEF Vouches
<1> HIDE DEF here, there
<1>5. (\A i \in 1 .. k : t[i].key = "authSources" => here /\ i = k)
        <=> \A i \in 1 .. k - 1 : u[i].key = "authSources" => there /\ i = k - 1
  <2>1. ASSUME NEW i \in 1 .. k - 1
        PROVE  u[i] = t[i + 1] /\ i + 1 \in 1 .. k /\ (i = k - 1 <=> i + 1 = k)
    BY <2>1
  <2>2. ASSUME NEW i \in 1 .. k, i # 1
        PROVE  t[i] = u[i - 1] /\ i - 1 \in 1 .. k - 1 /\ (i = k <=> i - 1 = k - 1)
    <3>1. i - 1 \in 1 .. n /\ i - 1 \in 1 .. k - 1 /\ i - 1 + 1 = i
      BY <2>2
    <3> QED
      BY <3>1
  <2> QED
    BY <1>1, <2>1, <2>2
<1>6. t[k + 1] = u[k]
  OBVIOUS
<1> QED
  BY <1>1, <1>2, <1>3, <1>4, <1>5, <1>6, Zenon

LEMMA VouchesFirst ==
  ASSUME NEW t, NEW depth \in 0 .. MaxDepth
  PROVE  Vouches(t, 1, depth) <=>
           t[1].key \notin MarathonKeys /\ t[1].key \in ApplicationKeys
<1>1. MaxDepth \in Nat
  BY ScopeAssumption
<1> QED
  BY <1>1 DEF Vouches

LEMMA VouchesSecond ==
  ASSUME NEW t, NEW depth \in 0 .. MaxDepth, t[1].key = "authSources",
         t[2].key \notin MarathonKeys
  PROVE  Vouches(t, 2, depth)
<1>1. MaxDepth \in Nat /\ "authSources" \notin MarathonKeys
  BY ScopeAssumption
<1>2. \A i \in 1 .. 2 : i = 1 \/ i = 2
  OBVIOUS
<1>3. \A i \in 1 .. 2 : t[i].key \notin MarathonKeys
  BY <1>1, <1>2
<1>4. \A i \in 1 .. 2 - 1 : i = 2 - 1
  OBVIOUS
<1>5. t[2 - 1].key = "authSources" /\ 2 > 1 /\ 2 - 1 + depth <= MaxDepth + 1
  BY <1>1
<1> QED
  BY <1>3, <1>4, <1>5 DEF Vouches

LEMMA CountsNames ==
  ASSUME NEW v \in Values, NEW depth \in 0 .. MaxDepth,
         NEW e \in v.parts, Counts(e, depth)
  PROVE  NamedAt(v, depth)
<1>0. MaxDepth \in Nat /\ depth \in Nat /\ depth <= MaxDepth /\ e.value \in Values
  BY ScopeAssumption, PartFacts
<1>1. CASE e.key = "authSources"
  <2>1. PICK s \in e.value.parts : s.key \notin MarathonKeys /\ HasSubstance(s.value)
    BY <1>1 DEF Counts
  <2>2. PICK u \in TrailsOf(e.value) : u[1] = s /\ Substance(EndOf(u).value)
    BY <1>0, <2>1, SubstanceTrail
  <2> DEFINE t == <<e>> \o u
  <2>3. /\ t \in TrailsOf(v) /\ Len(t) = Len(u) + 1 /\ t[1] = e
        /\ \A i \in 1 .. Len(u) : t[i + 1] = u[i]
        /\ EndOf(t) = EndOf(u)
    BY LongTrail, EndFacts
  <2> HIDE DEF t
  <2>4. Len(u) \in Nat /\ Len(u) >= 1
    BY TrailTyped
  <2>5. 1 \in 1 .. Len(u) /\ 2 \in 1 .. Len(t) /\ 1 + 1 = 2
    BY <2>3, <2>4
  <2>6. t[2] = s
    BY <2>2, <2>3, <2>5
  <2>7. Vouches(t, 2, depth)
    BY <1>1, <2>1, <2>3, <2>6, VouchesSecond
  <2> QED
    BY <1>0, <2>2, <2>3, <2>5, <2>7 DEF NamedAt
<1>2. CASE e.key # "authSources" /\ e.key \in ApplicationKeys /\ HasSubstance(e.value)
  <2>1. PICK t \in TrailsOf(v) : t[1] = e /\ Substance(EndOf(t).value)
    BY <1>2, SubstanceTrail
  <2>2. Vouches(t, 1, depth)
    BY <1>2, <2>1, VouchesFirst DEF Counts
  <2>3. 1 \in 1 .. Len(t)
    BY TrailTyped
  <2> QED
    BY <1>0, <2>1, <2>2, <2>3 DEF NamedAt
<1>3. CASE e.key # "authSources" /\ NamedAt(e.value, depth + 1)
  <2>1. PICK u \in TrailsOf(e.value) :
           Substance(EndOf(u).value) /\ \E k \in 1 .. Len(u) : Vouches(u, k, depth + 1)
    BY <1>3 DEF NamedAt
  <2>2. PICK k \in 1 .. Len(u) : Vouches(u, k, depth + 1)
    BY <2>1
  <2> DEFINE t == <<e>> \o u
  <2>3. /\ t \in TrailsOf(v) /\ Len(t) = Len(u) + 1 /\ t[1] = e
        /\ \A i \in 1 .. Len(u) : t[i + 1] = u[i]
        /\ EndOf(t) = EndOf(u)
    BY LongTrail, EndFacts
  <2> HIDE DEF t
  <2>4. Len(u) \in Nat /\ k \in Nat /\ k >= 1 /\ k <= Len(u)
    BY TrailTyped
  <2>5. t[1].key \notin MarathonKeys /\ t[1].key # "authSources"
    BY <1>3, <2>3 DEF Counts
  <2>6. Vouches(t, k + 1, depth)
    BY <1>0, <2>2, <2>3, <2>4, <2>5, VouchesShift
  <2>7. k + 1 \in 1 .. Len(t)
    BY <2>3, <2>4
  <2> QED
    BY <1>0, <2>1, <2>3, <2>6, <2>7 DEF NamedAt
<1> QED
  BY <1>1, <1>2, <1>3 DEF Counts

LEMMA NamesCounts ==
  ASSUME NEW v \in Values, NEW depth \in 0 .. MaxDepth, NamedAt(v, depth)
  PROVE  \E e \in v.parts : Counts(e, depth)
<1>0. MaxDepth \in Nat /\ depth \in Nat /\ depth <= MaxDepth
  BY ScopeAssumption
<1>1. PICK t \in TrailsOf(v) :
         Substance(EndOf(t).value) /\ \E k \in 1 .. Len(t) : Vouches(t, k, depth)
  BY DEF NamedAt
<1>2. PICK k \in 1 .. Len(t) : Vouches(t, k, depth)
  BY <1>1
<1>3. PICK e \in v.parts :
         /\ t[1] = e
         /\ \/ Len(t) = 1 /\ EndOf(t) = e
            \/ \E u \in TrailsOf(e.value) :
                  /\ Len(t) = Len(u) + 1
                  /\ EndOf(t) = EndOf(u)
                  /\ \A i \in 1 .. Len(u) : t[i + 1] = u[i]
  BY TrailCases
<1>4. k \in Nat /\ k >= 1 /\ k <= Len(t) /\ Len(t) \in Nat
  BY TrailTyped
<1>5. CASE k = 1
  <2>1. e.key \notin MarathonKeys /\ e.key \in ApplicationKeys
    BY <1>2, <1>3, <1>5, VouchesFirst
  <2>2. e.key # "authSources"
    BY <2>1, ScopeAssumption
  <2>3. HasSubstance(e.value)
    BY <1>1, <1>3, SubstanceTrail
  <2> QED
    BY <2>1, <2>2, <2>3 DEF Counts
<1>6. CASE k # 1
  <2>0. Len(t) # 1
    <3> DEFINE n == Len(t)
    <3>1. n \in Nat /\ k <= n
      BY <1>4
    <3> HIDE DEF n
    <3>2. n # 1
      BY <1>4, <1>6, <3>1
    <3> QED
      BY <3>2 DEF n
  <2>1. PICK u \in TrailsOf(e.value) :
           /\ Len(t) = Len(u) + 1
           /\ EndOf(t) = EndOf(u)
           /\ \A i \in 1 .. Len(u) : t[i + 1] = u[i]
    BY <1>3, <2>0, Zenon
  <2>2. Len(u) \in Nat /\ Len(u) >= 1 /\ u[1] \in e.value.parts
    BY TrailTyped
  <2>3. e.value \in Values
    BY PartFacts
  <2>4. e.key \notin MarathonKeys
    <3>1. 1 \in 1 .. k
      BY <1>4
    <3> QED
      BY <1>2, <1>3, <3>1 DEF Vouches
  <2>5. CASE e.key = "authSources"
    <3>1. 1 \in 1 .. k - 1
      BY <1>4, <1>6
    <3>2. 1 = k - 1
      BY <1>2, <1>3, <2>5, <3>1 DEF Vouches
    <3>3. 2 \in 1 .. k /\ 1 \in 1 .. Len(u) /\ 1 + 1 = 2
      BY <1>4, <2>2, <3>2
    <3>4. t[2] = u[1] /\ t[2].key \notin MarathonKeys
      BY <1>2, <2>1, <3>3 DEF Vouches
    <3>5. HasSubstance(u[1].value)
      BY <1>1, <2>1, <2>2, <2>3, SubstanceTrail
    <3> QED
      BY <2>2, <2>4, <2>5, <3>4, <3>5 DEF Counts
  <2>6. CASE e.key # "authSources"
    <3> DEFINE j == k - 1
    <3>1. j \in Nat /\ j >= 1 /\ j <= Len(u) /\ j + 1 = k /\ j \in 1 .. Len(u)
      BY <1>4, <1>6, <2>1, <2>2
    <3> HIDE DEF j
    <3>2. Vouches(u, j, depth + 1)
      <4>1. Vouches(t, j + 1, depth)
        BY <1>2, <3>1
      <4> QED
        BY <1>0, <1>3, <2>1, <2>2, <2>4, <2>6, <3>1, <4>1, VouchesShift
    <3>3. depth + 1 <= MaxDepth
      <4>1. \/ j - 1 + (depth + 1) <= MaxDepth + 1 /\ j > 1
            \/ j + (depth + 1) <= MaxDepth + 1
        BY <3>2 DEF Vouches
      <4> QED
        BY <1>0, <3>1, <4>1
    <3>4. NamedAt(e.value, depth + 1)
      BY <1>1, <2>1, <3>1, <3>2, <3>3 DEF NamedAt
    <3> QED
      BY <2>4, <2>6, <3>4 DEF Counts
  <2> QED
    BY <2>5, <2>6
<1> QED
  BY <1>5, <1>6

LEMMA NamedStep ==
  ASSUME NEW v \in Values, NEW depth \in 0 .. MaxDepth
  PROVE  NamedAt(v, depth) <=> \E e \in v.parts : Counts(e, depth)
BY CountsNames, NamesCounts

LEMMA ApplicationFound ==
  ASSUME NEW depth \in 0 .. MaxDepth + 1, NEW v \in Values
  PROVE  ContainsNonMarathonApplicationPreference[depth][v] <=> NamedAt(v, depth)
<1> DEFINE Depths == 0 .. MaxDepth + 1
           f == [d \in Depths |-> [w \in Values |-> NamedAt(w, d)]]
           Entry(g, d, e) ==
               /\ e.key \notin MarathonKeys
               /\ IF e.key = "authSources"
                  THEN \E s \in e.value.parts :
                          s.key \notin MarathonKeys /\ HasPreferenceValue[s.value]
                  ELSE \/ e.key \in ApplicationKeys /\ HasPreferenceValue[e.value]
                       \/ g[d + 1][e.value]
           Body(g, d, w) == Searched(d) /\ \E e \in w.parts : Entry(g, d, e)
           Found == ContainsNonMarathonApplicationPreference
           S == {d \in Depths : \A w \in Values : Found[d][w] <=> NamedAt(w, d)}
<1>0. MaxDepth \in Nat
  BY ScopeAssumption
<1>1. ASSUME NEW g, NEW d \in 0 .. MaxDepth, NEW w \in Values, NEW e \in w.parts,
             g[d + 1][e.value] <=> NamedAt(e.value, d + 1)
      PROVE  Entry(g, d, e) <=> Counts(e, d)
  <2>1. HasPreferenceValue[e.value] <=> HasSubstance(e.value)
    BY PartFacts, PreferenceValueFound
  <2>2. \A s \in e.value.parts : HasPreferenceValue[s.value] <=> HasSubstance(s.value)
    BY PartFacts, PreferenceValueFound
  <2> QED
    BY <1>1, <2>1, <2>2 DEF Counts
<1>2. ASSUME NEW g, NEW d \in 0 .. MaxDepth, NEW w \in Values,
             \A e \in w.parts : g[d + 1][e.value] <=> NamedAt(e.value, d + 1)
      PROVE  Body(g, d, w) <=> NamedAt(w, d)
  <2>1. Searched(d)
    BY <1>0 DEF Searched
  <2>2. \A e \in w.parts : Entry(g, d, e) <=> Counts(e, d)
    BY <1>1, <1>2
  <2> HIDE DEF Entry
  <2> QED
    BY <2>1, <2>2, NamedStep
<1>3. ASSUME NEW g, NEW w
      PROVE  ~ Body(g, MaxDepth + 1, w) /\ ~ NamedAt(w, MaxDepth + 1)
  BY <1>0 DEF NamedAt, Searched
<1>4. \A d \in Depths : d = MaxDepth + 1 \/ d \in 0 .. MaxDepth
  BY <1>0
<1>5. ASSUME NEW d \in Depths, NEW w \in Values
      PROVE  NamedAt(w, d) = Body(f, d, w)
  <2>1. NamedAt(w, d) \in BOOLEAN /\ Body(f, d, w) \in BOOLEAN
    BY DEF NamedAt
  <2>2. ASSUME d \in 0 .. MaxDepth
        PROVE  \A e \in w.parts : f[d + 1][e.value] <=> NamedAt(e.value, d + 1)
    BY <1>0, <2>2, PartFacts
  <2>3. NamedAt(w, d) <=> Body(f, d, w)
    <3> HIDE DEF f, Body
    <3> QED
      BY <1>2, <1>3, <1>4, <2>2, Zenon
  <2> HIDE DEF f, Body
  <2> QED
    BY <2>1, <2>3
<1>6. f = [d \in Depths |-> [w \in Values |-> Body(f, d, w)]]
  <2> HIDE DEF Body
  <2> QED
    BY <1>5
<1> HIDE DEF f
<1>7. Found = [d \in Depths |-> [w \in Values |-> Body(Found, d, w)]]
  BY <1>6, Zenon DEF ContainsNonMarathonApplicationPreference
<1>8. ASSUME NEW d \in Depths, NEW w \in Values
      PROVE  Found[d][w] = Body(Found, d, w)
  <2> HIDE DEF Body, Found
  <2>1. Found[d] = [x \in Values |-> Body(Found, d, x)]
    BY <1>7, Zenon
  <2> QED
    BY <2>1, Zenon
<1> HIDE DEF Found, Body
<1>9. MaxDepth + 1 \in S
  <2>1. MaxDepth + 1 \in Depths
    BY <1>0
  <2>2. \A w \in Values : ~ Found[MaxDepth + 1][w] /\ ~ NamedAt(w, MaxDepth + 1)
    BY <1>3, <1>8, <2>1, Zenon
  <2> QED
    BY <2>1, <2>2
<1>10. ASSUME NEW d \in 0 .. MaxDepth, d + 1 \in S
       PROVE  d \in S
  <2>1. d \in Depths
    BY <1>0
  <2>2. ASSUME NEW w \in Values
        PROVE  Found[d][w] <=> NamedAt(w, d)
    <3>1. \A e \in w.parts : Found[d + 1][e.value] <=> NamedAt(e.value, d + 1)
      BY <1>10, PartFacts
    <3>2. Body(Found, d, w) <=> NamedAt(w, d)
      BY <1>2, <3>1
    <3> QED
      BY <1>8, <2>1, <3>2
  <2> QED
    BY <2>1, <2>2
<1> HIDE DEF S
<1>11. Depths \subseteq S
  BY <1>9, <1>10, DepthInduction
<1>12. Found[depth][v] <=> NamedAt(v, depth)
  BY <1>11 DEF S
<1> QED
  BY <1>12 DEF Found

\* No trail is longer than the searches are deep.
Shallow(v) == \A t \in TrailsOf(v) : Len(t) <= MaxDepth

LEMMA NamesMarathonFound ==
  ASSUME NEW v \in Values
  PROVE  /\ ContainsMarathonMarker[0][v] => NamesMarathon(v)
         /\ Shallow(v) => (ContainsMarathonMarker[0][v] <=> NamesMarathon(v))
<1>1. MaxDepth \in Nat /\ 0 \in 0 .. MaxDepth + 1
  BY ScopeAssumption
<1>2. ContainsMarathonMarker[0][v] <=> MarkedAt(v, 0)
  BY <1>1, MarkerFound
<1>3. \A t \in TrailsOf(v) : Len(t) + 0 = Len(t) /\ Len(t) \in Nat
  BY TrailTyped
<1>4. NamesMarathon(v) <=>
        \/ v.kind = "marathonText"
        \/ \E t \in TrailsOf(v) : \/ EndOf(t).key \in MarathonNamed
                                  \/ EndOf(t).value.kind = "marathonText"
  BY TrailsAreTrails, Zenon DEF NamesMarathon, EndOf
<1>5. MarkedAt(v, 0) => NamesMarathon(v)
  BY <1>4 DEF MarkedAt
<1>6. Shallow(v) /\ NamesMarathon(v) => MarkedAt(v, 0)
  <2>1. ASSUME Shallow(v), NEW t \in TrailsOf(v)
        PROVE  Len(t) + 0 <= MaxDepth /\ Len(t) + 0 <= MaxDepth + 1
    BY <1>1, <1>3, <2>1 DEF Shallow
  <2> QED
    BY <1>1, <1>4, <2>1 DEF MarkedAt
<1> QED
  BY <1>2, <1>5, <1>6

\* The k-th part of a trail names an application, however deep it is.
Names(t, k) ==
    /\ \A i \in 1 .. k : t[i].key \notin MarathonKeys
    /\ \/ t[k].key \in ApplicationKeys
       \/ k > 1 /\ t[k - 1].key = "authSources"

\* Of the parts of a trail that name an application, the first is one the search
\* comes to: it is not stopped by an authSources before.
LEMMA FirstVouches ==
  ASSUME NEW t, NEW n \in Nat, n <= MaxDepth, NEW k \in 1 .. n, Names(t, k)
  PROVE  \E j \in 1 .. n : Vouches(t, j, 0)
<1>0. MaxDepth \in Nat
  BY ScopeAssumption
<1> DEFINE S == {i \in 1 .. n : Names(t, i)}
<1>1. PICK j \in S : \A i \in S : j <= i
  <2>1. S \in SUBSET Nat /\ k \in S
    OBVIOUS
  <2> HIDE DEF S
  <2> QED
    BY <2>1, LeastNumber
<1>2. j \in 1 .. n /\ Names(t, j)
  BY <1>1
<1>3. ASSUME NEW i \in 1 .. j - 1, t[i].key = "authSources"
      PROVE  i = j - 1
  <2>1. i + 1 \in 1 .. j /\ i \in Nat /\ i + 1 > 1 /\ i + 1 - 1 = i
    BY <1>2
  <2>2. \A h \in 1 .. i + 1 : h \in 1 .. j
    BY <2>1
  <2>3. Names(t, i + 1)
    BY <1>2, <1>3, <2>1, <2>2 DEF Names
  <2>4. i + 1 \in 1 .. n
    BY <1>2, <2>1
  <2>5. j <= i + 1
    BY <1>1, <2>3, <2>4
  <2> QED
    BY <1>2, <2>1, <2>5
<1>4. j - 1 + 0 <= MaxDepth + 1 /\ j + 0 <= MaxDepth + 1
  BY <1>0, <1>2
<1>5. ASSUME NEW i \in 1 .. j - 1, t[i].key = "authSources"
      PROVE  j > 1 /\ t[j - 1].key = "authSources" /\ i = j - 1
  BY <1>2, <1>3, <1>5
<1>6. Vouches(t, j, 0)
  BY <1>2, <1>4, <1>5 DEF Vouches, Names
<1> QED
  BY <1>2, <1>6

LEMMA NamesApplicationFound ==
  ASSUME NEW v \in Values
  PROVE  Shallow(v) =>
           (ContainsNonMarathonApplicationPreference[0][v] <=> NamesApplication(v))
<1> SUFFICES ASSUME Shallow(v)
             PROVE  ContainsNonMarathonApplicationPreference[0][v] <=> NamesApplication(v)
  OBVIOUS
<1>1. MaxDepth \in Nat /\ 0 \in 0 .. MaxDepth + 1 /\ 0 <= MaxDepth
  BY ScopeAssumption
<1>2. ContainsNonMarathonApplicationPreference[0][v] <=> NamedAt(v, 0)
  BY <1>1, ApplicationFound
<1>3. NamesApplication(v) <=>
        \E t \in TrailsOf(v) :
           Substance(EndOf(t).value) /\ \E k \in 1 .. Len(t) : Names(t, k)
  BY TrailsAreTrails, Zenon DEF NamesApplication, Substance, EndOf, Names
<1>4. ASSUME NEW t \in TrailsOf(v), NEW k \in 1 .. Len(t), Vouches(t, k, 0)
      PROVE  Names(t, k)
  BY <1>4 DEF Vouches, Names
<1>5. ASSUME NEW t \in TrailsOf(v), NEW k \in 1 .. Len(t), Names(t, k)
      PROVE  \E j \in 1 .. Len(t) : Vouches(t, j, 0)
  <2>1. Len(t) \in Nat /\ Len(t) <= MaxDepth
    BY TrailTyped DEF Shallow
  <2> QED
    BY <1>5, <2>1, FirstVouches
<1>6. NamedAt(v, 0) <=>
        \E t \in TrailsOf(v) :
           Substance(EndOf(t).value) /\ \E k \in 1 .. Len(t) : Vouches(t, k, 0)
  BY <1>1 DEF NamedAt
<1> QED
  BY <1>2, <1>3, <1>4, <1>5, <1>6

\* What the guard decides about the users an import has made.
Marathon(a) ==
    \/ "marathon" \in a.roles
    \/ a.source = "marathon"
    \/ NamesMarathon(a.preferences)

Other(a) ==
    \/ ~ a.roles \subseteq {"marathon", "blank", "notText"}
    \/ NamesApplication(a.preferences)

LEMMA ImportedFound ==
  ASSUME NEW a \in Answers
  PROVE  /\ IsMarathonOnlyImportedUser(a) => Marathon(a)
         /\ Shallow(a.preferences) =>
              (IsMarathonOnlyImportedUser(a) <=> Marathon(a) /\ ~ Other(a))
<1>1. a.preferences \in Values
  BY ScopeAssumption
<1>2. RolesOf(a) \subseteq {"marathon"} <=> a.roles \subseteq {"marathon", "blank", "notText"}
  BY DEF RolesOf
<1>3. "marathon" \in RolesOf(a) <=> "marathon" \in a.roles
  BY DEF RolesOf
<1> QED
  BY <1>1, <1>2, <1>3, NamesMarathonFound, NamesApplicationFound, Zenon
     DEF IsMarathonOnlyImportedUser, Marathon, Other

-----------------------------------------------------------------------------
(* The invariant *)

\* The guard has decided by Auth's answer.
Decided ==
    pc \in {"scoped", "forbidden"} =>
        /\ answer \in Answers
        /\ pc = "scoped" <=> /\ answer.valid /\ Identity(answer) # NoScope
                             /\ ~ IsMarathonOnlyImportedUser(answer)

\* The request carries the identity in that answer.
Carried == pc \in {"scoped", "answered"} => scope = Identity(answer)

Matches(o, who) ==
    \/ \E f \in SubjectColumns : Equals(ToStored(o), f, who.subject)
    \/ Equals(ToStored(o), "customer.email", who.email)

\* The query has compared that identity with the stored order.
Compared == pc = "answered" => order \in Orders /\ (listed <=> Matches(order, scope))

IInv == TypeOK /\ Decided /\ Carried /\ Compared

LEMMA IdentityTyped ==
  ASSUME NEW a, {a.sub, a.id, a.email} \subseteq Text
  PROVE  Identity(a) \in [subject : Words \cup {None}, email : Addresses \cup {None}]
<1>1. /\ a.sub.word \in Words \cup {None, Blank}
      /\ a.id.word \in Words \cup {None, Blank}
  BY DEF Text
<1> QED
  BY <1>1 DEF Identity, NormalizeSubject, NormalizeEmail

LEMMA NobodyTyped ==
  /\ Nobody.valid \in BOOLEAN /\ {Nobody.sub, Nobody.id, Nobody.email} \subseteq Text
  /\ NoScope \in [subject : Words \cup {None}, email : Addresses \cup {None}]
BY DEF Nobody, NoText, NoScope, Text

LEMMA Initial == Init => IInv
BY NobodyTyped DEF Init, IInv, TypeOK, Decided, Carried, Compared

LEMMA Inductive == IInv /\ [Next]_vars => IInv'
<1> SUFFICES ASSUME IInv, [Next]_vars
             PROVE  IInv'
  OBVIOUS
<1> USE DEF IInv
<1>1. CASE Unauthenticated
  BY <1>1 DEF Unauthenticated, TypeOK, Decided, Carried, Compared
<1>2. ASSUME NEW a \in Answers, Authenticate(a)
      PROVE  IInv'
  <2>1. a.valid \in BOOLEAN /\ {a.sub, a.id, a.email} \subseteq Text
    BY ScopeAssumption
  <2>2. TypeOK'
    BY <1>2, <2>1, IdentityTyped, NobodyTyped DEF Authenticate, TypeOK
  <2>3. Decided'
    BY <1>2 DEF Authenticate, Decided
  <2>4. Carried'
    BY <1>2 DEF Authenticate, Carried
  <2>5. Compared'
    BY <1>2 DEF Authenticate, Compared
  <2> QED
    BY <2>2, <2>3, <2>4, <2>5
<1>3. ASSUME NEW o \in Orders, List(o)
      PROVE  IInv'
  <2>1. /\ answer'.valid = TRUE /\ answer'.sub = answer.sub /\ answer'.id = answer.id
        /\ answer'.email = answer.email
    BY <1>3 DEF List, Nobody
  <2>2. TypeOK'
    <3>1. listed' \in BOOLEAN
      BY <1>3 DEF List, Equals
    <3> QED
      BY <1>3, <2>1, <3>1 DEF List, TypeOK
  <2>3. Decided'
    BY <1>3 DEF List, Decided
  <2>4. Carried'
    BY <1>3, <2>1 DEF List, Carried, Identity
  <2>5. Compared'
    BY <1>3 DEF List, Compared, Matches
  <2> QED
    BY <2>2, <2>3, <2>4, <2>5
<1>4. CASE Return
  BY <1>4, NobodyTyped DEF Return, TypeOK, Decided, Carried, Compared
<1>5. CASE UNCHANGED vars
  BY <1>5 DEF vars, TypeOK, Decided, Carried, Compared, Matches
<1> QED
  BY <1>1, <1>2, <1>3, <1>4, <1>5 DEF Next

LEMMA Always == Spec => []IInv
BY Initial, Inductive, PTL DEF Spec

-----------------------------------------------------------------------------
(* The theorems *)

\* Whatever Auth answers, the request and the state of the guard have their types:
\* an identity is a word or none, an address is one.
THEOREM TypeCorrect == Spec => []TypeOK
<1>1. IInv => TypeOK
  BY DEF IInv
<1> QED
  BY <1>1, Always, PTL

\* CustomerAuthGuard refuses, of the users it can tell apart, only those of whom
\* Auth knows marathon, and exactly those of whom it knows marathon and nothing
\* else wherever the preferences are nested no deeper than it searches them.
THEOREM ImportedAreRefused == Spec => []ImportedOnlyIsExact
<1>1. IInv => ImportedOnlyIsExact
  <2> SUFFICES ASSUME IInv, pc \in {"scoped", "forbidden"}, answer.valid,
                      Identity(answer) # NoScope
               PROVE  ImportedOnlyIsExact
    BY DEF ImportedOnlyIsExact
  <2>1. answer \in Answers /\ (pc = "scoped" <=> ~ IsMarathonOnlyImportedUser(answer))
    BY DEF IInv, Decided
  <2>2. pc = "forbidden" <=> IsMarathonOnlyImportedUser(answer)
    BY <2>1
  <2>3. answer.preferences \in Values
    BY <2>1, ScopeAssumption
  <2>4. (\A t \in Trails[answer.preferences] : Len(t) <= MaxDepth)
          <=> Shallow(answer.preferences)
    BY <2>3, TrailsAreTrails DEF Shallow
  <2>5. /\ pc = "forbidden" => Marathon(answer)
        /\ (\A t \in Trails[answer.preferences] : Len(t) <= MaxDepth) =>
             (pc = "forbidden" <=> Marathon(answer) /\ ~ Other(answer))
    BY <2>1, <2>2, <2>4, ImportedFound
  <2> QED
    BY <2>5, Zenon DEF ImportedOnlyIsExact, Marathon, Other
<1> QED
  BY <1>1, Always, PTL

\* What the query compares is what the order says of the customer.
LEMMA StoredFacts ==
  ASSUME NEW o \in Orders, NEW f, NEW word
  PROVE  /\ f \in SubjectColumns \cup {"customer.email"} =>
              (Equals(ToStored(o), f, word) <=>
                 /\ word # None /\ f \in DOMAIN o
                 /\ o[f].word = word /\ o[f].form \in {"plain", "upper"})
         /\ f \in DOMAIN o =>
              o[f] \in Text /\ o[f].form \in {"plain", "upper", "padded"}
         /\ f \in DOMAIN o =>
              (f \in SubjectColumns <=>
                 f \notin {"customer.email", "customer.authSubject", "authSubject"})
<1>1. f \in DOMAIN o =>
        /\ f \in StoredFields \cup {"authSubject"}
        /\ o[f] \in Text /\ o[f].form \in {"plain", "upper", "padded"}
  BY ScopeAssumption DEF Text
<1>2. SubjectColumns = StoredFields \ {"customer.email", "customer.authSubject"}
  BY DEF SubjectColumns, StoredFields
<1>3. "customer.email" \in StoredFields /\ "authSubject" \notin StoredFields
  BY DEF StoredFields
<1>4. f \in SubjectColumns \cup {"customer.email"} =>
        (f \in DOMAIN ToStored(o) <=> f \in DOMAIN o)
        /\ (f \in DOMAIN o => ToStored(o)[f] = o[f])
  BY <1>2, <1>3 DEF ToStored
<1> HIDE DEF SubjectColumns
<1> QED
  BY <1>1, <1>2, <1>3, <1>4 DEF Equals

\* An account lists only invoices whose order names it, in one of the texts the
\* query has a column for, and lists each that does so with no spaces around it.
THEOREM OwnInvoicesOnly == Spec => []AccountIsOwn
<1>1. IInv => AccountIsOwn
  <2> SUFFICES ASSUME IInv, pc = "answered"
               PROVE  AccountIsOwn
    BY DEF AccountIsOwn
  <2> DEFINE who == IF answer.sub.word \in {None, Blank} THEN answer.id.word
                    ELSE answer.sub.word
             Mail(forms) ==
                 /\ answer.email.word \in Addresses
                 /\ "customer.email" \in DOMAIN order
                 /\ order["customer.email"].word = answer.email.word
                 /\ order["customer.email"].form \in forms
             Subject(forms) == who \notin {None, Blank} /\ OrderNames(who, forms)
             all == {"plain", "upper", "padded"}
             exact == {"plain", "upper"}
  <2>1. /\ order \in Orders
        /\ scope = Identity(answer)
        /\ listed <=> Matches(order, scope)
        /\ {answer.sub, answer.id, answer.email} \subseteq Text
    BY DEF IInv, Carried, Compared, TypeOK
  <2>2. scope.subject = IF who \in {None, Blank} THEN None ELSE who
    BY <2>1, ScopeAssumption DEF Identity, NormalizeSubject
  <2>3. scope.email = IF answer.email.word \in Addresses THEN answer.email.word ELSE None
    BY <2>1 DEF Identity, NormalizeEmail
  <2>4. who # None /\ who # Blank <=> scope.subject # None
    BY <2>2
  <2>5. None \notin Addresses
    BY ScopeAssumption
  <2> HIDE DEF who
  <2>6. (\E f \in SubjectColumns : Equals(ToStored(order), f, scope.subject))
          <=> Subject(exact)
    BY <2>1, <2>2, <2>4, StoredFacts DEF OrderNames
  <2>7. Equals(ToStored(order), "customer.email", scope.email) <=> Mail(exact)
    BY <2>1, <2>3, <2>5, StoredFacts
  <2>8. Subject(exact) => Subject(all)
    BY DEF OrderNames
  <2>9. Mail(exact) => Mail(all)
    OBVIOUS
  <2> HIDE DEF Mail, Subject
  <2>10. /\ listed => Subject(all) \/ Mail(all)
         /\ Subject(exact) \/ Mail(exact) => listed
    BY <2>1, <2>6, <2>7, <2>8, <2>9 DEF Matches
  <2> QED
    BY <2>10, Zenon DEF AccountIsOwn, Subject, Mail, who
<1> QED
  BY <1>1, Always, PTL

=============================================================================
