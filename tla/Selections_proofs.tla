--------------------------- MODULE Selections_proofs ---------------------------
(***************************************************************************)
(* What a selection from a sequence keeps.  Induction over sequences is    *)
(* stated of a set of them, which a proof can name, not of an operator.    *)
(***************************************************************************)
EXTENDS Selections, SequencesExt, SequenceTheorems, WellFoundedInduction, TLAPS

\* A set of numbers has a least one.
LEMMA LeastNumber ==
    ASSUME NEW T \in SUBSET Nat, T # {}
    PROVE  \E n \in T : \A k \in T : n <= k
<1>1. PICK n \in T : \A k \in T : ~(<<k, n>> \in OpToRel(<, Nat))
    BY NatLessThanWellFounded, WFMin
<1>2. \A k \in T : ~(k < n)
    BY <1>1 DEF OpToRel
<1>. QED
    BY <1>2

\* A set with 0 and, with each number, the next one has all of them.
LEMMA NumberInduction ==
    ASSUME NEW T, 0 \in T, \A n \in Nat : n \in T => n + 1 \in T
    PROVE  Nat \subseteq T
<1>1. SUFFICES ASSUME Nat \ T # {} PROVE FALSE
    OBVIOUS
<1>2. PICK n \in Nat \ T : \A k \in Nat \ T : n <= k
    BY <1>1, LeastNumber
<1>3. n # 0 /\ n - 1 \in Nat /\ n - 1 \in T
    BY <1>2
<1>. QED
    BY <1>3, <1>2

\* A set with the empty sequence and, with each sequence, those one longer has them all.
LEMMA SeqInduction ==
    ASSUME NEW X, NEW T, <<>> \in T,
           \A s \in Seq(X), x \in X : s \in T => Append(s, x) \in T
    PROVE  Seq(X) \subseteq T
<1>. DEFINE N == { n \in Nat : \A s \in Seq(X) : Len(s) = n => s \in T }
<1>1. 0 \in N
    <2>1. \A s \in Seq(X) : Len(s) = 0 => s = <<>>
        BY EmptySeq
    <2>. QED
        BY <2>1
<1>2. ASSUME NEW n \in N PROVE n + 1 \in N
    <2>1. SUFFICES ASSUME NEW s \in Seq(X), Len(s) = n + 1 PROVE s \in T
        OBVIOUS
    <2>. DEFINE f == SubSeq(s, 1, n)
    <2>2. f \in Seq(X) /\ Len(f) = n /\ s[n + 1] \in X /\ s = Append(f, s[n + 1])
        BY <2>1
    <2>. QED
        BY <2>2
<1>3. Nat \subseteq N
    <2>. HIDE DEF N
    <2>. QED
      BY <1>1, <1>2, NumberInduction
<1>. QED
    BY <1>3

\* f[n] is what is picked of the first n elements.
\* f is how Picks is computed, element by element.
PickedAs(f, s, S) ==
    /\ f[0] = <<>>
    /\ \A n \in 1..Len(s) : f[n] = IF s[n] \in S THEN Append(f[n - 1], s[n]) ELSE f[n - 1]

\* Only, one element at a time.
LEMMA OnlyStep ==
    /\ \A S : Only(<<>>, S) = <<>>
    /\ \A X, S : \A s \in Seq(X), x \in X :
          Only(Append(s, x), S) = IF x \in S THEN Append(Only(s, S), x) ELSE Only(s, S)
<1>PicksUnique. ASSUME NEW X, NEW s \in Seq(X), NEW t \in Seq(X), NEW S, NEW f, NEW g,
                       PickedAs(f, s, S), PickedAs(g, t, S), Len(s) <= Len(t),
                       \A n \in 1..Len(s) : s[n] = t[n]
                PROVE  \A n \in 0..Len(s) : f[n] = g[n]
    <2>. USE <1>PicksUnique
    <2>. DEFINE N == { n \in Nat : n <= Len(s) => f[n] = g[n] }
    <2>1. 0 \in N
        BY DEF PickedAs
    <2>2. ASSUME NEW n \in Nat, n \in N PROVE n + 1 \in N
        <3>1. SUFFICES ASSUME n + 1 <= Len(s) PROVE f[n + 1] = g[n + 1]
            OBVIOUS
        <3>2. f[n] = g[n] /\ n + 1 \in 1..Len(s) /\ n + 1 \in 1..Len(t) /\ n + 1 - 1 = n
            BY <3>1, <2>2
        <3>3. s[n + 1] = t[n + 1]
            BY <3>1
        <3>4. f[n + 1] = IF s[n + 1] \in S THEN Append(f[n], s[n + 1]) ELSE f[n]
            BY <3>2 DEF PickedAs
        <3>5. g[n + 1] = IF t[n + 1] \in S THEN Append(g[n], t[n + 1]) ELSE g[n]
            BY <3>2 DEF PickedAs
        <3>. QED
            BY <3>2, <3>3, <3>4, <3>5
    <2>3. Nat \subseteq N
        <3>. HIDE DEF N
        <3>. QED
          BY <2>1, <2>2, NumberInduction
    <2>. QED
        BY <2>3
<1>PicksDef. ASSUME NEW X, NEW s \in Seq(X), NEW S
             PROVE  PickedAs(Picks(s, S), s, S)
    <2>. USE <1>PicksDef
    <2>. DEFINE Step(f, u) == [n \in 0..Len(u) |-> IF n = 0 THEN <<>>
                                 ELSE IF u[n] \in S THEN Append(f[n - 1], u[n]) ELSE f[n - 1]]
                Ok(u) == \E f : f = Step(f, u)
                T == { u \in Seq(X) : Ok(u) }
    <2>1. <<>> \in T
        <3>. DEFINE e == [n \in {0} |-> <<>>]
        <3>1. 0..Len(<<>>) = {0} /\ <<>> \in Seq(X)
            OBVIOUS
        <3>2. e = Step(e, <<>>)
            BY <3>1
        <3>. QED
            BY <3>1, <3>2
    <2>2. ASSUME NEW u \in Seq(X), NEW x \in X, u \in T PROVE Append(u, x) \in T
        <3>1. PICK f : f = Step(f, u)
            BY <2>2
        <3>. DEFINE L == Len(u) + 1
                    v == Append(u, x)
                    g == [n \in 0..L |-> IF n < L THEN f[n] ELSE IF x \in S THEN Append(f[n - 1],
                    x) ELSE f[n - 1]]
                    h == Step(g, v)
        <3>2. v \in Seq(X) /\ Len(v) = L /\ v[L] = x /\ \A n \in 1..Len(u) : v[n] = u[n]
            OBVIOUS
        <3>3. f[0] = <<>> /\ DOMAIN f = 0..Len(u)
            BY <3>1
        <3>4. \A n \in 1..Len(u) : f[n] = IF u[n] \in S THEN Append(f[n - 1], u[n]) ELSE f[n - 1]
            <4>1. \A n \in 0..Len(u) : Step(f, u)[n] =
                     IF n = 0 THEN <<>> ELSE IF u[n] \in S THEN Append(f[n - 1], u[n]) ELSE f[n - 1]
                OBVIOUS
            <4>2. \A n \in 1..Len(u) : n \in 0..Len(u) /\ n # 0
                OBVIOUS
            <4>. HIDE DEF Step
            <4>. QED
                BY <4>1, <4>2, <3>1
        <3>5. ASSUME NEW n \in 0..L PROVE g[n] = h[n]
            <4>1. CASE n = 0
                BY <4>1, <3>3
            <4>2. CASE n \in 1..Len(u)
                <5>1. g[n] = f[n] /\ g[n - 1] = f[n - 1] /\ v[n] = u[n] /\ n # 0
                    BY <4>2, <3>2
                <5>. QED
                    BY <5>1, <3>4, <4>2
            <4>3. CASE n = L
                <5>1. v[n] = x /\ n # 0 /\ n - 1 \in 0..L /\ n - 1 < L
                    BY <4>3, <3>2
                <5>2. g[n - 1] = f[n - 1]
                    BY <5>1
                <5>. QED
                    BY <5>1, <5>2, <4>3
            <4>. QED
                BY <4>1, <4>2, <4>3
        <3>6. g = h
            <4>1. DOMAIN g = 0..L /\ DOMAIN h = 0..L /\ g = [n \in DOMAIN g |-> g[n]]
                     /\ h = [n \in DOMAIN h |-> h[n]]
                BY <3>2
            <4>. HIDE DEF g, h
            <4>. QED
                BY <3>5, <4>1
        <3>. QED
            BY <3>6, <3>2
    <2>3. Seq(X) \subseteq T
        <3>. HIDE DEF T
        <3>. QED
            BY <2>1, <2>2, SeqInduction
    <2>4. PICK f : f = Step(f, s)
        BY <2>3
    <2>. DEFINE p == Picks(s, S)
    <2>5. p = Step(p, s)
        BY <2>4, Zenon DEF Picks
    <2>6. \A n \in 0..Len(s) : Step(p, s)[n] = IF n = 0 THEN <<>>
                                 ELSE IF s[n] \in S THEN Append(p[n - 1], s[n]) ELSE p[n - 1]
        <3>. HIDE DEF p
        <3>. QED
            OBVIOUS
    <2>7. \A n \in 0..Len(s) : p[n] = IF n = 0 THEN <<>>
                                 ELSE IF s[n] \in S THEN Append(p[n - 1], s[n]) ELSE p[n - 1]
        <3>. HIDE DEF p, Step
        <3>. QED
            BY <2>5, <2>6
    <2>. QED
        BY <2>7 DEF PickedAs
<1>1. ASSUME NEW S PROVE Only(<<>>, S) = <<>>
    <2>1. <<>> \in Seq({}) /\ Len(<<>>) = 0
        OBVIOUS
    <2>2. PickedAs(Picks(<<>>, S), <<>>, S)
        BY <2>1, <1>PicksDef
    <2>. QED
        BY <2>2 DEF PickedAs, Only
<1>2. ASSUME NEW X, NEW S, NEW s \in Seq(X), NEW x \in X
      PROVE  Only(Append(s, x), S) = IF x \in S THEN Append(Only(s, S), x) ELSE Only(s, S)
    <2>. DEFINE v == Append(s, x)
                f == Picks(s, S)
                g == Picks(v, S)
    <2>1. v \in Seq(X) /\ Len(v) = Len(s) + 1 /\ v[Len(s) + 1] = x /\ \A n \in 1..Len(s) : s[n] = v[n]
        OBVIOUS
    <2>2. PickedAs(f, s, S) /\ PickedAs(g, v, S)
        BY <2>1, <1>PicksDef
    <2>3. f[Len(s)] = g[Len(s)]
        <3>. HIDE DEF v, f, g
        <3>. QED
          BY <2>1, <2>2, <1>PicksUnique
    <2>4. g[Len(s) + 1] = IF x \in S THEN Append(g[Len(s)], x) ELSE g[Len(s)]
        <3>. HIDE DEF v, f, g
        <3>1. Len(s) + 1 \in 1..Len(v) /\ Len(s) + 1 - 1 = Len(s)
            BY <2>1
        <3>2. g[Len(s) + 1] = IF v[Len(s) + 1] \in S THEN Append(g[Len(s)], v[Len(s) + 1]) ELSE g[Len(s)]
            BY <2>2, <3>1 DEF PickedAs
        <3>. QED
            BY <3>2, <2>1
    <2>. QED
        BY <2>1, <2>3, <2>4 DEF Only
<1>. QED
    BY <1>1, <1>2

\* The elements of a sequence one longer.
LEMMA AppendSet ==
    ASSUME NEW X, NEW s \in Seq(X), NEW x \in X
    PROVE  ToSet(Append(s, x)) = ToSet(s) \cup {x} /\ ToSet(<<>>) = {}
<1>1. \A i \in 1..Len(s) : Append(s, x)[i] = s[i]
    OBVIOUS
<1>2. Append(s, x)[Len(s) + 1] = x /\ DOMAIN Append(s, x) = 1..(Len(s) + 1) /\ DOMAIN s = 1..Len(s)
    OBVIOUS
<1>3. 1..(Len(s) + 1) = 1..Len(s) \cup {Len(s) + 1}
    OBVIOUS
<1>. QED
    BY <1>1, <1>2, <1>3 DEF ToSet

\* What is selected: the elements in S, once each if they were, and all if all are.
LEMMA OnlyFacts ==
    ASSUME NEW X, NEW s \in Seq(X), NEW S
    PROVE  /\ Only(s, S) \in Seq(X) /\ ToSet(Only(s, S)) = ToSet(s) \cap S
           /\ ToSet(s) \subseteq S => Only(s, S) = s
           /\ ToSet(s) \cap S = {} => Only(s, S) = <<>>
           /\ \A U : Only(Only(s, S), U) = Only(s, S \cap U)
           /\ IsInjective(s) => IsInjective(Only(s, S))
<1>. DEFINE Fact(u) ==
           /\ Only(u, S) \in Seq(X) /\ ToSet(Only(u, S)) = ToSet(u) \cap S
           /\ ToSet(u) \subseteq S => Only(u, S) = u
           /\ ToSet(u) \cap S = {} => Only(u, S) = <<>>
           /\ \A U : Only(Only(u, S), U) = Only(u, S \cap U)
           /\ IsInjective(u) => IsInjective(Only(u, S))
            T == { u \in Seq(X) : Fact(u) }
<1>1. <<>> \in T
    <2>1. <<>> \in Seq(X) /\ ToSet(<<>>) = {} /\ \A U : Only(<<>>, U) = <<>>
        BY OnlyStep DEF ToSet
    <2>. QED
        BY <2>1
<1>2. ASSUME NEW u \in Seq(X), NEW x \in X, u \in T PROVE Append(u, x) \in T
    <2>. DEFINE o == Only(u, S)
                v == Append(u, x)
    <2>1. v \in Seq(X) /\ Only(v, S) = IF x \in S THEN Append(o, x) ELSE o
        BY OnlyStep
    <2>2. Fact(u)
        BY <1>2
    <2>3. ToSet(v) = ToSet(u) \cup {x} /\ ToSet(Append(o, x)) = ToSet(o) \cup {x}
        BY <2>2, AppendSet
    <2>4. Only(v, S) \in Seq(X) /\ ToSet(Only(v, S)) = ToSet(v) \cap S
        BY <2>1, <2>2, <2>3
    <2>5. ToSet(v) \subseteq S => Only(v, S) = v
        BY <2>1, <2>2, <2>3
    <2>6. ToSet(v) \cap S = {} => Only(v, S) = <<>>
        BY <2>1, <2>2, <2>3
    <2>7. ASSUME NEW U PROVE Only(Only(v, S), U) = Only(v, S \cap U)
        <3>1. Only(v, S \cap U) = IF x \in S \cap U THEN Append(Only(u, S \cap U), x) ELSE Only(u,
              S \cap U)
            BY OnlyStep
        <3>2. Only(Append(o, x), U) = IF x \in U THEN Append(Only(o, U), x) ELSE Only(o, U)
            BY OnlyStep, <2>2
        <3>3. Only(o, U) = Only(u, S \cap U)
            BY <2>2
        <3>4. CASE x \in S
            <4>1. x \in S \cap U <=> x \in U
                BY <3>4
            <4>2. Only(Only(v, S), U) = Only(Append(o, x), U)
                BY <2>1, <3>4
            <4>. QED
                BY <4>1, <4>2, <3>1, <3>2, <3>3, Zenon
        <3>5. CASE x \notin S
            <4>1. x \notin S \cap U /\ Only(v, S) = o
                BY <3>5, <2>1
            <4>. QED
                BY <4>1, <3>1, <3>3, Zenon
        <3>. QED
            BY <3>4, <3>5
    <2>8. ASSUME IsInjective(v) PROVE IsInjective(Only(v, S))
        <3>1. DOMAIN u = 1..Len(u) /\ DOMAIN v = 1..(Len(u) + 1) /\ v[Len(u) + 1] = x
            OBVIOUS
        <3>2. \A i \in 1..Len(u) : v[i] = u[i] /\ v[i] # x
            BY <2>8, <3>1 DEF IsInjective
        <3>3. IsInjective(u) /\ x \notin ToSet(u)
            BY <2>8, <3>1, <3>2 DEF IsInjective, ToSet
        <3>4. IsInjective(o) /\ x \notin ToSet(o)
            BY <3>3, <2>2
        <3>5. CASE x \in S
            <4>1. o \in Seq(X) /\ DOMAIN o = 1..Len(o) /\ DOMAIN Append(o, x) = 1..(Len(o) + 1)
                BY <2>2
            <4>2. Append(o, x)[Len(o) + 1] = x /\ \A i \in 1..Len(o) : Append(o, x)[i] = o[i] /\ o[i] # x
                BY <4>1, <3>4 DEF ToSet
            <4>3. IsInjective(Append(o, x))
                <5>. HIDE DEF o
                <5>. QED
                    BY <4>1, <4>2, <3>4 DEF IsInjective
            <4>. QED
                BY <4>3, <2>1, <3>5
        <3>. QED
            BY <3>4, <3>5, <2>1
    <2>. QED
        BY <2>1, <2>4, <2>5, <2>6, <2>7, <2>8
<1>3. Seq(X) \subseteq T
    <2>. HIDE DEF T
    <2>. QED
        BY <1>1, <1>2, SeqInduction
<1>. QED
    BY <1>3

\* A selection of two sequences is the one and then the other.
LEMMA OnlyConcat ==
    ASSUME NEW X, NEW s \in Seq(X), NEW t \in Seq(X), NEW S
    PROVE  Only(s \o t, S) = Only(s, S) \o Only(t, S)
<1>. DEFINE T == { u \in Seq(X) : Only(s \o u, S) = Only(s, S) \o Only(u, S) }
<1>0. ASSUME NEW a \in Seq(X), NEW b \in Seq(X), NEW x \in X
      PROVE  Append(a \o b, x) = a \o Append(b, x)
    <2>. HIDE DEF T
    <2>1. <<x>> \in Seq(X) /\ a \o b \in Seq(X)
        OBVIOUS
    <2>2. Append(a \o b, x) = (a \o b) \o <<x>> /\ Append(b, x) = b \o <<x>>
        BY <2>1, AppendIsConcat
    <2>3. (a \o b) \o <<x>> = a \o (b \o <<x>>)
        <3>1. \A s1, s2, s3 \in Seq(X) : (s1 \o s2) \o s3 = s1 \o (s2 \o s3)
            OBVIOUS
        <3>. QED
            BY <2>1, <3>1, Zenon
    <2>. QED
        BY <2>2, <2>3, Zenon
<1>1. <<>> \in T
    <2>1. Only(s, S) \in Seq(X) /\ Only(<<>>, S) = <<>>
        BY OnlyFacts, OnlyStep
    <2>. QED
        BY <2>1
<1>2. ASSUME NEW u \in Seq(X), NEW x \in X, u \in T PROVE Append(u, x) \in T
    <2>1. s \o Append(u, x) = Append(s \o u, x) /\ s \o u \in Seq(X) /\ Append(u, x) \in Seq(X)
        <3>1. s \o Append(u, x) = Append(s \o u, x)
            BY <1>0
        <3>. QED
            BY <3>1
    <2>2. Only(Append(u, x), S) = IF x \in S THEN Append(Only(u, S), x) ELSE Only(u, S)
        BY OnlyStep
    <2>3. Only(Append(s \o u, x), S) = IF x \in S THEN Append(Only(s \o u, S), x) ELSE Only(s \o u, S)
        <3>. DEFINE w == s \o u
        <3>1. w \in Seq(X)
            BY <2>1
        <3>. HIDE DEF w
        <3>2. Only(Append(w, x), S) = IF x \in S THEN Append(Only(w, S), x) ELSE Only(w, S)
            BY <3>1, OnlyStep
        <3>. QED
            BY <3>2 DEF w
    <2>4. Only(s, S) \in Seq(X) /\ Only(u, S) \in Seq(X)
        BY OnlyFacts
    <2>5. Append(Only(s, S) \o Only(u, S), x) = Only(s, S) \o Append(Only(u, S), x)
        BY <2>4, <1>0
    <2>. QED
        BY <1>2, <2>1, <2>2, <2>3, <2>5
<1>3. Seq(X) \subseteq T
    <2>. HIDE DEF T
    <2>. QED
        BY <1>1, <1>2, SeqInduction
<1>. QED
    BY <1>3
=============================================================================
