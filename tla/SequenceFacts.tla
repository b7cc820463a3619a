---------------------------- MODULE SequenceFacts ----------------------------
(***************************************************************************)
(* Facts about sequences that the proofs share: the least and the greatest *)
(* of a set of indices, induction over the indices of a sequence (as a     *)
(* fact about a set instead of a predicate), and what a concatenation of   *)
(* sequences holds.                                                        *)
(***************************************************************************)
EXTENDS Naturals, SequencesExt, WellFoundedInduction, FiniteSetTheorems, TLAPS

\* Every nonempty set of numbers has a least one.
LEMMA LeastNumber ==
    ASSUME NEW T \in SUBSET Nat, T # {}
    PROVE  \E m \in T : \A n \in T : m <= n
<1> DEFINE R == OpToRel(<, Nat)
<1>1. IsWellFoundedOn(R, Nat)
    BY NatLessThanWellFounded
<1>2. \A n, m \in Nat : n < m => <<n, m>> \in R
    BY DEF OpToRel
<1> HIDE DEF R
<1>3. PICK m \in T : \A n \in T : ~(<<n, m>> \in R)
    BY ONLY <1>1, WFMin, T \in SUBSET Nat, T # {}
<1>4. ASSUME NEW n \in T
      PROVE  m <= n
    <2>1. n \in Nat /\ m \in Nat
        OBVIOUS
    <2>2. ~(n < m)
        BY <1>2, <1>3, <2>1, Zenon
    <2> QED
        BY <2>1, <2>2
<1> QED
    BY <1>4

\* The first index of a set of indices is one of them, and so is the last.
LEMMA MinIsIn ==
    ASSUME NEW I \in SUBSET Nat, I # {}
    PROVE  Min(I) \in I /\ \A i \in I : Min(I) <= i
    BY LeastNumber DEF Min

LEMMA MaxIsIn ==
    ASSUME NEW n \in Nat, NEW I \in SUBSET (0..n), I # {}
    PROVE  Max(I) \in I /\ \A i \in I : i <= Max(I)
<1> DEFINE D == {n - i : i \in I}
<1>1. D \in SUBSET Nat /\ D # {}
    OBVIOUS
<1>2. PICK m \in D : \A d \in D : m <= d
    <2> HIDE DEF D
    <2> QED
        BY <1>1, LeastNumber
<1>3. PICK x \in I : m = n - x
    BY <1>2
<1>4. ASSUME NEW i \in I
      PROVE  x >= i
    <2>1. n - i \in D /\ i \in Nat /\ x \in Nat
        OBVIOUS
    <2>2. m <= n - i
        BY <1>2, <2>1
    <2> QED
        BY <1>3, <2>1, <2>2
<1> HIDE DEF D
<1>5. Max(I) \in I /\ \A i \in I : Max(I) >= i
    BY <1>4 DEF Max
<1> QED
    BY <1>5

\* Induction up to n.
LEMMA Climb ==
    ASSUME NEW n \in Nat, NEW G, 1 \in 1..n => 1 \in G,
           \A m \in 2..n : m - 1 \in G => m \in G
    PROVE  1..n \subseteq G
<1> DEFINE T == {i \in 1..n : i \notin G}
<1>1. SUFFICES ASSUME T # {} PROVE FALSE
    OBVIOUS
<1>2. PICK m \in T : \A i \in T : m <= i
    <2>1. T \in SUBSET Nat
        OBVIOUS
    <2> HIDE DEF T
    <2> QED
        BY <1>1, <2>1, LeastNumber
<1>3. m \in 1..n /\ m \notin G
    OBVIOUS
<1>4. m \in 2..n
    BY <1>3
<1>5. m - 1 \in 1..n /\ ~(m <= m - 1)
    BY <1>4
<1>6. m - 1 \in G
    BY <1>2, <1>5
<1> QED
    BY <1>3, <1>4, <1>6

----------------------------------------------------------------------------
LEMMA SeqEqual ==
    ASSUME NEW S, NEW x \in Seq(S), NEW y \in Seq(S), Len(x) = Len(y),
           \A i \in 1..Len(x) : x[i] = y[i]
    PROVE  x = y
<1>1. x = [i \in 1..Len(x) |-> x[i]] /\ y = [i \in 1..Len(y) |-> y[i]]
    OBVIOUS
<1> QED
    BY <1>1

LEMMA FrontIs ==
    ASSUME NEW S, NEW s \in Seq(S), s # << >>
    PROVE  Len(Front(s)) = Len(s) - 1 /\ \A j \in 1..(Len(s) - 1) : Front(s)[j] = s[j]
<1>1. Len(s) \in Nat /\ Len(s) > 0
    OBVIOUS
<1> DEFINE n == Len(s) - 1
<1>2. n \in Nat /\ n \in 0..Len(s) /\ Front(s) = SubSeq(s, 1, n)
    BY <1>1 DEF Front
<1> HIDE DEF n
<1>3. Len(SubSeq(s, 1, n)) = n
    BY <1>1, <1>2
<1>4. \A j \in 1..n : SubSeq(s, 1, n)[j] = s[j]
    BY <1>1, <1>2
<1> QED
    BY <1>2, <1>3, <1>4 DEF n

\* The concatenations FlattenSeq makes: f[i] is that of the first i sequences.
Flat(s, f, n) ==
    f = [i \in 1..n |-> IF i = 1 THEN s[i] ELSE f[i - 1] \o s[i]]

LEMMA FlatExists ==
    ASSUME NEW S, NEW s \in Seq(Seq(S)), NEW n \in 1..Len(s)
    PROVE  \E f : Flat(s, f, n)
<1> DEFINE G == {k \in 1..Len(s) : \E f : Flat(s, f, k)}
<1>1. 1 \in 1..Len(s) => 1 \in G
    <2>1. Flat(s, [i \in 1..1 |-> s[i]], 1)
        BY DEF Flat
    <2> QED
        BY <2>1
<1>2. ASSUME NEW m \in 2..Len(s), m - 1 \in G
      PROVE  m \in G
    <2>1. PICK g : Flat(s, g, m - 1)
        BY <1>2
    <2>2. m \in Nat /\ m # 1 /\ m - 1 \in Nat /\ m \in 1..Len(s)
        OBVIOUS
    <2> DEFINE f == [i \in 1..m |-> IF i = m THEN g[m - 1] \o s[m] ELSE g[i]]
    <2>3. \A i \in 1..m : i # m => i \in 1..(m - 1) /\ i - 1 # m
        BY <2>2
    <2>4. \A i \in 1..(m - 1) : g[i] = IF i = 1 THEN s[i] ELSE g[i - 1] \o s[i]
        BY <2>1 DEF Flat
    <2>5. \A i \in 1..m : i # m => f[i] = g[i]
        OBVIOUS
    <2>6. \A i \in 1..m : i # 1 => i - 1 \in 1..m /\ i - 1 # m
        BY <2>2
    <2>7. \A i \in 1..m : f[i] = IF i = 1 THEN s[i] ELSE f[i - 1] \o s[i]
        <3>1. ASSUME NEW i \in 1..m, i = m
              PROVE  f[i] = f[i - 1] \o s[i]
            BY <2>2, <2>5, <2>6, <3>1
        <3>2. ASSUME NEW i \in 1..m, i # m
              PROVE  f[i] = IF i = 1 THEN s[i] ELSE f[i - 1] \o s[i]
            BY <2>3, <2>4, <2>5, <2>6, <3>2
        <3> QED
            BY <2>2, <3>1, <3>2
    <2>8. f = [i \in 1..m |-> f[i]]
        OBVIOUS
    <2>9. Flat(s, f, m)
        <3> HIDE DEF f
        <3> QED
            BY <2>7, <2>8 DEF Flat
    <2> QED
        BY <2>2, <2>9
<1>3. 1..Len(s) \subseteq G
    <2>1. Len(s) \in Nat
        OBVIOUS
    <2> HIDE DEF G
    <2> QED
        BY <1>1, <1>2, <2>1, Climb
<1> QED
    BY <1>3

LEMMA FlattenIsFlat ==
    ASSUME NEW S, NEW s \in Seq(Seq(S)), s # << >>
    PROVE  \E f : Flat(s, f, Len(s)) /\ FlattenSeq(s) = f[Len(s)]
<1>1. Len(s) \in Nat /\ Len(s) # 0 /\ Len(s) \in 1..Len(s)
    OBVIOUS
<1>2. \E f : f = [i \in 1..Len(s) |-> IF i = 1 THEN s[i] ELSE f[i - 1] \o s[i]]
    BY <1>1, FlatExists DEF Flat
<1> QED
    BY <1>1, <1>2 DEF FlattenSeq, Flat

LEMMA ConcatElements ==
    ASSUME NEW S, NEW a \in Seq(S), NEW b \in Seq(S)
    PROVE  a \o b \in Seq(S) /\ ToSet(a \o b) = ToSet(a) \cup ToSet(b)
<1>1. \A x \in ToSet(a \o b) : x \in ToSet(a) \cup ToSet(b)
    BY DEF ToSet
<1>2. \A i \in DOMAIN a : i \in DOMAIN (a \o b) /\ (a \o b)[i] = a[i]
    OBVIOUS
<1>3. \A i \in DOMAIN b : Len(a) + i \in DOMAIN (a \o b) /\ (a \o b)[Len(a) + i] = b[i]
    OBVIOUS
<1>4. ToSet(a) \subseteq ToSet(a \o b) /\ ToSet(b) \subseteq ToSet(a \o b)
    BY <1>2, <1>3 DEF ToSet
<1>5. a \o b \in Seq(S)
    OBVIOUS
<1> QED
    BY <1>1, <1>4, <1>5

LEMMA AddOne ==
    ASSUME NEW S, NEW a \in Seq(S), NEW d \in S
    PROVE  /\ a \o <<d>> \in Seq(S) /\ Len(a \o <<d>>) = Len(a) + 1
           /\ (a \o <<d>>)[Len(a) + 1] = d
           /\ \A x \in 1..Len(a) : (a \o <<d>>)[x] = a[x] /\ x \in DOMAIN a
    OBVIOUS

LEMMA FlattenElements ==
    ASSUME NEW S, NEW s \in Seq(Seq(S)), s # << >>
    PROVE  /\ FlattenSeq(s) \in Seq(S)
           /\ \A k \in DOMAIN s : ToSet(s[k]) \subseteq ToSet(FlattenSeq(s))
<1>1. PICK f : Flat(s, f, Len(s)) /\ FlattenSeq(s) = f[Len(s)]
    BY FlattenIsFlat
<1>2. \A i \in 1..Len(s) : f[i] = IF i = 1 THEN s[i] ELSE f[i - 1] \o s[i]
    BY <1>1 DEF Flat
<1> DEFINE Good(i) == f[i] \in Seq(S) /\ \A k \in 1..i : ToSet(s[k]) \subseteq ToSet(f[i])
<1> DEFINE G == {i \in 1..Len(s) : Good(i)}
<1>3. 1..Len(s) \subseteq G
    <2>1. 1 \in 1..Len(s) => 1 \in G
        BY <1>2
    <2>2. ASSUME NEW m \in 2..Len(s), m - 1 \in G
          PROVE  m \in G
        <3>1. m \in 1..Len(s) /\ m # 1 /\ Good(m - 1)
            BY <2>2
        <3>2. f[m] = f[m - 1] \o s[m] /\ s[m] \in Seq(S)
            <4>1. m \in 1..Len(s) /\ m # 1
                BY <3>1
            <4>2. s[m] \in Seq(S)
                BY <4>1
            <4> HIDE DEF Good, G
            <4> QED
                BY ONLY <1>2, <4>1, <4>2
        <3>3. f[m] \in Seq(S) /\ ToSet(f[m]) = ToSet(f[m - 1]) \cup ToSet(s[m])
            BY <3>1, <3>2, ConcatElements
        <3>4. \A k \in 1..m : k \in 1..(m - 1) \/ k = m
            OBVIOUS
        <3>5. Good(m)
            BY <3>1, <3>3, <3>4
        <3> QED
            BY <3>1, <3>5
    <2>3. Len(s) \in Nat
        OBVIOUS
    <2> HIDE DEF G
    <2> QED
        BY <2>1, <2>2, <2>3, Climb
<1>4. Len(s) \in 1..Len(s) /\ DOMAIN s = 1..Len(s)
    OBVIOUS
<1>5. Good(Len(s))
    BY <1>3, <1>4
<1> QED
    BY <1>1, <1>4, <1>5

\* A concatenation begins with the first of its sequences, and ends with the last
\* that is not empty.
LEMMA FlattenBegins ==
    ASSUME NEW S, NEW s \in Seq(Seq(S)), s # << >>, NEW f, Flat(s, f, Len(s))
    PROVE  \A i \in 1..Len(s) :
            /\ f[i] \in Seq(S) /\ Len(s[1]) <= Len(f[i])
            /\ \A x \in 1..Len(s[1]) : f[i][x] = s[1][x]
<1> DEFINE Begins(t) ==
        t \in Seq(S) /\ Len(s[1]) <= Len(t) /\ \A x \in 1..Len(s[1]) : t[x] = s[1][x]
<1> DEFINE G == {i \in 1..Len(s) : Begins(f[i])}
<1>1. /\ Len(s) \in Nat /\ 1 \in 1..Len(s) /\ s[1] \in Seq(S) /\ Len(s[1]) \in Nat
      /\ \A i \in 1..Len(s) : s[i] \in Seq(S)
    OBVIOUS
<1>2. \A i \in 1..Len(s) : f[i] = IF i = 1 THEN s[i] ELSE f[i - 1] \o s[i]
    BY DEF Flat
<1>3. 1 \in G
    BY <1>1, <1>2
<1>4. ASSUME NEW m \in 2..Len(s), m - 1 \in G
      PROVE  m \in G
    <2>1. m \in 1..Len(s) /\ m # 1
        BY <1>1
    <2>2. f[m] = f[m - 1] \o s[m] /\ s[m] \in Seq(S)
        BY <1>1, <1>2, <2>1
    <2>3. Begins(f[m - 1])
        BY <1>4
    <2>4. ASSUME NEW a \in Seq(S), NEW b \in Seq(S), Begins(a)
          PROVE  Begins(a \o b)
        <3>1. Len(a \o b) = Len(a) + Len(b) /\ a \o b \in Seq(S)
            OBVIOUS
        <3>2. Len(s[1]) <= Len(a) + Len(b)
            BY <1>1, <2>4
        <3>3. \A x \in 1..Len(s[1]) : (a \o b)[x] = a[x]
            BY <1>1, <2>4
        <3> QED
            BY <2>4, <3>1, <3>2, <3>3
    <2> HIDE DEF Begins
    <2>5. Begins(f[m])
        <3>1. f[m - 1] \in Seq(S)
            BY <2>3 DEF Begins
        <3> QED
            BY <2>2, <2>3, <2>4, <3>1
    <2> QED
        BY <2>1, <2>5
<1>5. 1..Len(s) \subseteq G
    <2> HIDE DEF G
    <2> QED
        BY <1>1, <1>3, <1>4, Climb
<1> QED
    BY <1>5

LEMMA FlattenEnds ==
    ASSUME NEW S, NEW s \in Seq(Seq(S)), NEW k \in 2..Len(s), NEW d \in S,
           s[k] = <<d>>, \A j \in DOMAIN s : j > k => s[j] = << >>
    PROVE  LET text == FlattenSeq(s) IN
           /\ text \in Seq(S) /\ Len(text) > Len(s[1]) /\ Last(text) = d
           /\ \A x \in 1..Len(s[1]) : text[x] = s[1][x]
<1>1. Len(s) \in Nat /\ DOMAIN s = 1..Len(s) /\ s # << >> /\ k \in Nat /\ k # 1
    OBVIOUS
<1>2. PICK f : Flat(s, f, Len(s)) /\ FlattenSeq(s) = f[Len(s)]
    BY <1>1, FlattenIsFlat
<1>3. \A i \in 1..Len(s) : f[i] = IF i = 1 THEN s[i] ELSE f[i - 1] \o s[i]
    BY <1>2 DEF Flat
<1>4. \A i \in 1..Len(s) :
            /\ f[i] \in Seq(S) /\ Len(s[1]) <= Len(f[i])
            /\ \A x \in 1..Len(s[1]) : f[i][x] = s[1][x]
    <2>1. s \in Seq(Seq(S)) /\ s # << >> /\ Flat(s, f, Len(s))
        BY <1>1, <1>2
    <2> QED
        BY ONLY <2>1, FlattenBegins
<1> DEFINE Good(t) == Len(t) > Len(s[1]) /\ Last(t) = d
<1>5. Good(f[k])
    <2>1. k \in 1..Len(s) /\ k - 1 \in 1..Len(s)
        BY <1>1
    <2>2. f[k] = f[k - 1] \o <<d>>
        BY <1>1, <1>3, <2>1
    <2>3. f[k - 1] \in Seq(S) /\ Len(s[1]) <= Len(f[k - 1]) /\ Len(s[1]) \in Nat
        BY <1>1, <1>4, <2>1
    <2>4. Len(f[k]) = Len(f[k - 1]) + 1 /\ f[k][Len(f[k - 1]) + 1] = d
        BY <2>2, <2>3, AddOne
    <2>5. Len(f[k]) = Len(f[k - 1]) + 1 /\ Last(f[k]) = d
        BY <2>4 DEF Last
    <2>6. Len(f[k - 1]) \in Nat
        BY <2>3
    <2> QED
        BY <2>3, <2>5, <2>6
<1> DEFINE G == {i \in 1..Len(s) : i >= k => Good(f[i])}
<1>6. 1..Len(s) \subseteq G
    <2>1. 1 \in 1..Len(s) => 1 \in G
        BY <1>1
    <2>2. ASSUME NEW m \in 2..Len(s), m - 1 \in G
          PROVE  m \in G
        <3>1. m \in 1..Len(s) /\ m - 1 \in 1..Len(s) /\ m # 1
            BY <1>1
        <3>2. CASE m > k
            <4>1. s[m] = << >>
                BY <1>1, <3>1, <3>2
            <4>2. f[m] = f[m - 1] \o << >> /\ f[m - 1] \in Seq(S)
                BY <1>3, <1>4, <3>1, <4>1
            <4>3. f[m] = f[m - 1]
                BY <4>2
            <4>4. Good(f[m - 1])
                BY <1>1, <2>2, <3>1, <3>2
            <4> HIDE DEF Good
            <4> QED
                BY <3>1, <4>3, <4>4
        <3>3. CASE m = k
            <4> HIDE DEF Good
            <4> QED
                BY <1>5, <3>1, <3>3
        <3>4. CASE m < k
            BY <1>1, <3>1, <3>4
        <3> QED
            BY <1>1, <3>1, <3>2, <3>3, <3>4
    <2> HIDE DEF G
    <2> QED
        BY <1>1, <2>1, <2>2, Climb
<1>7. Len(s) \in 1..Len(s) /\ Len(s) >= k
    BY <1>1
<1>8. Good(f[Len(s)])
    BY <1>6, <1>7
<1> QED
    BY <1>2, <1>4, <1>7, <1>8

----------------------------------------------------------------------------
\* u is t without its p-th element.
Without(u, t, p) ==
    /\ p \in DOMAIN t /\ Len(t) = Len(u) + 1
    /\ \A q \in 1..(p - 1) : u[q] = t[q]
    /\ \A q \in p..Len(u) : u[q] = t[q + 1]

LEMMA WithoutIs ==
    ASSUME NEW S, NEW t \in Seq(S), NEW p \in DOMAIN t
    PROVE  RemoveAt(t, p) \in Seq(S) /\ Without(RemoveAt(t, p), t, p)
<1>1. Len(t) \in Nat /\ p \in 1..Len(t)
    OBVIOUS
<1> DEFINE a == SubSeq(t, 1, p - 1)
<1> DEFINE b == SubSeq(t, p + 1, Len(t))
<1>2. a \in Seq(S) /\ Len(a) = p - 1 /\ \A q \in 1..(p - 1) : a[q] = t[q]
    BY <1>1
<1>3. b \in Seq(S) /\ Len(b) = Len(t) - p /\ \A q \in 1..(Len(t) - p) : b[q] = t[p + q]
    BY <1>1
<1>4. RemoveAt(t, p) = a \o b
    BY DEF RemoveAt
<1> HIDE DEF a, b
<1>5. a \o b \in Seq(S) /\ Len(a \o b) = Len(t) - 1
    BY <1>1, <1>2, <1>3
<1>6. \A q \in 1..(p - 1) : (a \o b)[q] = t[q]
    BY <1>1, <1>2, <1>3
<1>7. ASSUME NEW q \in p..Len(a \o b)
      PROVE  (a \o b)[q] = t[q + 1]
    <2>1. q \in Nat /\ q \in p..(Len(t) - 1)
        BY <1>1, <1>5
    <2>2. (a \o b)[q] = b[q - (p - 1)]
        BY <1>1, <1>2, <1>3, <1>5, <2>1
    <2>3. q - (p - 1) \in 1..(Len(t) - p) /\ p + (q - (p - 1)) = q + 1
        BY <1>1, <2>1
    <2>4. b[q - (p - 1)] = t[p + (q - (p - 1))]
        BY <1>3, <2>3
    <2> QED
        BY <2>2, <2>3, <2>4
<1>8. Len(t) = Len(a \o b) + 1
    BY <1>1, <1>5
<1> QED
    BY <1>4, <1>5, <1>6, <1>7, <1>8 DEF Without

LEMMA WithoutBefore ==
    ASSUME NEW S, NEW t \in Seq(S), NEW u \in Seq(S), NEW b \in Seq(S), NEW p \in Nat,
           Without(u, t, p)
    PROVE  Without(u \o b, t \o b, p) /\ (t \o b)[p] = t[p]
<1>1. /\ p \in 1..Len(t) /\ Len(t) = Len(u) + 1
      /\ Len(t) \in Nat /\ Len(u) \in Nat /\ Len(b) \in Nat /\ p \in Nat
    BY DEF Without
<1>2. /\ \A q \in 1..(p - 1) : u[q] = t[q]
      /\ \A q \in p..Len(u) : u[q] = t[q + 1]
    BY DEF Without
<1>3. /\ Len(u \o b) = Len(u) + Len(b) /\ Len(t \o b) = Len(t) + Len(b)
      /\ DOMAIN (t \o b) = 1..(Len(t) + Len(b))
    OBVIOUS
<1>4. \A q \in 1..Len(u) : (u \o b)[q] = u[q]
    OBVIOUS
<1>5. \A q \in 1..Len(t) : (t \o b)[q] = t[q]
    OBVIOUS
<1>6. \A q \in 1..Len(b) : (u \o b)[Len(u) + q] = b[q] /\ (t \o b)[Len(t) + q] = b[q]
    OBVIOUS
<1>7. \A q \in 1..(p - 1) : (u \o b)[q] = (t \o b)[q]
    BY <1>1, <1>2, <1>4, <1>5
<1>8. ASSUME NEW q \in p..(Len(u) + Len(b))
      PROVE  (u \o b)[q] = (t \o b)[q + 1]
    <2>1. q \in Nat /\ q + 1 \in Nat
        BY <1>1
    <2>2. CASE q <= Len(u)
        <3>1. q \in p..Len(u) /\ q \in 1..Len(u) /\ q + 1 \in 1..Len(t)
            BY <1>1, <2>1, <2>2
        <3>2. u[q] = t[q + 1]
            BY <1>2, <3>1
        <3>3. (u \o b)[q] = u[q]
            BY ONLY <1>4, <3>1
        <3>4. (t \o b)[q + 1] = t[q + 1]
            BY ONLY <1>5, <3>1
        <3> QED
            BY <3>2, <3>3, <3>4
    <2>3. CASE q > Len(u)
        <3> DEFINE x == q - Len(u)
        <3>1. x \in 1..Len(b) /\ Len(u) + x = q /\ Len(t) + x = q + 1
            BY <1>1, <2>1, <2>3
        <3> HIDE DEF x
        <3>2. (u \o b)[Len(u) + x] = b[x] /\ (t \o b)[Len(t) + x] = b[x]
            BY ONLY <1>6, <3>1
        <3> QED
            BY <3>1, <3>2
    <2> QED
        BY <1>1, <2>1, <2>2, <2>3
<1>9. p \in DOMAIN (t \o b) /\ Len(t \o b) = Len(u \o b) + 1
    BY <1>1, <1>3
<1>10. \A q \in p..Len(u \o b) : (u \o b)[q] = (t \o b)[q + 1]
    BY <1>3, <1>8
<1> QED
    BY <1>1, <1>5, <1>7, <1>9, <1>10 DEF Without

LEMMA WithoutBehind ==
    ASSUME NEW S, NEW t \in Seq(S), NEW u \in Seq(S), NEW a \in Seq(S), NEW p \in Nat,
           Without(u, t, p)
    PROVE  Without(a \o u, a \o t, Len(a) + p) /\ (a \o t)[Len(a) + p] = t[p]
<1>1. /\ p \in 1..Len(t) /\ Len(t) = Len(u) + 1
      /\ Len(t) \in Nat /\ Len(u) \in Nat /\ Len(a) \in Nat /\ p \in Nat
    BY DEF Without
<1>2. /\ \A q \in 1..(p - 1) : u[q] = t[q]
      /\ \A q \in p..Len(u) : u[q] = t[q + 1]
    BY DEF Without
<1>3. /\ Len(a \o u) = Len(a) + Len(u) /\ Len(a \o t) = Len(a) + Len(t)
      /\ DOMAIN (a \o t) = 1..(Len(a) + Len(t))
    OBVIOUS
<1>4. \A q \in 1..Len(a) : (a \o u)[q] = a[q] /\ (a \o t)[q] = a[q]
    OBVIOUS
<1>5. \A q \in 1..Len(u) : (a \o u)[Len(a) + q] = u[q]
    OBVIOUS
<1>6. \A q \in 1..Len(t) : (a \o t)[Len(a) + q] = t[q]
    OBVIOUS
<1>7. ASSUME NEW q \in 1..((Len(a) + p) - 1)
      PROVE  (a \o u)[q] = (a \o t)[q]
    <2>1. q \in Nat
        BY <1>1
    <2>2. CASE q <= Len(a)
        BY <1>1, <1>4, <2>1, <2>2
    <2>3. CASE q > Len(a)
        <3> DEFINE x == q - Len(a)
        <3>1. x \in 1..(p - 1) /\ x \in 1..Len(u) /\ x \in 1..Len(t) /\ Len(a) + x = q
            BY <1>1, <2>1, <2>3
        <3> HIDE DEF x
        <3>2. (a \o u)[Len(a) + x] = u[x] /\ (a \o t)[Len(a) + x] = t[x] /\ u[x] = t[x]
            BY ONLY <1>2, <1>5, <1>6, <3>1
        <3> QED
            BY <3>1, <3>2
    <2> QED
        BY <1>1, <2>1, <2>2, <2>3
<1>8. ASSUME NEW q \in (Len(a) + p)..(Len(a) + Len(u))
      PROVE  (a \o u)[q] = (a \o t)[q + 1]
    <2> DEFINE x == q - Len(a)
    <2>1. /\ x \in p..Len(u) /\ x \in 1..Len(u) /\ x + 1 \in 1..Len(t)
          /\ Len(a) + x = q /\ Len(a) + (x + 1) = q + 1
        BY <1>1
    <2> HIDE DEF x
    <2>2. (a \o u)[Len(a) + x] = u[x] /\ u[x] = t[x + 1]
        BY ONLY <1>2, <1>5, <2>1
    <2>3. (a \o t)[Len(a) + (x + 1)] = t[x + 1]
        BY ONLY <1>6, <2>1
    <2> QED
        BY <2>1, <2>2, <2>3
<1>9. Len(a) + p \in DOMAIN (a \o t) /\ Len(a \o t) = Len(a \o u) + 1
    BY <1>1, <1>3
<1>10. \A q \in (Len(a) + p)..Len(a \o u) : (a \o u)[q] = (a \o t)[q + 1]
    BY <1>3, <1>8
<1>11. (a \o t)[Len(a) + p] = t[p]
    BY <1>1, <1>6
<1>12. Without(a \o u, a \o t, Len(a) + p)
    <2> DEFINE au == a \o u
    <2> DEFINE at == a \o t
    <2> DEFINE n == Len(a) + p
    <2>1. \A q \in 1..(n - 1) : au[q] = at[q]
        BY ONLY <1>7
    <2>2. n \in DOMAIN at /\ Len(at) = Len(au) + 1
        BY ONLY <1>9
    <2>3. \A q \in n..Len(au) : au[q] = at[q + 1]
        BY ONLY <1>10
    <2> HIDE DEF au, at, n
    <2>4. Without(au, at, n)
        BY <2>1, <2>2, <2>3 DEF Without
    <2> QED
        BY <2>4 DEF au, at, n
<1> QED
    BY ONLY <1>11, <1>12

\* A sequence without an element holds the others and no more.
LEMMA WithoutElements ==
    ASSUME NEW S, NEW t \in Seq(S), NEW u \in Seq(S), NEW p, Without(u, t, p)
    PROVE  /\ \A x \in DOMAIN u : \E y \in DOMAIN t : t[y] = u[x]
           /\ \A y \in DOMAIN t : t[y] = t[p] \/ \E x \in DOMAIN u : u[x] = t[y]
<1>1. /\ p \in 1..Len(t) /\ Len(t) = Len(u) + 1
      /\ Len(t) \in Nat /\ Len(u) \in Nat /\ p \in Nat
      /\ DOMAIN t = 1..Len(t) /\ DOMAIN u = 1..Len(u)
    BY DEF Without
<1>2. /\ \A q \in 1..(p - 1) : u[q] = t[q]
      /\ \A q \in p..Len(u) : u[q] = t[q + 1]
    BY DEF Without
<1>3. ASSUME NEW x \in 1..Len(u)
      PROVE  \E y \in 1..Len(t) : t[y] = u[x]
    <2>1. (x \in 1..(p - 1) /\ x \in 1..Len(t)) \/ (x \in p..Len(u) /\ x + 1 \in 1..Len(t))
        BY <1>1
    <2> QED
        BY ONLY <1>2, <2>1
<1>4. ASSUME NEW y \in 1..Len(t), y # p
      PROVE  \E x \in 1..Len(u) : u[x] = t[y]
    <2>1. CASE y < p
        <3>1. y \in 1..(p - 1) /\ y \in 1..Len(u)
            BY <1>1, <2>1
        <3> QED
            BY ONLY <1>2, <3>1
    <2>2. CASE y > p
        <3> DEFINE x == y - 1
        <3>1. x \in p..Len(u) /\ x \in 1..Len(u) /\ x + 1 = y
            BY <1>1, <2>2
        <3> HIDE DEF x
        <3>2. u[x] = t[x + 1]
            BY ONLY <1>2, <3>1
        <3> QED
            BY ONLY <3>1, <3>2
    <2> QED
        BY <1>1, <1>4, <2>1, <2>2
<1> QED
    BY <1>1, <1>3, <1>4

LEMMA FlatSteps ==
    ASSUME NEW s, NEW f, NEW n \in Nat \ {0}, Flat(s, f, n)
    PROVE  f[1] = s[1] /\ \A m \in 2..n : f[m] = f[m - 1] \o s[m]
<1>1. f = [i \in 1..n |-> IF i = 1 THEN s[i] ELSE f[i - 1] \o s[i]]
    BY DEF Flat
<1>2. 1 \in 1..n /\ \A m \in 2..n : m \in 1..n /\ m # 1
    OBVIOUS
<1>3. \A m \in 1..n : f[m] = IF m = 1 THEN s[m] ELSE f[m - 1] \o s[m]
    BY ONLY <1>1, Zenon
<1> QED
    BY ONLY <1>2, <1>3, Zenon

\* To remove an element of one of the sequences is to remove it from their
\* concatenation.
LEMMA FlattenWithout ==
    ASSUME NEW S, NEW s \in Seq(Seq(S)), NEW i \in DOMAIN s, NEW j \in DOMAIN s[i]
    PROVE  LET r == [s EXCEPT ![i] = RemoveAt(@, j)] IN
           /\ r \in Seq(Seq(S)) /\ r # << >>
           /\ \E p : /\ Without(FlattenSeq(r), FlattenSeq(s), p)
                    /\ FlattenSeq(s)[p] = s[i][j]
<1> DEFINE r == [s EXCEPT ![i] = RemoveAt(@, j)]
<1>1. /\ s[i] \in Seq(S) /\ Len(s) \in Nat /\ DOMAIN s = 1..Len(s) /\ i \in 1..Len(s)
      /\ s # << >> /\ Len(s) \in 1..Len(s) /\ \A m \in 1..Len(s) : s[m] \in Seq(S)
    OBVIOUS
<1>2. RemoveAt(s[i], j) \in Seq(S) /\ Without(RemoveAt(s[i], j), s[i], j)
    BY <1>1, WithoutIs
<1>3. /\ r \in Seq(Seq(S)) /\ r # << >> /\ Len(r) = Len(s)
      /\ r[i] = RemoveAt(s[i], j) /\ \A m \in 1..Len(s) : m # i => r[m] = s[m]
    BY <1>1, <1>2
<1> HIDE DEF r
<1>4. PICK f : Flat(s, f, Len(s)) /\ FlattenSeq(s) = f[Len(s)]
    BY <1>1, FlattenIsFlat
<1>5. PICK g : Flat(r, g, Len(r)) /\ FlattenSeq(r) = g[Len(r)]
    BY <1>3, FlattenIsFlat
<1>6. /\ f[1] = s[1] /\ \A m \in 2..Len(s) : f[m] = f[m - 1] \o s[m]
      /\ g[1] = r[1] /\ \A m \in 2..Len(s) : g[m] = g[m - 1] \o r[m]
    <2>1. Len(s) \in Nat \ {0} /\ Flat(s, f, Len(s)) /\ Flat(r, g, Len(s))
        BY <1>1, <1>3, <1>4, <1>5
    <2>2. f[1] = s[1] /\ \A m \in 2..Len(s) : f[m] = f[m - 1] \o s[m]
        BY <2>1, FlatSteps, Zenon
    <2>3. g[1] = r[1] /\ \A m \in 2..Len(s) : g[m] = g[m - 1] \o r[m]
        BY <2>1, FlatSteps, Zenon
    <2> QED
        BY ONLY <2>2, <2>3
<1>7. \A m \in 1..Len(s) : f[m] \in Seq(S) /\ g[m] \in Seq(S)
    <2>1. s \in Seq(Seq(S)) /\ s # << >> /\ Flat(s, f, Len(s))
        BY <1>1, <1>4
    <2>2. r \in Seq(Seq(S)) /\ r # << >> /\ Flat(r, g, Len(r))
        BY <1>3, <1>5
    <2>3. \A m \in 1..Len(s) : f[m] \in Seq(S)
        BY ONLY <2>1, FlattenBegins
    <2>4. \A m \in 1..Len(r) : g[m] \in Seq(S)
        BY ONLY <2>2, FlattenBegins
    <2> QED
        BY <1>3, <2>3, <2>4
<1> DEFINE Same(m) == g[m] = f[m]
<1> DEFINE Less(m) == \E p : Without(g[m], f[m], p) /\ f[m][p] = s[i][j]
<1> DEFINE G == {m \in 1..Len(s) : (m < i => Same(m)) /\ (m >= i => Less(m))}
<1>8. 1..Len(s) \subseteq G
    <2>1. 1 \in 1..Len(s) => 1 \in G
        <3>1. 1 \in 1..Len(s) /\ i >= 1 /\ i \in Nat
            BY <1>1
        <3>2. f[1] = s[1] /\ g[1] = r[1]
            BY <1>6
        <3>3. CASE i = 1
            BY <1>2, <1>3, <3>1, <3>2, <3>3
        <3>4. CASE i # 1
            BY <1>3, <3>1, <3>2, <3>4
        <3> QED
            BY <3>3, <3>4
    <2>2. ASSUME NEW m \in 2..Len(s), m - 1 \in G
          PROVE  m \in G
        <3>1. /\ m \in 1..Len(s) /\ m - 1 \in 1..Len(s) /\ m # 1
              /\ m \in Nat /\ m - 1 \in Nat /\ i \in Nat
            BY <1>1
        <3>2. f[m] = f[m - 1] \o s[m] /\ g[m] = g[m - 1] \o r[m]
            BY ONLY <1>6, <2>2
        <3>3. /\ f[m - 1] \in Seq(S) /\ g[m - 1] \in Seq(S) /\ s[m] \in Seq(S)
              /\ m - 1 < i => Same(m - 1)
              /\ m - 1 >= i => Less(m - 1)
            BY <1>1, <1>7, <2>2, <3>1
        <3>4. CASE m < i
            <4>1. r[m] = s[m] /\ Same(m - 1)
                <5>1. m # i /\ m - 1 < i
                    BY <3>1, <3>4, SMT
                <5>2. r[m] = s[m]
                    BY ONLY <1>3, <3>1, <5>1
                <5>3. Same(m - 1)
                    BY ONLY <3>3, <5>1
                <5> QED
                    BY ONLY <5>2, <5>3
            <4>2. Same(m)
                BY ONLY <3>2, <4>1
            <4> HIDE DEF Less, Same
            <4> QED
                BY <3>1, <3>4, <4>2
        <3>5. CASE m = i
            <4>1. g[m] = f[m - 1] \o RemoveAt(s[i], j) /\ f[m] = f[m - 1] \o s[i]
                <5>1. Same(m - 1)
                    BY <3>1, <3>3, <3>5
                <5>2. r[m] = RemoveAt(s[i], j) /\ s[m] = s[i]
                    BY <1>3, <3>5
                <5> QED
                    BY ONLY <3>2, <5>1, <5>2
            <4>2. /\ Without(f[m - 1] \o RemoveAt(s[i], j), f[m - 1] \o s[i], Len(f[m - 1]) + j)
                  /\ (f[m - 1] \o s[i])[Len(f[m - 1]) + j] = s[i][j]
                <5>1. s[i] \in Seq(S) /\ f[m - 1] \in Seq(S)
                    BY <1>1, <3>3
                <5>2. \A t, u, a \in Seq(S) : \A p \in Nat :
                        Without(u, t, p) => /\ Without(a \o u, a \o t, Len(a) + p)
                                            /\ (a \o t)[Len(a) + p] = t[p]
                    BY WithoutBehind
                <5>3. j \in Nat
                    BY <1>1
                <5>4. PICK t, u, a, p :
                        t = s[i] /\ u = RemoveAt(s[i], j) /\ a = f[m - 1] /\ p = j
                    OBVIOUS
                <5>5. Without(a \o u, a \o t, Len(a) + p) /\ (a \o t)[Len(a) + p] = t[p]
                    <6>1. t \in Seq(S) /\ u \in Seq(S) /\ a \in Seq(S) /\ p \in Nat
                          /\ Without(u, t, p)
                        BY <1>2, <5>1, <5>3, <5>4
                    <6> QED
                        BY ONLY <5>2, <6>1
                <5> QED
                    BY ONLY <5>4, <5>5
            <4>3. Less(m)
                BY <4>1, <4>2
            <4> HIDE DEF Less, Same
            <4> QED
                BY <3>1, <3>5, <4>3
        <3>6. CASE m > i
            <4>1. PICK p : Without(g[m - 1], f[m - 1], p) /\ f[m - 1][p] = s[i][j]
                BY <3>1, <3>3, <3>6
            <4>2. r[m] = s[m]
                BY <1>3, <3>1, <3>6
            <4>3. /\ Without(g[m - 1] \o s[m], f[m - 1] \o s[m], p)
                  /\ (f[m - 1] \o s[m])[p] = f[m - 1][p]
                <5>1. f[m - 1] \in Seq(S) /\ g[m - 1] \in Seq(S) /\ s[m] \in Seq(S)
                    BY <3>3
                <5>2. \A t, u, b \in Seq(S) : \A q \in Nat :
                        Without(u, t, q) => /\ Without(u \o b, t \o b, q)
                                            /\ (t \o b)[q] = t[q]
                    BY WithoutBefore
                <5>3. PICK t, u, b, q : t = f[m - 1] /\ u = g[m - 1] /\ b = s[m] /\ q = p
                    OBVIOUS
                <5>4. Without(u \o b, t \o b, q) /\ (t \o b)[q] = t[q]
                    <6>1. t \in Seq(S) /\ u \in Seq(S) /\ b \in Seq(S) /\ Without(u, t, q)
                        BY ONLY <4>1, <5>1, <5>3
                    <6>2. q \in Nat
                        BY ONLY <6>1 DEF Without
                    <6> QED
                        BY ONLY <5>2, <6>1, <6>2
                <5> QED
                    BY ONLY <5>3, <5>4
            <4>4. Less(m)
                BY <3>2, <4>1, <4>2, <4>3
            <4> HIDE DEF Less, Same
            <4> QED
                BY <3>1, <3>6, <4>4
        <3> QED
            BY <3>1, <3>4, <3>5, <3>6
    <2> HIDE DEF G
    <2> QED
        BY <1>1, <2>1, <2>2, Climb
<1>9. Less(Len(s))
    BY <1>1, <1>8
<1> QED
    BY <1>3, <1>4, <1>5, <1>9 DEF r
=============================================================================
