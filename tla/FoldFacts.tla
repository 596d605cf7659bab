----------------------------- MODULE FoldFacts -----------------------------
(***************************************************************************)
(* What FoldLeft computes, for any operator Step: a proof module that has  *)
(* a fold instantiates Step with the fold's operator, whose first argument *)
(* is what stays the same from one element to the next.                    *)
(***************************************************************************)
EXTENDS Integers, Sequences, WellFoundedInduction, TLAPS

CONSTANT Step(_, _, _)

\* A set of naturals that is not empty has a least element.
LEMMA LeastNatural ==
    ASSUME NEW S \in SUBSET Nat, S # {}
    PROVE  \E m \in S : \A k \in S : m <= k
<1> DEFINE Before == OpToRel(<, Nat)
<1>1. PICK m \in S : \A k \in S : ~(<<k, m>> \in Before)
    BY NatLessThanWellFounded, WFMin
<1> HIDE DEF Before
<1>2. Before = {p \in Nat \X Nat : p[1] < p[2]}
    BY Zenon DEF Before, OpToRel
<1>3. \A k, n \in Nat : k < n => <<k, n>> \in Before
    BY <1>2
<1>4. \A k \in S : ~(k < m)
    BY <1>1, <1>3
<1>5. QED BY <1>4

Greatest(S) == CHOOSE x \in S : \A y \in S : x >= y

\* f folds s over every set of positions of S.
Table(c, b, s, S, f) ==
    f = [T \in SUBSET S |-> IF T = {} THEN b ELSE Step(c, f[T \ {Greatest(T)}], s[Greatest(T)])]

Folded(c, b, s) == (CHOOSE f : Table(c, b, s, DOMAIN s, f))[DOMAIN s]

\* The last position is the greatest.
LEMMA TopIsGreatest ==
    ASSUME NEW k \in Nat, NEW T \in SUBSET (1 .. k + 1), k + 1 \in T
    PROVE  Greatest(T) = k + 1
<1> DEFINE P(x) == x \in T /\ \A y \in T : x >= y
<1>1. P(k + 1)
    OBVIOUS
<1>4. ASSUME NEW x, P(x) PROVE x = k + 1
  <2>1. x \in 1 .. k + 1 /\ x >= k + 1
      BY <1>4
  <2>2. QED BY <2>1
<1>2. Greatest(T) = CHOOSE x : P(x)
    BY DEF Greatest
<1> HIDE DEF P
<1>3. QED BY <1>1, <1>2, <1>4

\* A set of positions has a greatest one.
LEMMA GreatestIn ==
    ASSUME NEW k \in Nat, NEW T \in SUBSET (1 .. k), T # {}
    PROVE  Greatest(T) \in T
<1> DEFINE Gaps == {n \in 0 .. k : k - n \in T}
<1>1. PICK y \in T : TRUE
    OBVIOUS
<1>2. k - y \in Gaps
    OBVIOUS
<1>3. Gaps \in SUBSET Nat
    OBVIOUS
<1> HIDE DEF Gaps
<1>4. PICK m \in Gaps : \A n \in Gaps : m <= n
    BY <1>2, <1>3, LeastNatural
<1>5. k - m \in T /\ m \in 0 .. k
    BY <1>4 DEF Gaps
<1>6. \A z \in T : k - m >= z
  <2> TAKE z \in T
  <2>1. k - z \in Gaps
      BY DEF Gaps
  <2>2. QED BY <2>1, <1>4, <1>5
<1>7. QED BY <1>5, <1>6 DEF Greatest

\* The table of a fold exists, one position more at a time.
LEMMA SomeTable ==
    ASSUME NEW c, NEW b, NEW s, NEW n \in Nat
    PROVE  \E f : Table(c, b, s, 1 .. n, f)
<1> DEFINE Missing == {k \in Nat : ~ \E f : Table(c, b, s, 1 .. k, f)}
<1>1. SUFFICES Missing = {}
    OBVIOUS
<1>2. SUFFICES ASSUME Missing # {} PROVE FALSE
    OBVIOUS
<1>3. PICK m \in Missing : \A k \in Missing : m <= k
    BY <1>2, LeastNatural
<1>4. m # 0
  <2> DEFINE g == [T \in SUBSET (1 .. 0) |-> b]
  <2>1. SUBSET (1 .. 0) = {{}}
      OBVIOUS
  <2>2. Table(c, b, s, 1 .. 0, g)
      BY <2>1 DEF Table
  <2>3. QED BY <2>2
<1>5. m - 1 \in Nat /\ m - 1 \notin Missing
    BY <1>3, <1>4
<1>6. PICK f : Table(c, b, s, 1 .. (m - 1), f)
    BY <1>5
<1> DEFINE g == [T \in SUBSET (1 .. m) |->
                   IF m \in T THEN Step(c, f[T \ {m}], s[m]) ELSE f[T]]
<1>7. ASSUME NEW T \in SUBSET (1 .. m)
      PROVE  g[T] = IF T = {} THEN b ELSE Step(c, g[T \ {Greatest(T)}], s[Greatest(T)])
  <2>1. CASE m \in T
    <3>1. Greatest(T) = m
        BY <2>1, <1>3, <1>5, TopIsGreatest
    <3>2. T \ {m} \in SUBSET (1 .. m) /\ m \notin T \ {m} /\ T # {}
        BY <2>1
    <3>3. g[T \ {m}] = f[T \ {m}] /\ g[T] = Step(c, f[T \ {m}], s[m])
        BY <3>2, <2>1
    <3> HIDE DEF g
    <3>4. QED BY <3>1, <3>2, <3>3
  <2>2. CASE m \notin T /\ T # {}
    <3>1. T \in SUBSET (1 .. (m - 1))
        BY <2>2, <1>5
    <3> DEFINE x == Greatest(T)
    <3>2. x \in T
        BY <3>1, <2>2, <1>5, GreatestIn
    <3> HIDE DEF x
    <3>3. f[T] = Step(c, f[T \ {x}], s[x])
        BY <1>6, <3>1, <2>2 DEF Table, x
    <3>4. T \ {x} \in SUBSET (1 .. m) /\ m \notin T \ {x}
        BY <2>2
    <3>5. g[T \ {x}] = f[T \ {x}] /\ g[T] = f[T]
        BY <3>4, <2>2
    <3> HIDE DEF g
    <3>6. g[T] = Step(c, g[T \ {x}], s[x])
        BY <3>3, <3>5
    <3>7. QED BY <3>6, <2>2 DEF x
  <2>3. CASE T = {}
    <3>1. f[T] = b
        BY <1>6, <2>3 DEF Table
    <3>2. QED BY <3>1, <2>3
  <2>4. QED BY <2>1, <2>2, <2>3
<1>8. g = [T \in SUBSET (1 .. m) |-> g[T]]
    OBVIOUS
<1> HIDE DEF g
<1>9. Table(c, b, s, 1 .. m, g)
    BY <1>7, <1>8 DEF Table
<1>10. QED BY <1>3, <1>9

\* t holds the intermediate results of a fold, the last of which it is.
Results(c, b, s, t) ==
    /\ t[0] = b
    /\ \A i \in 1 .. Len(s) : t[i] = Step(c, t[i - 1], s[i])
    /\ Folded(c, b, s) = t[Len(s)]

LEMMA FoldSteps ==
    ASSUME NEW c, NEW b, NEW X, NEW s \in Seq(X)
    PROVE  \E t : Results(c, b, s, t)
<1> DEFINE n == Len(s)
<1>1. n \in Nat /\ DOMAIN s = 1 .. n
    OBVIOUS
<1> HIDE DEF n
<1>2. PICK f : Table(c, b, s, 1 .. n, f)
    BY <1>1, SomeTable
<1> DEFINE h == CHOOSE g : Table(c, b, s, 1 .. n, g)
<1>3. Table(c, b, s, 1 .. n, h)
    BY <1>2
<1> HIDE DEF h
<1> DEFINE t == [i \in 0 .. n |-> h[1 .. i]]
<1>4. t[0] = b
  <2>1. 1 .. 0 = {} /\ {} \in SUBSET (1 .. n)
      OBVIOUS
  <2>2. h[{}] = b
      BY <1>3, <2>1 DEF Table
  <2>3. QED BY <2>1, <2>2, <1>1
<1>5. ASSUME NEW i \in 1 .. n PROVE t[i] = Step(c, t[i - 1], s[i])
  <2>1. 1 .. i \in SUBSET (1 .. n) /\ 1 .. i # {} /\ (1 .. i) \ {i} = 1 .. (i - 1)
      BY <1>1
  <2>2. Greatest(1 .. i) = i
    <3>1. i - 1 \in Nat /\ (i - 1) + 1 = i /\ i \in 1 .. i
        BY <1>1
    <3>2. QED BY <3>1, TopIsGreatest
  <2>3. h[1 .. i] = Step(c, h[1 .. (i - 1)], s[i])
      BY <1>3, <2>1, <2>2 DEF Table
  <2>4. i \in 0 .. n /\ i - 1 \in 0 .. n
      BY <1>1
  <2>5. QED BY <2>3, <2>4
<1>6. Folded(c, b, s) = h[1 .. n]
    BY <1>1 DEF Folded, h
<1>7. t[n] = h[1 .. n]
    BY <1>1
<1> HIDE DEF t
<1>8. QED BY <1>4, <1>5, <1>6, <1>7 DEF n, Results

\* A fold ends in the last of a chain of sets that each step leads along.
LEMMA FoldLeads ==
    ASSUME NEW c, NEW b, NEW X, NEW s \in Seq(X), NEW G, b \in G[0],
           \A i \in 1 .. Len(s) : \A o \in G[i - 1] : Step(c, o, s[i]) \in G[i]
    PROVE  Folded(c, b, s) \in G[Len(s)]
<1> DEFINE n == Len(s)
<1>1. n \in Nat
    OBVIOUS
<1>2. PICK t : /\ t[0] = b
               /\ \A i \in 1 .. n : t[i] = Step(c, t[i - 1], s[i])
               /\ Folded(c, b, s) = t[n]
    BY FoldSteps DEF Results
<1>3. \A i \in 1 .. n : \A o \in G[i - 1] : Step(c, o, s[i]) \in G[i]
    OBVIOUS
<1> HIDE DEF n
<1> DEFINE Astray == {i \in 0 .. n : t[i] \notin G[i]}
<1>4. SUFFICES ASSUME Astray # {} PROVE FALSE
    BY <1>1, <1>2 DEF n
<1>5. Astray \in SUBSET Nat
    OBVIOUS
<1>6. PICK m \in Astray : \A i \in Astray : m <= i
    BY <1>4, <1>5, LeastNatural
<1>7. m \in 1 .. n /\ m - 1 \in 0 .. n /\ ~(m <= m - 1)
    BY <1>2, <1>6, <1>1
<1>8. t[m - 1] \in G[m - 1]
    BY <1>6, <1>7
<1>9. t[m] \in G[m]
    BY <1>2, <1>3, <1>7, <1>8
<1>10. QED BY <1>6, <1>9

\* The intermediate results of a fold are the only ones.
LEMMA FoldUnique ==
    ASSUME NEW c, NEW b, NEW X, NEW s \in Seq(X), NEW u,
           u[0] = b, \A i \in 1 .. Len(s) : u[i] = Step(c, u[i - 1], s[i])
    PROVE  Folded(c, b, s) = u[Len(s)]
<1> DEFINE G == [i \in 0 .. Len(s) |-> {u[i]}]
<1>1. Len(s) \in Nat
    OBVIOUS
<1>2. b \in G[0]
    BY <1>1
<1>3. \A i \in 1 .. Len(s) : \A o \in G[i - 1] : Step(c, o, s[i]) \in G[i]
  <2> TAKE i \in 1 .. Len(s)
  <2>1. i - 1 \in 0 .. Len(s) /\ i \in 0 .. Len(s)
      BY <1>1
  <2>2. G[i - 1] = {u[i - 1]} /\ G[i] = {u[i]}
      BY <2>1
  <2>3. u[i] = Step(c, u[i - 1], s[i])
      OBVIOUS
  <2> HIDE DEF G
  <2>4. QED BY <2>2, <2>3
<1>4. G[Len(s)] = {u[Len(s)]}
    BY <1>1
<1> HIDE DEF G
<1>5. Folded(c, b, s) \in G[Len(s)]
    BY <1>2, <1>3, FoldLeads
<1>6. QED BY <1>4, <1>5

\* Each step adds to the end of a sequence.
Adds(c, X, Y) ==
    /\ \A p \in Seq(Y), x \in X : Step(c, p, x) \in Seq(Y)
    /\ \A p, q \in Seq(Y), x \in X : Step(c, p \o q, x) = p \o Step(c, q, x)

\* A fold of such steps distributes over \o.
LEMMA FoldConcat ==
    ASSUME NEW c, NEW X, NEW Y, NEW e \in Seq(Y), Len(e) = 0, NEW s \in Seq(X), NEW t \in Seq(X),
           Adds(c, X, Y)
    PROVE  /\ Folded(c, e, s) \in Seq(Y)
           /\ Folded(c, e, s \o t) \in {Folded(c, e, s) \o Folded(c, e, t)}
<1> DEFINE r == s \o t
           n == Len(s)
           m == Len(t)
<1>0. /\ n \in Nat /\ m \in Nat /\ r \in Seq(X) /\ Len(r) = n + m
      /\ \A i \in 1 .. n : r[i] = s[i]
      /\ \A i \in 1 .. m : r[n + i] = t[i]
      /\ \A i \in 1 .. n : s[i] \in X
      /\ \A i \in 1 .. m : t[i] \in X
      /\ \A i \in 1 .. n + m : r[i] \in X
    OBVIOUS
<1> HIDE DEF r, n, m
<1>12. /\ \A p \in Seq(Y), x \in X : Step(c, p, x) \in Seq(Y)
      /\ \A p, q \in Seq(Y), x \in X : Step(c, p \o q, x) = p \o Step(c, q, x)
    BY DEF Adds
<1>1. ASSUME NEW z \in Seq(X)
      PROVE  Folded(c, e, z) \in Seq(Y)
  <2> DEFINE G == [i \in 0 .. Len(z) |-> Seq(Y)]
  <2>1. /\ Len(z) \in Nat /\ e \in G[0] /\ \A i \in 1 .. Len(z) : z[i] \in X
        /\ G[Len(z)] = Seq(Y)
        /\ \A i \in 1 .. Len(z) : G[i - 1] = Seq(Y) /\ G[i] = Seq(Y)
      OBVIOUS
  <2> HIDE DEF G
  <2>2. \A i \in 1 .. Len(z) : \A o \in G[i - 1] : Step(c, o, z[i]) \in G[i]
      BY <1>12, <2>1
  <2>3. QED BY <2>1, <2>2, FoldLeads
<1>2. PICK u : /\ u[0] = e
               /\ \A i \in 1 .. n : u[i] = Step(c, u[i - 1], s[i])
               /\ Folded(c, e, s) = u[n]
    BY FoldSteps DEF n, Results
<1>3. PICK v : /\ v[0] = e
               /\ \A i \in 1 .. m : v[i] = Step(c, v[i - 1], t[i])
               /\ Folded(c, e, t) = v[m]
    BY FoldSteps DEF m, Results
<1> DEFINE a == Folded(c, e, s)
<1>4. a \in Seq(Y)
    BY <1>1
<1>5. a = u[n]
    BY <1>2
<1> HIDE DEF a
<1>6. \A i \in 0 .. m : v[i] \in Seq(Y)
  <2> DEFINE Odd == {i \in 0 .. m : v[i] \notin Seq(Y)}
  <2>1. SUFFICES ASSUME Odd # {} PROVE FALSE
      OBVIOUS
  <2>2. PICK k \in Odd : \A i \in Odd : k <= i
    <3>1. Odd \in SUBSET Nat
        OBVIOUS
    <3>2. QED BY <2>1, <3>1, LeastNatural
  <2>3. k # 0 /\ k \in 1 .. m /\ k - 1 \in 0 .. m /\ ~(k <= k - 1)
    <3>1. v[0] \in Seq(Y)
        BY <1>3
    <3>2. k \in 0 .. m /\ k # 0
        BY <2>2, <3>1
    <3>3. QED BY <3>2, <1>0
  <2>4. v[k - 1] \in Seq(Y)
      BY <2>2, <2>3
  <2>5. QED BY <1>12, <1>0, <1>3, <2>2, <2>3, <2>4
<1> DEFINE w == [i \in 0 .. n + m |-> IF i <= n THEN u[i] ELSE a \o v[i - n]]
<1>7. w[0] = e /\ w[n + m] = a \o v[m]
  <2>1. w[0] = e
      BY <1>0, <1>2
  <2>2. CASE m = 0
    <3>1. w[n + m] = u[n] /\ v[m] = e
        BY <2>2, <1>0, <1>3
    <3> HIDE DEF w
    <3>2. QED BY <2>1, <3>1, <1>4, <1>5
  <2>3. CASE m # 0
      BY <2>1, <2>3, <1>0
  <2>4. QED BY <2>2, <2>3
<1>8. ASSUME NEW i \in 1 .. n + m
      PROVE  w[i] = Step(c, w[i - 1], r[i])
  <2>0. i \in 0 .. n + m /\ i - 1 \in 0 .. n + m
      BY <1>0
  <2>1. CASE i <= n
    <3>1. i \in 1 .. n /\ w[i] = u[i] /\ w[i - 1] = u[i - 1] /\ r[i] = s[i]
        BY <2>0, <2>1, <1>0
    <3> HIDE DEF w
    <3>2. QED BY <3>1, <1>2
  <2>2. CASE i > n
    <3>0. i - n \in 1 .. m /\ i - n - 1 \in 0 .. m /\ n + (i - n) = i
        BY <2>2, <1>0
    <3>1. w[i] = a \o v[i - n] /\ r[i] = t[i - n] /\ t[i - n] \in X
      <4>1. ~(i <= n)
          BY <2>0, <2>2, <1>0
      <4>2. w[i] = a \o v[i - n]
          BY <4>1, <2>0
      <4>3. r[n + (i - n)] = t[i - n] /\ t[i - n] \in X
          BY <3>0, <1>0
      <4>4. QED BY <4>2, <4>3, <3>0
    <3>2. w[i - 1] = a \o v[i - n - 1]
      <4>1. CASE i - 1 > n
        <5>1. ~(i - 1 <= n) /\ (i - 1) - n = i - n - 1
            BY <4>1, <3>0, <2>0, <1>0
        <5>2. w[i - 1] = a \o v[(i - 1) - n]
            BY <5>1, <2>0
        <5>3. QED BY <5>1, <5>2
      <4>2. CASE i - 1 = n
        <5>1. w[i - 1] = u[n] /\ v[i - n - 1] = e
            BY <4>2, <2>0, <1>0, <1>3
        <5> HIDE DEF w
        <5>2. QED BY <5>1, <1>4, <1>5
      <4>3. i - 1 > n \/ i - 1 = n
          BY <2>2, <2>0, <1>0
      <4>4. QED BY <4>1, <4>2, <4>3
    <3> HIDE DEF w
    <3>3. v[i - n] = Step(c, v[i - n - 1], t[i - n]) /\ v[i - n - 1] \in Seq(Y)
        BY <3>0, <1>3, <1>6
    <3> DEFINE h == v[i - n - 1]
               x == t[i - n]
    <3>4. Step(c, a \o h, x) = a \o Step(c, h, x)
      <4>1. h \in Seq(Y) /\ x \in X
          BY <3>1, <3>3
      <4> HIDE DEF h, x
      <4>2. QED BY <4>1, <1>4, <1>12
    <3>5. QED BY <3>1, <3>2, <3>3, <3>4
  <2>3. QED BY <2>1, <2>2, <1>0
<1> HIDE DEF w
<1>9. Folded(c, e, r) = w[n + m]
  <2>1. w[0] = e /\ r \in Seq(X) /\ \A i \in 1 .. Len(r) : w[i] = Step(c, w[i - 1], r[i])
      BY <1>0, <1>7, <1>8
  <2>2. Folded(c, e, r) = w[Len(r)]
      BY <2>1, FoldUnique
  <2>3. QED BY <2>2, <1>0
<1>10. Folded(c, e, r) = a \o v[m]
    BY <1>7, <1>9
<1>11. QED BY <1>1, <1>3, <1>10 DEF a, r
=============================================================================
