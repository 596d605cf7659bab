--------------------- MODULE ActivationCleanups_proofs ----------------------
(*****************************************************************************)
(* Lemmas about the sequences of cleanups that ActivationRuntime keeps:    *)
(* what flattening, reversing, unwinding and a state transition do to the  *)
(* numbers of the cleanups, to their order and to the defects they throw.  *)
(*****************************************************************************)
EXTENDS ActivationRuntime, FiniteSetTheorems, SequenceTheorems, TLAPS

\* The folds of ActivationRuntime, in the form FoldFacts has them.
Glue(c, done, s) == done \o s
NoteDefect(c, defects, x) == IF x.throws THEN Append(defects, x.id) ELSE defects
KeepOthers(gone, kept, x) == IF x.id \in gone THEN kept ELSE Append(kept, x)
Gluing == INSTANCE FoldFacts WITH Step <- Glue
Noting == INSTANCE FoldFacts WITH Step <- NoteDefect
Keeping == INSTANCE FoldFacts WITH Step <- KeepOthers

Ran == [id : Nat \ {0}, throws : BOOLEAN, role : Role]
Scopes == Seq(Cleanup)
Frames == Seq(Scopes) \ {<<>>}
Stacks == Seq(Frames)

-----------------------------------------------------------------------------
(* Flattening.                                                             *)

LEMMA FlattenIsFold ==
    ASSUME NEW S, NEW s \in Seq(Seq(S))
    PROVE  FlattenSeq(s) = Gluing!Folded({}, <<>>, s)
<1> DEFINE X == Seq(S)
           n == Len(s)
           P(f) == f = [i \in 1 .. n |-> IF i = 1 THEN s[i] ELSE f[i - 1] \o s[i]]
           g == CHOOSE f : P(f)
           b == <<>>
<1>1. /\ s \in Seq(X) /\ n \in Nat /\ DOMAIN s = 1 .. n
      /\ \A i \in 1 .. n : s[i] \in X
      /\ b \in Seq(S) /\ \A z \in Seq(S) : b \o z = z
      /\ n = 0 => s = b
    OBVIOUS
<1>0. s \in Seq(X)
    OBVIOUS
<1>2. FlattenSeq(s) = IF n = 0 THEN s ELSE g[n]
    BY Zenon DEF FlattenSeq
<1> HIDE DEF X, b, P, n
<1>6. PICK t : Gluing!Results({}, b, s, t)
    BY <1>0, Gluing!FoldSteps, Zenon
<1>3. /\ t[0] = b
      /\ \A i \in 1 .. n : t[i] = Glue({}, t[i - 1], s[i])
      /\ Gluing!Folded({}, b, s) = t[n]
    BY <1>6 DEF Gluing!Results, n
<1>4. CASE n = 0
    BY <1>1, <1>2, <1>3, <1>4 DEF b
<1>5. CASE n # 0
  <2> DEFINE h == [i \in 1 .. n |-> t[i]]
  <2>1. t[1] = s[1]
    <3>1. 1 \in 1 .. n /\ s[1] \in Seq(S)
        BY <1>1, <1>5 DEF X
    <3>2. t[1] = t[1 - 1] \o s[1] /\ 1 - 1 = 0
      <4>1. t[1] = Glue({}, t[1 - 1], s[1])
          BY <3>1, <1>3
      <4>2. QED BY <4>1 DEF Glue
    <3>3. QED BY <3>1, <3>2, <1>1, <1>3
  <2>2. \A i \in 1 .. n : h[i] = IF i = 1 THEN s[i] ELSE h[i - 1] \o s[i]
    <3> TAKE i \in 1 .. n
    <3>1. CASE i = 1
        BY <3>1, <2>1
    <3>2. CASE i # 1
      <4>1. i - 1 \in 1 .. n
          BY <3>2, <1>1
      <4>2. t[i] = t[i - 1] \o s[i]
          BY <1>3 DEF Glue
      <4>3. QED BY <3>2, <4>1, <4>2
    <3>3. QED BY <3>1, <3>2
  <2>3. n = Len(s)
      BY DEF n
  <2>10. P(h)
    <3>1. h = [i \in 1 .. n |-> h[i]]
        OBVIOUS
    <3> HIDE DEF h
    <3>2. QED BY <2>2, <3>1 DEF P
  <2> HIDE DEF h
  <2>4. P(g)
      BY <2>10
  <2> HIDE DEF g
  <2>5. /\ g = [i \in 1 .. n |-> g[i]]
        /\ \A i \in 1 .. n : g[i] = IF i = 1 THEN s[i] ELSE g[i - 1] \o s[i]
      BY <2>4 DEF P
  <2> DEFINE u == [i \in 0 .. n |-> IF i = 0 THEN b ELSE g[i]]
  <2>6. u[0] = b /\ u[n] = g[n]
      BY <1>1, <1>5
  <2>7. ASSUME NEW i \in 1 .. n PROVE u[i] = Glue({}, u[i - 1], s[i])
    <3>0. i \in 0 .. n /\ i - 1 \in 0 .. n /\ i # 0 /\ s[i] \in Seq(S)
        BY <1>1 DEF X
    <3>1. CASE i = 1
      <4>1. g[i] = s[i]
          BY <3>1, <2>5
      <4>2. u[i] = g[i] /\ u[i - 1] = b
          BY <3>0, <3>1
      <4> HIDE DEF u
      <4>3. QED BY <4>1, <4>2, <3>0, <1>1 DEF Glue
    <3>2. CASE i # 1
      <4>1. u[i] = g[i] /\ u[i - 1] = g[i - 1]
          BY <3>0, <3>2, <1>1
      <4>2. g[i] = g[i - 1] \o s[i]
          BY <3>2, <2>5
      <4> HIDE DEF u
      <4>3. QED BY <4>1, <4>2 DEF Glue
    <3>3. QED BY <3>1, <3>2
  <2> HIDE DEF u
  <2>8. Gluing!Folded({}, b, s) = u[n]
    <3>1. u[0] = b /\ \A i \in 1 .. Len(s) : u[i] = Glue({}, u[i - 1], s[i])
        BY <2>6, <2>7, <2>3
    <3>2. Gluing!Folded({}, b, s) = u[Len(s)]
        BY <3>1, <1>0, Gluing!FoldUnique, Zenon
    <3>3. QED BY <3>2, <2>3
  <2>9. QED BY <1>2, <1>5, <2>6, <2>8 DEF b
<1>7. QED BY <1>4, <1>5

LEMMA FlattenConcat ==
    ASSUME NEW S, NEW s \in Seq(Seq(S)), NEW t \in Seq(Seq(S))
    PROVE  /\ FlattenSeq(s) \in Seq(S)
           /\ FlattenSeq(s \o t) = FlattenSeq(s) \o FlattenSeq(t)
<1> DEFINE X == Seq(S)
<1>1. \A p \in Seq(S), x \in X : Glue({}, p, x) \in Seq(S)
    BY DEF Glue
<1>5. \A p, q \in Seq(S), x \in X : Glue({}, p \o q, x) = p \o Glue({}, q, x)
  <2> TAKE p, q \in Seq(S), x \in Seq(S)
  <2>1. (p \o q) \o x = p \o (q \o x)
      BY SMT
  <2>2. QED BY <2>1, Zenon DEF Glue
<1> DEFINE e == <<>>
<1>2. s \in Seq(X) /\ t \in Seq(X) /\ s \o t \in Seq(X) /\ e \in Seq(S) /\ Len(e) = 0
    OBVIOUS
<1>3. /\ FlattenSeq(s) = Gluing!Folded({}, e, s)
      /\ FlattenSeq(t) = Gluing!Folded({}, e, t)
      /\ FlattenSeq(s \o t) = Gluing!Folded({}, e, s \o t)
    BY <1>2, FlattenIsFold
<1> HIDE DEF X, e
<1>7. Gluing!Adds({}, X, S)
    BY <1>1, <1>5, Zenon DEF Gluing!Adds
<1>4. /\ Gluing!Folded({}, e, s) \in Seq(S)
      /\ Gluing!Folded({}, e, s \o t) \in {Gluing!Folded({}, e, s) \o Gluing!Folded({}, e, t)}
    BY <1>7, <1>2, Gluing!FoldConcat, Zenon
<1>6. QED BY <1>3, <1>4, Zenon

LEMMA FlattenOne ==
    /\ FlattenSeq(<<>>) = <<>>
    /\ \A S : \A s \in Seq(S) : FlattenSeq(<<s>>) = s
<1>1. FlattenSeq(<<>>) = <<>>
    BY DEF FlattenSeq
<1>2. ASSUME NEW S, NEW s \in Seq(S) PROVE FlattenSeq(<<s>>) = s
  <2> DEFINE q == <<s>>
             f == CHOOSE f : f = [i \in 1 .. Len(q) |-> IF i = 1 THEN q[i] ELSE f[i - 1] \o q[i]]
             g == [i \in 1 .. Len(q) |-> s]
  <2>1. FlattenSeq(q) = IF Len(q) = 0 THEN q ELSE f[Len(q)]
      BY Zenon DEF FlattenSeq
  <2>2. Len(q) = 1 /\ q[1] = s
      OBVIOUS
  <2> HIDE DEF q
  <2>3. g = [i \in 1 .. Len(q) |-> IF i = 1 THEN q[i] ELSE g[i - 1] \o q[i]]
      BY <2>2
  <2> HIDE DEF g
  <2>4. f = [i \in 1 .. Len(q) |-> IF i = 1 THEN q[i] ELSE f[i - 1] \o q[i]]
      BY <2>3
  <2> HIDE DEF f
  <2>5. f[1] = s
      BY <2>2, <2>4
  <2>6. QED BY <2>1, <2>2, <2>5 DEF q
<1>3. QED BY <1>1, <1>2

-----------------------------------------------------------------------------
(* What cleanups throw.                                                    *)

LEMMA AppendConcat ==
    ASSUME NEW S, NEW l \in Seq(S), NEW r \in Seq(S), NEW x \in S
    PROVE  Append(l \o r, x) \in {l \o Append(r, x)}
OBVIOUS

LEMMA DefectsConcat ==
    ASSUME NEW S, \A x \in S : x.id \in Nat, NEW p \in Seq(S), NEW q \in Seq(S)
    PROVE  /\ CleanupDefects(p) \in Seq(Nat)
           /\ CleanupDefects(p \o q) = CleanupDefects(p) \o CleanupDefects(q)
<1> DEFINE e == <<>>
<1>1. \A z : CleanupDefects(z) = Noting!Folded({}, e, z)
    BY Zenon DEF CleanupDefects, Noting!Folded, Noting!Table, FoldLeft, MapThenFoldSet, Max,
                 Noting!Greatest, NoteDefect
<1>2. \A l \in Seq(Nat), x \in S : NoteDefect({}, l, x) \in Seq(Nat)
    BY DEF NoteDefect
<1>3. \A l, r \in Seq(Nat), x \in S : NoteDefect({}, l \o r, x) = l \o NoteDefect({}, r, x)
  <2> TAKE l, r \in Seq(Nat), x \in S
  <2> DEFINE y == x.id
  <2>1. y \in Nat
      OBVIOUS
  <2> HIDE DEF y
  <2>2. Append(l \o r, y) \in {l \o Append(r, y)}
      BY <2>1, AppendConcat, Zenon
  <2>3. QED BY <2>2, Zenon DEF NoteDefect, y
<1>4. e \in Seq(Nat) /\ Len(e) = 0
    OBVIOUS
<1> HIDE DEF e
<1>7. Noting!Adds({}, S, Nat)
    BY <1>2, <1>3, Zenon DEF Noting!Adds
<1>5. /\ Noting!Folded({}, e, p) \in Seq(Nat)
      /\ Noting!Folded({}, e, p \o q) \in {Noting!Folded({}, e, p) \o Noting!Folded({}, e, q)}
    BY <1>7, <1>4, Noting!FoldConcat, Zenon
<1>6. QED BY <1>1, <1>5, Zenon

LEMMA DefectsNone == CleanupDefects(<<>>) = <<>>
<1> DEFINE e == <<>>
           d == CleanupDefects(e)
<1>1. d \in Seq(Nat) /\ CleanupDefects(e \o e) = d \o d
  <2>1. e \in Seq({}) /\ \A x \in {} : x.id \in Nat
      OBVIOUS
  <2> HIDE DEF e
  <2>2. QED BY <2>1, DefectsConcat
<1>2. e \o e = e
    OBVIOUS
<1>3. d = d \o d
    BY <1>1, <1>2, Zenon
<1> HIDE DEF d
<1>4. Len(d) = 0
  <2>1. Len(d \o d) = Len(d) + Len(d) /\ Len(d) \in Nat
      BY <1>1
  <2>2. Len(d) = Len(d \o d)
      BY <1>3, Zenon
  <2>3. QED BY <2>1, <2>2
<1>5. QED BY <1>1, <1>4 DEF d

LEMMA DefectsRun ==
    ASSUME NEW p \in Seq(Cleanup), NEW role \in Role
    PROVE  /\ RunCleanups(p, role) \in Seq(Ran)
           /\ Len(RunCleanups(p, role)) = Len(p)
           /\ \A i \in DOMAIN p : /\ RunCleanups(p, role)[i].id = p[i].id
                                  /\ RunCleanups(p, role)[i].role = role
           /\ CleanupDefects(RunCleanups(p, role)) = CleanupDefects(p)
<1> DEFINE q == RunCleanups(p, role)
           n == Len(p)
           e == <<>>
<1>1. n \in Nat /\ DOMAIN p = 1 .. n /\ \A i \in 1 .. n : p[i] \in Cleanup
    OBVIOUS
<1> HIDE DEF n
<1>2. \A i \in 1 .. n : /\ q[i] \in Ran
                        /\ q[i].id = p[i].id /\ q[i].throws = p[i].throws /\ q[i].role = role
    BY <1>1 DEF RunCleanups, Cleanup, Ran
<1>3. q \in Seq(Ran) /\ Len(q) = n
  <2>1. q = [i \in 1 .. n |-> q[i]]
      BY <1>1 DEF RunCleanups
  <2> HIDE DEF q
  <2>2. q \in [1 .. n -> Ran]
      BY <1>2, <2>1
  <2>3. QED BY <2>2, <1>1
<1> HIDE DEF q, e
<1>4. PICK t : Noting!Results({}, e, p, t)
    BY Noting!FoldSteps, Zenon
<1>5. \A i \in 1 .. n : \A o : NoteDefect({}, o, q[i]) = NoteDefect({}, o, p[i])
    BY <1>2, Zenon DEF NoteDefect
<1>6. t[0] = e /\ \A i \in 1 .. Len(q) : t[i] = NoteDefect({}, t[i - 1], q[i])
    BY <1>3, <1>4, <1>5, Zenon DEF Noting!Results, n
<1>7. Noting!Folded({}, e, q) = t[Len(q)]
    BY <1>3, <1>6, Noting!FoldUnique, Zenon
<1>8. \A z : CleanupDefects(z) = Noting!Folded({}, e, z)
    BY Zenon DEF CleanupDefects, Noting!Folded, Noting!Table, FoldLeft, MapThenFoldSet, Max,
                 Noting!Greatest, NoteDefect, e
<1>9. CleanupDefects(q) = CleanupDefects(p)
    BY <1>3, <1>4, <1>7, <1>8, Zenon DEF Noting!Results, n
<1>10. QED BY <1>1, <1>2, <1>3, <1>9 DEF q, n

LEMMA DefectsOfLog ==
    ASSUME NEW l \in Seq(Ran), NEW ran \in Seq(Ran), CleanupDefects(l) = <<>>
    PROVE  /\ l \o ran \in Seq(Ran)
           /\ CleanupDefects(ran) \in Seq(Nat)
           /\ CleanupDefects(l \o ran) = CleanupDefects(ran)
<1>1. \A x \in Ran : x.id \in Nat
    BY DEF Ran
<1>2. /\ CleanupDefects(ran) \in Seq(Nat)
      /\ CleanupDefects(l \o ran) = CleanupDefects(l) \o CleanupDefects(ran)
    BY <1>1, DefectsConcat
<1> DEFINE d == CleanupDefects(ran)
<1> HIDE DEF d
<1>3. d \in Seq(Nat) => <<>> \o d = d
    OBVIOUS
<1>4. l \o ran \in Seq(Ran)
    OBVIOUS
<1>5. QED BY <1>2, <1>3, <1>4, Zenon DEF d

-----------------------------------------------------------------------------
(* The numbers of cleanups, and their order.                               *)

Distinct(s) == \A i, j \in DOMAIN s : s[i].id = s[j].id => i = j

LEMMA IdsConcat ==
    ASSUME NEW S, NEW T, NEW p \in Seq(S), NEW q \in Seq(T)
    PROVE  /\ IdsOf(p \o q) = IdsOf(p) \union IdsOf(q)
           /\ Distinct(p \o q) <=>
                Distinct(p) /\ Distinct(q) /\ IdsOf(p) \intersect IdsOf(q) = {}
<1> DEFINE r == p \o q
           n == Len(p)
           m == Len(q)
<1>1. /\ n \in Nat /\ m \in Nat /\ DOMAIN p = 1 .. n /\ DOMAIN q = 1 .. m /\ DOMAIN r = 1 .. n + m
      /\ \A i \in 1 .. n : r[i] = p[i]
      /\ \A i \in 1 .. m : r[n + i] = q[i]
    OBVIOUS
<1> HIDE DEF r, n, m
<1>2. /\ \A i \in DOMAIN p : i \in DOMAIN r /\ r[i] = p[i]
      /\ \A i \in DOMAIN q : n + i \in DOMAIN r /\ r[n + i] = q[i]
      /\ \A i \in DOMAIN r : i \in DOMAIN p \/ \E j \in DOMAIN q : i = n + j
      /\ \A i \in DOMAIN p, j \in DOMAIN q : i # n + j
      /\ \A i, j \in DOMAIN q : n + i = n + j => i = j
  <2>1. \A i \in DOMAIN r : i \in DOMAIN p \/ \E j \in DOMAIN q : i = n + j
    <3> TAKE i \in DOMAIN r
    <3>1. i \in 1 .. n \/ (i - n \in 1 .. m /\ i = n + (i - n))
        BY <1>1
    <3>2. QED BY <3>1, <1>1
  <2>2. QED BY <2>1, <1>1
<1>3. IdsOf(r) = IdsOf(p) \union IdsOf(q)
  <2>1. \A k \in IdsOf(r) : k \in IdsOf(p) \/ k \in IdsOf(q)
    <3> TAKE k \in IdsOf(r)
    <3>1. PICK i \in DOMAIN r : r[i].id = k
        BY DEF IdsOf
    <3>2. CASE i \in DOMAIN p
        BY <3>1, <3>2, <1>2 DEF IdsOf
    <3>3. CASE \E j \in DOMAIN q : i = n + j
        BY <3>1, <3>3, <1>2 DEF IdsOf
    <3>4. QED BY <3>1, <3>2, <3>3, <1>2
  <2>2. IdsOf(p) \subseteq IdsOf(r) /\ IdsOf(q) \subseteq IdsOf(r)
      BY <1>2 DEF IdsOf
  <2>3. QED BY <2>1, <2>2
<1>4. ASSUME Distinct(r)
      PROVE  Distinct(p) /\ Distinct(q) /\ IdsOf(p) \intersect IdsOf(q) = {}
  <2>1. Distinct(p)
      BY <1>2, <1>4 DEF Distinct
  <2>2. Distinct(q)
    <3> SUFFICES ASSUME NEW i \in DOMAIN q, NEW j \in DOMAIN q, q[i].id = q[j].id PROVE i = j
        BY DEF Distinct
    <3>1. n + i \in DOMAIN r /\ n + j \in DOMAIN r /\ r[n + i].id = r[n + j].id
        BY <1>2
    <3>2. n + i = n + j
        BY <3>1, <1>4, Zenon DEF Distinct
    <3>3. QED BY <3>2, <1>2
  <2>3. \A i \in DOMAIN p, j \in DOMAIN q : p[i].id # q[j].id
    <3> SUFFICES ASSUME NEW i \in DOMAIN p, NEW j \in DOMAIN q, p[i].id = q[j].id PROVE FALSE
        OBVIOUS
    <3>1. i \in DOMAIN r /\ n + j \in DOMAIN r /\ r[i].id = r[n + j].id
        BY <1>2
    <3>2. i = n + j
        BY <3>1, <1>4, Zenon DEF Distinct
    <3>3. QED BY <3>2, <1>2
  <2>4. QED BY <2>1, <2>2, <2>3 DEF IdsOf
<1>5. ASSUME Distinct(p), Distinct(q), IdsOf(p) \intersect IdsOf(q) = {},
             NEW i \in DOMAIN r, NEW j \in DOMAIN r, r[i].id = r[j].id
      PROVE  i = j
  <2>1. \A k \in DOMAIN p, l \in DOMAIN q : r[k].id # r[n + l].id
    <3> TAKE k \in DOMAIN p, l \in DOMAIN q
    <3>1. p[k].id \in IdsOf(p) /\ q[l].id \in IdsOf(q)
        BY DEF IdsOf
    <3>2. p[k].id # q[l].id
        BY <3>1, <1>5
    <3>3. r[k] = p[k] /\ r[n + l] = q[l]
        BY <1>2
    <3>4. QED BY <3>2, <3>3
  <2>2. \A k, l \in DOMAIN p : r[k].id = r[l].id => k = l
      BY <1>2, <1>5 DEF Distinct
  <2>3. \A k, l \in DOMAIN q : r[n + k].id = r[n + l].id => k = l
      BY <1>2, <1>5 DEF Distinct
  <2>4. QED BY <2>1, <2>2, <2>3, <1>2, <1>5
<1>6. QED BY <1>3, <1>4, <1>5 DEF r, Distinct

\* An order of its own changes nothing, nor does having run.
LEMMA IdsReverse ==
    ASSUME NEW S, NEW p \in Seq(S)
    PROVE  /\ Reverse(p) \in Seq(S) /\ Len(Reverse(p)) = Len(p)
           /\ IdsOf(Reverse(p)) = IdsOf(p)
           /\ Distinct(p) => Distinct(Reverse(p))
<1> DEFINE q == Reverse(p)
           n == Len(p)
<1>1. /\ n \in Nat /\ DOMAIN p = 1 .. n /\ q \in Seq(S) /\ Len(q) = n /\ DOMAIN q = 1 .. n
      /\ \A i \in 1 .. n : p[i] \in S
      /\ \A i \in 1 .. n : q[i] = p[n - i + 1]
    BY DEF Reverse
<1> HIDE DEF q, n
<1>2. \A i \in 1 .. n : /\ n - i + 1 \in 1 .. n /\ n - (n - i + 1) + 1 = i
                        /\ q[n - i + 1] = p[i] /\ q[i] = p[n - i + 1]
    BY <1>1
<1>3. IdsOf(q) = IdsOf(p)
  <2>1. \A i \in 1 .. n : p[i].id \in IdsOf(p) /\ q[i].id \in IdsOf(q)
      BY <1>1 DEF IdsOf
  <2>2. ASSUME NEW i \in 1 .. n PROVE q[i].id \in IdsOf(p) /\ p[i].id \in IdsOf(q)
    <3> DEFINE j == n - i + 1
    <3>1. j \in 1 .. n /\ q[j] = p[i] /\ q[i] = p[j]
        BY <1>2
    <3> HIDE DEF j
    <3>2. QED BY <3>1, <2>1
  <2>3. IdsOf(q) \subseteq IdsOf(p)
      BY <2>2, <1>1 DEF IdsOf
  <2>4. IdsOf(p) \subseteq IdsOf(q)
      BY <2>2, <1>1 DEF IdsOf
  <2>5. QED BY <2>3, <2>4
<1>4. ASSUME Distinct(p), NEW i \in 1 .. n, NEW j \in 1 .. n, q[i].id = q[j].id
      PROVE  i = j
  <2>1. n - i + 1 = n - j + 1
      BY <1>1, <1>2, <1>4 DEF Distinct
  <2>2. QED BY <2>1, <1>1
<1>5. QED BY <1>1, <1>3, <1>4 DEF q, n, Distinct

LEMMA IdsRun ==
    ASSUME NEW p \in Seq(Cleanup), NEW role \in Role
    PROVE  /\ IdsOf(RunCleanups(p, role)) = IdsOf(p)
           /\ Distinct(p) => Distinct(RunCleanups(p, role))
<1>1. /\ DOMAIN RunCleanups(p, role) = DOMAIN p
      /\ \A i \in DOMAIN p : RunCleanups(p, role)[i].id = p[i].id
    BY DEF RunCleanups
<1>2. QED BY <1>1 DEF IdsOf, Distinct

\* A cleanup in one place is counted once.
LEMMA CountedOnce ==
    ASSUME NEW s, Distinct(s), NEW id \in IdsOf(s)
    PROVE  Occurrences(s, id) = 1
<1>1. PICK i \in DOMAIN s : s[i].id = id
    BY DEF IdsOf
<1>2. {j \in DOMAIN s : s[j].id = id} = {i}
    BY <1>1 DEF Distinct
<1>3. Cardinality({i}) = 1
    BY FS_Singleton
<1>4. QED BY <1>2, <1>3 DEF Occurrences

\* x stands before y in a sequence of cleanups.
Before(s, x, y) == \E i, j \in DOMAIN s : i < j /\ s[i].id = x /\ s[j].id = y

\* What a sequence of cleanups ran in a role.
RanAs(l, role) == {l[k].id : k \in {k \in DOMAIN l : l[k].role = role}}

LEMMA BeforeConcat ==
    ASSUME NEW S, NEW T, NEW p \in Seq(S), NEW q \in Seq(T), NEW x, NEW y
    PROVE  /\ Before(p \o q, x, y) <=>
                \/ Before(p, x, y) \/ Before(q, x, y)
                \/ x \in IdsOf(p) /\ y \in IdsOf(q)
           /\ \A role : RanAs(p \o q, role) = RanAs(p, role) \union RanAs(q, role)
<1> DEFINE r == p \o q
           n == Len(p)
           m == Len(q)
<1>1. /\ n \in Nat /\ m \in Nat /\ DOMAIN p = 1 .. n /\ DOMAIN q = 1 .. m /\ DOMAIN r = 1 .. n + m
      /\ \A i \in 1 .. n : r[i] = p[i]
      /\ \A i \in 1 .. m : r[n + i] = q[i]
    OBVIOUS
<1> HIDE DEF r, n, m
<1>2. /\ \A i \in DOMAIN p : i \in DOMAIN r /\ r[i] = p[i]
      /\ \A i \in DOMAIN q : n + i \in DOMAIN r /\ r[n + i] = q[i]
      /\ \A i \in DOMAIN r : i \in DOMAIN p \/ \E j \in DOMAIN q : i = n + j
      /\ \A i \in DOMAIN p, j \in DOMAIN q : i < n + j /\ ~(n + j < i)
      /\ \A i, j \in DOMAIN q : n + i < n + j <=> i < j
  <2>1. \A i \in DOMAIN r : i \in DOMAIN p \/ \E j \in DOMAIN q : i = n + j
    <3> TAKE i \in DOMAIN r
    <3>1. i \in 1 .. n \/ (i - n \in 1 .. m /\ i = n + (i - n))
        BY <1>1
    <3>2. QED BY <3>1, <1>1
  <2>2. QED BY <2>1, <1>1
<1>3. ASSUME Before(r, x, y)
      PROVE  Before(p, x, y) \/ Before(q, x, y) \/ (x \in IdsOf(p) /\ y \in IdsOf(q))
  <2>1. PICK i \in DOMAIN r, j \in DOMAIN r : i < j /\ r[i].id = x /\ r[j].id = y
      BY <1>3 DEF Before
  <2>2. CASE i \in DOMAIN p /\ j \in DOMAIN p
      BY <2>1, <2>2, <1>2 DEF Before
  <2>3. ASSUME i \in DOMAIN p, NEW k \in DOMAIN q, j = n + k
        PROVE  x \in IdsOf(p) /\ y \in IdsOf(q)
      BY <2>1, <2>3, <1>2 DEF IdsOf
  <2>4. ASSUME NEW k \in DOMAIN q, i = n + k, j \in DOMAIN p PROVE FALSE
      BY <2>1, <2>4, <1>2
  <2>5. ASSUME NEW k \in DOMAIN q, NEW g \in DOMAIN q, i = n + k, j = n + g
        PROVE  Before(q, x, y)
    <3>1. k < g /\ q[k].id = x /\ q[g].id = y
        BY <2>1, <2>5, <1>2
    <3>2. QED BY <3>1 DEF Before
  <2>6. QED BY <2>2, <2>3, <2>4, <2>5, <1>2
<1>4. ASSUME Before(p, x, y) PROVE Before(r, x, y)
    BY <1>2, <1>4 DEF Before
<1>5. ASSUME Before(q, x, y) PROVE Before(r, x, y)
  <2>1. PICK i \in DOMAIN q, j \in DOMAIN q : i < j /\ q[i].id = x /\ q[j].id = y
      BY <1>5 DEF Before
  <2>2. n + i < n + j /\ n + i \in DOMAIN r /\ n + j \in DOMAIN r /\ r[n + i].id = x /\ r[n + j].id = y
      BY <2>1, <1>2
  <2>3. QED BY <2>2 DEF Before
<1>6. ASSUME x \in IdsOf(p), y \in IdsOf(q) PROVE Before(r, x, y)
  <2>1. PICK i \in DOMAIN p : p[i].id = x
      BY <1>6 DEF IdsOf
  <2>2. PICK j \in DOMAIN q : q[j].id = y
      BY <1>6 DEF IdsOf
  <2>3. i < n + j /\ i \in DOMAIN r /\ n + j \in DOMAIN r /\ r[i].id = x /\ r[n + j].id = y
      BY <2>1, <2>2, <1>2
  <2>4. QED BY <2>3 DEF Before
<1>7. ASSUME NEW role PROVE RanAs(r, role) = RanAs(p, role) \union RanAs(q, role)
  <2>1. ASSUME NEW k \in RanAs(r, role) PROVE k \in RanAs(p, role) \union RanAs(q, role)
    <3>1. PICK i \in DOMAIN r : r[i].id = k /\ r[i].role = role
        BY DEF RanAs
    <3>2. CASE i \in DOMAIN p
        BY <3>1, <3>2, <1>2 DEF RanAs
    <3>3. ASSUME NEW j \in DOMAIN q, i = n + j PROVE k \in RanAs(q, role)
        BY <3>1, <3>3, <1>2 DEF RanAs
    <3>4. QED BY <3>2, <3>3, <1>2
  <2>2. ASSUME NEW k \in RanAs(p, role) PROVE k \in RanAs(r, role)
      BY <1>2 DEF RanAs
  <2>3. ASSUME NEW k \in RanAs(q, role) PROVE k \in RanAs(r, role)
    <3>1. PICK j \in DOMAIN q : q[j].id = k /\ q[j].role = role
        BY DEF RanAs
    <3>2. n + j \in DOMAIN r /\ r[n + j].id = k /\ r[n + j].role = role
        BY <3>1, <1>2
    <3>3. QED BY <3>2 DEF RanAs
  <2>4. QED BY <2>1, <2>2, <2>3
<1>8. QED BY <1>3, <1>4, <1>5, <1>6, <1>7 DEF r

LEMMA IdsAppend ==
    ASSUME NEW S, NEW p \in Seq(S), NEW x \in S
    PROVE  /\ IdsOf(Append(p, x)) = IdsOf(p) \union {x.id}
           /\ Distinct(p) /\ x.id \notin IdsOf(p) => Distinct(Append(p, x))
           /\ \A i, j : Before(p, i, j) \/ (i \in IdsOf(p) /\ j = x.id) => Before(Append(p, x), i, j)
<1> DEFINE one == <<x>>
<1>1. one \in Seq(S) /\ Append(p, x) \in {p \o one}
    OBVIOUS
<1>2. IdsOf(one) = {x.id} /\ Distinct(one)
    BY DEF IdsOf, Distinct
<1> HIDE DEF one
<1>3. /\ IdsOf(p \o one) = IdsOf(p) \union IdsOf(one)
      /\ Distinct(p) /\ Distinct(one) /\ IdsOf(p) \intersect IdsOf(one) = {} => Distinct(p \o one)
    BY <1>1, IdsConcat
<1>4. Append(p, x) = p \o one
    BY <1>1, Zenon
<1> DEFINE y == x.id
           I == IdsOf(p)
<1> HIDE DEF y, I
<1>5. y \notin I => I \intersect {y} = {}
    OBVIOUS
<1>6. \A i, j : Before(p, i, j) \/ (i \in IdsOf(p) /\ j = x.id) => Before(p \o one, i, j)
  <2>1. \A i, j : Before(p, i, j) \/ (i \in IdsOf(p) /\ j \in IdsOf(one)) => Before(p \o one, i, j)
      BY <1>1, BeforeConcat
  <2>2. x.id \in IdsOf(one)
      BY <1>2
  <2>3. QED BY <2>1, <2>2
<1>7. /\ IdsOf(p \o one) = IdsOf(p) \union {x.id}
      /\ Distinct(p) /\ x.id \notin IdsOf(p) => Distinct(p \o one)
    BY <1>2, <1>3, <1>5, Zenon DEF y, I
<1>8. ASSUME NEW w, w = p \o one
      PROVE  /\ IdsOf(w) = IdsOf(p) \union {x.id}
             /\ Distinct(p) /\ x.id \notin IdsOf(p) => Distinct(w)
             /\ \A i, j : Before(p, i, j) \/ (i \in IdsOf(p) /\ j = x.id) => Before(w, i, j)
  <2>1. /\ IdsOf(w) = IdsOf(p) \union {x.id}
        /\ Distinct(p) /\ x.id \notin IdsOf(p) => Distinct(w)
      BY <1>7, <1>8, Zenon
  <2>2. \A i, j : Before(p, i, j) \/ (i \in IdsOf(p) /\ j = x.id) => Before(w, i, j)
      BY <1>6, <1>8, Zenon
  <2>3. QED BY <2>1, <2>2, Zenon
<1>9. QED BY <1>4, <1>8, Zenon

\* indexOf finds what is there.
LEMMA PlaceOf ==
    ASSUME NEW S, NEW s \in Seq(S), NEW id \in IdsOf(s)
    PROVE  Place(s, id) \in DOMAIN s /\ s[Place(s, id)].id = id
<1> DEFINE I == {i \in 1 .. Len(s) : s[i].id = id}
<1>1. I \in SUBSET Nat /\ I # {}
    BY DEF IdsOf
<1>2. Place(s, id) = Min(I)
    BY <1>1 DEF Place, SelectInSeq
<1> HIDE DEF I
<1>3. PICK m \in I : \A k \in I : m <= k
    BY <1>1, Noting!LeastNatural
<1>4. Min(I) \in I
    BY <1>3 DEF Min
<1>5. QED BY <1>2, <1>4 DEF I

-----------------------------------------------------------------------------
(* Frames and stacks.                                                      *)

LiveOf(stack) == FlattenSeq(FlattenSeq(stack))

LEMMA FrontLast ==
    ASSUME NEW S, NEW s \in Seq(S), s # <<>>
    PROVE  /\ Front(s) \in Seq(S) /\ Last(s) \in S /\ Len(s) \in Nat \ {0}
           /\ Len(Front(s)) = Len(s) - 1
           /\ s \in {Front(s) \o <<Last(s)>>}
BY DEF Front, Last

LEMMA ConcatAt ==
    ASSUME NEW S, NEW p \in Seq(S), NEW q \in Seq(S)
    PROVE  /\ p \o q \in Seq(S) /\ Len(p \o q) = Len(p) + Len(q)
           /\ \A i \in 1 .. Len(p) : (p \o q)[i] = p[i]
           /\ \A i \in 1 .. Len(q) : (p \o q)[Len(p) + i] = q[i]
OBVIOUS

LEMMA ConcatGroups ==
    ASSUME NEW S, NEW p \in Seq(S), NEW q \in Seq(S), NEW r \in Seq(S)
    PROVE  (p \o q) \o r \in {p \o (q \o r)}
<1>1. (p \o q) \o r = p \o (q \o r)
    BY ConcatAssociative, SMTT(30)
<1>2. QED BY <1>1, Zenon

LEMMA ConcatThree ==
    ASSUME NEW p \in Scopes, NEW q \in Scopes, NEW r \in Scopes
    PROVE  p \o q \in Scopes /\ p \o (q \o r) \in {(p \o q) \o r}
<1>1. p \in Seq(Cleanup) /\ q \in Seq(Cleanup) /\ r \in Seq(Cleanup)
    BY DEF Scopes
<1>2. p \o q \in Scopes
    BY <1>1 DEF Scopes
<1>3. (p \o q) \o r = p \o (q \o r)
    BY <1>1, ConcatAssociative, SMTT(30)
<1>4. QED BY <1>2, <1>3, Zenon

LEMMA RanSuffix ==
    ASSUME NEW S, NEW l \in Seq(S), NEW r \in Seq(S)
    PROVE  SubSeq(l \o r, Len(l) + 1, Len(l \o r)) = r
<1> DEFINE z == l \o r
           n == Len(l)
           m == Len(r)
           t == SubSeq(z, n + 1, Len(z))
<1>1. /\ n \in Nat /\ m \in Nat /\ z \in Seq(S) /\ Len(z) = n + m
      /\ \A i \in 1 .. m : z[n + i] = r[i]
    OBVIOUS
<1> HIDE DEF z, n
<1>2. t \in Seq(S) /\ Len(t) = m /\ \A i \in 1 .. m : t[i] = z[n + i]
    BY <1>1
<1> HIDE DEF t
<1>3. t = r
    BY <1>1, <1>2, SeqEqual
<1>4. QED BY <1>3 DEF t, z, n

LEMMA SubSeqJoin ==
    ASSUME NEW S, NEW s \in Seq(S), NEW d \in 0 .. Len(s)
    PROVE  SubSeq(s, 1, d) \o SubSeq(s, d + 1, Len(s)) = s
<1> DEFINE p == SubSeq(s, 1, d)
           q == SubSeq(s, d + 1, Len(s))
           n == Len(s)
           r == p \o q
<1>1. n \in Nat /\ d \in Nat /\ d <= n /\ DOMAIN s = 1 .. n
    OBVIOUS
<1>2. p \in Seq(S) /\ Len(p) = d /\ \A i \in 1 .. d : p[i] = s[i]
    OBVIOUS
<1>3. q \in Seq(S) /\ Len(q) = n - d /\ \A i \in 1 .. (n - d) : q[i] = s[d + i]
    OBVIOUS
<1> HIDE DEF p, q, n
<1>4. /\ r \in Seq(S) /\ Len(r) = Len(p) + Len(q)
      /\ \A i \in 1 .. Len(p) : r[i] = p[i]
      /\ \A i \in 1 .. Len(q) : r[Len(p) + i] = q[i]
  <2>1. p \in Seq(S) /\ q \in Seq(S)
      BY <1>2, <1>3
  <2>2. QED BY <2>1, ConcatAt
<1> HIDE DEF r
<1>5. ASSUME NEW i \in 1 .. n PROVE r[i] = s[i]
  <2>1. CASE i <= d
      BY <2>1, <1>1, <1>2, <1>4
  <2>2. CASE i > d
    <3> DEFINE j == i - d
    <3>1. j \in 1 .. Len(q) /\ j \in 1 .. (n - d) /\ Len(p) + j = i /\ d + j = i
        BY <2>2, <1>1, <1>2, <1>3
    <3> HIDE DEF j
    <3>2. r[i] = q[j] /\ q[j] = s[i]
        BY <3>1, <1>3, <1>4
    <3>3. QED BY <3>2
  <2>3. QED BY <2>1, <2>2, <1>1
<1>6. r = s
    BY <1>1, <1>2, <1>3, <1>4, <1>5, SeqEqual DEF n
<1>7. QED BY <1>6 DEF p, q, n, r

LEMMA FrameParts ==
    ASSUME NEW frame \in Seq(Scopes), NEW d \in 0 .. Len(frame)
    PROVE  /\ SubSeq(frame, 1, d) \in Seq(Scopes) /\ Len(SubSeq(frame, 1, d)) = d
           /\ ScopesAbove(frame, d) \in Scopes
           /\ FlattenSeq(frame) \in {FlattenSeq(SubSeq(frame, 1, d)) \o ScopesAbove(frame, d)}
<1> DEFINE p == SubSeq(frame, 1, d)
           q == SubSeq(frame, d + 1, Len(frame))
<1>1. /\ p \in Seq(Scopes) /\ q \in Seq(Scopes) /\ Len(p) = d
      /\ frame \in {p \o q}
  <2>1. p \in Seq(Scopes) /\ q \in Seq(Scopes) /\ Len(p) = d
      OBVIOUS
  <2>2. p \o q = frame
      BY SubSeqJoin
  <2>3. QED BY <2>1, <2>2, Zenon
<1> HIDE DEF p, q
<1>2. p \in Seq(Seq(Cleanup)) /\ q \in Seq(Seq(Cleanup))
    BY <1>1, Zenon DEF Scopes
<1>3. FlattenSeq(q) \in Seq(Cleanup) /\ FlattenSeq(p \o q) = FlattenSeq(p) \o FlattenSeq(q)
    BY <1>2, FlattenConcat
<1>4. QED BY <1>1, <1>3, Zenon DEF ScopesAbove, p, q, Scopes

LEMMA FramePush ==
    ASSUME NEW frame \in Seq(Scopes), NEW scope \in Scopes
    PROVE  /\ Append(frame, scope) \in Frames
           /\ FlattenSeq(frame) \in Scopes
           /\ FlattenSeq(Append(frame, scope)) \in {FlattenSeq(frame) \o scope}
<1> DEFINE q == <<scope>>
<1>1. /\ Append(frame, scope) \in Seq(Scopes) \ {<<>>} /\ q \in Seq(Scopes)
      /\ Append(frame, scope) \in {frame \o q}
  <2>1. q \in Seq(Scopes)
      OBVIOUS
  <2>4. Append(frame, scope) \in Seq(Scopes)
      OBVIOUS
  <2>5. Append(frame, scope) # <<>>
    <3> DEFINE z == Append(frame, scope)
    <3>1. Len(z) = Len(frame) + 1 /\ Len(frame) \in Nat
        OBVIOUS
    <3> HIDE DEF z
    <3>2. z # <<>>
        BY <3>1
    <3>3. QED BY <3>2 DEF z
  <2>2. Append(frame, scope) = frame \o q
      OBVIOUS
  <2>3. QED BY <2>1, <2>2, <2>4, <2>5, Zenon
<1>2. FlattenSeq(q) = scope
    BY FlattenOne DEF Scopes
<1> HIDE DEF q
<1>3. frame \in Seq(Seq(Cleanup)) /\ q \in Seq(Seq(Cleanup))
    BY <1>1, Zenon DEF Scopes
<1>4. FlattenSeq(frame) \in Seq(Cleanup) /\ FlattenSeq(frame \o q) = FlattenSeq(frame) \o FlattenSeq(q)
    BY <1>3, FlattenConcat
<1>5. QED BY <1>1, <1>2, <1>4, Zenon DEF Frames, Scopes

LEMMA StackIsFrames ==
    ASSUME NEW stack \in Stacks
    PROVE  /\ stack \in Seq(Seq(Scopes)) /\ FlattenSeq(stack) \in Seq(Scopes)
           /\ LiveOf(stack) \in Scopes
<1>1. stack \in Seq(Seq(Scopes))
    BY DEF Stacks, Frames
<1>2. FlattenSeq(stack) \in Seq(Scopes)
    BY <1>1, FlattenConcat
<1>3. FlattenSeq(stack) \in Seq(Seq(Cleanup))
    BY <1>2, Zenon DEF Scopes
<1>4. LiveOf(stack) \in Scopes
    BY <1>3, FlattenConcat DEF LiveOf, Scopes
<1>5. QED BY <1>1, <1>2, <1>4

LEMMA StackPush ==
    ASSUME NEW stack \in Stacks, NEW frame \in Frames
    PROVE  /\ Append(stack, frame) \in Stacks \ {<<>>}
           /\ LiveOf(Append(stack, frame)) \in {LiveOf(stack) \o FlattenSeq(frame)}
<1> DEFINE q == <<frame>>
           r == Append(stack, frame)
<1>0. frame \in Seq(Scopes)
    BY DEF Frames
<1>1. r \in Seq(Frames) \ {<<>>} /\ q \in Seq(Seq(Scopes)) /\ r \in {stack \o q}
    BY <1>0 DEF Stacks
<1>2. FlattenSeq(q) = frame
    BY <1>0, FlattenOne
<1> HIDE DEF q, r
<1>3. stack \in Seq(Seq(Scopes)) /\ FlattenSeq(stack) \in Seq(Scopes)
    BY StackIsFrames
<1>4. FlattenSeq(stack \o q) = FlattenSeq(stack) \o FlattenSeq(q)
    BY <1>1, <1>3, FlattenConcat
<1>5. FlattenSeq(r) = FlattenSeq(stack) \o frame
    BY <1>1, <1>2, <1>4, Zenon
<1>6. FlattenSeq(stack) \in Seq(Seq(Cleanup)) /\ frame \in Seq(Seq(Cleanup))
    BY <1>0, <1>3, Zenon DEF Scopes
<1>7. FlattenSeq(FlattenSeq(stack) \o frame) = FlattenSeq(FlattenSeq(stack)) \o FlattenSeq(frame)
    BY <1>6, FlattenConcat
<1>8. QED BY <1>1, <1>5, <1>7, Zenon DEF LiveOf, Stacks, r

LEMMA StackTop ==
    ASSUME NEW stack \in Stacks, stack # <<>>
    PROVE  /\ Front(stack) \in Stacks /\ Last(stack) \in Frames
           /\ Len(Front(stack)) = Len(stack) - 1 /\ Len(stack) \in Nat \ {0}
           /\ LiveOf(stack) \in {LiveOf(Front(stack)) \o FlattenSeq(Last(stack))}
<1>1. /\ Front(stack) \in Stacks /\ Last(stack) \in Frames /\ Len(stack) \in Nat \ {0}
      /\ Len(Front(stack)) = Len(stack) - 1
    BY FrontLast DEF Stacks
<1>2. stack \in {Append(Front(stack), Last(stack))}
    BY DEF Stacks, Front, Last
<1>3. LiveOf(Append(Front(stack), Last(stack))) \in {LiveOf(Front(stack)) \o FlattenSeq(Last(stack))}
    BY <1>1, StackPush, Zenon
<1>4. QED BY <1>1, <1>2, <1>3, Zenon

LEMMA FrameTop ==
    ASSUME NEW frame \in Frames
    PROVE  /\ Front(frame) \in Seq(Scopes) /\ Last(frame) \in Scopes
           /\ Len(Front(frame)) = Len(frame) - 1 /\ Len(frame) \in Nat \ {0}
           /\ FlattenSeq(Front(frame)) \in Scopes
           /\ FlattenSeq(frame) \in {FlattenSeq(Front(frame)) \o Last(frame)}
<1>1. /\ Front(frame) \in Seq(Scopes) /\ Last(frame) \in Scopes /\ Len(frame) \in Nat \ {0}
      /\ Len(Front(frame)) = Len(frame) - 1
    BY FrontLast DEF Frames
<1>2. frame \in {Append(Front(frame), Last(frame))}
    BY DEF Frames, Front, Last
<1>3. /\ FlattenSeq(Front(frame)) \in Scopes
      /\ FlattenSeq(Append(Front(frame), Last(frame))) \in {FlattenSeq(Front(frame)) \o Last(frame)}
    BY <1>1, FramePush, Zenon
<1>4. QED BY <1>1, <1>2, <1>3, Zenon

\* The parts of the top frame that a transition at a depth tells apart.
LEMMA FrameInFour ==
    ASSUME NEW frame \in Frames, NEW depth \in 1 .. (Len(frame) - 1)
    PROVE  /\ SubSeq(frame, 1, depth - 1) \in Seq(Scopes)
           /\ FlattenSeq(SubSeq(frame, 1, depth - 1)) \in Scopes
           /\ frame[depth] \in Scopes /\ Last(frame) \in Scopes
           /\ ScopesAbove(Front(frame), depth) \in Scopes
           /\ FlattenSeq(frame) \in {((FlattenSeq(SubSeq(frame, 1, depth - 1)) \o frame[depth])
                                        \o ScopesAbove(Front(frame), depth)) \o Last(frame)}
<1> DEFINE g == Front(frame)
           p == SubSeq(frame, 1, depth - 1)
           h == frame[depth]
           b == ScopesAbove(g, depth)
           r == SubSeq(g, 1, depth)
<1>1. /\ g \in Seq(Scopes) /\ Last(frame) \in Scopes /\ Len(g) = Len(frame) - 1 /\ Len(frame) \in Nat
      /\ FlattenSeq(frame) \in {FlattenSeq(g) \o Last(frame)}
    BY FrameTop
<1>2. depth \in 0 .. Len(g) /\ depth \in 1 .. Len(frame)
    BY <1>1
<1>3. b \in Scopes /\ FlattenSeq(g) \in {FlattenSeq(r) \o b}
    BY <1>1, <1>2, FrameParts
<1>4. p \in Seq(Scopes) /\ h \in Scopes /\ r \in {Append(p, h)}
  <2>0. frame \in Seq(Scopes)
      BY DEF Frames
  <2>1. h \in Scopes
      BY <1>2, <2>0
  <2>2. p \in Seq(Scopes) /\ Len(p) = depth - 1 /\ \A i \in 1 .. (depth - 1) : p[i] = frame[i]
      BY <1>1, <1>2, <2>0
  <2>3. \A i \in 1 .. Len(g) : g[i] = frame[i]
      BY <1>1, <2>0 DEF Front
  <2>4. r \in Seq(Scopes) /\ Len(r) = depth /\ \A i \in 1 .. depth : r[i] = g[i]
    <3> HIDE DEF g
    <3>1. QED BY <1>1, <1>2
  <2> DEFINE z == Append(p, h)
  <2> HIDE DEF g, p, r
  <2>5. /\ z \in Seq(Scopes) /\ Len(z) = depth /\ z[depth] = h
        /\ \A i \in 1 .. (depth - 1) : z[i] = p[i]
      BY <2>1, <2>2, <1>2
  <2> HIDE DEF z
  <2>6. \A i \in 1 .. depth : r[i] = z[i]
    <3> TAKE i \in 1 .. depth
    <3>0. i \in 1 .. Len(g)
        BY <1>1, <1>2
    <3>1. r[i] = frame[i]
        BY <3>0, <2>3, <2>4
    <3>2. CASE i = depth
        BY <3>1, <3>2, <2>5
    <3>3. CASE i # depth
        BY <3>1, <3>3, <1>2, <2>2, <2>5
    <3>4. QED BY <3>2, <3>3
  <2>7. r = z
      BY <1>2, <2>4, <2>5, <2>6, SeqEqual
  <2>8. QED BY <2>1, <2>2, <2>7, Zenon DEF z
<1> HIDE DEF g, p, h, b, r
<1>5. FlattenSeq(p) \in Scopes /\ FlattenSeq(Append(p, h)) \in {FlattenSeq(p) \o h}
    BY <1>4, FramePush
<1>6. QED BY <1>1, <1>3, <1>4, <1>5, Zenon DEF g, p, h, b

\* The scope that a frame ends with is a scope of the top frame.
LEMMA TopHolds ==
    ASSUME NEW F \in Stacks, NEW p \in Seq(Scopes), NEW scope \in Scopes
    PROVE  scope \in ToSet(Last(Append(F, Append(p, scope))))
<1> DEFINE g == Append(p, scope)
           n == Len(p)
<1>1. g \in Seq(Scopes) /\ n \in Nat /\ Len(g) = n + 1 /\ g[n + 1] = scope
    OBVIOUS
<1> HIDE DEF g, n
<1>2. scope \in ToSet(g)
    BY <1>1 DEF ToSet
<1>3. g # <<>>
    BY <1>1
<1>4. Last(Append(F, g)) = g
    BY <1>1, <1>3 DEF Stacks, Frames, Last
<1>5. QED BY <1>2, <1>4 DEF g

\* What a scope of a frame holds, its frame holds.
LEMMA ScopeInFrame ==
    ASSUME NEW frame \in Seq(Scopes), NEW i \in 1 .. Len(frame)
    PROVE  frame[i] \in Scopes /\ IdsOf(frame[i]) \subseteq IdsOf(FlattenSeq(frame))
<1> DEFINE r == SubSeq(frame, 1, i)
           s == frame[i]
           above == ScopesAbove(frame, i)
<1>1. /\ i \in 0 .. Len(frame) /\ i \in Nat \ {0} /\ s \in Scopes
    OBVIOUS
<1>2. r \in Seq(Scopes) /\ Len(r) = i /\ r[i] = s
    BY <1>1
<1>3. above \in Scopes /\ FlattenSeq(frame) \in {FlattenSeq(r) \o above}
    BY <1>1, FrameParts
<1> HIDE DEF r, s, above
<1>4. r \in Frames /\ Last(r) = s
  <2>1. r # <<>>
      BY <1>1, <1>2
  <2>2. QED BY <2>1, <1>2 DEF Frames, Last
<1>5. Front(r) \in Seq(Scopes) /\ FlattenSeq(r) \in {FlattenSeq(Front(r)) \o s}
    BY <1>4, FrameTop
<1> DEFINE x == FlattenSeq(Front(r))
           y == FlattenSeq(r)
<1>6. x \in Seq(Cleanup) /\ s \in Seq(Cleanup) /\ above \in Seq(Cleanup) /\ y \in Seq(Cleanup)
  <2>1. Front(r) \in Seq(Seq(Cleanup)) /\ r \in Seq(Seq(Cleanup))
      BY <1>2, <1>5 DEF Scopes
  <2>2. QED BY <2>1, <1>1, <1>3, FlattenConcat DEF Scopes
<1>7. y = x \o s /\ FlattenSeq(frame) = y \o above
    BY <1>3, <1>5, Zenon
<1> HIDE DEF x, y
<1>8. IdsOf(x \o s) = IdsOf(x) \union IdsOf(s) /\ IdsOf(y \o above) = IdsOf(y) \union IdsOf(above)
    BY <1>6, IdsConcat
<1>9. IdsOf(y) = IdsOf(x) \union IdsOf(s) /\ IdsOf(FlattenSeq(frame)) = IdsOf(y) \union IdsOf(above)
    BY <1>7, <1>8, Zenon
<1>10. QED BY <1>1, <1>9 DEF s

\* No two scopes of a frame hold the same cleanup.
LEMMA ScopesApart ==
    ASSUME NEW frame \in Seq(Scopes), Distinct(FlattenSeq(frame)),
           NEW i \in 1 .. Len(frame), NEW j \in 1 .. Len(frame), i < j
    PROVE  IdsOf(frame[i]) \intersect IdsOf(frame[j]) = {}
<1> DEFINE n == Len(frame)
           k == j - i
           p == SubSeq(frame, 1, i)
           q == SubSeq(frame, i + 1, n)
           s == frame[i]
           t == frame[j]
<1>1. /\ n \in Nat /\ i \in 0 .. n /\ i \in 1 .. i /\ k \in 1 .. (n - i) /\ i + k = j
    OBVIOUS
<1>2. p \in Seq(Scopes) /\ Len(p) = i /\ p[i] = s
    BY <1>1
<1>3. q \in Seq(Scopes) /\ Len(q) = n - i /\ \A e \in 1 .. (n - i) : q[e] = frame[i + e]
    BY <1>1
<1>4. FlattenSeq(q) \in Scopes /\ FlattenSeq(frame) \in {FlattenSeq(p) \o FlattenSeq(q)}
    BY <1>1, FrameParts, Zenon DEF ScopesAbove
<1> HIDE DEF n, k, p, q, s
<1>5. q[k] = t /\ k \in 1 .. Len(q)
    BY <1>1, <1>3
<1> HIDE DEF t
<1>6. IdsOf(s) \subseteq IdsOf(FlattenSeq(p)) /\ IdsOf(t) \subseteq IdsOf(FlattenSeq(q))
    BY <1>1, <1>2, <1>3, <1>5, ScopeInFrame
<1>7. FlattenSeq(p) \in Seq(Cleanup) /\ FlattenSeq(q) \in Seq(Cleanup)
  <2>1. p \in Seq(Seq(Cleanup)) /\ q \in Seq(Seq(Cleanup))
      BY <1>2, <1>3 DEF Scopes
  <2>2. QED BY <2>1, FlattenConcat
<1> DEFINE x == FlattenSeq(p)
           y == FlattenSeq(q)
<1>8. Distinct(x \o y)
    BY <1>4, Zenon
<1> HIDE DEF x, y
<1>9. IdsOf(x) \intersect IdsOf(y) = {}
    BY <1>7, <1>8, IdsConcat DEF x, y
<1>10. IdsOf(s) \intersect IdsOf(t) = {}
    BY <1>6, <1>9 DEF x, y
<1>11. QED BY <1>10 DEF s, t

LEMMA OneScope ==
    ASSUME NEW frame \in Seq(Scopes), Distinct(FlattenSeq(frame)), NEW s \in ToSet(frame), NEW id \in IdsOf(s)
    PROVE  (CHOOSE t \in ToSet(frame) : id \in IdsOf(t)) = s
<1> DEFINE c == CHOOSE t \in ToSet(frame) : id \in IdsOf(t)
<1>1. c \in ToSet(frame) /\ id \in IdsOf(c)
    OBVIOUS
<1> HIDE DEF c
<1>2. PICK i \in 1 .. Len(frame), j \in 1 .. Len(frame) : s = frame[i] /\ c = frame[j]
    BY <1>1 DEF ToSet
<1>3. ~(i < j) /\ ~(j < i)
    BY <1>1, <1>2, ScopesApart
<1>4. i = j
    BY <1>3
<1>5. QED BY <1>2, <1>4 DEF c

-----------------------------------------------------------------------------
(* A registered cleanup is either on the stack or in the log, in one       *)
(* place.                                                                  *)

Once(l, live, n) ==
    /\ Distinct(l) /\ Distinct(live)
    /\ IdsOf(l) \intersect IdsOf(live) = {}
    /\ IdsOf(l) \union IdsOf(live) = 1 .. n

\* What is unwound moves from the stack to the log.
LEMMA OnceUnwound ==
    ASSUME NEW l \in Seq(Ran), NEW p \in Scopes, NEW q \in Scopes, NEW n, NEW role \in Role,
           Once(l, p \o q, n)
    PROVE  /\ RunCleanups(Reverse(q), role) \in Seq(Ran)
           /\ Once(l \o RunCleanups(Reverse(q), role), p, n)
<1> DEFINE r == RunCleanups(Reverse(q), role)
<1>1. p \in Seq(Cleanup) /\ q \in Seq(Cleanup)
    BY DEF Scopes
<1>2. Reverse(q) \in Seq(Cleanup)
    BY <1>1, IdsReverse
<1>3. r \in Seq(Ran)
    BY <1>2, DefectsRun
<1>4. IdsOf(r) = IdsOf(q) /\ (Distinct(q) => Distinct(r))
    BY <1>1, <1>2, IdsReverse, IdsRun
<1> HIDE DEF r
<1>5. /\ IdsOf(p \o q) = IdsOf(p) \union IdsOf(q)
      /\ Distinct(p) /\ Distinct(q) /\ IdsOf(p) \intersect IdsOf(q) = {}
    BY <1>1, IdsConcat DEF Once
<1>6. /\ IdsOf(l \o r) = IdsOf(l) \union IdsOf(r)
      /\ Distinct(l) /\ Distinct(r) /\ IdsOf(l) \intersect IdsOf(r) = {} => Distinct(l \o r)
    BY <1>3, IdsConcat
<1>7. QED BY <1>3, <1>4, <1>5, <1>6 DEF Once, r

\* What a live sequence of four parts says of each of them.
LEMMA OnceParts ==
    ASSUME NEW u \in Scopes, NEW h \in Scopes, NEW b \in Scopes, NEW q \in Scopes,
           NEW l, NEW n, Once(l, ((u \o h) \o b) \o q, n)
    PROVE  /\ Distinct(l) /\ Distinct(u) /\ Distinct(h) /\ Distinct(b) /\ Distinct(q)
           /\ IdsOf(u) \intersect (IdsOf(h) \union IdsOf(b) \union IdsOf(q)) = {}
           /\ IdsOf(h) \intersect (IdsOf(b) \union IdsOf(q)) = {}
           /\ IdsOf(b) \intersect IdsOf(q) = {}
           /\ IdsOf(l) \intersect (IdsOf(u) \union IdsOf(h) \union IdsOf(b) \union IdsOf(q)) = {}
           /\ IdsOf(l) \union IdsOf(u) \union IdsOf(h) \union IdsOf(b) \union IdsOf(q) = 1 .. n
<1>1. u \in Seq(Cleanup) /\ h \in Seq(Cleanup) /\ b \in Seq(Cleanup) /\ q \in Seq(Cleanup)
    BY DEF Scopes
<1>2. u \o h \in Seq(Cleanup) /\ (u \o h) \o b \in Seq(Cleanup)
    BY <1>1
<1> DEFINE x == u \o h
           y == x \o b
           z == y \o q
<1>3. /\ IdsOf(x) = IdsOf(u) \union IdsOf(h)
      /\ Distinct(x) => Distinct(u) /\ Distinct(h) /\ IdsOf(u) \intersect IdsOf(h) = {}
    BY <1>1, IdsConcat
<1>4. x \in Seq(Cleanup)
    BY <1>2
<1> HIDE DEF x
<1>5. /\ IdsOf(y) = IdsOf(x) \union IdsOf(b) /\ y \in Seq(Cleanup)
      /\ Distinct(y) => Distinct(x) /\ Distinct(b) /\ IdsOf(x) \intersect IdsOf(b) = {}
    BY <1>1, <1>4, IdsConcat
<1> HIDE DEF y
<1>6. /\ IdsOf(z) = IdsOf(y) \union IdsOf(q)
      /\ Distinct(z) => Distinct(y) /\ Distinct(q) /\ IdsOf(y) \intersect IdsOf(q) = {}
    BY <1>1, <1>5, IdsConcat
<1>7. Once(l, z, n)
    BY DEF z, y, x
<1> HIDE DEF z
<1>8. Distinct(l) /\ Distinct(z) /\ IdsOf(l) \intersect IdsOf(z) = {} /\ IdsOf(l) \union IdsOf(z) = 1 .. n
    BY <1>7 DEF Once
<1>9. Distinct(u) /\ Distinct(h) /\ Distinct(b) /\ Distinct(q)
    BY <1>3, <1>5, <1>6, <1>8
<1>10. QED BY <1>3, <1>5, <1>6, <1>8, <1>9

\* What a transition takes out of the top frame is in the log or in the header.
LEMMA OnceTransition ==
    ASSUME NEW u \in Scopes, NEW h \in Scopes, NEW b \in Scopes, NEW q \in Scopes,
           NEW l \in Seq(Ran), NEW n, Once(l, ((u \o h) \o b) \o q, n),
           NEW ran \in Seq(Ran), Distinct(ran), NEW left \in Scopes, Distinct(left),
           IdsOf(ran) \union IdsOf(left) = IdsOf(h) \union IdsOf(b) \union IdsOf(q),
           IdsOf(ran) \intersect IdsOf(left) = {}
    PROVE  Once(l \o ran, u \o left, n)
<1>1. u \in Seq(Cleanup) /\ left \in Seq(Cleanup)
    BY DEF Scopes
<1>2. /\ IdsOf(l \o ran) = IdsOf(l) \union IdsOf(ran)
      /\ Distinct(l) /\ Distinct(ran) /\ IdsOf(l) \intersect IdsOf(ran) = {} => Distinct(l \o ran)
    BY IdsConcat
<1>3. /\ IdsOf(u \o left) = IdsOf(u) \union IdsOf(left)
      /\ Distinct(u) /\ Distinct(left) /\ IdsOf(u) \intersect IdsOf(left) = {} => Distinct(u \o left)
    BY <1>1, IdsConcat
<1>4. /\ Distinct(l) /\ Distinct(u)
      /\ IdsOf(u) \intersect (IdsOf(h) \union IdsOf(b) \union IdsOf(q)) = {}
      /\ IdsOf(l) \intersect (IdsOf(u) \union IdsOf(h) \union IdsOf(b) \union IdsOf(q)) = {}
      /\ IdsOf(l) \union IdsOf(u) \union IdsOf(h) \union IdsOf(b) \union IdsOf(q) = 1 .. n
    BY OnceParts
<1> DEFINE x == l \o ran
           y == u \o left
<1> HIDE DEF x, y
<1>5. Distinct(x) /\ Distinct(y)
    BY <1>2, <1>3, <1>4 DEF x, y
<1>6. IdsOf(x) \intersect IdsOf(y) = {} /\ IdsOf(x) \union IdsOf(y) = 1 .. n
    BY <1>2, <1>3, <1>4 DEF x, y
<1>7. Once(x, y, n)
    BY <1>5, <1>6 DEF Once
<1>8. QED BY <1>7 DEF x, y

-----------------------------------------------------------------------------
(* The order in which what is live closes.                                 *)

\* To run a sequence from its end closes what stands later first.
LEMMA RunAlone ==
    ASSUME NEW s \in Scopes, NEW role \in Role
    PROVE  /\ RunCleanups(Reverse(s), role) \in Seq(Ran)
           /\ IdsOf(RunCleanups(Reverse(s), role)) = IdsOf(s)
           /\ RanAs(RunCleanups(Reverse(s), role), role) = IdsOf(s)
           /\ \A other : other # role => RanAs(RunCleanups(Reverse(s), role), other) = {}
           /\ \A x, y : Before(s, x, y) => Before(RunCleanups(Reverse(s), role), y, x)
<1> DEFINE p == Reverse(s)
           r == RunCleanups(p, role)
           n == Len(s)
<1>1. s \in Seq(Cleanup)
    BY DEF Scopes
<1>2. p \in Seq(Cleanup) /\ IdsOf(p) = IdsOf(s)
    BY <1>1, IdsReverse
<1>3. /\ n \in Nat /\ DOMAIN s = 1 .. n /\ DOMAIN p = 1 .. n
      /\ \A i \in 1 .. n : p[i] = s[n - i + 1]
    BY <1>1 DEF Reverse
<1>4. DOMAIN r = DOMAIN p /\ \A i \in DOMAIN p : r[i].id = p[i].id /\ r[i].role = role
    BY DEF RunCleanups
<1>5. r \in Seq(Ran) /\ IdsOf(r) = IdsOf(s)
    BY <1>2, DefectsRun, IdsRun
<1> HIDE DEF p, r, n
<1>6. RanAs(r, role) = IdsOf(s)
    BY <1>4, <1>5 DEF RanAs, IdsOf
<1>7. ASSUME NEW other, other # role PROVE RanAs(r, other) = {}
    BY <1>4, <1>7 DEF RanAs
<1>8. ASSUME NEW x, NEW y, Before(s, x, y) PROVE Before(r, y, x)
  <2>1. PICK i \in 1 .. n, j \in 1 .. n : i < j /\ s[i].id = x /\ s[j].id = y
      BY <1>3, <1>8 DEF Before
  <2> DEFINE e == n - i + 1
             d == n - j + 1
  <2>2. e \in 1 .. n /\ d \in 1 .. n /\ d < e /\ n - e + 1 = i /\ n - d + 1 = j
      BY <2>1, <1>3
  <2> HIDE DEF e, d
  <2>3. r[e].id = x /\ r[d].id = y
      BY <2>1, <2>2, <1>3, <1>4
  <2>4. QED BY <2>2, <2>3, <1>3, <1>4 DEF Before
<1>9. QED BY <1>5, <1>6, <1>7, <1>8 DEF r, p

LEMMA RunThen ==
    ASSUME NEW l \in Seq(Ran), NEW s \in Scopes, NEW role \in Role
    PROVE  /\ l \o RunCleanups(Reverse(s), role) \in Seq(Ran)
           /\ IdsOf(l \o RunCleanups(Reverse(s), role)) = IdsOf(l) \union IdsOf(s)
           /\ RanAs(l \o RunCleanups(Reverse(s), role), role) = RanAs(l, role) \union IdsOf(s)
           /\ \A other : other # role =>
                RanAs(l \o RunCleanups(Reverse(s), role), other) = RanAs(l, other)
           /\ \A x, y : Before(l, y, x) \/ Before(s, x, y) \/ (y \in IdsOf(l) /\ x \in IdsOf(s))
                => Before(l \o RunCleanups(Reverse(s), role), y, x)
<1> DEFINE r == RunCleanups(Reverse(s), role)
           z == l \o r
<1>1. /\ r \in Seq(Ran) /\ IdsOf(r) = IdsOf(s) /\ RanAs(r, role) = IdsOf(s)
      /\ \A other : other # role => RanAs(r, other) = {}
      /\ \A x, y : Before(s, x, y) => Before(r, y, x)
    BY RunAlone
<1> HIDE DEF r
<1>2. z \in Seq(Ran) /\ IdsOf(z) = IdsOf(l) \union IdsOf(r)
    BY <1>1, IdsConcat
<1>3. /\ \A any : RanAs(z, any) = RanAs(l, any) \union RanAs(r, any)
      /\ \A x, y : Before(l, y, x) \/ Before(r, y, x) \/ (y \in IdsOf(l) /\ x \in IdsOf(r))
                     => Before(z, y, x)
    BY <1>1, BeforeConcat
<1> HIDE DEF z
<1>4. /\ RanAs(z, role) = RanAs(l, role) \union IdsOf(s)
      /\ \A other : other # role => RanAs(z, other) = RanAs(l, other)
    BY <1>1, <1>3
<1>5. \A x, y : Before(l, y, x) \/ Before(s, x, y) \/ (y \in IdsOf(l) /\ x \in IdsOf(s)) => Before(z, y, x)
    BY <1>1, <1>3
<1>6. QED BY <1>1, <1>2, <1>4, <1>5 DEF z, r

\* Of nothing, nothing runs.
LEMMA EmptyRun == RunCleanups(Reverse(<<>>), "scope") = <<>>
<1> DEFINE e == <<>>
           r == RunCleanups(Reverse(e), "scope")
<1>1. Reverse(e) \in Seq(Cleanup) /\ Len(Reverse(e)) = 0
  <2>1. e \in Seq(Cleanup) /\ Len(e) = 0
      OBVIOUS
  <2>2. QED BY <2>1, IdsReverse
<1>2. r \in Seq(Ran) /\ Len(r) = 0
  <2>1. "scope" \in Role
      BY DEF Role
  <2>2. r \in Seq(Ran)
      BY <1>1, <2>1, DefectsRun
  <2>3. DOMAIN r = DOMAIN Reverse(e)
      BY DEF RunCleanups
  <2>4. DOMAIN Reverse(e) = 1 .. 0
      BY <1>1
  <2> HIDE DEF r
  <2>5. QED BY <2>2, <2>3, <2>4
<1> HIDE DEF r
<1>3. r = e
    BY <1>2
<1>4. QED BY <1>3 DEF r

\* To close the end first and then the rest is to close it all from its end.
LEMMA RunConcat ==
    ASSUME NEW p \in Scopes, NEW q \in Scopes
    PROVE  RunCleanups(Reverse(q), "scope") \o RunCleanups(Reverse(p), "scope")
             \in {RunCleanups(Reverse(p \o q), "scope")}
<1> DEFINE A == RunCleanups(Reverse(p), "scope")
           B == RunCleanups(Reverse(q), "scope")
           z == p \o q
           y == RunCleanups(Reverse(z), "scope")
           x == B \o A
           n == Len(p)
           m == Len(q)
           At(c) == [id |-> c.id, throws |-> c.throws, role |-> "scope"]
<1>1. p \in Seq(Cleanup) /\ q \in Seq(Cleanup) /\ z \in Seq(Cleanup)
    BY DEF Scopes
<1>2. /\ n \in Nat /\ m \in Nat /\ Len(z) = n + m
      /\ \A i \in 1 .. n : z[i] = p[i]
      /\ \A i \in 1 .. m : z[n + i] = q[i]
    BY <1>1, ConcatAt
<1> HIDE DEF z
<1>3. ASSUME NEW s \in Seq(Cleanup)
      PROVE  /\ RunCleanups(Reverse(s), "scope") \in Seq(Ran)
             /\ Len(RunCleanups(Reverse(s), "scope")) = Len(s)
             /\ \A i \in 1 .. Len(s) : RunCleanups(Reverse(s), "scope")[i] = At(s[Len(s) - i + 1])
  <2>1. Reverse(s) \in Seq(Cleanup) /\ Len(Reverse(s)) = Len(s)
      BY IdsReverse
  <2>2. RunCleanups(Reverse(s), "scope") \in Seq(Ran)
      BY <2>1, DefectsRun DEF Role
  <2>3. \A i \in 1 .. Len(s) : i \in DOMAIN Reverse(s) /\ Reverse(s)[i] = s[Len(s) - i + 1]
      BY <2>1 DEF Reverse
  <2> DEFINE r == Reverse(s)
  <2> HIDE DEF r
  <2>4. /\ DOMAIN RunCleanups(r, "scope") = DOMAIN r
        /\ \A i \in DOMAIN r : RunCleanups(r, "scope")[i] = At(r[i])
      BY DEF RunCleanups
  <2> HIDE DEF At
  <2>5. QED BY <2>1, <2>2, <2>3, <2>4 DEF r
<1>4. /\ A \in Seq(Ran) /\ Len(A) = n /\ \A i \in 1 .. n : A[i] = At(p[n - i + 1])
      /\ B \in Seq(Ran) /\ Len(B) = m /\ \A i \in 1 .. m : B[i] = At(q[m - i + 1])
      /\ y \in Seq(Ran) /\ Len(y) = n + m /\ \A i \in 1 .. (n + m) : y[i] = At(z[n + m - i + 1])
  <2> HIDE DEF At
  <2>1. A \in Seq(Ran) /\ Len(A) = n /\ \A i \in 1 .. n : A[i] = At(p[n - i + 1])
      BY <1>1, <1>3
  <2>2. B \in Seq(Ran) /\ Len(B) = m /\ \A i \in 1 .. m : B[i] = At(q[m - i + 1])
      BY <1>1, <1>3
  <2>3. y \in Seq(Ran) /\ Len(y) = n + m /\ \A i \in 1 .. (n + m) : y[i] = At(z[n + m - i + 1])
    <3>1. y \in Seq(Ran) /\ Len(y) = Len(z) /\ \A i \in 1 .. Len(z) : y[i] = At(z[Len(z) - i + 1])
        BY <1>1, <1>3
    <3> HIDE DEF y, n, m
    <3>2. QED BY <3>1, <1>2
  <2>4. QED BY <2>1, <2>2, <2>3
<1> HIDE DEF A, B, y, n, m, At
<1>9. /\ x \in Seq(Ran) /\ Len(x) = Len(B) + Len(A)
      /\ \A i \in 1 .. Len(B) : x[i] = B[i]
      /\ \A i \in 1 .. Len(A) : x[Len(B) + i] = A[i]
  <2>1. A \in Seq(Ran) /\ B \in Seq(Ran)
      BY <1>4
  <2>2. QED BY <2>1, ConcatAt
<1> HIDE DEF x
<1>5. /\ x \in Seq(Ran) /\ Len(x) = n + m
      /\ \A i \in 1 .. m : x[i] = B[i]
      /\ \A i \in 1 .. n : x[m + i] = A[i]
    BY <1>2, <1>4, <1>9
<1>6. ASSUME NEW i \in 1 .. (n + m) PROVE x[i] = y[i]
  <2>1. CASE i <= m
    <3>1. i \in 1 .. m /\ m - i + 1 \in 1 .. m /\ n + (m - i + 1) = n + m - i + 1
        BY <2>1, <1>2
    <3>2. z[n + m - i + 1] = q[m - i + 1]
        BY <3>1, <1>2
    <3>3. x[i] = B[i] /\ B[i] = At(q[m - i + 1])
        BY <3>1, <1>4, <1>5
    <3>4. y[i] = At(z[n + m - i + 1])
        BY <1>4
    <3>5. QED BY <3>2, <3>3, <3>4
  <2>2. CASE i > m
    <3> DEFINE j == i - m
    <3>1. j \in 1 .. n /\ m + j = i /\ n - j + 1 = n + m - i + 1 /\ n - j + 1 \in 1 .. n
        BY <2>2, <1>2
    <3> HIDE DEF j
    <3>2. z[n + m - i + 1] = p[n - j + 1]
        BY <3>1, <1>2
    <3>3. x[i] = A[j]
        BY <3>1, <1>5
    <3>4. A[j] = At(p[n - j + 1]) /\ n - j + 1 = n + m - i + 1
        BY <3>1, <1>4
    <3>5. y[i] = At(z[n + m - i + 1])
        BY <1>4
    <3>6. QED BY <3>2, <3>3, <3>4, <3>5
  <2>3. QED BY <2>1, <2>2, <1>2
<1>7. x = y
    BY <1>2, <1>4, <1>5, <1>6, SeqEqual
<1>8. QED BY <1>7, Zenon DEF x, y, z, A, B

\* The order of closing, said of what stands before what.
Orderly(before, ran, frame) ==
    \A x \in IdsOf(ran) :
      /\ x \in IdsOf(before)
      /\ \A y : Before(before, x, y) =>
           \/ Before(ran, y, x)
           \/ x \in RanAs(ran, "body") \union RanAs(ran, "replaced") /\ y \in IdsOf(Last(frame))
           \/ /\ x \in RanAs(ran, "replaced") /\ y \notin RanAs(ran, "replaced")
              /\ \E s \in ToSet(frame) : {x, y} \subseteq IdsOf(s)

LEMMA OrderlyCloses ==
    ASSUME NEW before \in Seq(Cleanup), NEW ran \in Seq(Ran), Distinct(ran), NEW frame,
           Orderly(before, ran, frame)
    PROVE  InReverse(before, ran, frame)
<1> SUFFICES ASSUME NEW k \in DOMAIN ran, NEW j \in DOMAIN before,
                    j > Place(before, ran[k].id)
             PROVE  \/ \E e \in 1 .. (k - 1) : ran[e].id = before[j].id
                    \/ /\ ran[k].role \in {"body", "replaced"}
                       /\ before[j].id \in IdsOf(Last(frame))
                    \/ /\ ran[k].role = "replaced"
                       /\ \E s \in ToSet(frame) : {ran[k].id, before[j].id} \subseteq IdsOf(s)
                       /\ \A e \in DOMAIN ran : ran[e].id = before[j].id => ran[e].role # "replaced"
    BY Zenon DEF InReverse
<1> DEFINE x == ran[k].id
           y == before[j].id
           place == Place(before, x)
<1>1. x \in IdsOf(ran)
    BY DEF IdsOf
<1>2. x \in IdsOf(before)
    BY <1>1 DEF Orderly
<1>3. place \in DOMAIN before /\ before[place].id = x
    BY <1>2, PlaceOf
<1>4. Before(before, x, y)
    BY <1>3 DEF Before
<1>5. /\ \A r : x \in RanAs(ran, r) => ran[k].role = r
      /\ \A e \in DOMAIN ran : ran[e].id = x => e = k
  <2>1. \A e \in DOMAIN ran : ran[e].id = x => e = k
      BY DEF Distinct
  <2>2. QED BY <2>1 DEF RanAs
<1> HIDE DEF x, y, place
<1>6. CASE Before(ran, y, x)
  <2>1. PICK e \in DOMAIN ran, d \in DOMAIN ran : e < d /\ ran[e].id = y /\ ran[d].id = x
      BY <1>6 DEF Before
  <2>2. d = k /\ DOMAIN ran = 1 .. Len(ran) /\ Len(ran) \in Nat
      BY <2>1, <1>5
  <2>3. e \in 1 .. (k - 1)
      BY <2>1, <2>2
  <2>4. QED BY <2>1, <2>3 DEF y
<1>7. CASE x \in RanAs(ran, "body") \union RanAs(ran, "replaced") /\ y \in IdsOf(Last(frame))
    BY <1>5, <1>7 DEF y
<1>8. CASE /\ x \in RanAs(ran, "replaced") /\ y \notin RanAs(ran, "replaced")
           /\ \E s \in ToSet(frame) : {x, y} \subseteq IdsOf(s)
  <2>1. \A e \in DOMAIN ran : ran[e].id = y => ran[e].role # "replaced"
      BY <1>8 DEF RanAs
  <2>2. ran[k].role = "replaced"
      BY <1>5, <1>8
  <2>3. QED BY <2>1, <2>2, <1>8 DEF x, y
<1>9. QED BY <1>1, <1>4, <1>6, <1>7, <1>8 DEF Orderly

-----------------------------------------------------------------------------
(* What a state transition replaces, installs and keeps.                   *)

\* The pairs replace different cleanups, by everything that was acquired.
LEMMA PairFacts ==
    ASSUME NEW header \in Scopes, NEW acquired \in Scopes, Distinct(acquired),
           NEW pairs \in TransitionPairs(header, acquired)
    PROVE  /\ DOMAIN pairs = 1 .. Len(acquired)
           /\ \A i \in DOMAIN pairs : pairs[i][1] \in IdsOf(header) /\ pairs[i][2] \in IdsOf(acquired)
           /\ \A i, j \in DOMAIN pairs : pairs[i][1] = pairs[j][1] => i = j
           /\ \A i, j \in DOMAIN pairs : pairs[i][2] = pairs[j][2] => i = j
           /\ \A id \in IdsOf(acquired) : \E i \in DOMAIN pairs : pairs[i][2] = id
           /\ \A i, j \in DOMAIN pairs : i < j => Place(header, pairs[i][1]) < Place(header, pairs[j][1])
<1> DEFINE m == Len(acquired)
           Row == {<<h.id, n.id>> : h \in ToSet(header), n \in ToSet(acquired)}
<1>1. /\ m \in Nat /\ DOMAIN acquired = 1 .. m /\ header \in Seq(Cleanup) /\ acquired \in Seq(Cleanup)
    BY DEF Scopes
<1> HIDE DEF m
<1>2. /\ DOMAIN pairs = 1 .. m /\ \A i \in 1 .. m : pairs[i] \in Row
      /\ \A i, j \in 1 .. m : i < j => Place(header, pairs[i][1]) < Place(header, pairs[j][1])
      /\ \A i, j \in 1 .. m : i # j => pairs[i][2] # pairs[j][2]
  <2>1. /\ pairs \in [DOMAIN acquired -> Row]
        /\ \A i, j \in DOMAIN pairs : i < j => Place(header, pairs[i][1]) < Place(header, pairs[j][1])
        /\ \A i, j \in DOMAIN pairs : i # j => pairs[i][2] # pairs[j][2]
    <3>1. pairs \in {p \in [DOMAIN acquired -> Row] :
            /\ \A i, j \in DOMAIN p : i < j => Place(header, p[i][1]) < Place(header, p[j][1])
            /\ \A i, j \in DOMAIN p : i # j => p[i][2] # p[j][2]}
        BY DEF TransitionPairs
    <3> HIDE DEF Row
    <3>2. QED BY <3>1
  <2> HIDE DEF Row
  <2>2. DOMAIN pairs = 1 .. m /\ \A i \in 1 .. m : pairs[i] \in Row
      BY <2>1, <1>1
  <2>3. QED BY <2>1, <2>2
<1>3. \A r \in Row : r[1] \in IdsOf(header) /\ r[2] \in IdsOf(acquired)
    BY DEF ToSet, IdsOf
<1> HIDE DEF Row
<1>4. \A i \in 1 .. m : pairs[i][1] \in IdsOf(header) /\ pairs[i][2] \in IdsOf(acquired)
    BY <1>2, <1>3
<1>5. ASSUME NEW i \in 1 .. m, NEW j \in 1 .. m, pairs[i][1] = pairs[j][1] PROVE i = j
  <2> DEFINE x == Place(header, pairs[i][1])
             y == Place(header, pairs[j][1])
  <2>1. x \in DOMAIN header /\ x = y
      BY <1>1, <1>4, <1>5, PlaceOf
  <2>2. x \in Nat
      BY <2>1, <1>1
  <2>3. (i < j => x < y) /\ (j < i => y < x)
      BY <1>2
  <2> HIDE DEF x, y
  <2>4. QED BY <2>1, <2>2, <2>3, <1>1
<1> DEFINE f == [i \in 1 .. m |-> Place(acquired, pairs[i][2])]
<1>6. \A i \in 1 .. m : f[i] \in 1 .. m /\ acquired[f[i]].id = pairs[i][2]
    BY <1>1, <1>4, PlaceOf
<1>7. f \in Injection(1 .. m, 1 .. m)
  <2>1. f \in [1 .. m -> 1 .. m]
      BY <1>6
  <2>2. \A i, j \in 1 .. m : f[i] = f[j] => i = j
      BY <1>2, <1>6
  <2> HIDE DEF f
  <2>3. QED BY <2>1, <2>2 DEF Injection, IsInjective
<1> HIDE DEF f
<1>8. f \in Surjection(1 .. m, 1 .. m)
  <2>1. IsFiniteSet(1 .. m)
      BY <1>1, FS_Interval
  <2>2. QED BY <1>7, <2>1, FS_Injection
<1>9. ASSUME NEW id \in IdsOf(acquired) PROVE \E i \in 1 .. m : pairs[i][2] = id
  <2>1. PICK k \in 1 .. m : acquired[k].id = id
      BY <1>1 DEF IdsOf
  <2>2. PICK i \in 1 .. m : f[i] = k
      BY <1>8 DEF Surjection
  <2>3. QED BY <2>1, <2>2, <1>6
<1>10. QED BY <1>2, <1>4, <1>5, <1>9 DEF m

Olds(pairs) == {pairs[i][1] : i \in DOMAIN pairs}

\* What the new cleanups replace, in the order of the pairs.
Replaced(header, pairs) == [i \in DOMAIN pairs |-> header[Place(header, pairs[i][1])]]

LEMMA ReplacedFacts ==
    ASSUME NEW header \in Scopes, NEW acquired \in Scopes, Distinct(acquired), Distinct(header),
           NEW pairs \in TransitionPairs(header, acquired)
    PROVE  /\ Replaced(header, pairs) \in Scopes /\ Distinct(Replaced(header, pairs))
           /\ IdsOf(Replaced(header, pairs)) = Olds(pairs) /\ Olds(pairs) \subseteq IdsOf(header)
           /\ \A x, y \in Olds(pairs) : Before(header, x, y) => Before(Replaced(header, pairs), x, y)
<1> DEFINE o == Replaced(header, pairs)
           m == Len(acquired)
<1>1. /\ m \in Nat /\ DOMAIN pairs = 1 .. m
      /\ \A i \in 1 .. m : pairs[i][1] \in IdsOf(header)
      /\ \A i, j \in 1 .. m : pairs[i][1] = pairs[j][1] => i = j
      /\ \A i, j \in 1 .. m : i < j => Place(header, pairs[i][1]) < Place(header, pairs[j][1])
      /\ header \in Seq(Cleanup)
    BY PairFacts DEF Scopes
<1> HIDE DEF m
<1>2. \A i \in 1 .. m : o[i] \in Cleanup /\ o[i].id = pairs[i][1]
  <2> TAKE i \in 1 .. m
  <2>1. /\ Place(header, pairs[i][1]) \in DOMAIN header
        /\ header[Place(header, pairs[i][1])].id = pairs[i][1]
      BY <1>1, PlaceOf
  <2>2. QED BY <2>1, <1>1 DEF Replaced
<1>3. DOMAIN o = 1 .. m /\ o = [i \in 1 .. m |-> o[i]]
    BY <1>1 DEF Replaced
<1> HIDE DEF o
<1>4. o \in Scopes
  <2>1. o \in [1 .. m -> Cleanup]
      BY <1>2, <1>3
  <2>2. QED BY <2>1, <1>1 DEF Scopes
<1>5. Distinct(o)
    BY <1>1, <1>2, <1>3 DEF Distinct
<1>6. IdsOf(o) = Olds(pairs)
    BY <1>1, <1>2, <1>3 DEF IdsOf, Olds
<1>7. Olds(pairs) \subseteq IdsOf(header)
    BY <1>1 DEF Olds
<1>8. ASSUME NEW x \in Olds(pairs), NEW y \in Olds(pairs), Before(header, x, y)
      PROVE  Before(o, x, y)
  <2>1. PICK i \in 1 .. m : x = pairs[i][1]
      BY <1>1 DEF Olds
  <2>2. PICK j \in 1 .. m : y = pairs[j][1]
      BY <1>1 DEF Olds
  <2>3. PICK s \in DOMAIN header, t \in DOMAIN header : s < t /\ header[s].id = x /\ header[t].id = y
      BY <1>8 DEF Before
  <2>4. x \in IdsOf(header) /\ y \in IdsOf(header)
      BY <1>7
  <2>5. Place(header, x) = s /\ Place(header, y) = t
      BY <1>1, <2>3, <2>4, PlaceOf DEF Distinct
  <2>6. s \in Nat /\ t \in Nat
      BY <2>3, <1>1
  <2>7. ~(j < i) /\ i # j
      BY <2>1, <2>2, <2>3, <2>5, <2>6, <1>1
  <2>8. i < j
      BY <2>7, <1>1
  <2>9. QED BY <2>1, <2>2, <2>8, <1>2, <1>3 DEF Before
<1>9. QED BY <1>4, <1>5, <1>6, <1>7, <1>8 DEF o

LEMMA InstalledFacts ==
    ASSUME NEW header \in Scopes, NEW acquired \in Scopes, Distinct(acquired), Distinct(header),
           IdsOf(header) \intersect IdsOf(acquired) = {},
           NEW pairs \in TransitionPairs(header, acquired)
    PROVE  /\ InstalledHeader(header, acquired, pairs) \in Scopes
           /\ Distinct(InstalledHeader(header, acquired, pairs))
           /\ IdsOf(InstalledHeader(header, acquired, pairs))
                = (IdsOf(header) \ Olds(pairs)) \union IdsOf(acquired)
           /\ Len(InstalledHeader(header, acquired, pairs)) = Len(header)
           /\ \A s \in DOMAIN InstalledHeader(header, acquired, pairs) :
                IF header[s].id \in Olds(pairs)
                THEN InstalledHeader(header, acquired, pairs)[s].id \in IdsOf(acquired)
                ELSE InstalledHeader(header, acquired, pairs)[s] = header[s]
<1> DEFINE q == InstalledHeader(header, acquired, pairs)
           m == Len(acquired)
           n == Len(header)
<1>1. /\ m \in Nat /\ DOMAIN pairs = 1 .. m /\ n \in Nat /\ DOMAIN header = 1 .. n
      /\ header \in Seq(Cleanup) /\ acquired \in Seq(Cleanup)
      /\ \A i \in 1 .. n : header[i] \in Cleanup
      /\ \A i \in DOMAIN acquired : acquired[i] \in Cleanup
    BY PairFacts DEF Scopes
<1>2. /\ \A i \in 1 .. m : pairs[i][1] \in IdsOf(header) /\ pairs[i][2] \in IdsOf(acquired)
      /\ \A i, j \in 1 .. m : pairs[i][1] = pairs[j][1] => i = j
      /\ \A i, j \in 1 .. m : pairs[i][2] = pairs[j][2] => i = j
      /\ \A id \in IdsOf(acquired) : \E i \in 1 .. m : pairs[i][2] = id
    BY <1>1, PairFacts
<1> HIDE DEF m, n
<1>3. DOMAIN q = 1 .. n /\ q = [s \in 1 .. n |-> q[s]]
    BY <1>1 DEF InstalledHeader
<1>4. ASSUME NEW s \in 1 .. n, NEW i \in 1 .. m, pairs[i][1] = header[s].id
      PROVE  q[s] \in Cleanup /\ q[s].id = pairs[i][2]
  <2> DEFINE c == acquired[Place(acquired, pairs[i][2])]
             New == {acquired[Place(acquired, p[2])] : p \in {p \in ToSet(pairs) : p[1] = header[s].id}}
  <2>1. {p \in ToSet(pairs) : p[1] = header[s].id} = {pairs[i]}
    <3>1. ToSet(pairs) = {pairs[j] : j \in 1 .. m}
        BY <1>1 DEF ToSet
    <3>2. \A j \in 1 .. m : pairs[j][1] = header[s].id => pairs[j] = pairs[i]
        BY <1>2, <1>4
    <3>3. QED BY <3>1, <3>2, <1>4
  <2>2. New = {c}
      BY <2>1
  <2>3. q[s] = IF New = {} THEN header[s] ELSE CHOOSE x \in New : TRUE
      BY <1>1 DEF InstalledHeader
  <2>4. c \in Cleanup /\ c.id = pairs[i][2]
      BY <1>1, <1>2, PlaceOf
  <2> HIDE DEF c, New
  <2>5. q[s] = c
      BY <2>2, <2>3
  <2>6. QED BY <2>4, <2>5
<1>5. ASSUME NEW s \in 1 .. n, \A i \in 1 .. m : pairs[i][1] # header[s].id
      PROVE  q[s] = header[s]
  <2> DEFINE New == {acquired[Place(acquired, p[2])] : p \in {p \in ToSet(pairs) : p[1] = header[s].id}}
  <2>1. New = {}
      BY <1>1, <1>5 DEF ToSet
  <2>2. q[s] = IF New = {} THEN header[s] ELSE CHOOSE x \in New : TRUE
      BY <1>1 DEF InstalledHeader
  <2> HIDE DEF New
  <2>3. QED BY <2>1, <2>2
<1> HIDE DEF q
<1>6. q \in Scopes
  <2>1. \A s \in 1 .. n : q[s] \in Cleanup
    <3> TAKE s \in 1 .. n
    <3>1. CASE \E i \in 1 .. m : pairs[i][1] = header[s].id
        BY <3>1, <1>4
    <3>2. CASE \A i \in 1 .. m : pairs[i][1] # header[s].id
        BY <3>2, <1>1, <1>5
    <3>3. QED BY <3>1, <3>2
  <2>2. q \in [1 .. n -> Cleanup]
      BY <2>1, <1>3
  <2>3. QED BY <2>2, <1>1 DEF Scopes
<1>7. ASSUME NEW s \in 1 .. n, NEW t \in 1 .. n, q[s].id = q[t].id
      PROVE  s = t
  <2> DEFINE Hit(r) == \E i \in 1 .. m : pairs[i][1] = header[r].id
  <2>1. \A r \in 1 .. n : Hit(r) => q[r].id \in IdsOf(acquired)
      BY <1>2, <1>4
  <2>2. \A r \in 1 .. n : ~Hit(r) => q[r] = header[r]
      BY <1>5
  <2>3. \A r \in 1 .. n : ~Hit(r) => q[r].id \in IdsOf(header)
      BY <2>2, <1>1 DEF IdsOf
  <2>4. CASE Hit(s) /\ Hit(t)
    <3>1. PICK i \in 1 .. m : pairs[i][1] = header[s].id
        BY <2>4
    <3>2. PICK j \in 1 .. m : pairs[j][1] = header[t].id
        BY <2>4
    <3>3. pairs[i][2] = pairs[j][2]
        BY <3>1, <3>2, <1>4, <1>7
    <3>4. header[s].id = header[t].id
        BY <3>1, <3>2, <3>3, <1>2
    <3>5. QED BY <3>4, <1>1 DEF Distinct
  <2>5. CASE ~Hit(s) /\ ~Hit(t)
      BY <2>2, <2>5, <1>1, <1>7 DEF Distinct
  <2> HIDE DEF Hit
  <2>6. CASE Hit(s) /\ ~Hit(t)
      BY <2>1, <2>3, <2>6, <1>7
  <2>7. CASE ~Hit(s) /\ Hit(t)
      BY <2>1, <2>3, <2>7, <1>7
  <2>8. QED BY <2>4, <2>5, <2>6, <2>7
<1>8. IdsOf(q) \subseteq (IdsOf(header) \ Olds(pairs)) \union IdsOf(acquired)
  <2> SUFFICES ASSUME NEW s \in 1 .. n
               PROVE  q[s].id \in (IdsOf(header) \ Olds(pairs)) \union IdsOf(acquired)
      BY <1>3 DEF IdsOf
  <2>1. CASE \E i \in 1 .. m : pairs[i][1] = header[s].id
      BY <2>1, <1>2, <1>4
  <2>2. CASE \A i \in 1 .. m : pairs[i][1] # header[s].id
      BY <2>2, <1>1, <1>5 DEF IdsOf, Olds
  <2>3. QED BY <2>1, <2>2
<1>9. ASSUME NEW id \in IdsOf(header) \ Olds(pairs) PROVE id \in IdsOf(q)
  <2>1. PICK s \in 1 .. n : header[s].id = id
      BY <1>1 DEF IdsOf
  <2>2. \A i \in 1 .. m : pairs[i][1] # header[s].id
      BY <2>1, <1>1 DEF Olds
  <2>3. q[s].id = id
      BY <2>1, <2>2, <1>5
  <2>4. QED BY <2>3, <1>3 DEF IdsOf
<1>10. ASSUME NEW id \in IdsOf(acquired) PROVE id \in IdsOf(q)
  <2>1. PICK i \in 1 .. m : pairs[i][2] = id
      BY <1>2
  <2>5. pairs[i][1] \in IdsOf(header)
      BY <1>2
  <2>2. PICK s \in 1 .. n : header[s].id = pairs[i][1]
      BY <2>5, <1>1 DEF IdsOf
  <2>3. q[s].id = id
      BY <2>1, <2>2, <1>4
  <2>4. QED BY <2>3, <1>3 DEF IdsOf
<1>11. IdsOf(q) = (IdsOf(header) \ Olds(pairs)) \union IdsOf(acquired)
    BY <1>8, <1>9, <1>10
<1>13. ASSUME NEW s \in 1 .. n
       PROVE  IF header[s].id \in Olds(pairs) THEN q[s].id \in IdsOf(acquired) ELSE q[s] = header[s]
  <2>1. CASE \E i \in 1 .. m : pairs[i][1] = header[s].id
    <3>1. PICK i \in 1 .. m : pairs[i][1] = header[s].id
        BY <2>1
    <3>2. q[s].id = pairs[i][2] /\ pairs[i][2] \in IdsOf(acquired)
        BY <3>1, <1>2, <1>4
    <3>3. header[s].id \in Olds(pairs)
        BY <3>1, <1>1 DEF Olds
    <3>4. QED BY <3>2, <3>3
  <2>2. CASE \A i \in 1 .. m : pairs[i][1] # header[s].id
      BY <2>2, <1>1, <1>5 DEF Olds
  <2>3. QED BY <2>1, <2>2
<1>14. Len(q) = n
    BY <1>1, <1>3, <1>6 DEF Scopes
<1>15. Distinct(q)
    BY <1>3, <1>7 DEF Distinct
<1>12. QED BY <1>3, <1>6, <1>11, <1>13, <1>14, <1>15 DEF q, n

LEMMA KeptFacts ==
    ASSUME NEW header \in Scopes, Distinct(header), NEW pairs
    PROVE  /\ KeptHeader(header, pairs) \in Scopes /\ Distinct(KeptHeader(header, pairs))
           /\ IdsOf(KeptHeader(header, pairs)) = IdsOf(header) \ Olds(pairs)
           /\ \A x, y \in IdsOf(header) \ Olds(pairs) :
                Before(header, x, y) => Before(KeptHeader(header, pairs), x, y)
<1> DEFINE gone == {p[1] : p \in ToSet(pairs)}
           e == <<>>
           n == Len(header)
           Ids(i) == {header[j].id : j \in 1 .. i}
           InLine(o, i) == \A j, k \in 1 .. i :
             j < k /\ header[j].id \notin gone /\ header[k].id \notin gone
               => Before(o, header[j].id, header[k].id)
           Good(i) == {o \in Scopes : Distinct(o) /\ IdsOf(o) = Ids(i) \ gone /\ InLine(o, i)}
           G == [i \in 0 .. n |-> Good(i)]
<1>1. KeptHeader(header, pairs) = Keeping!Folded(gone, e, header)
    BY Zenon DEF KeptHeader, Keeping!Folded, Keeping!Table, FoldLeft, MapThenFoldSet, Max,
                 Keeping!Greatest, KeepOthers
<1>2. gone = Olds(pairs)
    BY DEF ToSet, Olds
<1>3. /\ n \in Nat /\ DOMAIN header = 1 .. n /\ header \in Seq(Cleanup)
      /\ \A i \in 1 .. n : header[i] \in Cleanup
    BY DEF Scopes
<1>4. Ids(n) = IdsOf(header)
    BY <1>3 DEF IdsOf
<1>5. e \in Scopes /\ Distinct(e) /\ IdsOf(e) = {} /\ InLine(e, 0)
    BY DEF Scopes, Distinct, IdsOf
<1> HIDE DEF gone, e, n
<1>6. e \in G[0]
  <2>1. Ids(0) = {}
      OBVIOUS
  <2> HIDE DEF InLine, Ids
  <2>2. QED BY <2>1, <1>3, <1>5
<1>7. ASSUME NEW i \in 1 .. n, NEW o \in G[i - 1]
      PROVE  KeepOthers(gone, o, header[i]) \in G[i]
  <2> DEFINE x == header[i]
  <2>1. i \in 0 .. n /\ i - 1 \in 0 .. n /\ x \in Cleanup
      BY <1>3
  <2>10. o \in Scopes /\ Distinct(o) /\ IdsOf(o) = Ids(i - 1) \ gone /\ InLine(o, i - 1)
    <3> HIDE DEF InLine, Ids
    <3>1. QED BY <2>1
  <2>2. o \in Scopes /\ Distinct(o) /\ IdsOf(o) = Ids(i - 1) \ gone
      BY <2>10
  <2>11. ASSUME NEW r, \A j, k : Before(o, j, k) => Before(r, j, k),
                x.id \notin gone => \A j \in IdsOf(o) : Before(r, j, x.id)
         PROVE  InLine(r, i)
    <3> SUFFICES ASSUME NEW j \in 1 .. i, NEW k \in 1 .. i, j < k,
                        header[j].id \notin gone, header[k].id \notin gone
                 PROVE  Before(r, header[j].id, header[k].id)
        OBVIOUS
    <3>1. CASE k = i
      <4>1. j \in 1 .. (i - 1)
          BY <3>1, <1>3
      <4>2. header[j].id \in IdsOf(o)
          BY <4>1, <2>2
      <4>3. QED BY <4>2, <3>1, <2>11
    <3>2. CASE k # i
      <4>1. j \in 1 .. (i - 1) /\ k \in 1 .. (i - 1)
          BY <3>2, <1>3
      <4>2. Before(o, header[j].id, header[k].id)
          BY <4>1, <2>10
      <4>3. QED BY <4>2, <2>11
    <3>3. QED BY <3>1, <3>2
  <2> HIDE DEF InLine
  <2>3. G[i] = Good(i)
      BY <2>1
  <2>4. Ids(i) = Ids(i - 1) \union {x.id}
    <3>1. 1 .. i = (1 .. (i - 1)) \union {i}
        BY <1>3
    <3>2. QED BY <3>1
  <2>5. x.id \notin Ids(i - 1)
    <3> SUFFICES ASSUME NEW j \in 1 .. (i - 1), header[j].id = header[i].id PROVE FALSE
        OBVIOUS
    <3>1. j \in 1 .. n /\ j # i
        BY <1>3
    <3>2. QED BY <3>1, <1>3 DEF Distinct
  <2> HIDE DEF x, Ids
  <2>6. CASE x.id \in gone
    <3>1. KeepOthers(gone, o, x) = o
        BY <2>6 DEF KeepOthers
    <3>2. Ids(i) \ gone = Ids(i - 1) \ gone
        BY <2>4, <2>6
    <3>3. o \in Good(i)
        BY <2>2, <2>6, <2>11, <3>2
    <3> HIDE DEF Good, G
    <3>4. QED BY <2>3, <3>1, <3>3 DEF x
  <2>7. CASE x.id \notin gone
    <3>1. KeepOthers(gone, o, x) = Append(o, x)
        BY <2>7 DEF KeepOthers
    <3>2. Append(o, x) \in Scopes
        BY <2>1, <2>2 DEF Scopes
    <3>3. /\ IdsOf(Append(o, x)) = IdsOf(o) \union {x.id} /\ Distinct(Append(o, x))
          /\ \A j, k : Before(o, j, k) \/ (j \in IdsOf(o) /\ k = x.id) => Before(Append(o, x), j, k)
      <4>1. o \in Seq(Cleanup) /\ x.id \notin IdsOf(o)
          BY <2>2, <2>5 DEF Scopes
      <4>2. QED BY <4>1, <2>1, <2>2, IdsAppend
    <3> DEFINE r == Append(o, x)
    <3> HIDE DEF r
    <3>4. IdsOf(r) = Ids(i) \ gone
        BY <2>2, <2>4, <2>7, <3>3 DEF r
    <3>7. InLine(r, i)
        BY <3>3, <2>11 DEF r
    <3>5. r \in Good(i)
        BY <3>2, <3>3, <3>4, <3>7 DEF r
    <3> HIDE DEF Good, G
    <3>6. QED BY <2>3, <3>1, <3>5 DEF x, r
  <2>8. QED BY <2>6, <2>7
<1>8. G[n] = Good(n)
    BY <1>3
<1> HIDE DEF G, Good
<1>9. Keeping!Folded(gone, e, header) \in G[n]
    BY <1>3, <1>6, <1>7, Keeping!FoldLeads DEF n
<1>10. Keeping!Folded(gone, e, header) \in Good(n)
    BY <1>8, <1>9
<1> DEFINE kept == KeptHeader(header, pairs)
<1> HIDE DEF kept, InLine
<1>12. kept \in Scopes /\ Distinct(kept) /\ IdsOf(kept) = Ids(n) \ gone /\ InLine(kept, n)
    BY <1>1, <1>10 DEF Good, kept
<1>13. ASSUME NEW x \in IdsOf(header) \ gone, NEW y \in IdsOf(header) \ gone, Before(header, x, y)
       PROVE  Before(kept, x, y)
    BY <1>3, <1>12, <1>13 DEF Before, InLine
<1>11. QED BY <1>2, <1>4, <1>12, <1>13 DEF kept

-----------------------------------------------------------------------------
(* What a state transition closes.                                         *)

\* The live cleanups as a transition tells them apart.
InARow(u, h, b, q) == ((u \o h) \o b) \o q

\* What stands before what in four sequences in a row.
Standing(z, u, h, b, q) ==
    /\ IdsOf(z) = IdsOf(u) \union IdsOf(h) \union IdsOf(b) \union IdsOf(q)
    /\ \A x, y : Before(z, x, y) =>
         \/ Before(u, x, y) \/ Before(h, x, y) \/ Before(b, x, y) \/ Before(q, x, y)
         \/ x \in IdsOf(u) /\ y \in IdsOf(h) \union IdsOf(b) \union IdsOf(q)
         \/ x \in IdsOf(h) /\ y \in IdsOf(b) \union IdsOf(q)
         \/ x \in IdsOf(b) /\ y \in IdsOf(q)

LEMMA BeforeFour ==
    ASSUME NEW u \in Scopes, NEW h \in Scopes, NEW b \in Scopes, NEW q \in Scopes
    PROVE  InARow(u, h, b, q) \in Seq(Cleanup) /\ Standing(InARow(u, h, b, q), u, h, b, q)
<1> DEFINE v == u \o h
           w == v \o b
           z == w \o q
<1>1. u \in Seq(Cleanup) /\ h \in Seq(Cleanup) /\ b \in Seq(Cleanup) /\ q \in Seq(Cleanup)
    BY DEF Scopes
<1>2. /\ v \in Seq(Cleanup) /\ IdsOf(v) = IdsOf(u) \union IdsOf(h)
      /\ \A x, y : Before(v, x, y) => Before(u, x, y) \/ Before(h, x, y) \/ (x \in IdsOf(u) /\ y \in IdsOf(h))
    BY <1>1, IdsConcat, BeforeConcat
<1> HIDE DEF v
<1>3. /\ w \in Seq(Cleanup) /\ IdsOf(w) = IdsOf(v) \union IdsOf(b)
      /\ \A x, y : Before(w, x, y) => Before(v, x, y) \/ Before(b, x, y) \/ (x \in IdsOf(v) /\ y \in IdsOf(b))
    BY <1>1, <1>2, IdsConcat, BeforeConcat
<1> HIDE DEF w
<1>4. /\ z \in Seq(Cleanup) /\ IdsOf(z) = IdsOf(w) \union IdsOf(q)
      /\ \A x, y : Before(z, x, y) => Before(w, x, y) \/ Before(q, x, y) \/ (x \in IdsOf(w) /\ y \in IdsOf(q))
    BY <1>1, <1>3, IdsConcat, BeforeConcat
<1> HIDE DEF z
<1>5. IdsOf(z) = IdsOf(u) \union IdsOf(h) \union IdsOf(b) \union IdsOf(q)
    BY <1>2, <1>3, <1>4
<1>6. \A x, y : Before(z, x, y) =>
        \/ Before(u, x, y) \/ Before(h, x, y) \/ Before(b, x, y) \/ Before(q, x, y)
        \/ x \in IdsOf(u) /\ y \in IdsOf(h) \union IdsOf(b) \union IdsOf(q)
        \/ x \in IdsOf(h) /\ y \in IdsOf(b) \union IdsOf(q)
        \/ x \in IdsOf(b) /\ y \in IdsOf(q)
    BY <1>2, <1>3, <1>4
<1>7. Standing(z, u, h, b, q)
    BY <1>5, <1>6 DEF Standing
<1>8. QED BY <1>4, <1>7 DEF InARow, z, w, v

\* What a state transition closes: the body scopes, then the replaced cleanups.
Replacing(b, o) == RunCleanups(Reverse(b), "body") \o RunCleanups(Reverse(o), "replaced")

\* What it closes if one of them throws: the acquired cleanups too.
Failing(b, o, q) == Replacing(b, o) \o RunCleanups(Reverse(q), "acquired")

\* What the failure of an activation without an execution frame closes: the rest.
FailingAll(b, o, q, rest) == Failing(b, o, q) \o RunCleanups(Reverse(rest), "scope")

LEMMA ReplacingRuns ==
    ASSUME NEW b \in Scopes, NEW o \in Scopes
    PROVE  /\ Replacing(b, o) \in Seq(Ran)
           /\ IdsOf(Replacing(b, o)) = IdsOf(b) \union IdsOf(o)
           /\ RanAs(Replacing(b, o), "body") = IdsOf(b) /\ RanAs(Replacing(b, o), "replaced") = IdsOf(o)
           /\ \A x, y : Before(b, x, y) \/ Before(o, x, y) \/ (y \in IdsOf(b) /\ x \in IdsOf(o))
                => Before(Replacing(b, o), y, x)
<1> DEFINE body == "body"
           repl == "replaced"
           l == RunCleanups(Reverse(b), body)
           z == l \o RunCleanups(Reverse(o), repl)
<1>1. body \in Role /\ repl \in Role /\ body # repl
    BY DEF Role
<1> HIDE DEF body, repl
<1>2. /\ l \in Seq(Ran) /\ IdsOf(l) = IdsOf(b) /\ RanAs(l, body) = IdsOf(b) /\ RanAs(l, repl) = {}
      /\ \A x, y : Before(b, x, y) => Before(l, y, x)
    BY <1>1, RunAlone
<1> HIDE DEF l
<1>3. /\ z \in Seq(Ran) /\ IdsOf(z) = IdsOf(l) \union IdsOf(o)
      /\ RanAs(z, repl) = RanAs(l, repl) \union IdsOf(o) /\ RanAs(z, body) = RanAs(l, body)
      /\ \A x, y : Before(l, y, x) \/ Before(o, x, y) \/ (y \in IdsOf(l) /\ x \in IdsOf(o)) => Before(z, y, x)
  <2>1. l \in Seq(Ran)
      BY <1>2
  <2>2. /\ z \in Seq(Ran) /\ IdsOf(z) = IdsOf(l) \union IdsOf(o)
        /\ RanAs(z, repl) = RanAs(l, repl) \union IdsOf(o)
        /\ \A other : other # repl => RanAs(z, other) = RanAs(l, other)
        /\ \A x, y : Before(l, y, x) \/ Before(o, x, y) \/ (y \in IdsOf(l) /\ x \in IdsOf(o))
                       => Before(z, y, x)
      BY <2>1, <1>1, RunThen
  <2>3. QED BY <2>2, <1>1
<1>4. z = Replacing(b, o)
    BY DEF z, l, body, repl, Replacing
<1> HIDE DEF z
<1>5. /\ z \in Seq(Ran) /\ IdsOf(z) = IdsOf(b) \union IdsOf(o)
      /\ RanAs(z, repl) = IdsOf(o) /\ RanAs(z, body) = IdsOf(b)
      /\ \A x, y : Before(b, x, y) \/ Before(o, x, y) \/ (y \in IdsOf(b) /\ x \in IdsOf(o)) => Before(z, y, x)
    BY <1>2, <1>3
<1>6. QED BY <1>4, <1>5, Zenon DEF body, repl

LEMMA FailingRuns ==
    ASSUME NEW b \in Scopes, NEW o \in Scopes, NEW q \in Scopes
    PROVE  /\ Failing(b, o, q) \in Seq(Ran)
           /\ IdsOf(Failing(b, o, q)) = IdsOf(b) \union IdsOf(o) \union IdsOf(q)
           /\ RanAs(Failing(b, o, q), "body") = IdsOf(b) /\ RanAs(Failing(b, o, q), "replaced") = IdsOf(o)
           /\ \A x, y : Before(b, x, y) \/ Before(o, x, y) \/ (y \in IdsOf(b) /\ x \in IdsOf(o)) \/ Before(q, x, y)
                => Before(Failing(b, o, q), y, x)
<1> DEFINE body == "body"
           repl == "replaced"
           new == "acquired"
           l == Replacing(b, o)
           z == l \o RunCleanups(Reverse(q), new)
<1>1. new \in Role /\ body # new /\ repl # new
    BY DEF Role
<1>2. /\ l \in Seq(Ran) /\ IdsOf(l) = IdsOf(b) \union IdsOf(o)
      /\ RanAs(l, body) = IdsOf(b) /\ RanAs(l, repl) = IdsOf(o)
      /\ \A x, y : Before(b, x, y) \/ Before(o, x, y) \/ (y \in IdsOf(b) /\ x \in IdsOf(o)) => Before(l, y, x)
    BY ReplacingRuns, Zenon
<1> HIDE DEF body, repl, new, l
<1>3. /\ z \in Seq(Ran) /\ IdsOf(z) = IdsOf(l) \union IdsOf(q)
      /\ RanAs(z, repl) = RanAs(l, repl) /\ RanAs(z, body) = RanAs(l, body)
      /\ \A x, y : Before(l, y, x) \/ Before(q, x, y) \/ (y \in IdsOf(l) /\ x \in IdsOf(q)) => Before(z, y, x)
  <2>1. l \in Seq(Ran)
      BY <1>2
  <2>2. /\ z \in Seq(Ran) /\ IdsOf(z) = IdsOf(l) \union IdsOf(q)
        /\ \A other : other # new => RanAs(z, other) = RanAs(l, other)
        /\ \A x, y : Before(l, y, x) \/ Before(q, x, y) \/ (y \in IdsOf(l) /\ x \in IdsOf(q))
                       => Before(z, y, x)
      BY <2>1, <1>1, RunThen
  <2>3. QED BY <2>2, <1>1
<1>4. z = Failing(b, o, q)
    BY DEF z, l, new, Failing
<1> HIDE DEF z
<1>5. /\ z \in Seq(Ran) /\ IdsOf(z) = IdsOf(b) \union IdsOf(o) \union IdsOf(q)
      /\ RanAs(z, repl) = IdsOf(o) /\ RanAs(z, body) = IdsOf(b)
      /\ \A x, y : Before(b, x, y) \/ Before(o, x, y) \/ (y \in IdsOf(b) /\ x \in IdsOf(o)) \/ Before(q, x, y)
           => Before(z, y, x)
    BY <1>2, <1>3
<1>6. QED BY <1>4, <1>5, Zenon DEF body, repl

LEMMA FailingAllRuns ==
    ASSUME NEW b \in Scopes, NEW o \in Scopes, NEW q \in Scopes, NEW rest \in Scopes
    PROVE  /\ FailingAll(b, o, q, rest) \in Seq(Ran)
           /\ IdsOf(FailingAll(b, o, q, rest)) = IdsOf(b) \union IdsOf(o) \union IdsOf(q) \union IdsOf(rest)
           /\ RanAs(FailingAll(b, o, q, rest), "body") = IdsOf(b)
           /\ RanAs(FailingAll(b, o, q, rest), "replaced") = IdsOf(o)
           /\ \A x, y : \/ Before(b, x, y) \/ Before(o, x, y) \/ (y \in IdsOf(b) /\ x \in IdsOf(o))
                        \/ Before(q, x, y) \/ Before(rest, x, y)
                        \/ y \in IdsOf(b) \union IdsOf(o) \union IdsOf(q) /\ x \in IdsOf(rest)
                => Before(FailingAll(b, o, q, rest), y, x)
<1> DEFINE body == "body"
           repl == "replaced"
           scope == "scope"
           l == Failing(b, o, q)
           z == l \o RunCleanups(Reverse(rest), scope)
<1>1. scope \in Role /\ body # scope /\ repl # scope
    BY DEF Role
<1>2. /\ l \in Seq(Ran) /\ IdsOf(l) = IdsOf(b) \union IdsOf(o) \union IdsOf(q)
      /\ RanAs(l, body) = IdsOf(b) /\ RanAs(l, repl) = IdsOf(o)
      /\ \A x, y : Before(b, x, y) \/ Before(o, x, y) \/ (y \in IdsOf(b) /\ x \in IdsOf(o)) \/ Before(q, x, y)
           => Before(l, y, x)
  <2>1. /\ l \in Seq(Ran) /\ IdsOf(l) = IdsOf(b) \union IdsOf(o) \union IdsOf(q)
        /\ RanAs(l, body) = IdsOf(b) /\ RanAs(l, repl) = IdsOf(o)
      BY FailingRuns
  <2>2. \A x, y : \/ Before(b, x, y) \/ Before(o, x, y) \/ (y \in IdsOf(b) /\ x \in IdsOf(o)) \/ Before(q, x, y)
          => Before(l, y, x)
      BY FailingRuns
  <2>3. QED BY <2>1, <2>2, Zenon
<1> HIDE DEF body, repl, scope, l
<1>3. /\ z \in Seq(Ran) /\ IdsOf(z) = IdsOf(l) \union IdsOf(rest)
      /\ RanAs(z, repl) = RanAs(l, repl) /\ RanAs(z, body) = RanAs(l, body)
      /\ \A x, y : Before(l, y, x) \/ Before(rest, x, y) \/ (y \in IdsOf(l) /\ x \in IdsOf(rest)) => Before(z, y, x)
  <2>1. l \in Seq(Ran)
      BY <1>2
  <2>2. /\ z \in Seq(Ran) /\ IdsOf(z) = IdsOf(l) \union IdsOf(rest)
        /\ \A other : other # scope => RanAs(z, other) = RanAs(l, other)
        /\ \A x, y : Before(l, y, x) \/ Before(rest, x, y) \/ (y \in IdsOf(l) /\ x \in IdsOf(rest))
                       => Before(z, y, x)
      BY <2>1, <1>1, RunThen
  <2>3. QED BY <2>2, <1>1
<1>4. z = FailingAll(b, o, q, rest)
    BY DEF z, l, scope, FailingAll
<1> HIDE DEF z
<1>5. /\ z \in Seq(Ran) /\ IdsOf(z) = IdsOf(b) \union IdsOf(o) \union IdsOf(q) \union IdsOf(rest)
      /\ RanAs(z, repl) = IdsOf(o) /\ RanAs(z, body) = IdsOf(b)
      /\ \A x, y : \/ Before(b, x, y) \/ Before(o, x, y) \/ (y \in IdsOf(b) /\ x \in IdsOf(o))
                   \/ Before(q, x, y) \/ Before(rest, x, y)
                   \/ y \in IdsOf(b) \union IdsOf(o) \union IdsOf(q) /\ x \in IdsOf(rest)
           => Before(z, y, x)
    BY <1>2, <1>3
<1>6. QED BY <1>4, <1>5, Zenon DEF body, repl

\* What a transition may close, of what is live under it, in its header, in the
\* body scopes above, and what it acquired.
LEMMA TransitionOrderly ==
    ASSUME NEW u \in Scopes, NEW h \in Scopes, NEW b \in Scopes, NEW q \in Scopes, NEW o \in Scopes,
           IdsOf(u) \intersect (IdsOf(h) \union IdsOf(b) \union IdsOf(q)) = {},
           IdsOf(h) \intersect (IdsOf(b) \union IdsOf(q)) = {}, IdsOf(b) \intersect IdsOf(q) = {},
           IdsOf(o) \subseteq IdsOf(h), \A x, y \in IdsOf(o) : Before(h, x, y) => Before(o, x, y),
           NEW frame, h \in ToSet(frame), Last(frame) = q,
           NEW ran, NEW rest \in Scopes,
           RanAs(ran, "body") = IdsOf(b), RanAs(ran, "replaced") = IdsOf(o),
           \A x, y : \/ Before(b, x, y) \/ Before(o, x, y) \/ (y \in IdsOf(b) /\ x \in IdsOf(o))
             => Before(ran, y, x),
           \/ IdsOf(ran) = IdsOf(b) \union IdsOf(o)
           \/ /\ IdsOf(ran) = IdsOf(b) \union IdsOf(o) \union IdsOf(q)
              /\ \A x, y : Before(q, x, y) => Before(ran, y, x)
           \/ /\ IdsOf(ran) = IdsOf(b) \union IdsOf(o) \union IdsOf(q) \union IdsOf(rest)
              /\ \A x, y : \/ Before(q, x, y) \/ Before(rest, x, y)
                           \/ y \in IdsOf(b) \union IdsOf(o) \union IdsOf(q) /\ x \in IdsOf(rest)
                   => Before(ran, y, x)
              /\ IdsOf(rest) = IdsOf(u) \union (IdsOf(h) \ IdsOf(o))
              /\ \A x, y : \/ Before(u, x, y)
                           \/ Before(h, x, y) /\ {x, y} \subseteq IdsOf(h) \ IdsOf(o)
                           \/ x \in IdsOf(u) /\ y \in IdsOf(h) \ IdsOf(o)
                   => Before(rest, x, y)
    PROVE  Orderly(InARow(u, h, b, q), ran, frame)
<1> DEFINE z == InARow(u, h, b, q)
           U == IdsOf(u)
           H == IdsOf(h)
           B == IdsOf(b)
           Q == IdsOf(q)
           O == IdsOf(o)
<1>0. Standing(z, u, h, b, q)
    BY BeforeFour
<1> HIDE DEF z
<1>1. /\ IdsOf(z) = U \union H \union B \union Q
      /\ \A x, y : Before(z, x, y) =>
           \/ Before(u, x, y) \/ Before(h, x, y) \/ Before(b, x, y) \/ Before(q, x, y)
           \/ x \in U /\ y \in H \union B \union Q
           \/ x \in H /\ y \in B \union Q
           \/ x \in B /\ y \in Q
    BY <1>0, Zenon DEF Standing
<1>2. /\ \A x, y : Before(u, x, y) => x \in U /\ y \in U
      /\ \A x, y : Before(h, x, y) => x \in H /\ y \in H
      /\ \A x, y : Before(b, x, y) => x \in B /\ y \in B
      /\ \A x, y : Before(q, x, y) => x \in Q /\ y \in Q
    BY DEF Before, IdsOf
<1> HIDE DEF z
<1>3. ASSUME NEW x \in B \union O, NEW y, Before(z, x, y)
      PROVE  \/ Before(ran, y, x)
             \/ x \in RanAs(ran, "body") \union RanAs(ran, "replaced") /\ y \in IdsOf(Last(frame))
             \/ /\ x \in RanAs(ran, "replaced") /\ y \notin RanAs(ran, "replaced")
                /\ \E s \in ToSet(frame) : {x, y} \subseteq IdsOf(s)
  <2>1. CASE x \in B
    <3>1. Before(b, x, y) \/ y \in Q
        BY <2>1, <1>1, <1>2, <1>3
    <3>2. QED BY <3>1, <2>1
  <2>2. CASE x \in O
    <3>1. Before(h, x, y) \/ y \in B \/ y \in Q
        BY <2>2, <1>1, <1>2, <1>3
    <3>2. CASE Before(h, x, y)
      <4>1. y \in H /\ x \in H
          BY <3>2, <1>2
      <4>2. CASE y \in O
          BY <4>2, <3>2, <2>2
      <4>3. CASE y \notin O
          BY <4>1, <4>3, <2>2
      <4>4. QED BY <4>2, <4>3
    <3>3. CASE y \in B
        BY <3>3, <2>2
    <3>4. CASE y \in Q
        BY <3>4, <2>2
    <3>5. QED BY <3>1, <3>2, <3>3, <3>4
  <2>3. QED BY <2>1, <2>2
<1>4. ASSUME NEW x \in Q, NEW y, Before(z, x, y) PROVE Before(q, x, y)
    BY <1>1, <1>2, <1>4
<1>5. B \union O \subseteq IdsOf(z) /\ Q \subseteq IdsOf(z)
    BY <1>1
<1>6. CASE IdsOf(ran) = B \union O
  <2> SUFFICES ASSUME NEW x \in B \union O
               PROVE  /\ x \in IdsOf(z)
                      /\ \A y : Before(z, x, y) =>
                           \/ Before(ran, y, x)
                           \/ x \in RanAs(ran, "body") \union RanAs(ran, "replaced") /\ y \in IdsOf(Last(frame))
                           \/ /\ x \in RanAs(ran, "replaced") /\ y \notin RanAs(ran, "replaced")
                              /\ \E s \in ToSet(frame) : {x, y} \subseteq IdsOf(s)
      BY <1>6, Zenon DEF Orderly, z
  <2>1. QED BY <1>3, <1>5, Zenon
<1>7. CASE /\ IdsOf(ran) = B \union O \union Q
           /\ \A x, y : Before(q, x, y) => Before(ran, y, x)
  <2> SUFFICES ASSUME NEW x \in B \union O \union Q
               PROVE  /\ x \in IdsOf(z)
                      /\ \A y : Before(z, x, y) =>
                           \/ Before(ran, y, x)
                           \/ x \in RanAs(ran, "body") \union RanAs(ran, "replaced") /\ y \in IdsOf(Last(frame))
                           \/ /\ x \in RanAs(ran, "replaced") /\ y \notin RanAs(ran, "replaced")
                              /\ \E s \in ToSet(frame) : {x, y} \subseteq IdsOf(s)
      BY <1>7, Zenon DEF Orderly, z
  <2>1. CASE x \in B \union O
      BY <2>1, <1>3, <1>5, Zenon
  <2>2. CASE x \in Q
      BY <2>2, <1>4, <1>5, <1>7, Zenon
  <2>3. QED BY <2>1, <2>2
<1>8. CASE /\ IdsOf(ran) = B \union O \union Q \union IdsOf(rest)
           /\ \A x, y : \/ Before(q, x, y) \/ Before(rest, x, y)
                        \/ y \in B \union O \union Q /\ x \in IdsOf(rest)
                => Before(ran, y, x)
           /\ IdsOf(rest) = U \union (H \ O)
           /\ \A x, y : \/ Before(u, x, y)
                        \/ Before(h, x, y) /\ {x, y} \subseteq H \ O
                        \/ x \in U /\ y \in H \ O
                => Before(rest, x, y)
  <2> SUFFICES ASSUME NEW x \in B \union O \union Q \union IdsOf(rest)
               PROVE  /\ x \in IdsOf(z)
                      /\ \A y : Before(z, x, y) =>
                           \/ Before(ran, y, x)
                           \/ x \in RanAs(ran, "body") \union RanAs(ran, "replaced") /\ y \in IdsOf(Last(frame))
                           \/ /\ x \in RanAs(ran, "replaced") /\ y \notin RanAs(ran, "replaced")
                              /\ \E s \in ToSet(frame) : {x, y} \subseteq IdsOf(s)
      BY <1>8, Zenon DEF Orderly, z
  <2>1. CASE x \in B \union O
      BY <2>1, <1>3, <1>5, Zenon
  <2>2. CASE x \in Q
      BY <2>2, <1>4, <1>5, <1>8, Zenon
  <2>3. ASSUME x \in U, NEW y, Before(z, x, y) PROVE Before(ran, y, x)
    <3>1. Before(u, x, y) \/ y \in H \ O \/ y \in B \union O \union Q
        BY <2>3, <1>1, <1>2
    <3>2. x \in IdsOf(rest)
        BY <2>3, <1>8
    <3>3. CASE Before(u, x, y)
        BY <3>3, <1>8
    <3>4. CASE y \in H \ O
        BY <3>4, <2>3, <1>8
    <3>5. CASE y \in B \union O \union Q
        BY <3>5, <3>2, <1>8
    <3>6. QED BY <3>1, <3>3, <3>4, <3>5
  <2>4. ASSUME x \in H \ O, NEW y, Before(z, x, y) PROVE Before(ran, y, x)
    <3>1. (Before(h, x, y) /\ y \in H \ O) \/ y \in B \union O \union Q
        BY <2>4, <1>1, <1>2
    <3>2. x \in IdsOf(rest)
        BY <2>4, <1>8
    <3>3. CASE Before(h, x, y) /\ y \in H \ O
      <4>1. {x, y} \subseteq H \ O
          BY <3>3, <2>4
      <4>2. Before(rest, x, y)
          BY <4>1, <3>3, <1>8
      <4>3. QED BY <4>2, <1>8
    <3>4. CASE y \in B \union O \union Q
        BY <3>4, <3>2, <1>8
    <3>5. QED BY <3>1, <3>3, <3>4
  <2>5. x \in IdsOf(z)
      BY <1>1, <1>5, <1>8
  <2>6. CASE x \in U \union (H \ O)
    <3>1. x \in U \/ x \in H \ O
        BY <2>6
    <3>2. QED BY <3>1, <2>3, <2>4, <2>5, Zenon
  <2>7. QED BY <2>1, <2>2, <2>6, <1>8
<1>9. QED BY <1>6, <1>7, <1>8 DEF z

\* A transition that goes on has installed every new cleanup in the place of an old one.
LEMMA TransitionGoesOn ==
    ASSUME NEW frame \in Seq(Scopes), Distinct(FlattenSeq(frame)), NEW q, Last(frame) = q,
           NEW h, h \in ToSet(frame), NEW O, O \subseteq IdsOf(h),
           NEW left, Len(left) = Len(h),
           \A s \in DOMAIN left : IF h[s].id \in O THEN left[s].id \in IdsOf(q) ELSE left[s] = h[s],
           NEW stack, left \in ToSet(Last(stack)),
           O \intersect IdsOf(LiveOf(stack)) = {}, IdsOf(q) \subseteq IdsOf(LiveOf(stack)),
           NEW ran, RanAs(ran, "replaced") = O
    PROVE  AllOrNothing(ran, frame, stack, "running")
<1> DEFINE olds == {ran[k].id : k \in {k \in DOMAIN ran : ran[k].role = "replaced"}}
           news == IdsOf(Last(frame))
           live == IdsOf(FlattenSeq(FlattenSeq(stack)))
           Header(id) == CHOOSE s \in ToSet(frame) : id \in IdsOf(s)
<1>1. olds = O
    BY DEF RanAs
<1>2. olds \intersect live = {} /\ news \subseteq live
    BY <1>1, Zenon DEF LiveOf
<1>3. \A id \in O : Header(id) = h
    BY OneScope
<1> HIDE DEF olds, live, Header
<1>4. ASSUME NEW id \in olds
      PROVE  /\ Len(left) = Len(Header(id))
             /\ \A i \in DOMAIN left : IF Header(id)[i].id \in olds THEN left[i].id \in news
                                                                   ELSE left[i] = Header(id)[i]
  <2>1. Header(id) = h
      BY <1>1, <1>3, <1>4
  <2>2. QED BY <2>1, <1>1, Zenon
<1> HIDE DEF news
<1>5. QED BY <1>2, <1>4, Zenon DEF AllOrNothing, olds, news, live, Header

\* One that fails has closed every old and every new cleanup.
LEMMA TransitionFails ==
    ASSUME NEW frame, NEW q, Last(frame) = q, NEW O, NEW stack,
           (O \union IdsOf(q)) \intersect IdsOf(LiveOf(stack)) = {},
           NEW ran, RanAs(ran, "replaced") = O, IdsOf(q) \subseteq IdsOf(ran),
           NEW stands, stands # "running"
    PROVE  AllOrNothing(ran, frame, stack, stands)
<1> DEFINE olds == {ran[k].id : k \in {k \in DOMAIN ran : ran[k].role = "replaced"}}
           news == IdsOf(Last(frame))
           live == IdsOf(FlattenSeq(FlattenSeq(stack)))
<1>1. olds = O /\ live = IdsOf(LiveOf(stack))
    BY DEF RanAs, LiveOf
<1> HIDE DEF olds, live
<1>2. olds \intersect live = {} /\ news \intersect live = {} /\ news \subseteq IdsOf(ran)
    BY <1>1
<1> HIDE DEF news
<1>3. QED BY <1>2, Zenon DEF AllOrNothing, olds, news, live

=============================================================================
