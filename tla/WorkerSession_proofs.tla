------------------------ MODULE WorkerSession_proofs ------------------------
(***************************************************************************)
(* Safety of a worker's session, for any spellings, files, edits and jobs: *)
(* what a job is answered from is its snapshot, and what a session came to *)
(* step by step is what one rebuilt from the snapshot sees.                *)
(***************************************************************************)
EXTENDS WorkerSession, FiniteSetTheorems, SequenceTheorems, TLAPS

-----------------------------------------------------------------------------
(* The inductive invariant.                                                *)

\* A snapshot can be put in update order, and is no later than the notices.
Ordered(docs) ==
    /\ IsFiniteSet(DOMAIN docs)
    /\ \A u, v \in DOMAIN docs : docs[u].update = docs[v].update => u = v

Sensible(s, notices) ==
    /\ IsStore(s) /\ Ordered(s.docs) /\ s.filesystem <= notices
    /\ \A u \in DOMAIN s.docs : s.docs[u].update <= s.revision

JobOK(j, notices) ==
    /\ IsJob(j) /\ Sensible(j.of, notices)
    /\ j.kind = "close" =>
          /\ Sensible(j.after, notices) /\ j.after.docs = Without(j.of.docs, {j.uri})
          /\ j.after.release = j.of.release /\ j.after.filesystem = j.of.filesystem
    /\ j.kind = "watch" => IsFiniteSet(j.files)
    /\ j.kind \in {"references", "symbols"} => j.uri \in DOMAIN j.of.docs

\* What a URI belongs to, as the manifest is now.
IdOf(u) == [kind |-> IF manifest = "present" THEN "project" ELSE "loose", file |-> FileOf[u]]

\* An open spelling speaks for the module.
Spoken(c, id) ==
    /\ id \in DOMAIN c.overlays /\ c.overlays[id] \in DOMAIN c.docs
    /\ id \in DOMAIN c.sources /\ c.sources[id] = Overlay(c, c.overlays[id])

Names(c) ==
    /\ \A u \in DOMAIN c.identities : c.identities[u] = IdOf(u)
    /\ \A id \in DOMAIN c.overlays : id = IdOf(c.overlays[id])

Known(c) ==
    /\ IF manifest = "broken" THEN DOMAIN c.identities = {} /\ c.errors = DOMAIN c.docs
                              ELSE DOMAIN c.docs \subseteq DOMAIN c.identities /\ c.errors = {}
    /\ manifest = "present" /\ DOMAIN c.docs # {} => c.synchronized

\* The session is one made under the manifest as it is.
Settled(c) ==
    /\ Names(c) /\ Known(c)
    /\ \A u \in DOMAIN c.docs \cap DOMAIN c.identities : Spoken(c, IdOf(u))

Shut(c, f) == \A u \in DOMAIN c.docs : FileOf[u] # f

\* It has read the files as they are.
FromDisk(c) ==
    manifest = "present" /\ c.synchronized =>
        \A f \in Files : Shut(c, f) =>
            LET id == [kind |-> "project", file |-> f]
            IN  IF disk[f] # 0 THEN id \in DOMAIN c.sources /\ c.sources[id] = OnDisk(f)
                               ELSE id \notin DOMAIN c.sources

\* The session is of the last notice, and what is in S has not changed since.
Base == IF pc = "sync" THEN job.of.filesystem ELSE snapshot.filesystem
Current(S) ==
    /\ pc # "idle" \/ initialized
    /\ Base = store.filesystem /\ untold \cap S = {}

\* What is still to be done makes the documents those of the job.
Pending(steps, have, want) ==
    /\ \A i \in DOMAIN steps : steps[i].do = "close" <=> steps[i].uri \notin DOMAIN want
    /\ \A u \in Uris : (\A i \in DOMAIN steps : steps[i].uri # u) =>
          /\ u \in DOMAIN have <=> u \in DOMAIN want
          /\ u \in DOMAIN have => have[u] = want[u]

Agreement ==
    /\ pc = "sync" => /\ Pending(todo, compiler.docs, job.of.docs)
                      /\ compiler.release = job.of.release
    /\ pc \in {"work", "answer"} => initialized
    /\ pc # "sync" /\ initialized => /\ compiler.docs = snapshot.docs
                                     /\ compiler.release = snapshot.release
    /\ pc = "work" => snapshot = job.of

Snapshots ==
    /\ Sensible(store, store.filesystem) /\ Sensible(snapshot, store.filesystem)
    /\ \A j \in jobs : JobOK(j, store.filesystem)
    /\ pc # "idle" => JobOK(job, store.filesystem)
    /\ IsFiniteSet(untold) /\ IsFiniteSet(DOMAIN compiler.docs)

Fresh ==
    /\ Current({"manifest"}) => Settled(compiler)
    /\ Current(Files \cup {"manifest"}) => FromDisk(compiler)

IndInv == TypeOK /\ Snapshots /\ Agreement /\ Fresh

\* The folds of WorkerSession, in the form FoldFacts has them.
Opening(s, c, u) == OpenOrChange(c, u, s.docs[u])
Refreshing(x, c, f) == RefreshSource(c, f)
Openings == INSTANCE FoldFacts WITH Step <- Opening
Refreshes == INSTANCE FoldFacts WITH Step <- Refreshing

-----------------------------------------------------------------------------
(* Finite sets in order.                                                   *)

\* A finite set has an element of the greatest measure.
LEMMA GreatestMeasure ==
    ASSUME NEW S, IsFiniteSet(S), S # {}, NEW m, \A x \in S : m[x] \in Int
    PROVE  \E x \in S : \A y \in S : m[y] <= m[x]
<1> DEFINE n == Cardinality(S)
<1>1. n \in Nat /\ n # 0 /\ ExistsBijection(1 .. n, S)
    BY FS_CardinalityType, FS_EmptySet
<1> HIDE DEF n
<1>2. PICK e \in [1 .. n -> S] : \A x \in S : \E i \in 1 .. n : e[i] = x
    BY <1>1 DEF ExistsBijection, Bijection, Surjection
<1> DEFINE w == [i \in 1 .. n |-> m[e[i]]]
<1>3. w \in [1 .. n -> Int] /\ \A i \in 1 .. n : w[i] = m[e[i]]
    BY <1>2
<1> HIDE DEF w
<1> DEFINE Tops(k, i) == \A j \in 1 .. k : w[j] <= w[i]
           Bad == {k \in 1 .. n : ~\E i \in 1 .. k : Tops(k, i)}
<1>4. Bad = {}
  <2> SUFFICES ASSUME Bad # {} PROVE FALSE
      OBVIOUS
  <2>1. Bad \in SUBSET Nat
      OBVIOUS
  <2>2. PICK k \in Nat : k \in Bad /\ \A i \in Bad : k <= i
    <3> HIDE DEF Bad
    <3>1. QED BY <2>1, Openings!LeastNatural
  <2>3. k \in 1 .. n /\ k - 1 \notin Bad
    <3>1. k \in 1 .. n
        BY <2>2
    <3>2. ~(k <= k - 1)
        BY <3>1, <1>1
    <3> HIDE DEF Bad
    <3>3. QED BY <2>2, <3>1, <3>2
  <2>4. k # 1
    <3>1. ASSUME k = 1 PROVE Tops(1, 1)
      <4> HIDE DEF Tops, Bad
      <4>1. 1 \in 1 .. n
          BY <3>1, <2>3
      <4>2. w[1] \in Int
          BY <4>1, <1>3
      <4>3. ASSUME NEW j \in 1 .. 1 PROVE w[j] <= w[1]
        <5>1. j = 1
            BY <4>3
        <5>2. QED BY <5>1, <4>2
      <4>4. QED BY <4>3 DEF Tops
    <3>2. QED BY <3>1, <2>2
  <2>5. k - 1 \in 1 .. n /\ 1 .. k = (1 .. (k - 1)) \cup {k} /\ 1 .. k \subseteq 1 .. n
    <3> HIDE DEF Tops, Bad
    <3>1. k \in 1 .. n
        BY <2>3
    <3>2. k - 1 \in 1 .. n
        BY <3>1, <2>4, <1>1
    <3>3. 1 .. k = (1 .. (k - 1)) \cup {k}
        BY <3>1, <1>1
    <3>4. 1 .. k \subseteq 1 .. n
        BY <3>1, <1>1
    <3>5. QED BY <3>2, <3>3, <3>4
  <2>6. PICK i \in 1 .. (k - 1) : Tops(k - 1, i)
      BY <2>3, <2>5
  <2>7. i \in 1 .. n /\ w[i] \in Int /\ w[k] \in Int
      BY <2>3, <2>5, <1>3
  <2>8. CASE w[k] <= w[i]
    <3>1. Tops(k, i)
        BY <2>5, <2>6, <2>8
    <3>2. QED BY <2>2, <2>5, <3>1
  <2>9. CASE w[i] <= w[k]
    <3>1. ASSUME NEW j \in 1 .. (k - 1) PROVE w[j] <= w[k]
      <4>1. w[j] \in Int /\ w[j] <= w[i]
          BY <2>5, <2>6, <1>3
      <4> HIDE DEF Tops, Bad
      <4>2. ASSUME NEW a \in Int, NEW b \in Int, NEW c \in Int, a <= b, b <= c
            PROVE  a <= c
          BY <4>2
      <4>3. QED BY <4>1, <4>2, <2>7, <2>9
    <3>2. Tops(k, k)
        BY <3>1, <2>5, <2>7
    <3>3. QED BY <2>2, <2>5, <3>2
  <2>10. w[k] <= w[i] \/ w[i] <= w[k]
    <3> HIDE DEF Tops, Bad
    <3>1. ASSUME NEW a \in Int, NEW b \in Int PROVE a <= b \/ b <= a
        BY <3>1
    <3>2. QED BY <2>7, <3>1
  <2>11. QED BY <2>8, <2>9, <2>10
<1>5. PICK i \in 1 .. n : Tops(n, i)
  <2>1. n \in 1 .. n
      BY <1>1
  <2>2. QED BY <2>1, <1>4
<1>6. \A y \in S : m[y] <= m[e[i]]
    BY <1>2, <1>3, <1>5
<1>7. QED BY <1>2, <1>6

\* Elements with measures of their own can be put in the order of these.
LEMMA OrderExists ==
    ASSUME NEW D, IsFiniteSet(D), NEW m, \A x \in D : m[x] \in Nat,
           \A x, y \in D : m[x] = m[y] => x = y
    PROVE  \E s \in [1 .. Cardinality(D) -> D] :
              \A i, j \in DOMAIN s : i < j => m[s[i]] < m[s[j]]
<1> DEFINE n == Cardinality(D)
           Below(x) == {y \in D : m[y] <= m[x]}
           r == [x \in D |-> Cardinality(Below(x))]
<1>1. n \in Nat
    BY FS_CardinalityType
<1>2. \A x \in D : IsFiniteSet(Below(x)) /\ Cardinality(Below(x)) \in Nat
                     /\ Cardinality(Below(x)) <= n /\ Cardinality(Below(x)) # 0
  <2> TAKE x \in D
  <2>1. x \in Below(x) /\ Below(x) \in SUBSET D
      OBVIOUS
  <2> HIDE DEF Below
  <2>2. QED BY <2>1, FS_Subset, FS_CardinalityType, FS_EmptySet
<1>3. ASSUME NEW x \in D, NEW y \in D, m[x] < m[y]
      PROVE  r[x] < r[y]
  <2>1. Below(x) \in SUBSET Below(y) /\ y \in Below(y) /\ y \notin Below(x)
      BY <1>3
  <2>2. IsFiniteSet(Below(y)) /\ Cardinality(Below(x)) \in Nat /\ Cardinality(Below(y)) \in Nat
      BY <1>2
  <2> HIDE DEF Below
  <2>3. Cardinality(Below(x)) <= Cardinality(Below(y)) /\ Cardinality(Below(x)) # Cardinality(Below(y))
      BY <2>1, <2>2, FS_Subset
  <2>4. QED BY <2>2, <2>3
<1>4. r \in [D -> 1 .. n]
    BY <1>1, <1>2
<1>5. \A x, y \in D : r[x] = r[y] => x = y
  <2> SUFFICES ASSUME NEW x \in D, NEW y \in D, r[x] = r[y] PROVE x = y
      OBVIOUS
  <2> HIDE DEF r
  <2>1. r[x] \in 1 .. n
      BY <1>4
  <2>2. ~(r[x] < r[y]) /\ ~(r[y] < r[x])
      BY <2>1
  <2>3. ~(m[x] < m[y]) /\ ~(m[y] < m[x])
      BY <1>3, <2>2
  <2>4. QED BY <2>3
<1> HIDE DEF r
<1>6. \A i \in 1 .. n : \E x \in D : r[x] = i
  <2>1. r \in Injection(D, 1 .. n)
      BY <1>4, <1>5 DEF Injection, IsInjective
  <2>2. IsFiniteSet(1 .. n) /\ Cardinality(1 .. n) = n
      BY <1>1, FS_Interval
  <2>3. r \in Surjection(D, 1 .. n)
      BY <2>1, <2>2, FS_Injection
  <2>4. QED BY <2>3 DEF Surjection
<1> DEFINE s == [i \in 1 .. n |-> CHOOSE x \in D : r[x] = i]
<1>7. s \in [1 .. n -> D] /\ \A i \in 1 .. n : r[s[i]] = i
    BY <1>6
<1> HIDE DEF s
<1>8. ASSUME NEW i \in 1 .. n, NEW j \in 1 .. n, i < j PROVE m[s[i]] < m[s[j]]
  <2>1. s[i] \in D /\ s[j] \in D /\ r[s[i]] = i /\ r[s[j]] = j
      BY <1>7
  <2>2. s[i] # s[j] /\ ~(j < i)
      BY <2>1, <1>8
  <2>3. ~(m[s[j]] < m[s[i]])
      BY <2>1, <2>2, <1>3
  <2>4. QED BY <2>1, <2>2, <2>3
<1>9. QED BY <1>7, <1>8

\* A snapshot in update order has every document.
LEMMA UpdateOrder ==
    ASSUME NEW docs, IsMap(docs, Uris, Document), Ordered(docs)
    PROVE  /\ InUpdateOrder(docs) \in Seq(DOMAIN docs)
           /\ \A u \in DOMAIN docs : \E i \in 1 .. Len(InUpdateOrder(docs)) : InUpdateOrder(docs)[i] = u
<1> DEFINE D == DOMAIN docs
           n == Cardinality(D)
           m == [u \in D |-> docs[u].update]
           Sorts(s) == \A i, j \in DOMAIN s : i < j => docs[s[i]].update < docs[s[j]].update
           s == InUpdateOrder(docs)
<1>1. IsFiniteSet(D) /\ n \in Nat /\ \A u \in D : docs[u].update \in Nat
    BY FS_CardinalityType DEF Ordered, IsMap, Document
<1>2. \E t \in [1 .. n -> D] : Sorts(t)
  <2>1. (\A x \in D : m[x] \in Nat) /\ (\A x, y \in D : m[x] = m[y] => x = y)
      BY <1>1 DEF Ordered
  <2>2. PICK t \in [1 .. n -> D] : \A i, j \in DOMAIN t : i < j => m[t[i]] < m[t[j]]
    <3> HIDE DEF m, D
    <3>1. QED BY <2>1, <1>1, OrderExists
  <2>3. Sorts(t)
      BY <2>2
  <2>4. QED BY <2>3
<1>3. s \in [1 .. n -> D] /\ Sorts(s)
    BY <1>2 DEF InUpdateOrder
<1> HIDE DEF s, n, D
<1>4. s \in Seq(D) /\ Len(s) = n
    BY <1>1, <1>3
<1>5. s \in Injection(1 .. n, D)
  <2>1. ASSUME NEW i \in 1 .. n, NEW j \in 1 .. n, s[i] = s[j] PROVE i = j
    <3>1. s[i] \in D /\ docs[s[i]].update \in Nat
        BY <1>1, <1>3
    <3>2. ~(i < j) /\ ~(j < i)
        BY <2>1, <3>1, <1>3
    <3>3. QED BY <3>2, <1>1
  <2>2. QED BY <2>1, <1>3 DEF Injection, IsInjective
<1>6. s \in Surjection(1 .. n, D)
  <2>1. IsFiniteSet(1 .. n) /\ Cardinality(1 .. n) = n
      BY <1>1, FS_Interval
  <2>2. QED BY <2>1, <1>1, <1>5, FS_Injection DEF n
<1>7. QED BY <1>4, <1>6 DEF Surjection, s, D

\* A finite set can be put in a row.
LEMMA InARow ==
    ASSUME NEW S, IsFiniteSet(S)
    PROVE  SetToSeq(S) \in Seq(S)
<1> DEFINE n == Cardinality(S)
<1>1. n \in Nat /\ \E f \in [1 .. n -> S] : IsInjective(f)
    BY FS_CardinalityType DEF ExistsBijection, Bijection, Injection
<1>2. SetToSeq(S) \in [1 .. n -> S]
    BY <1>1, Zenon DEF SetToSeq
<1>3. QED BY <1>1, <1>2

\* Of some open spellings one has the highest client version.
LEMMA NewestIsOne ==
    ASSUME NEW c, IsCompiler(c), NEW S \in SUBSET DOMAIN c.docs, IsFiniteSet(S), S # {}
    PROVE  Newest(c, S) # {} /\ Newest(c, S) \subseteq S
<1> DEFINE version == [u \in S |-> c.docs[u].version]
<1>1. \A u \in S : u \in Uris /\ c.docs[u].version \in Int
    BY DEF IsCompiler, IsMap, Document
<1>2. PICK x \in S : \A y \in S : version[y] <= version[x]
  <2>1. \A u \in S : version[u] \in Int
      BY <1>1
  <2> HIDE DEF version
  <2>2. QED BY <2>1, GreatestMeasure
<1> DEFINE T == {u \in S : version[u] = version[x]}
           rank == [u \in T |-> Rank[u]]
<1>3. T # {} /\ IsFiniteSet(T)
  <2>1. x \in T /\ T \in SUBSET S
      OBVIOUS
  <2> HIDE DEF T
  <2>2. QED BY <2>1, FS_Subset
<1>4. PICK u \in T : \A y \in T : rank[y] <= rank[u]
  <2>1. \A y \in T : rank[y] \in Int
      BY <1>1, SpellingAssumption
  <2> HIDE DEF rank, T
  <2>2. QED BY <2>1, <1>3, GreatestMeasure
<1>5. ASSUME NEW v \in S \ {u}
      PROVE  \/ c.docs[v].version < c.docs[u].version
             \/ c.docs[v].version = c.docs[u].version /\ Rank[v] < Rank[u]
  <2>1. c.docs[v].version <= c.docs[u].version
      BY <1>2, <1>4
  <2>2. CASE c.docs[v].version = c.docs[u].version
    <3>1. v \in T /\ Rank[v] <= Rank[u]
        BY <1>4, <2>2
    <3>2. Rank[v] \in Nat /\ Rank[u] \in Nat /\ Rank[v] # Rank[u]
        BY <1>1, <1>5, SpellingAssumption
    <3>3. QED BY <2>2, <3>1, <3>2
  <2>3. QED BY <1>1, <2>1, <2>2
<1>6. u \in Newest(c, S)
    BY <1>5 DEF Newest
<1>7. QED BY <1>6 DEF Newest

-----------------------------------------------------------------------------
(* What the operations on a session do to it.                              *)

Usable(c) == IsCompiler(c) /\ IsFiniteSet(DOMAIN c.docs)
World == disk \in [Files -> 0 .. 2] /\ manifest \in {"present", "absent", "broken"}
Project(f) == [kind |-> "project", file |-> f]

LEMMA OverIs ==
    ASSUME NEW D, NEW R, NEW f, NEW g, IsMap(f, D, R), IsMap(g, D, R)
    PROVE  IsMap(Over(g, f), D, R)
BY DEF IsMap, Over

LEMMA WithIs ==
    ASSUME NEW D, NEW R, NEW f, NEW x \in D, NEW v \in R, IsMap(f, D, R)
    PROVE  IsMap(With(f, x, v), D, R)
BY DEF IsMap, With, Over

LEMMA WithoutIs ==
    ASSUME NEW D, NEW R, NEW f, NEW S, IsMap(f, D, R)
    PROVE  IsMap(Without(f, S), D, R)
BY DEF IsMap, Without, Restrict

\* d differs from c only in who speaks for a module and where its text is from.
Alike(c, d) ==
    /\ d.docs = c.docs /\ d.identities = c.identities /\ d.errors = c.errors
    /\ d.synchronized = c.synchronized /\ d.release = c.release

LEMMA SetSourceIs ==
    ASSUME NEW c, IsCompiler(c), NEW id \in Identity, NEW source \in Source
    PROVE  LET d == SetSource(c, id, source)
           IN  /\ IsCompiler(d) /\ Alike(c, d) /\ d.overlays = c.overlays
               /\ d.sources = With(c.sources, id, source)
<1>1. IsMap(With(c.sources, id, source), Identity, Source)
    BY WithIs DEF IsCompiler
<1>2. QED BY <1>1 DEF IsCompiler, SetSource, Alike

LEMMA RemoveSourceIs ==
    ASSUME NEW c, IsCompiler(c), NEW id
    PROVE  LET d == RemoveSource(c, id)
           IN  /\ IsCompiler(d) /\ Alike(c, d) /\ d.overlays = c.overlays
               /\ d.sources = Without(c.sources, {id})
<1>1. IsMap(Without(c.sources, {id}), Identity, Source)
    BY WithoutIs DEF IsCompiler
<1>2. QED BY <1>1 DEF IsCompiler, RemoveSource, Alike

LEMMA SourceFromDiskIs ==
    ASSUME World, NEW c, IsCompiler(c), NEW id \in Identity
    PROVE  LET d == SourceFromDisk(c, id)
           IN  /\ IsCompiler(d) /\ Alike(c, d) /\ d.overlays = c.overlays
               /\ d.sources = IF disk[id.file] # 0 THEN With(c.sources, id, OnDisk(id.file))
                                                   ELSE Without(c.sources, {id})
<1>1. OnDisk(id.file) \in Source
    BY DEF OnDisk, Source, Identity, World
<1>2. QED BY <1>1, SetSourceIs, RemoveSourceIs DEF SourceFromDisk

LEMMA OverlayType ==
    ASSUME NEW c, IsCompiler(c), NEW v \in DOMAIN c.docs
    PROVE  Overlay(c, v) \in Source /\ v \in Uris
BY DEF IsCompiler, IsMap, Document, Overlay, Source

LEMMA TakeOverIs ==
    ASSUME NEW c, IsCompiler(c), NEW id \in Identity, NEW v \in DOMAIN c.docs
    PROVE  LET d == TakeOver(c, id, v)
           IN  /\ IsCompiler(d) /\ Alike(c, d)
               /\ d.overlays = With(c.overlays, id, v)
               /\ d.sources = With(c.sources, id, Overlay(c, v))
<1>1. Overlay(c, v) \in Source /\ v \in Uris
    BY OverlayType
<1> DEFINE e == SetSource(c, id, Overlay(c, v))
<1>2. /\ IsCompiler(e) /\ Alike(c, e) /\ e.overlays = c.overlays
      /\ e.sources = With(c.sources, id, Overlay(c, v))
    BY <1>1, SetSourceIs
<1>3. TakeOver(c, id, v) = [e EXCEPT !.overlays = With(e.overlays, id, v)]
    BY DEF TakeOver
<1> HIDE DEF e
<1>4. IsMap(With(e.overlays, id, v), Identity, Uris)
    BY <1>1, <1>2, WithIs DEF IsCompiler
<1>5. QED BY <1>2, <1>3, <1>4 DEF IsCompiler, Alike

\* Who may take a module over, and that somebody can.
LEMMA RemainingIs ==
    ASSUME NEW c, Usable(c), NEW id, NEW excluded
    PROVE  LET r == RemainingOverlay(c, id, excluded)
           IN  /\ r \subseteq DOMAIN c.docs \ excluded
               /\ \A v \in r : Spells(c, v, id) \/ (id \in DOMAIN c.overlays /\ c.overlays[id] = v)
               /\ \A u \in DOMAIN c.docs \ excluded :
                    Spells(c, u, id) \/ (id \in DOMAIN c.overlays /\ c.overlays[id] = u) => r # {}
<1> DEFINE kept == {u \in DOMAIN c.docs \ excluded : id \in DOMAIN c.overlays /\ c.overlays[id] = u}
           S == {u \in DOMAIN c.docs \ excluded : Spells(c, u, id)}
<1>1. RemainingOverlay(c, id, excluded) = IF kept # {} THEN kept ELSE Newest(c, S)
    BY DEF RemainingOverlay
<1>2. S \in SUBSET DOMAIN c.docs /\ Newest(c, S) \subseteq S
    BY DEF Newest
<1>3. S # {} => Newest(c, S) # {}
  <2> HIDE DEF S
  <2>1. IsFiniteSet(S) /\ IsCompiler(c)
      BY <1>2, FS_Subset DEF Usable
  <2>2. QED BY <2>1, <1>2, NewestIsOne
<1>4. CASE kept # {}
    BY <1>1, <1>4
<1>5. CASE kept = {}
  <2> HIDE DEF kept
  <2>1. RemainingOverlay(c, id, excluded) = Newest(c, S)
      BY <1>1, <1>5
  <2>2. \A u \in DOMAIN c.docs \ excluded : ~(id \in DOMAIN c.overlays /\ c.overlays[id] = u)
      BY <1>5 DEF kept
  <2>3. \A u \in DOMAIN c.docs \ excluded : Spells(c, u, id) => S # {}
      OBVIOUS
  <2>4. \A w \in S : w \in DOMAIN c.docs \ excluded /\ Spells(c, w, id)
      OBVIOUS
  <2> HIDE DEF S
  <2> DEFINE r == RemainingOverlay(c, id, excluded)
  <2>5. r \subseteq S /\ (S # {} => r # {})
      BY <2>1, <1>2, <1>3
  <2> HIDE DEF r
  <2>6. r \subseteq DOMAIN c.docs \ excluded /\ \A w \in r : Spells(c, w, id)
      BY <2>4, <2>5
  <2>7. ASSUME NEW u \in DOMAIN c.docs \ excluded,
               Spells(c, u, id) \/ (id \in DOMAIN c.overlays /\ c.overlays[id] = u)
        PROVE  r # {}
      BY <2>2, <2>3, <2>5, <2>7
  <2>8. QED BY <2>6, <2>7 DEF r
<1>6. QED BY <1>4, <1>5

\* What holds of a step whatever the manifest and the files are.
KeepsUse(c, d) == IsCompiler(d) /\ d.docs = c.docs /\ d.release = c.release

\* The last document of a project leaves it.
LEMMA RetireProjectUse ==
    ASSUME NEW c, IsCompiler(c) PROVE KeepsUse(c, RetireProject(c))
<1> DEFINE O == {id \in DOMAIN c.overlays : id \in DOMAIN c.sources /\ id.kind = "project"}
           S == {id \in DOMAIN c.sources : id.kind = "project"}
           U == {u \in DOMAIN c.identities \ DOMAIN c.docs : c.identities[u].kind = "project"}
<1>1. RetireProject(c) = [c EXCEPT !.overlays = Without(c.overlays, O), !.sources = Without(c.sources, S),
                                   !.identities = Without(c.identities, U)]
    BY DEF RetireProject
<1> HIDE DEF O, S, U
<1>2. /\ IsMap(Without(c.overlays, O), Identity, Uris) /\ IsMap(Without(c.sources, S), Identity, Source)
      /\ IsMap(Without(c.identities, U), Uris, Identity)
    BY WithoutIs DEF IsCompiler
<1>3. QED BY <1>1, <1>2 DEF IsCompiler, KeepsUse

\* Neither does the retirement of a document that changed its project.
LEMMA RetireTransitionedUse ==
    ASSUME NEW c, Usable(c), NEW u, NEW id \in Identity
    PROVE  KeepsUse(c, RetireTransitioned(c, u, id))
<1> DEFINE rescan == IF id.kind = "project" THEN [c EXCEPT !.synchronized = FALSE] ELSE c
           next == RemainingOverlay(rescan, id, {u})
           v == CHOOSE v \in next : TRUE
           bare == [rescan EXCEPT !.overlays = Without(rescan.overlays, {id})]
<1>1. \/ RetireTransitioned(c, u, id) = RetireProject(rescan)
      \/ next # {} /\ RetireTransitioned(c, u, id) = TakeOver(rescan, id, v)
      \/ RetireTransitioned(c, u, id) = RemoveSource(bare, id)
    BY DEF RetireTransitioned
<1>2. Usable(rescan) /\ rescan.docs = c.docs /\ rescan.release = c.release
    BY DEF IsCompiler, Usable
<1> HIDE DEF rescan
<1>3. IsCompiler(rescan)
    BY <1>2 DEF Usable
<1>4. next # {} => v \in DOMAIN rescan.docs
    BY <1>2, RemainingIs
<1>5. IsCompiler(bare) /\ bare.docs = rescan.docs /\ bare.release = rescan.release
    BY <1>3, WithoutIs DEF IsCompiler
<1> HIDE DEF next, v, bare
<1>6. KeepsUse(rescan, RetireProject(rescan))
    BY <1>3, RetireProjectUse
<1>7. next # {} => KeepsUse(rescan, TakeOver(rescan, id, v))
    BY <1>3, <1>4, TakeOverIs DEF KeepsUse, Alike
<1>8. KeepsUse(bare, RemoveSource(bare, id))
    BY <1>5, RemoveSourceIs DEF KeepsUse, Alike
<1>9. QED BY <1>1, <1>2, <1>5, <1>6, <1>7, <1>8 DEF KeepsUse

-----------------------------------------------------------------------------
(* A scan of the project's files.                                          *)

SpelledBy(c, f) == {u \in DOMAIN c.docs : Spells(c, u, Project(f))}

\* What a scan from c to d does.
Scans(c, d) ==
    /\ IsCompiler(d)
    /\ d.docs = c.docs /\ d.errors = c.errors /\ d.release = c.release /\ d.synchronized = c.synchronized
    /\ \A u \in DOMAIN d.identities :
          \/ u \in DOMAIN c.identities /\ d.identities[u] = c.identities[u]
          \/ d.identities[u] = Project(FileOf[u])
    /\ DOMAIN c.docs \cap DOMAIN c.identities \subseteq DOMAIN d.identities
    /\ DOMAIN c.overlays \subseteq DOMAIN d.overlays
    /\ \A id \in DOMAIN d.overlays :
          \/ id \in DOMAIN c.overlays /\ d.overlays[id] = c.overlays[id]
          \/ d.overlays[id] \in DOMAIN c.docs /\ Spells(c, d.overlays[id], id)
    /\ \A f \in Files :
          LET id == Project(f) IN
          IF disk[f] # 0
          THEN IF SpelledBy(c, f) # {}
               THEN /\ id \in DOMAIN d.overlays /\ d.overlays[id] \in SpelledBy(c, f)
                    /\ id \in DOMAIN d.sources /\ d.sources[id] = Overlay(c, d.overlays[id])
               ELSE id \in DOMAIN d.sources /\ d.sources[id] = OnDisk(f)
          ELSE /\ id \in DOMAIN d.sources <=>
                    /\ id \in DOMAIN c.sources
                    /\ id \in DOMAIN c.overlays /\ c.overlays[id] \in DOMAIN c.docs
               /\ id \in DOMAIN d.sources => d.sources[id] = c.sources[id]
               /\ id \in DOMAIN c.overlays => d.overlays[id] = c.overlays[id]

\* synchronize_project_files does that.
LEMMA ScanIs ==
    ASSUME World, NEW c, Usable(c)
    PROVE  Scans(c, SynchronizeFiles(c))
<1> DEFINE Id(f) == [kind |-> "project", file |-> f]
           present == {f \in Files : disk[f] # 0}
           open(f) == {u \in DOMAIN c.docs : Spells(c, u, Id(f))}
           kept(f) == {u \in open(f) : Id(f) \in DOMAIN c.overlays /\ c.overlays[Id(f)] = u}
           chosen(f) == IF kept(f) # {} THEN kept(f) ELSE Newest(c, open(f))
           overlaid == {f \in present : open(f) # {}}
           pick(f) == CHOOSE u \in chosen(f) : TRUE
           picked == [id \in {Id(f) : f \in overlaid} |-> pick(id.file)]
           overlays == Over(picked, c.overlays)
           stale == {id \in DOMAIN c.sources :
                       /\ id.kind = "project" /\ id.file \notin present
                       /\ ~(id \in DOMAIN overlays /\ overlays[id] \in DOMAIN c.docs)}
           found == [id \in {Id(f) : f \in present} |->
                       IF id.file \in overlaid THEN Overlay(c, pick(id.file)) ELSE OnDisk(id.file)]
           fresh == [u \in {Canonical[f] : f \in present} |-> Id(FileOf[u])]
           names == Over(fresh, c.identities)
           lost == {u \in DOMAIN names \ DOMAIN c.docs : names[u] \in stale}
           d == SynchronizeFiles(c)
<1>1. d = [c EXCEPT !.overlays = overlays, !.sources = Over(found, Without(c.sources, stale)),
                    !.identities = Without(names, lost)]
    BY DEF SynchronizeFiles
<1>2. /\ IsCompiler(c) /\ IsFiniteSet(DOMAIN c.docs)
      /\ IsMap(c.overlays, Identity, Uris) /\ IsMap(c.sources, Identity, Source)
      /\ IsMap(c.identities, Uris, Identity) /\ DOMAIN c.docs \subseteq Uris
    BY DEF Usable, IsCompiler, IsMap
<1>3. ASSUME NEW f, open(f) # {} PROVE pick(f) \in open(f)
  <2>1. open(f) \in SUBSET DOMAIN c.docs /\ kept(f) \subseteq open(f)
      OBVIOUS
  <2> HIDE DEF open, kept
  <2>2. IsFiniteSet(open(f))
      BY <2>1, <1>2, FS_Subset
  <2>3. chosen(f) # {} /\ chosen(f) \subseteq open(f)
      BY <2>1, <2>2, <1>2, <1>3, NewestIsOne
  <2> HIDE DEF chosen
  <2>4. QED BY <2>3
<1>4. /\ \A f : Id(f) = Project(f) /\ open(f) = SpelledBy(c, f) /\ Id(f).file = f /\ Id(f).kind = "project"
      /\ \A f \in Files : Id(f) \in Identity
      /\ present \subseteq Files /\ overlaid \subseteq present
      /\ \A f \in Files : f \in present <=> disk[f] # 0
      /\ \A f \in present : f \in overlaid <=> open(f) # {}
    BY DEF Project, SpelledBy, Identity
<1> HIDE DEF pick, Id
<1>5. /\ IsMap(picked, Identity, Uris) /\ DOMAIN picked = {Id(f) : f \in overlaid}
      /\ \A f \in overlaid : picked[Id(f)] = pick(f) /\ picked[Id(f)] \in open(f)
  <2>1. \A f \in overlaid : pick(f) \in open(f) /\ pick(f) \in Uris
      BY <1>2, <1>3
  <2> HIDE DEF open, overlaid
  <2>2. QED BY <2>1, <1>4 DEF IsMap
<1>6. /\ IsMap(found, Identity, Source) /\ DOMAIN found = {Id(f) : f \in present}
      /\ \A f \in present : found[Id(f)] = IF f \in overlaid THEN Overlay(c, pick(f)) ELSE OnDisk(f)
  <2>1. \A f \in overlaid : Overlay(c, pick(f)) \in Source
      BY <1>2, <1>3, OverlayType
  <2>2. \A f \in present : OnDisk(f) \in Source
      BY DEF OnDisk, World, Source
  <2> HIDE DEF overlaid, present
  <2>3. QED BY <2>1, <2>2, <1>4 DEF IsMap
<1>7. /\ IsMap(fresh, Uris, Identity)
      /\ \A u \in DOMAIN fresh : fresh[u] = Project(FileOf[u])
  <2> HIDE DEF open
  <2>1. QED BY <1>4, SpellingAssumption DEF IsMap
<1> HIDE DEF picked, found, fresh, open, kept, chosen
<1>8. /\ IsMap(overlays, Identity, Uris) /\ DOMAIN overlays = DOMAIN picked \cup DOMAIN c.overlays
      /\ \A id \in DOMAIN picked : overlays[id] = picked[id]
      /\ \A id \in DOMAIN c.overlays \ DOMAIN picked : overlays[id] = c.overlays[id]
  <2>1. IsMap(overlays, Identity, Uris)
      BY <1>2, <1>5, OverIs
  <2>2. QED BY <2>1 DEF Over
<1> HIDE DEF overlays
<1> DEFINE rest == Without(c.sources, stale)
<1>9. /\ IsMap(rest, Identity, Source) /\ DOMAIN rest = DOMAIN c.sources \ stale
      /\ \A id \in DOMAIN rest : rest[id] = c.sources[id]
  <2> HIDE DEF stale
  <2>1. IsMap(rest, Identity, Source)
      BY <1>2, WithoutIs
  <2>2. QED BY <2>1 DEF Without, Restrict
<1>10. /\ IsMap(Over(found, rest), Identity, Source) /\ DOMAIN Over(found, rest) = DOMAIN found \cup DOMAIN rest
       /\ \A id \in DOMAIN found : Over(found, rest)[id] = found[id]
       /\ \A id \in DOMAIN rest \ DOMAIN found : Over(found, rest)[id] = rest[id]
  <2> HIDE DEF rest
  <2>1. IsMap(Over(found, rest), Identity, Source)
      BY <1>6, <1>9, OverIs
  <2>2. QED BY <2>1 DEF Over
<1>11. /\ IsMap(names, Uris, Identity) /\ DOMAIN names = DOMAIN fresh \cup DOMAIN c.identities
       /\ \A u \in DOMAIN fresh : names[u] = fresh[u]
       /\ \A u \in DOMAIN c.identities \ DOMAIN fresh : names[u] = c.identities[u]
  <2>1. IsMap(names, Uris, Identity)
      BY <1>2, <1>7, OverIs
  <2>2. QED BY <2>1 DEF Over
<1> HIDE DEF names, rest
<1>12. /\ IsMap(Without(names, lost), Uris, Identity) /\ DOMAIN Without(names, lost) = DOMAIN names \ lost
       /\ \A u \in DOMAIN names \ lost : Without(names, lost)[u] = names[u]
  <2> HIDE DEF lost
  <2>1. IsMap(Without(names, lost), Uris, Identity)
      BY <1>11, WithoutIs
  <2>2. QED BY <2>1 DEF Without, Restrict
<1>13. DOMAIN c.docs \cap lost = {}
    OBVIOUS
<1>14. \A id \in stale : id.kind = "project" /\ id.file \notin present
    OBVIOUS
<1>15. \A f \in Files : f \notin present =>
          (Id(f) \in stale <=> /\ Id(f) \in DOMAIN c.sources
                               /\ ~(Id(f) \in DOMAIN overlays /\ overlays[Id(f)] \in DOMAIN c.docs))
    BY <1>4
<1> HIDE DEF stale, lost
<1>16. /\ IsCompiler(d) /\ d.docs = c.docs /\ d.errors = c.errors /\ d.release = c.release
       /\ d.synchronized = c.synchronized /\ d.overlays = overlays
       /\ d.sources = Over(found, rest) /\ d.identities = Without(names, lost)
  <2>1. IsMap(Without(names, lost), Uris, Identity) /\ IsMap(Over(found, rest), Identity, Source)
        /\ IsMap(overlays, Identity, Uris)
      BY <1>8, <1>10, <1>12
  <2>2. QED BY <2>1, <1>1, <1>2 DEF IsCompiler, rest
<1> HIDE DEF d
<1>17. \A u \in DOMAIN d.identities :
          \/ u \in DOMAIN c.identities /\ d.identities[u] = c.identities[u]
          \/ d.identities[u] = Project(FileOf[u])
    BY <1>16, <1>12, <1>11, <1>7
<1>18. DOMAIN c.docs \cap DOMAIN c.identities \subseteq DOMAIN d.identities
    BY <1>16, <1>12, <1>11, <1>13
<1>19. DOMAIN c.overlays \subseteq DOMAIN d.overlays
    BY <1>16, <1>8
<1>20. \A id \in DOMAIN d.overlays :
          \/ id \in DOMAIN c.overlays /\ d.overlays[id] = c.overlays[id]
          \/ d.overlays[id] \in DOMAIN c.docs /\ Spells(c, d.overlays[id], id)
  <2>1. \A f \in overlaid : overlays[Id(f)] \in DOMAIN c.docs /\ Spells(c, overlays[Id(f)], Id(f))
      BY <1>5, <1>8, <1>4 DEF open
  <2> HIDE DEF overlaid
  <2>2. QED BY <2>1, <1>16, <1>8, <1>5
<1>21. ASSUME NEW f \in Files, disk[f] # 0, SpelledBy(c, f) # {}
       PROVE  /\ Id(f) \in DOMAIN d.overlays /\ d.overlays[Id(f)] \in SpelledBy(c, f)
              /\ Id(f) \in DOMAIN d.sources /\ d.sources[Id(f)] = Overlay(c, d.overlays[Id(f)])
  <2>1. f \in present /\ f \in overlaid
      BY <1>21, <1>4
  <2> HIDE DEF present, overlaid
  <2>2. QED BY <2>1, <1>4, <1>16, <1>5, <1>6, <1>8, <1>10
<1>22. ASSUME NEW f \in Files, disk[f] # 0, SpelledBy(c, f) = {}
       PROVE  Id(f) \in DOMAIN d.sources /\ d.sources[Id(f)] = OnDisk(f)
  <2>1. f \in present /\ f \notin overlaid
      BY <1>22, <1>4
  <2> HIDE DEF present, overlaid
  <2>2. QED BY <2>1, <1>4, <1>16, <1>6, <1>10
<1>23. ASSUME NEW f \in Files, disk[f] = 0
       PROVE  /\ Id(f) \in DOMAIN d.sources <=>
                    /\ Id(f) \in DOMAIN c.sources
                    /\ Id(f) \in DOMAIN c.overlays /\ c.overlays[Id(f)] \in DOMAIN c.docs
              /\ Id(f) \in DOMAIN d.sources => d.sources[Id(f)] = c.sources[Id(f)]
              /\ Id(f) \in DOMAIN c.overlays => d.overlays[Id(f)] = c.overlays[Id(f)]
  <2>1. f \notin present
      BY <1>23, <1>4
  <2>2. Id(f) \notin DOMAIN picked /\ Id(f) \notin DOMAIN found
    <3>1. \A g : Id(g) = Id(f) => g = f
        BY <1>4
    <3> HIDE DEF present, overlaid
    <3>2. QED BY <3>1, <2>1, <1>4, <1>5, <1>6
  <2> HIDE DEF present, overlaid
  <2>3. Id(f) \in DOMAIN overlays <=> Id(f) \in DOMAIN c.overlays
      BY <2>2, <1>8
  <2>4. Id(f) \in DOMAIN c.overlays => overlays[Id(f)] = c.overlays[Id(f)]
      BY <2>2, <1>8
  <2>5. Id(f) \in DOMAIN d.sources <=> Id(f) \in DOMAIN c.sources /\ Id(f) \notin stale
      BY <2>2, <1>9, <1>10, <1>16
  <2>6. Id(f) \in DOMAIN d.sources => d.sources[Id(f)] = c.sources[Id(f)]
      BY <2>2, <1>9, <1>10, <1>16
  <2>7. QED BY <2>1, <2>3, <2>4, <2>5, <2>6, <1>15, <1>16
<1>24. \A f \in Files : Id(f) = Project(f)
    BY <1>4
<1> HIDE DEF present, overlaid
<1>25. Scans(c, d)
    BY <1>16, <1>17, <1>18, <1>19, <1>20, <1>21, <1>22, <1>23, <1>24, Zenon DEF Scans
<1>26. QED BY <1>25 DEF d

-----------------------------------------------------------------------------
(* What the operations keep, and what they make of a settled session.      *)

LEMMA IdentityOf ==
    ASSUME World, NEW u \in Uris
    PROVE  IdOf(u) \in Identity /\ IdOf(u).file = FileOf[u] /\ FileOf[u] \in Files
BY SpellingAssumption DEF IdOf, Identity, World

LEMMA ProjectOf ==
    ASSUME manifest = "present", NEW u PROVE IdOf(u) = Project(FileOf[u])
BY DEF IdOf, Project

LEMMA ProjectsApart ==
    ASSUME NEW f, NEW g, Project(f) = Project(g) PROVE f = g
<1>1. Project(f).file = f /\ Project(g).file = g
    BY DEF Project
<1>2. QED BY <1>1

\* A scan of a project that there is keeps the names.
LEMMA ScanNames ==
    ASSUME manifest = "present", NEW c, NEW d, Scans(c, d), Names(c) PROVE Names(d)
<1>1. ASSUME NEW u \in DOMAIN d.identities PROVE d.identities[u] = IdOf(u)
    BY ProjectOf DEF Scans, Names
<1>2. ASSUME NEW id \in DOMAIN d.overlays PROVE id = IdOf(d.overlays[id])
    BY DEF Scans, Names, Spells
<1>3. QED BY <1>1, <1>2 DEF Names

\* What no open document spells is then as on disk.
LEMMA ScanReadsDisk ==
    ASSUME manifest = "present", NEW c, NEW d, Scans(c, d), Names(c) PROVE FromDisk(d)
<1> SUFFICES ASSUME NEW f \in Files, Shut(d, f)
             PROVE  IF disk[f] # 0 THEN Project(f) \in DOMAIN d.sources /\ d.sources[Project(f)] = OnDisk(f)
                                   ELSE Project(f) \notin DOMAIN d.sources
    BY DEF FromDisk, Project
<1>1. d.docs = c.docs /\ \A u \in DOMAIN c.docs : FileOf[u] # f
    BY DEF Scans, Shut
<1>2. SpelledBy(c, f) = {}
  <2> SUFFICES ASSUME NEW u \in DOMAIN c.docs, Spells(c, u, Project(f)) PROVE FALSE
      BY DEF SpelledBy
  <2>1. Project(f) = Project(FileOf[u])
      BY ProjectOf DEF Spells, Names
  <2>2. QED BY <2>1, <1>1, ProjectsApart
<1>3. ASSUME Project(f) \in DOMAIN c.overlays, c.overlays[Project(f)] \in DOMAIN c.docs PROVE FALSE
  <2>1. Project(f) = Project(FileOf[c.overlays[Project(f)]])
      BY <1>3, ProjectOf DEF Names
  <2>2. QED BY <2>1, <1>1, <1>3, ProjectsApart
<1>4. QED BY <1>2, <1>3, Zenon DEF Scans

\* A scan of a settled project.
LEMMA ScanSettles ==
    ASSUME World, manifest = "present", NEW c, Usable(c), NEW d, Scans(c, d), Settled(c)
    PROVE  Settled(d)
<1>1. Names(d)
    BY ScanNames DEF Settled
<1>2. Known(d)
    BY DEF Scans, Settled, Known
<1>3. ASSUME NEW u \in DOMAIN d.docs \cap DOMAIN d.identities PROVE Spoken(d, IdOf(u))
  <2> DEFINE f == FileOf[u]
             id == Project(f)
  <2>1. d.docs = c.docs /\ u \in DOMAIN c.docs /\ u \in DOMAIN c.identities /\ u \in Uris
      BY DEF Scans, Settled, Known, Usable, IsCompiler, IsMap
  <2>2. IdOf(u) = id /\ f \in Files /\ Spoken(c, id)
      BY <2>1, ProjectOf, IdentityOf DEF Settled
  <2>3. u \in SpelledBy(c, f)
      BY <2>1, <2>2 DEF SpelledBy, Spells, Settled, Names
  <2>4. SpelledBy(c, f) \subseteq DOMAIN c.docs
      BY DEF SpelledBy
  <2> HIDE DEF f, id
  <2>5. CASE disk[f] # 0
    <3>1. /\ id \in DOMAIN d.overlays /\ d.overlays[id] \in SpelledBy(c, f)
          /\ id \in DOMAIN d.sources /\ d.sources[id] = Overlay(c, d.overlays[id])
        BY <2>2, <2>3, <2>5 DEF Scans, id
    <3>2. QED BY <3>1, <2>1, <2>2, <2>4 DEF Spoken, Overlay
  <2>6. CASE disk[f] = 0
    <3>1. /\ id \in DOMAIN d.sources <=>
                    /\ id \in DOMAIN c.sources
                    /\ id \in DOMAIN c.overlays /\ c.overlays[id] \in DOMAIN c.docs
          /\ id \in DOMAIN d.sources => d.sources[id] = c.sources[id]
          /\ id \in DOMAIN c.overlays => d.overlays[id] = c.overlays[id]
          /\ DOMAIN c.overlays \subseteq DOMAIN d.overlays
        BY <2>2, <2>6 DEF Scans, id
    <3>2. QED BY <3>1, <2>1, <2>2 DEF Spoken, Overlay
  <2>7. QED BY <2>5, <2>6
<1>4. QED BY <1>1, <1>2, <1>3 DEF Settled

-----------------------------------------------------------------------------
(* Synchronizing with one document.                                        *)

Named(c, u) == [c EXCEPT !.errors = @ \ {u}, !.identities = With(@, u, IdOf(u))]
Scanned(c) ==
    IF manifest = "present" /\ ~c.synchronized
    THEN SynchronizeFiles([c EXCEPT !.synchronized = TRUE]) ELSE c
Claimed(c, u) == IF u \in DOMAIN c.docs THEN [c EXCEPT !.overlays = With(@, IdOf(u), u)] ELSE c
Replays(c, u) ==
    {m \in DOMAIN c.overlays :
        /\ m.kind = IdOf(u).kind /\ (IdOf(u).kind = "loose" => m = IdOf(u))
        /\ c.overlays[m] \in DOMAIN c.docs
        /\ Spells(c, c.overlays[m], m)}
Replayed(c, u) == [c EXCEPT !.sources = Over([m \in Replays(c, u) |-> Overlay(c, c.overlays[m])], @)]

LEMMA NamedUse ==
    ASSUME World, NEW c, Usable(c), NEW u \in Uris
    PROVE  Usable(Named(c, u)) /\ KeepsUse(c, Named(c, u))
<1>1. IsMap(With(c.identities, u, IdOf(u)), Uris, Identity)
    BY IdentityOf, WithIs DEF Usable, IsCompiler
<1>2. QED BY <1>1 DEF Usable, IsCompiler, KeepsUse, Named

LEMMA ScannedUse ==
    ASSUME World, NEW c, Usable(c)
    PROVE  Usable(Scanned(c)) /\ KeepsUse(c, Scanned(c))
<1> DEFINE e == [c EXCEPT !.synchronized = TRUE]
<1>1. Usable(e) /\ e.docs = c.docs /\ e.release = c.release
    BY DEF Usable, IsCompiler
<1>2. Scans(e, SynchronizeFiles(e))
    BY <1>1, ScanIs
<1> HIDE DEF e
<1>3. Usable(SynchronizeFiles(e)) /\ KeepsUse(c, SynchronizeFiles(e))
    BY <1>1, <1>2 DEF Scans, KeepsUse, Usable
<1>4. QED BY <1>3 DEF Scanned, e, KeepsUse, Usable

LEMMA ClaimedUse ==
    ASSUME World, NEW c, Usable(c), NEW u \in Uris
    PROVE  Usable(Claimed(c, u)) /\ KeepsUse(c, Claimed(c, u))
<1>1. IsMap(With(c.overlays, IdOf(u), u), Identity, Uris)
    BY IdentityOf, WithIs DEF Usable, IsCompiler
<1>2. QED BY <1>1 DEF Usable, IsCompiler, KeepsUse, Claimed

LEMMA ReplayedUse ==
    ASSUME World, NEW c, Usable(c), NEW u \in Uris
    PROVE  Usable(Replayed(c, u)) /\ KeepsUse(c, Replayed(c, u))
<1> DEFINE g == [m \in Replays(c, u) |-> Overlay(c, c.overlays[m])]
<1>1. /\ \A m \in Replays(c, u) : m \in DOMAIN c.overlays /\ c.overlays[m] \in DOMAIN c.docs
      /\ DOMAIN c.overlays \subseteq Identity /\ IsCompiler(c) /\ IsMap(c.sources, Identity, Source)
    BY DEF Replays, Usable, IsCompiler, IsMap
<1>2. IsMap(g, Identity, Source)
    BY <1>1, OverlayType DEF IsMap
<1> HIDE DEF g
<1>3. IsMap(Over(g, c.sources), Identity, Source)
    BY <1>1, <1>2, OverIs
<1>4. Replayed(c, u) = [c EXCEPT !.sources = Over(g, c.sources)]
    BY DEF Replayed, g
<1>5. QED BY <1>3, <1>4 DEF Usable, IsCompiler, KeepsUse

\* Synchronizing keeps documents and profile; with nothing to retire it is the
\* four steps above.
LEMMA SynchronizeIs ==
    ASSUME World, NEW c, Usable(c), NEW u \in Uris
    PROVE  LET d == Synchronize(c, u)
           IN  /\ Usable(d) /\ KeepsUse(c, d)
               /\ manifest = "broken" => d = [c EXCEPT !.errors = @ \cup {u}]
               /\ manifest # "broken" /\ (u \in DOMAIN c.identities => c.identities[u] = IdOf(u)) =>
                     d = Replayed(Claimed(Scanned(Named(c, u)), u), u)
<1> DEFINE id == [kind |-> IF manifest = "present" THEN "project" ELSE "loose", file |-> FileOf[u]]
           clean == [c EXCEPT !.errors = @ \ {u}]
           retired == IF u \in DOMAIN c.identities /\ c.identities[u] # id
                      THEN RetireTransitioned(clean, u, c.identities[u]) ELSE clean
           named == [retired EXCEPT !.identities = With(@, u, id)]
           scanned == IF id.kind = "project" /\ ~named.synchronized
                      THEN SynchronizeFiles([named EXCEPT !.synchronized = TRUE]) ELSE named
           claimed == IF u \in DOMAIN c.docs
                      THEN [scanned EXCEPT !.overlays = With(@, id, u)] ELSE scanned
           replayed == {m \in DOMAIN claimed.overlays :
                        /\ m.kind = id.kind /\ (id.kind = "loose" => m = id)
                        /\ claimed.overlays[m] \in DOMAIN c.docs
                        /\ Spells(claimed, claimed.overlays[m], m)}
           d == Synchronize(c, u)
           final == Replayed(claimed, u)
<1>1. d = IF manifest = "broken" THEN [c EXCEPT !.errors = @ \cup {u}]
          ELSE [claimed EXCEPT !.sources = Over([m \in replayed |-> Overlay(claimed, claimed.overlays[m])], @)]
    BY DEF Synchronize
<1> HIDE DEF d
<1>2. id = IdOf(u) /\ (id.kind = "project" <=> manifest = "present")
    BY DEF IdOf
<1>3. Usable(clean) /\ KeepsUse(c, clean) /\ clean.identities = c.identities
    BY DEF Usable, IsCompiler, KeepsUse
<1>4. Usable(retired) /\ KeepsUse(c, retired)
  <2> HIDE DEF clean
  <2>1. u \in DOMAIN c.identities => c.identities[u] \in Identity
      BY DEF Usable, IsCompiler, IsMap
  <2>2. u \in DOMAIN c.identities => KeepsUse(clean, RetireTransitioned(clean, u, c.identities[u]))
      BY <1>3, <2>1, RetireTransitionedUse
  <2>3. QED BY <1>3, <2>2 DEF KeepsUse, Usable
<1>5. Usable(named) /\ KeepsUse(c, named)
  <2> HIDE DEF retired
  <2>1. IsMap(With(retired.identities, u, id), Uris, Identity)
      BY <1>2, <1>4, IdentityOf, WithIs DEF Usable, IsCompiler
  <2> HIDE DEF id
  <2>2. QED BY <2>1, <1>4 DEF Usable, IsCompiler, KeepsUse
<1>6. (u \in DOMAIN c.identities => c.identities[u] = IdOf(u)) => named = Named(c, u)
  <2> SUFFICES ASSUME u \in DOMAIN c.identities => c.identities[u] = IdOf(u) PROVE named = Named(c, u)
      OBVIOUS
  <2>1. retired = clean
      BY <1>2
  <2> HIDE DEF retired
  <2>2. QED BY <2>1, <1>2, <1>3 DEF Named, Usable, IsCompiler
<1> HIDE DEF named
<1>7. scanned = Scanned(named)
  <2> HIDE DEF id
  <2>1. QED BY <1>2 DEF Scanned
<1> HIDE DEF scanned
<1>8. Usable(scanned) /\ KeepsUse(named, scanned)
    BY <1>5, <1>7, ScannedUse
<1>9. claimed = Claimed(scanned, u)
  <2> HIDE DEF id
  <2>1. QED BY <1>2, <1>5, <1>8 DEF Claimed, KeepsUse
<1> HIDE DEF claimed
<1>10. Usable(claimed) /\ KeepsUse(scanned, claimed)
    BY <1>8, <1>9, ClaimedUse
<1>11. claimed.docs = c.docs /\ claimed.release = c.release
    BY <1>5, <1>8, <1>10 DEF KeepsUse
<1>12. replayed = Replays(claimed, u)
  <2> HIDE DEF id
  <2>1. QED BY <1>2, <1>11 DEF Replays
<1>13. Usable(final) /\ KeepsUse(c, final)
    BY <1>10, <1>11, ReplayedUse DEF KeepsUse
<1>14. manifest # "broken" => d = final
    BY <1>1, <1>12, Zenon DEF Replayed
<1>15. manifest = "broken" => Usable(d) /\ KeepsUse(c, d)
    BY <1>1 DEF Usable, IsCompiler, KeepsUse
<1> HIDE DEF final
<1>16. Usable(d) /\ KeepsUse(c, d)
    BY <1>13, <1>14, <1>15
<1>17. manifest # "broken" /\ (u \in DOMAIN c.identities => c.identities[u] = IdOf(u)) =>
          d = Replayed(Claimed(Scanned(Named(c, u)), u), u)
    BY <1>6, <1>7, <1>9, <1>14, Zenon DEF final
<1>18. manifest = "broken" => d = [c EXCEPT !.errors = @ \cup {u}]
    BY <1>1
<1>19. QED BY <1>16, <1>17, <1>18 DEF d
\* Settled, but for the document u, which is open.
Unsettled(c, u) ==
    /\ Names(c) /\ u \in DOMAIN c.docs
    /\ IF manifest = "broken"
       THEN DOMAIN c.identities = {} /\ c.errors \cup {u} = DOMAIN c.docs
       ELSE DOMAIN c.docs \ {u} \subseteq DOMAIN c.identities /\ c.errors = {}
    /\ manifest = "present" /\ DOMAIN c.docs \ {u} # {} => c.synchronized
    /\ \A v \in DOMAIN c.docs \cap DOMAIN c.identities : IdOf(v) # IdOf(u) => Spoken(c, IdOf(v))

\* What scanning leaves to be done.
Readied(c, u) ==
    /\ Names(c) /\ u \in DOMAIN c.docs
    /\ DOMAIN c.docs \subseteq DOMAIN c.identities /\ c.errors = {}
    /\ manifest = "present" => c.synchronized
    /\ \A v \in DOMAIN c.docs : IdOf(v) # IdOf(u) => Spoken(c, IdOf(v))

LEMMA NamedUnsettled ==
    ASSUME World, manifest # "broken", NEW c, Usable(c), NEW u \in Uris, Unsettled(c, u)
    PROVE  LET d == Named(c, u)
           IN  /\ Names(d) /\ u \in DOMAIN d.docs /\ DOMAIN d.docs \subseteq DOMAIN d.identities /\ d.errors = {}
               /\ manifest = "present" /\ DOMAIN d.docs \ {u} # {} => d.synchronized
               /\ \A v \in DOMAIN d.docs : IdOf(v) # IdOf(u) => Spoken(d, IdOf(v))
               /\ d.sources = c.sources /\ d.docs = c.docs /\ d.synchronized = c.synchronized
<1> DEFINE d == Named(c, u)
<1>1. /\ d.docs = c.docs /\ d.sources = c.sources /\ d.overlays = c.overlays
      /\ d.synchronized = c.synchronized
      /\ d.errors = c.errors \ {u} /\ d.identities = With(c.identities, u, IdOf(u))
    BY DEF Usable, IsCompiler, Named
<1>2. /\ DOMAIN d.identities = DOMAIN c.identities \cup {u} /\ d.identities[u] = IdOf(u)
      /\ \A v \in DOMAIN c.identities \ {u} : d.identities[v] = c.identities[v]
    BY <1>1 DEF With, Over
<1> HIDE DEF d
<1>3. Names(d)
    BY <1>1, <1>2 DEF Names, Unsettled
<1>4. \A v \in DOMAIN d.docs : IdOf(v) # IdOf(u) => Spoken(d, IdOf(v))
    BY <1>1, <1>2 DEF Unsettled, Spoken, Overlay
<1>5. QED BY <1>1, <1>2, <1>3, <1>4 DEF Unsettled, d

LEMMA ScannedReadies ==
    ASSUME World, NEW c, Usable(c), NEW u \in Uris,
           Names(c), u \in DOMAIN c.docs, DOMAIN c.docs \subseteq DOMAIN c.identities, c.errors = {},
           manifest = "present" /\ DOMAIN c.docs \ {u} # {} => c.synchronized,
           \A v \in DOMAIN c.docs : IdOf(v) # IdOf(u) => Spoken(c, IdOf(v))
    PROVE  /\ Readied(Scanned(c), u) /\ Scanned(c).docs = c.docs
           /\ FromDisk(c) => FromDisk(Scanned(c))
<1>1. CASE ~(manifest = "present" /\ ~c.synchronized)
  <2>1. Scanned(c) = c
      BY <1>1 DEF Scanned
  <2>2. QED BY <2>1, <1>1 DEF Readied
<1>2. CASE manifest = "present" /\ ~c.synchronized
  <2> DEFINE e == [c EXCEPT !.synchronized = TRUE]
             d == SynchronizeFiles(e)
  <2>1. Usable(e) /\ e.docs = c.docs /\ e.identities = c.identities /\ e.overlays = c.overlays
        /\ e.errors = c.errors /\ e.synchronized = TRUE
      BY DEF Usable, IsCompiler
  <2>2. Scans(e, d)
      BY <2>1, ScanIs
  <2>3. Scanned(c) = d
      BY <1>2 DEF Scanned
  <2>4. DOMAIN c.docs = {u}
      BY <1>2
  <2>5. Names(e)
      BY <2>1 DEF Names
  <2> HIDE DEF d, e
  <2>6. Names(d) /\ FromDisk(d)
      BY <1>2, <2>2, <2>5, ScanNames, ScanReadsDisk
  <2>7. d.docs = c.docs /\ d.errors = {} /\ d.synchronized /\ DOMAIN d.docs \subseteq DOMAIN d.identities
      BY <2>1, <2>2 DEF Scans
  <2>8. Readied(d, u)
      BY <2>4, <2>6, <2>7 DEF Readied
  <2>9. QED BY <2>3, <2>6, <2>7, <2>8
<1>3. QED BY <1>1, <1>2

LEMMA ClaimedReplayed ==
    ASSUME World, manifest # "broken", NEW c, Usable(c), NEW u \in Uris, Readied(c, u)
    PROVE  LET d == Replayed(Claimed(c, u), u)
           IN  /\ Settled(d)
               /\ FromDisk(c) => FromDisk(d)
<1> DEFINE id == IdOf(u)
           e == Claimed(c, u)
           g == [m \in Replays(e, u) |-> Overlay(e, e.overlays[m])]
           d == Replayed(e, u)
<1>1. /\ e.docs = c.docs /\ e.identities = c.identities /\ e.sources = c.sources
      /\ e.errors = c.errors /\ e.synchronized = c.synchronized
      /\ e.overlays = With(c.overlays, id, u)
    BY DEF Readied, Claimed, Usable, IsCompiler
<1>2. /\ DOMAIN e.overlays = DOMAIN c.overlays \cup {id} /\ e.overlays[id] = u
      /\ \A m \in DOMAIN c.overlays \ {id} : e.overlays[m] = c.overlays[m]
    BY <1>1 DEF With, Over
<1>3. Usable(e)
    BY ClaimedUse
<1>4. /\ d.docs = e.docs /\ d.identities = e.identities /\ d.overlays = e.overlays
      /\ d.errors = e.errors /\ d.synchronized = e.synchronized
      /\ d.sources = Over(g, e.sources)
    BY <1>3 DEF Replayed, Usable, IsCompiler
<1>5. /\ DOMAIN d.sources = Replays(e, u) \cup DOMAIN e.sources
      /\ \A m \in Replays(e, u) : d.sources[m] = Overlay(e, e.overlays[m])
      /\ \A m \in DOMAIN e.sources \ Replays(e, u) : d.sources[m] = e.sources[m]
    BY <1>4 DEF Over
<1> HIDE DEF e, d, g
<1>6. Names(d)
    BY <1>1, <1>2, <1>4 DEF Names, Readied
<1>7. Known(d)
    BY <1>1, <1>4 DEF Known, Readied
<1>8. id \in Replays(e, u)
    BY <1>1, <1>2 DEF Readied, Replays, Spells, Names
<1>9. ASSUME NEW v \in DOMAIN d.docs PROVE Spoken(d, IdOf(v))
  <2> DEFINE k == IdOf(v)
  <2>1. CASE k = id
      BY <2>1, <1>1, <1>2, <1>4, <1>5, <1>8 DEF Spoken, Overlay, Readied
  <2>2. CASE k # id
    <3>1. Spoken(c, k)
        BY <2>2, <1>1, <1>4 DEF Readied
    <3> HIDE DEF k
    <3>2. /\ k \in DOMAIN d.overlays /\ d.overlays[k] = c.overlays[k] /\ e.overlays[k] = c.overlays[k]
          /\ c.overlays[k] \in DOMAIN d.docs
        BY <2>2, <3>1, <1>1, <1>2, <1>4 DEF Spoken
    <3>3. \A w : Overlay(e, w) = Overlay(c, w) /\ Overlay(d, w) = Overlay(c, w)
        BY <1>1, <1>4 DEF Overlay
    <3>4. k \in DOMAIN d.sources /\ d.sources[k] = Overlay(c, c.overlays[k])
        BY <3>1, <3>2, <3>3, <1>1, <1>5 DEF Spoken
    <3>5. Spoken(d, k)
        BY <3>2, <3>3, <3>4 DEF Spoken
    <3>6. QED BY <3>5 DEF k
  <2>3. QED BY <2>1, <2>2
<1>10. ASSUME FromDisk(c) PROVE FromDisk(d)
  <2> SUFFICES ASSUME manifest = "present", d.synchronized, NEW f \in Files, Shut(d, f)
               PROVE  IF disk[f] # 0 THEN Project(f) \in DOMAIN d.sources /\ d.sources[Project(f)] = OnDisk(f)
                                     ELSE Project(f) \notin DOMAIN d.sources
      BY DEF FromDisk, Project
  <2>1. IF disk[f] # 0 THEN Project(f) \in DOMAIN c.sources /\ c.sources[Project(f)] = OnDisk(f)
                       ELSE Project(f) \notin DOMAIN c.sources
      BY <1>10, <1>1, <1>4 DEF FromDisk, Project, Shut
  <2>2. Project(f) \notin Replays(e, u)
    <3> SUFFICES ASSUME Project(f) \in Replays(e, u) PROVE FALSE
        OBVIOUS
    <3>1. /\ Project(f) \in DOMAIN d.overlays /\ d.overlays[Project(f)] \in DOMAIN d.docs
        BY <1>1, <1>4 DEF Replays
    <3>2. Project(f) = Project(FileOf[d.overlays[Project(f)]])
        BY <3>1, <1>6, ProjectOf DEF Names
    <3>3. QED BY <3>1, <3>2, ProjectsApart DEF Shut
  <2>3. QED BY <2>1, <2>2, <1>1, <1>5
<1>11. Settled(d)
    BY <1>6, <1>7, <1>9 DEF Settled
<1>12. QED BY <1>10, <1>11 DEF d, e

\* Synchronizing with a document settles the session.
LEMMA SynchronizeSettles ==
    ASSUME World, NEW c, Usable(c), NEW u \in Uris, Unsettled(c, u)
    PROVE  /\ Settled(Synchronize(c, u))
           /\ FromDisk(c) => FromDisk(Synchronize(c, u))
<1> DEFINE d == Synchronize(c, u)
<1>1. CASE manifest = "broken"
  <2>1. d = [c EXCEPT !.errors = @ \cup {u}]
      BY <1>1, SynchronizeIs
  <2>2. /\ d.docs = c.docs /\ d.identities = c.identities /\ d.overlays = c.overlays
        /\ d.errors = c.errors \cup {u}
      BY <2>1 DEF Usable, IsCompiler
  <2> HIDE DEF d
  <2>3. Settled(d)
      BY <1>1, <2>2 DEF Settled, Names, Known, Unsettled
  <2>4. FromDisk(d)
      BY <1>1 DEF FromDisk
  <2>5. QED BY <2>3, <2>4 DEF d
<1>2. CASE manifest # "broken"
  <2> DEFINE n == Named(c, u)
             s == Scanned(n)
  <2>1. d = Replayed(Claimed(s, u), u)
      BY <1>2, SynchronizeIs, Zenon DEF Unsettled, Names
  <2>2. /\ Names(n) /\ u \in DOMAIN n.docs /\ DOMAIN n.docs \subseteq DOMAIN n.identities /\ n.errors = {}
        /\ manifest = "present" /\ DOMAIN n.docs \ {u} # {} => n.synchronized
        /\ \A v \in DOMAIN n.docs : IdOf(v) # IdOf(u) => Spoken(n, IdOf(v))
        /\ n.sources = c.sources /\ n.docs = c.docs /\ n.synchronized = c.synchronized
      BY <1>2, NamedUnsettled, Zenon
  <2>3. Usable(n)
      BY NamedUse
  <2>4. FromDisk(c) => FromDisk(n)
      BY <2>2 DEF FromDisk, Shut
  <2> HIDE DEF n
  <2>5. Readied(s, u) /\ (FromDisk(n) => FromDisk(s))
      BY <2>2, <2>3, ScannedReadies, Zenon
  <2>6. Usable(s)
      BY <2>3, ScannedUse
  <2> HIDE DEF s
  <2>7. Settled(Replayed(Claimed(s, u), u)) /\ (FromDisk(s) => FromDisk(Replayed(Claimed(s, u), u)))
      BY <1>2, <2>5, <2>6, ClaimedReplayed
  <2>8. QED BY <2>1, <2>4, <2>5, <2>7
<1>3. QED BY <1>1, <1>2
\* Opening or changing a document, and looking again at one that is open.
LEMMA OpenOrChangeIs ==
    ASSUME World, NEW c, Usable(c), NEW u \in Uris, NEW doc \in Document
    PROVE  LET d == OpenOrChange(c, u, doc)
           IN  /\ Usable(d) /\ d.docs = With(c.docs, u, doc) /\ d.release = c.release
               /\ Settled(c) => Settled(d)
               /\ Settled(c) /\ FromDisk(c) => FromDisk(d)
<1> DEFINE e == [c EXCEPT !.docs = With(@, u, doc)]
<1>1. IsMap(With(c.docs, u, doc), Uris, Document)
    BY WithIs DEF Usable, IsCompiler
<1>2. DOMAIN With(c.docs, u, doc) = DOMAIN c.docs \cup {u}
      /\ \A v \in DOMAIN c.docs \ {u} : With(c.docs, u, doc)[v] = c.docs[v]
    BY DEF With, Over
<1>3. IsFiniteSet(DOMAIN c.docs \cup {u})
    BY FS_AddElement DEF Usable
<1>4. /\ e.docs = With(c.docs, u, doc) /\ e.identities = c.identities /\ e.overlays = c.overlays
      /\ e.errors = c.errors /\ e.sources = c.sources /\ e.release = c.release
      /\ e.synchronized = c.synchronized /\ Usable(e)
    BY <1>1, <1>2, <1>3 DEF Usable, IsCompiler
<1>5. OpenOrChange(c, u, doc) = Synchronize(e, u)
    BY DEF OpenOrChange
<1> HIDE DEF e
<1>6. DOMAIN e.docs = DOMAIN c.docs \cup {u} /\ \A v \in DOMAIN c.docs \ {u} : e.docs[v] = c.docs[v]
    BY <1>2, <1>4
<1>7. Usable(Synchronize(e, u)) /\ KeepsUse(e, Synchronize(e, u))
    BY <1>4, SynchronizeIs
<1>8. ASSUME Settled(c) PROVE Unsettled(e, u)
  <2>1. Names(e)
      BY <1>4, <1>8 DEF Names, Settled
  <2>2. /\ u \in DOMAIN e.docs
        /\ IF manifest = "broken"
           THEN DOMAIN e.identities = {} /\ e.errors \cup {u} = DOMAIN e.docs
           ELSE DOMAIN e.docs \ {u} \subseteq DOMAIN e.identities /\ e.errors = {}
        /\ manifest = "present" /\ DOMAIN e.docs \ {u} # {} => e.synchronized
      BY <1>4, <1>6, <1>8 DEF Settled, Known
  <2>3. ASSUME NEW v \in DOMAIN e.docs \cap DOMAIN e.identities, IdOf(v) # IdOf(u)
        PROVE  Spoken(e, IdOf(v))
    <3> DEFINE k == IdOf(v)
    <3>1. Spoken(c, k) /\ k = IdOf(c.overlays[k])
        BY <2>3, <1>4, <1>6, <1>8 DEF Settled, Names, Spoken
    <3>2. c.overlays[k] # u
        BY <3>1, <2>3
    <3> HIDE DEF k
    <3>3. Spoken(e, k)
        BY <3>1, <3>2, <1>4, <1>6 DEF Spoken, Overlay
    <3>4. QED BY <3>3 DEF k
  <2>4. QED BY <2>1, <2>2, <2>3 DEF Unsettled
<1>9. ASSUME FromDisk(c) PROVE FromDisk(e)
    BY <1>4, <1>6, <1>9 DEF FromDisk, Shut
<1>10. QED BY <1>4, <1>5, <1>7, <1>8, <1>9, SynchronizeSettles DEF KeepsUse

\* An open document may be synchronized again at any time.
LEMMA SettledAgain ==
    ASSUME NEW c, Settled(c), NEW u \in DOMAIN c.docs
    PROVE  Unsettled(c, u)
BY DEF Settled, Known, Unsettled

-----------------------------------------------------------------------------
(* Closing a document.                                                     *)

\* Closing a document hands its module to who remains, and leaves a settled
\* session settled.
LEMMA CloseIs ==
    ASSUME World, NEW c, Usable(c), NEW u \in Uris
    PROVE  LET d == Close(c, u)
           IN  /\ Usable(d) /\ d.docs = Without(c.docs, {u}) /\ d.release = c.release
               /\ Settled(c) => Settled(d)
               /\ Settled(c) /\ FromDisk(c) => FromDisk(d)
<1> DEFINE gone == [c EXCEPT !.docs = Without(@, {u}), !.errors = @ \ {u}]
           id == c.identities[u]
           forgotten == IF id.kind = "project" THEN gone
                        ELSE [gone EXCEPT !.identities = Without(@, {u})]
           next == RemainingOverlay(forgotten, id, {u})
           v == CHOOSE v \in next : TRUE
           bare == [forgotten EXCEPT !.overlays = Without(@, {id})]
           d == Close(c, u)
<1>1. /\ u \notin DOMAIN c.identities => d = gone
      /\ u \in DOMAIN c.identities /\ next # {} => d = TakeOver(forgotten, id, v)
      /\ u \in DOMAIN c.identities /\ next = {} =>
            d = IF id.kind = "loose" THEN RemoveSource(bare, id) ELSE SourceFromDisk(bare, id)
    BY DEF Close
<1>2. /\ IsMap(Without(c.docs, {u}), Uris, Document) /\ DOMAIN Without(c.docs, {u}) = DOMAIN c.docs \ {u}
      /\ \A w \in DOMAIN c.docs \ {u} : Without(c.docs, {u})[w] = c.docs[w]
  <2>1. IsMap(Without(c.docs, {u}), Uris, Document)
      BY WithoutIs DEF Usable, IsCompiler
  <2>2. QED BY <2>1 DEF Without, Restrict
<1>3. IsFiniteSet(DOMAIN c.docs \ {u})
    BY FS_RemoveElement DEF Usable
<1>4. /\ gone.docs = Without(c.docs, {u}) /\ gone.identities = c.identities /\ gone.overlays = c.overlays
      /\ gone.errors = c.errors \ {u} /\ gone.sources = c.sources /\ gone.release = c.release
      /\ gone.synchronized = c.synchronized /\ Usable(gone)
    BY <1>2, <1>3 DEF Usable, IsCompiler
<1> HIDE DEF d, gone
<1>5. /\ forgotten.docs = gone.docs /\ forgotten.overlays = gone.overlays
      /\ forgotten.errors = gone.errors /\ forgotten.sources = gone.sources /\ forgotten.release = gone.release
      /\ forgotten.synchronized = gone.synchronized /\ Usable(forgotten)
      /\ DOMAIN gone.identities \ {u} \subseteq DOMAIN forgotten.identities
      /\ DOMAIN forgotten.identities \subseteq DOMAIN gone.identities
      /\ \A w \in DOMAIN forgotten.identities : forgotten.identities[w] = gone.identities[w]
  <2>1. /\ IsMap(Without(gone.identities, {u}), Uris, Identity)
        /\ DOMAIN Without(gone.identities, {u}) = DOMAIN gone.identities \ {u}
        /\ \A w \in DOMAIN gone.identities \ {u} : Without(gone.identities, {u})[w] = gone.identities[w]
    <3>1. IsMap(Without(gone.identities, {u}), Uris, Identity)
        BY <1>4, WithoutIs DEF Usable, IsCompiler
    <3>2. QED BY <3>1 DEF Without, Restrict
  <2> HIDE DEF id
  <2>2. CASE id.kind = "project"
      BY <2>2, <1>4
  <2>3. CASE id.kind # "project"
      BY <2>1, <2>3, <1>4 DEF Usable, IsCompiler
  <2>4. QED BY <2>2, <2>3
<1> HIDE DEF forgotten
<1>6. /\ DOMAIN forgotten.docs = DOMAIN c.docs \ {u} /\ forgotten.docs = Without(c.docs, {u})
      /\ \A w \in DOMAIN c.docs \ {u} : forgotten.docs[w] = c.docs[w]
    BY <1>2, <1>4, <1>5
<1>7. u \in DOMAIN c.identities => id \in Identity
    BY DEF Usable, IsCompiler, IsMap
<1> HIDE DEF id
<1>8. /\ next \subseteq DOMAIN forgotten.docs
      /\ \A w \in next : Spells(forgotten, w, id) \/ (id \in DOMAIN forgotten.overlays /\ forgotten.overlays[id] = w)
      /\ \A w \in DOMAIN forgotten.docs : Spells(forgotten, w, id) => next # {}
    BY <1>5, <1>6, RemainingIs
<1>9. next # {} => v \in next
    OBVIOUS
<1> HIDE DEF next, v
<1>10. /\ bare.docs = forgotten.docs /\ bare.identities = forgotten.identities
       /\ bare.errors = forgotten.errors /\ bare.sources = forgotten.sources
       /\ bare.release = forgotten.release /\ bare.synchronized = forgotten.synchronized
       /\ bare.overlays = Without(forgotten.overlays, {id}) /\ Usable(bare)
  <2>1. IsMap(Without(forgotten.overlays, {id}), Identity, Uris)
      BY <1>5, WithoutIs DEF Usable, IsCompiler
  <2>2. QED BY <2>1, <1>5 DEF Usable, IsCompiler
<1> HIDE DEF bare
<1>11. ASSUME u \in DOMAIN c.identities, next # {}
       PROVE  /\ Usable(d) /\ Alike(forgotten, d) /\ d.overlays = With(forgotten.overlays, id, v)
              /\ d.sources = With(forgotten.sources, id, Overlay(forgotten, v))
  <2>1. v \in DOMAIN forgotten.docs /\ IsCompiler(forgotten) /\ id \in Identity
      BY <1>5, <1>7, <1>8, <1>9, <1>11 DEF Usable
  <2>2. /\ IsCompiler(d) /\ Alike(forgotten, d) /\ d.overlays = With(forgotten.overlays, id, v)
        /\ d.sources = With(forgotten.sources, id, Overlay(forgotten, v))
      BY <2>1, <1>1, <1>11, TakeOverIs, Zenon
  <2>3. QED BY <2>2, <1>5 DEF Usable, Alike
<1>12. ASSUME u \in DOMAIN c.identities, next = {}
       PROVE  /\ Usable(d) /\ Alike(bare, d) /\ d.overlays = bare.overlays
              /\ d.sources = IF id.kind # "loose" /\ disk[id.file] # 0
                             THEN With(bare.sources, id, OnDisk(id.file))
                             ELSE Without(bare.sources, {id})
  <2>1. IsCompiler(bare) /\ id \in Identity
      BY <1>7, <1>10, <1>12 DEF Usable
  <2>2. /\ IsCompiler(d) /\ Alike(bare, d) /\ d.overlays = bare.overlays
        /\ d.sources = IF id.kind # "loose" /\ disk[id.file] # 0
                             THEN With(bare.sources, id, OnDisk(id.file))
                             ELSE Without(bare.sources, {id})
    <3>1. CASE id.kind = "loose"
        BY <2>1, <1>1, <1>12, <3>1, RemoveSourceIs
    <3>2. CASE id.kind # "loose"
        BY <2>1, <1>1, <1>12, <3>2, SourceFromDiskIs
    <3>3. QED BY <3>1, <3>2
  <2>3. QED BY <2>2, <1>10 DEF Usable, Alike
<1>13. Usable(d) /\ d.docs = Without(c.docs, {u}) /\ d.release = c.release
    BY <1>1, <1>4, <1>5, <1>6, <1>10, <1>11, <1>12 DEF Alike
<1>14. ASSUME Settled(c), u \notin DOMAIN c.identities
       PROVE  Settled(d) /\ (FromDisk(c) => FromDisk(d))
  <2>1. /\ DOMAIN d.docs = DOMAIN c.docs \ {u} /\ \A w \in DOMAIN d.docs : d.docs[w] = c.docs[w]
        /\ d.identities = c.identities /\ d.overlays = c.overlays /\ d.errors = c.errors \ {u}
        /\ d.sources = c.sources /\ d.synchronized = c.synchronized
      BY <1>1, <1>2, <1>4, <1>14
  <2>2. Names(d)
      BY <2>1, <1>14 DEF Settled, Names
  <2>3. Known(d)
      BY <2>1, <1>14 DEF Settled, Known
  <2>4. manifest # "broken" => u \notin DOMAIN c.docs
      BY <1>14 DEF Settled, Known
  <2>5. ASSUME NEW w \in DOMAIN d.docs \cap DOMAIN d.identities PROVE Spoken(d, IdOf(w))
    <3>1. manifest # "broken" /\ Spoken(c, IdOf(w))
        BY <2>1, <1>14 DEF Settled, Known
    <3>2. QED BY <3>1, <2>1, <2>4 DEF Spoken, Overlay
  <2>6. ASSUME FromDisk(c) PROVE FromDisk(d)
      BY <2>1, <2>4, <2>6 DEF FromDisk, Shut
  <2>7. QED BY <2>2, <2>3, <2>5, <2>6 DEF Settled
<1>15. ASSUME Settled(c), u \in DOMAIN c.identities
       PROVE  /\ id = IdOf(u) /\ id.file = FileOf[u] /\ manifest # "broken"
              /\ \A e : /\ e.docs = forgotten.docs /\ e.identities = forgotten.identities
                        /\ e.errors = forgotten.errors /\ e.synchronized = forgotten.synchronized
                        => Known(e)
              /\ \A w \in DOMAIN forgotten.identities : forgotten.identities[w] = IdOf(w)
              /\ DOMAIN forgotten.docs \subseteq DOMAIN forgotten.identities
  <2>1. id = IdOf(u) /\ manifest # "broken"
      BY <1>15 DEF Settled, Names, Known, id
  <2>2. DOMAIN forgotten.docs \subseteq DOMAIN forgotten.identities
      BY <2>1, <1>4, <1>5, <1>6, <1>15 DEF Settled, Known
  <2>3. forgotten.errors = {} /\ (manifest = "present" /\ DOMAIN forgotten.docs # {} => forgotten.synchronized)
      BY <2>1, <1>4, <1>5, <1>6, <1>15 DEF Settled, Known
  <2>4. \A w \in DOMAIN forgotten.identities : forgotten.identities[w] = IdOf(w)
      BY <1>4, <1>5, <1>15 DEF Settled, Names
  <2>5. id.file = FileOf[u]
      BY <2>1 DEF IdOf
  <2>6. QED BY <2>1, <2>2, <2>3, <2>4, <2>5 DEF Known
<1>16. ASSUME Settled(c), u \in DOMAIN c.identities,
              NEW k, k # id, Spoken(c, k)
       PROVE  /\ k \in DOMAIN c.overlays /\ c.overlays[k] \in DOMAIN forgotten.docs
              /\ k \in DOMAIN c.sources /\ c.sources[k] = Overlay(forgotten, c.overlays[k])
  <2>1. k = IdOf(c.overlays[k]) /\ c.overlays[k] \in DOMAIN c.docs /\ k \in DOMAIN c.overlays
      BY <1>16 DEF Settled, Names, Spoken
  <2>2. c.overlays[k] # u
      BY <2>1, <1>15, <1>16
  <2>3. QED BY <2>1, <2>2, <1>6, <1>16 DEF Spoken, Overlay
<1>17. ASSUME Settled(c), u \in DOMAIN c.identities, next # {}
       PROVE  Settled(d) /\ (FromDisk(c) => FromDisk(d))
  <2>1. /\ d.docs = forgotten.docs /\ d.identities = forgotten.identities
        /\ d.errors = forgotten.errors /\ d.synchronized = forgotten.synchronized
      BY <1>11, <1>17 DEF Alike
  <2>2. /\ DOMAIN d.overlays = DOMAIN c.overlays \cup {id} /\ d.overlays[id] = v
        /\ \A m \in DOMAIN c.overlays \ {id} : d.overlays[m] = c.overlays[m]
      BY <1>4, <1>5, <1>11, <1>17 DEF With, Over
  <2>3. /\ DOMAIN d.sources = DOMAIN c.sources \cup {id} /\ d.sources[id] = Overlay(forgotten, v)
        /\ \A m \in DOMAIN c.sources \ {id} : d.sources[m] = c.sources[m]
      BY <1>4, <1>5, <1>11, <1>17 DEF With, Over
  <2>4. v \in DOMAIN forgotten.docs /\ id = IdOf(v)
    <3>1. v \in DOMAIN forgotten.docs
        BY <1>8, <1>9, <1>17
    <3>2. Spells(forgotten, v, id) \/ (id \in DOMAIN forgotten.overlays /\ forgotten.overlays[id] = v)
        BY <1>8, <1>9, <1>17
    <3>3. CASE Spells(forgotten, v, id)
        BY <3>1, <3>3, <1>15, <1>17 DEF Spells
    <3>4. CASE id \in DOMAIN forgotten.overlays /\ forgotten.overlays[id] = v
      <4>1. forgotten.overlays = c.overlays
          BY <1>4, <1>5
      <4>2. QED BY <4>1, <3>1, <3>4, <1>17 DEF Settled, Names
    <3>5. QED BY <3>2, <3>3, <3>4
  <2>5. Names(d)
      BY <2>1, <2>2, <2>4, <1>15, <1>17 DEF Names, Settled
  <2>6. Known(d)
      BY <2>1, <1>15, <1>17
  <2>7. ASSUME NEW w \in DOMAIN d.docs \cap DOMAIN d.identities PROVE Spoken(d, IdOf(w))
    <3> DEFINE k == IdOf(w)
    <3>1. Spoken(c, k)
        BY <2>1, <1>4, <1>5, <1>6, <1>17 DEF Settled
    <3> HIDE DEF k
    <3>2. \A x : Overlay(d, x) = Overlay(forgotten, x)
        BY <2>1 DEF Overlay
    <3>3. ASSUME k = id PROVE Spoken(d, k)
        BY <3>2, <3>3, <2>1, <2>2, <2>3, <2>4 DEF Spoken
    <3>4. ASSUME k # id PROVE Spoken(d, k)
      <4>1. /\ k \in DOMAIN c.overlays /\ c.overlays[k] \in DOMAIN forgotten.docs
            /\ k \in DOMAIN c.sources /\ c.sources[k] = Overlay(forgotten, c.overlays[k])
          BY <3>1, <3>4, <1>16, <1>17
      <4>2. QED BY <4>1, <3>2, <3>4, <2>1, <2>2, <2>3 DEF Spoken
    <3>5. Spoken(d, k)
        BY <3>3, <3>4
    <3>6. QED BY <3>5 DEF k
  <2>8. ASSUME FromDisk(c), manifest = "present", d.synchronized, NEW f \in Files, Shut(d, f)
        PROVE  IF disk[f] # 0 THEN Project(f) \in DOMAIN d.sources /\ d.sources[Project(f)] = OnDisk(f)
                              ELSE Project(f) \notin DOMAIN d.sources
    <3>1. f # FileOf[u]
      <4>1. FileOf[v] = FileOf[u]
          BY <2>4, <1>15, <1>17 DEF IdOf
      <4>2. QED BY <4>1, <2>1, <2>4, <2>8 DEF Shut
    <3>2. Shut(c, f) /\ c.synchronized
        BY <3>1, <2>1, <2>8, <1>4, <1>5, <1>6 DEF Shut
    <3>3. Project(f) # id
        BY <3>1, <2>8, <1>15, <1>17, ProjectOf, ProjectsApart
    <3>4. IF disk[f] # 0 THEN Project(f) \in DOMAIN c.sources /\ c.sources[Project(f)] = OnDisk(f)
                         ELSE Project(f) \notin DOMAIN c.sources
        BY <3>2, <2>8 DEF FromDisk, Project
    <3>5. QED BY <3>3, <3>4, <2>3
  <2>9. FromDisk(c) => FromDisk(d)
      BY <2>8 DEF FromDisk, Project
  <2>10. QED BY <2>5, <2>6, <2>7, <2>9 DEF Settled
<1>18. ASSUME Settled(c), u \in DOMAIN c.identities, next = {}
       PROVE  Settled(d) /\ (FromDisk(c) => FromDisk(d))
  <2>1. /\ d.docs = forgotten.docs /\ d.identities = forgotten.identities
        /\ d.errors = forgotten.errors /\ d.synchronized = forgotten.synchronized
      BY <1>10, <1>12, <1>18 DEF Alike
  <2>2. /\ DOMAIN d.overlays = DOMAIN c.overlays \ {id}
        /\ \A m \in DOMAIN c.overlays \ {id} : d.overlays[m] = c.overlays[m]
      BY <1>4, <1>5, <1>10, <1>12, <1>18 DEF Without, Restrict
  <2>3. /\ DOMAIN d.sources \ {id} = DOMAIN c.sources \ {id}
        /\ \A m \in DOMAIN c.sources \ {id} : d.sources[m] = c.sources[m]
        /\ IF id.kind # "loose" /\ disk[id.file] # 0
           THEN id \in DOMAIN d.sources /\ d.sources[id] = OnDisk(id.file)
           ELSE id \notin DOMAIN d.sources
    <3>1. bare.sources = c.sources
        BY <1>4, <1>5, <1>10
    <3>2. CASE id.kind # "loose" /\ disk[id.file] # 0
      <4>1. d.sources = With(c.sources, id, OnDisk(id.file))
          BY <3>1, <3>2, <1>12, <1>18
      <4>2. QED BY <4>1, <3>2 DEF With, Over
    <3>3. CASE ~(id.kind # "loose" /\ disk[id.file] # 0)
      <4>1. d.sources = Without(c.sources, {id})
          BY <3>1, <3>3, <1>12, <1>18
      <4>2. QED BY <4>1, <3>3 DEF Without, Restrict
    <3>4. QED BY <3>2, <3>3
  <2>4. \A w \in DOMAIN forgotten.docs : IdOf(w) # id
      BY <1>8, <1>15, <1>18 DEF Spells
  <2>5. Names(d)
      BY <2>1, <2>2, <1>15, <1>18 DEF Names, Settled
  <2>6. Known(d)
      BY <2>1, <1>15, <1>18
  <2>7. ASSUME NEW w \in DOMAIN d.docs \cap DOMAIN d.identities PROVE Spoken(d, IdOf(w))
    <3> DEFINE k == IdOf(w)
    <3>1. Spoken(c, k) /\ k # id
        BY <2>1, <2>4, <1>4, <1>5, <1>6, <1>18 DEF Settled
    <3> HIDE DEF k
    <3>2. \A x : Overlay(d, x) = Overlay(forgotten, x)
        BY <2>1 DEF Overlay
    <3>3. /\ k \in DOMAIN c.overlays /\ c.overlays[k] \in DOMAIN forgotten.docs
          /\ k \in DOMAIN c.sources /\ c.sources[k] = Overlay(forgotten, c.overlays[k])
        BY <3>1, <1>16, <1>18
    <3>4. Spoken(d, k)
        BY <3>1, <3>2, <3>3, <2>1, <2>2, <2>3 DEF Spoken
    <3>5. QED BY <3>4 DEF k
  <2>8. ASSUME FromDisk(c), manifest = "present", d.synchronized, NEW f \in Files, Shut(d, f)
        PROVE  IF disk[f] # 0 THEN Project(f) \in DOMAIN d.sources /\ d.sources[Project(f)] = OnDisk(f)
                              ELSE Project(f) \notin DOMAIN d.sources
    <3>1. CASE f = FileOf[u]
      <4>1. id = Project(f) /\ id.kind # "loose" /\ id.file = f
          BY <3>1, <2>8, <1>15, <1>18, ProjectOf DEF Project
      <4>2. QED BY <4>1, <2>3
    <3>2. CASE f # FileOf[u]
      <4>1. Shut(c, f) /\ c.synchronized
          BY <3>2, <2>1, <2>8, <1>4, <1>5, <1>6 DEF Shut
      <4>2. Project(f) # id
          BY <3>2, <2>8, <1>15, <1>18, ProjectOf, ProjectsApart
      <4>3. IF disk[f] # 0 THEN Project(f) \in DOMAIN c.sources /\ c.sources[Project(f)] = OnDisk(f)
                           ELSE Project(f) \notin DOMAIN c.sources
          BY <4>1, <2>8 DEF FromDisk, Project
      <4>4. QED BY <4>2, <4>3, <2>3
    <3>3. QED BY <3>1, <3>2
  <2>9. FromDisk(c) => FromDisk(d)
      BY <2>8 DEF FromDisk, Project
  <2>10. QED BY <2>5, <2>6, <2>7, <2>9 DEF Settled
<1>19. QED BY <1>13, <1>14, <1>17, <1>18 DEF d

-----------------------------------------------------------------------------
(* Looking again at files that a notice names.                             *)

\* A watched file is read again, unless an open document speaks for it.
LEMMA RefreshIs ==
    ASSUME World, NEW c, Usable(c), NEW f \in Files
    PROVE  LET d == RefreshSource(c, f)
           IN  /\ Usable(d) /\ KeepsUse(c, d)
               /\ Settled(c) => Settled(d)
               /\ Settled(c) /\ FromDisk(c) => FromDisk(d)
<1> DEFINE id == [kind |-> "project", file |-> f]
           active == \E u \in DOMAIN c.identities \cap DOMAIN c.docs : c.identities[u].kind = "project"
           u == Canonical[f]
           named == IF u \in DOMAIN c.docs /\ u \in DOMAIN c.identities THEN c
                    ELSE [c EXCEPT !.identities = With(@, u, id)]
           next == RemainingOverlay(named, id, {})
           d == RefreshSource(c, f)
<1>1. \/ d = c
      \/ manifest = "present" /\ next # {} /\ d = named
      \/ manifest = "present" /\ next = {} /\ d = SourceFromDisk(named, id)
    BY DEF RefreshSource
<1> HIDE DEF d
<1>2. u \in Uris /\ FileOf[u] = f /\ id \in Identity /\ id.file = f /\ id = Project(f)
    BY SpellingAssumption DEF Identity, Project
<1> HIDE DEF id, u
<1>3. /\ Usable(named) /\ Alike([c EXCEPT !.identities = named.identities], named)
      /\ named.overlays = c.overlays /\ named.sources = c.sources
      /\ DOMAIN c.identities \subseteq DOMAIN named.identities
      /\ \/ named.identities = c.identities
         \/ /\ ~(u \in DOMAIN c.docs /\ u \in DOMAIN c.identities)
            /\ DOMAIN named.identities = DOMAIN c.identities \cup {u} /\ named.identities[u] = id
            /\ \A v \in DOMAIN c.identities \ {u} : named.identities[v] = c.identities[v]
  <2>1. IsMap(With(c.identities, u, id), Uris, Identity)
      BY <1>2, WithIs DEF Usable, IsCompiler
  <2>2. /\ DOMAIN With(c.identities, u, id) = DOMAIN c.identities \cup {u}
        /\ With(c.identities, u, id)[u] = id
        /\ \A v \in DOMAIN c.identities \ {u} : With(c.identities, u, id)[v] = c.identities[v]
      BY DEF With, Over
  <2>3. QED BY <2>1, <2>2 DEF Usable, IsCompiler, Alike
<1>4. /\ named.docs = c.docs /\ named.errors = c.errors /\ named.synchronized = c.synchronized
      /\ named.release = c.release
    BY <1>3 DEF Alike, Usable, IsCompiler
<1> HIDE DEF named
<1>5. /\ next \subseteq DOMAIN named.docs
      /\ \A w \in DOMAIN named.docs : Spells(named, w, id) => next # {}
    BY <1>3, RemainingIs
<1> HIDE DEF next
<1>6. /\ Usable(SourceFromDisk(named, id)) /\ Alike(named, SourceFromDisk(named, id))
      /\ SourceFromDisk(named, id).overlays = named.overlays
      /\ SourceFromDisk(named, id).sources =
            IF disk[id.file] # 0 THEN With(named.sources, id, OnDisk(id.file)) ELSE Without(named.sources, {id})
  <2>1. IsCompiler(named)
      BY <1>3 DEF Usable
  <2> DEFINE e == SourceFromDisk(named, id)
  <2>2. /\ IsCompiler(e) /\ Alike(named, e) /\ e.overlays = named.overlays
        /\ e.sources = IF disk[id.file] # 0 THEN With(named.sources, id, OnDisk(id.file))
                                            ELSE Without(named.sources, {id})
      BY <2>1, <1>2, SourceFromDiskIs
  <2> HIDE DEF e
  <2>3. Usable(e)
      BY <2>2, <1>3 DEF Usable, Alike
  <2>4. QED BY <2>2, <2>3 DEF e
<1>7. Usable(d) /\ KeepsUse(c, d)
    BY <1>1, <1>3, <1>4, <1>6 DEF Usable, KeepsUse, Alike
<1>8. ASSUME Settled(c), manifest = "present"
      PROVE  /\ Names(named)
             /\ \A e : /\ e.docs = named.docs /\ e.identities = named.identities
                       /\ e.errors = named.errors /\ e.synchronized = named.synchronized
                       => Known(e)
             /\ \A v \in DOMAIN named.docs : named.identities[v] = IdOf(v) /\ v \in DOMAIN named.identities
                                             /\ Spoken(named, IdOf(v))
  <2>1. id = IdOf(u) /\ DOMAIN c.docs \subseteq DOMAIN c.identities /\ c.errors = {}
      BY <1>2, <1>8, ProjectOf DEF Settled, Known
  <2>2. Names(named)
      BY <2>1, <1>3, <1>8 DEF Names, Settled
  <2>3. \A v \in DOMAIN named.docs : named.identities[v] = IdOf(v) /\ v \in DOMAIN named.identities
      BY <2>1, <2>2, <1>3, <1>4 DEF Names
  <2>4. ASSUME NEW v \in DOMAIN named.docs PROVE Spoken(named, IdOf(v))
    <3>1. Spoken(c, IdOf(v))
        BY <2>1, <1>4, <1>8 DEF Settled
    <3>2. QED BY <3>1, <1>3, <1>4 DEF Spoken, Overlay
  <2>5. named.errors = {} /\ (DOMAIN named.docs # {} => named.synchronized)
      BY <2>1, <1>4, <1>8 DEF Settled, Known
  <2>6. QED BY <2>2, <2>3, <2>4, <2>5, <1>8 DEF Known
<1>9. ASSUME Settled(c), manifest = "present", next # {}, d = named
      PROVE  Settled(d) /\ (FromDisk(c) => FromDisk(d))
  <2>1. Settled(d)
      BY <1>8, <1>9 DEF Settled
  <2>2. FromDisk(c) => FromDisk(d)
      BY <1>3, <1>4, <1>9 DEF FromDisk, Shut
  <2>3. QED BY <2>1, <2>2
<1>10. ASSUME Settled(c), manifest = "present", next = {}, d = SourceFromDisk(named, id)
       PROVE  Settled(d) /\ (FromDisk(c) => FromDisk(d))
  <2>1. /\ d.docs = named.docs /\ d.identities = named.identities /\ d.overlays = named.overlays
        /\ d.errors = named.errors /\ d.synchronized = named.synchronized
      BY <1>6, <1>10 DEF Alike
  <2>2. /\ DOMAIN d.sources \ {id} = DOMAIN named.sources \ {id}
        /\ \A m \in DOMAIN named.sources \ {id} : d.sources[m] = named.sources[m]
        /\ IF disk[f] # 0 THEN id \in DOMAIN d.sources /\ d.sources[id] = OnDisk(f) ELSE id \notin DOMAIN d.sources
    <3>1. CASE disk[f] # 0
      <4>1. d.sources = With(named.sources, id, OnDisk(f))
          BY <3>1, <1>2, <1>6, <1>10
      <4>2. QED BY <4>1, <3>1 DEF With, Over
    <3>2. CASE disk[f] = 0
      <4>1. d.sources = Without(named.sources, {id})
          BY <3>2, <1>2, <1>6, <1>10
      <4>2. QED BY <4>1, <3>2 DEF Without, Restrict
    <3>3. QED BY <3>1, <3>2
  <2>3. Names(d)
      BY <2>1, <1>8, <1>10 DEF Names
  <2>4. Known(d)
      BY <2>1, <1>8, <1>10
  <2>5. ASSUME NEW v \in DOMAIN d.docs PROVE Spoken(d, IdOf(v))
    <3> DEFINE k == IdOf(v)
    <3>1. Spoken(named, k) /\ named.identities[v] = k /\ v \in DOMAIN named.identities
        BY <2>1, <1>8, <1>10
    <3>2. k # id
        BY <3>1, <2>1, <1>5, <1>10 DEF Spells
    <3> HIDE DEF k
    <3>3. \A x : Overlay(d, x) = Overlay(named, x)
        BY <2>1 DEF Overlay
    <3>4. Spoken(d, k)
        BY <3>1, <3>2, <3>3, <2>1, <2>2 DEF Spoken
    <3>5. QED BY <3>4 DEF k
  <2>6. ASSUME FromDisk(c), d.synchronized, NEW g \in Files, Shut(d, g)
        PROVE  IF disk[g] # 0 THEN Project(g) \in DOMAIN d.sources /\ d.sources[Project(g)] = OnDisk(g)
                              ELSE Project(g) \notin DOMAIN d.sources
    <3>1. CASE g = f
        BY <3>1, <2>2, <1>2
    <3>2. CASE g # f
      <4>1. Shut(c, g) /\ c.synchronized
          BY <2>1, <2>6, <1>4 DEF Shut
      <4>2. Project(g) # id
          BY <3>2, <1>2, ProjectsApart
      <4>3. IF disk[g] # 0 THEN Project(g) \in DOMAIN c.sources /\ c.sources[Project(g)] = OnDisk(g)
                           ELSE Project(g) \notin DOMAIN c.sources
          BY <4>1, <2>6, <1>10 DEF FromDisk, Project
      <4>4. QED BY <4>2, <4>3, <2>2, <1>3
    <3>3. QED BY <3>1, <3>2
  <2>7. FromDisk(c) => FromDisk(d)
      BY <2>6 DEF FromDisk, Project
  <2>8. QED BY <2>3, <2>4, <2>5, <2>7 DEF Settled
<1>11. QED BY <1>1, <1>7, <1>9, <1>10 DEF d

\* The session's promise: what it is from, and that it is usable.
Sound(c, docs, release, told, all) ==
    /\ Usable(c) /\ c.docs = docs /\ c.release = release
    /\ told => Settled(c)
    /\ told /\ all => FromDisk(c)

\* A batch of notices keeps it.
LEMMA RefreshesKeep ==
    ASSUME World, NEW c, NEW told, NEW all, Sound(c, c.docs, c.release, told, all),
           NEW files \in SUBSET Files, IsFiniteSet(files)
    PROVE  Sound(FoldLeft(RefreshSource, c, SetToSeq(files)), c.docs, c.release, told, all)
<1> DEFINE s == SetToSeq(files)
<1>1. s \in Seq(Files)
  <2>1. s \in Seq(files)
      BY InARow
  <2> HIDE DEF s
  <2>2. QED BY <2>1
<1>2. FoldLeft(RefreshSource, c, s) = Refreshes!Folded(0, c, s)
    BY Zenon DEF Refreshes!Folded, Refreshes!Table, FoldLeft, MapThenFoldSet, Max, Refreshes!Greatest, Refreshing
<1> HIDE DEF s
<1>3. PICK t : /\ t[0] = c
               /\ \A i \in 1 .. Len(s) : t[i] = Refreshing(0, t[i - 1], s[i])
               /\ Refreshes!Folded(0, c, s) = t[Len(s)]
    BY <1>1, Refreshes!FoldSteps DEF Refreshes!Results
<1> DEFINE Bad == {i \in 0 .. Len(s) : ~Sound(t[i], c.docs, c.release, told, all)}
<1>4. Len(s) \in Nat /\ \A i \in 1 .. Len(s) : s[i] \in Files
    BY <1>1
<1>5. Bad = {}
  <2> SUFFICES ASSUME Bad # {} PROVE FALSE
      OBVIOUS
  <2>1. Bad \in SUBSET Nat
      OBVIOUS
  <2>2. PICK k \in Nat : k \in Bad /\ \A i \in Bad : k <= i
    <3> HIDE DEF Bad
    <3>1. QED BY <2>1, Refreshes!LeastNatural
  <2>3. k \in 0 .. Len(s) /\ k # 0 /\ ~Sound(t[k], c.docs, c.release, told, all)
      BY <2>2, <1>3
  <2>4. k \in 1 .. Len(s) /\ k - 1 \in 0 .. Len(s) /\ ~(k <= k - 1)
      BY <2>3, <1>4
  <2>5. Sound(t[k - 1], c.docs, c.release, told, all)
      BY <2>2, <2>4
  <2>6. t[k] = RefreshSource(t[k - 1], s[k]) /\ s[k] \in Files
      BY <2>4, <1>3, <1>4 DEF Refreshing
  <2> DEFINE e == t[k - 1]
  <2>7. Sound(RefreshSource(e, s[k]), c.docs, c.release, told, all)
    <3> HIDE DEF e, Bad
    <3>1. Sound(e, c.docs, c.release, told, all)
        BY <2>5 DEF e
    <3>2. /\ Usable(RefreshSource(e, s[k])) /\ KeepsUse(e, RefreshSource(e, s[k]))
          /\ Settled(e) => Settled(RefreshSource(e, s[k]))
          /\ Settled(e) /\ FromDisk(e) => FromDisk(RefreshSource(e, s[k]))
        BY <3>1, <2>6, RefreshIs DEF Sound
    <3>3. QED BY <3>1, <3>2 DEF Sound, KeepsUse
  <2>8. QED BY <2>3, <2>6, <2>7
<1>6. Sound(t[Len(s)], c.docs, c.release, told, all)
  <2>1. Len(s) \in 0 .. Len(s)
      BY <1>4
  <2>2. QED BY <2>1, <1>5
<1>7. QED BY <1>2, <1>3, <1>6 DEF s

-----------------------------------------------------------------------------
(* A session rebuilt from a snapshot.                                      *)

\* Nothing is promised of an empty session, and that is kept.
LEMMA EmptyIs ==
    ASSUME NEW release \in BOOLEAN
    PROVE  /\ Sound(EmptyCompiler(release), <<>>, release, TRUE, TRUE)
           /\ DOMAIN EmptyCompiler(release).docs = {}
<1> DEFINE c == EmptyCompiler(release)
<1>1. /\ c.docs = <<>> /\ c.identities = <<>> /\ c.errors = {} /\ c.overlays = <<>>
      /\ c.sources = <<>> /\ c.synchronized = FALSE /\ c.release = release
      /\ c \in [docs : {c.docs}, identities : {c.identities}, errors : SUBSET Uris,
                overlays : {c.overlays}, sources : {c.sources},
                synchronized : BOOLEAN, release : BOOLEAN]
    BY DEF EmptyCompiler
<1> HIDE DEF c
<1>2. DOMAIN <<>> = {} /\ \A D, R : IsMap(<<>>, D, R)
    BY DEF IsMap
<1>3. Usable(c)
  <2>1. IsFiniteSet(DOMAIN c.docs)
      BY <1>1, <1>2, FS_EmptySet
  <2>2. QED BY <2>1, <1>1, <1>2 DEF Usable, IsCompiler
<1>4. Settled(c)
    BY <1>1, <1>2 DEF Settled, Names, Known
<1>5. FromDisk(c)
    BY <1>1 DEF FromDisk
<1>6. QED BY <1>1, <1>2, <1>3, <1>4, <1>5 DEF Sound, c

\* Maps with the same values are one.
LEMMA SameMap ==
    ASSUME NEW D, NEW R, NEW f, NEW g, IsMap(f, D, R), IsMap(g, D, R),
           DOMAIN f = DOMAIN g, \A x \in DOMAIN f : f[x] = g[x]
    PROVE  f = g
BY DEF IsMap

\* Opening a snapshot's documents in their order makes a sound session of it.
LEMMA RebuiltIs ==
    ASSUME World, NEW s, IsStore(s), Ordered(s.docs)
    PROVE  Sound(Rebuilt(s), s.docs, s.release, TRUE, TRUE)
<1> DEFINE q == InUpdateOrder(s.docs)
           b == EmptyCompiler(s.release)
<1>1. q \in Seq(DOMAIN s.docs) /\ (\A u \in DOMAIN s.docs : \E i \in 1 .. Len(q) : q[i] = u)
      /\ IsMap(s.docs, Uris, Document) /\ s.release \in BOOLEAN
  <2>1. IsMap(s.docs, Uris, Document) /\ s.release \in BOOLEAN
      BY DEF IsStore
  <2>2. QED BY <2>1, UpdateOrder
<1>2. Rebuilt(s) = Openings!Folded(s, b, q)
    BY Zenon DEF Rebuilt, Openings!Folded, Openings!Table, FoldLeft, MapThenFoldSet, Max, Openings!Greatest, Opening
<1>3. Sound(b, <<>>, s.release, TRUE, TRUE) /\ DOMAIN b.docs = {}
    BY <1>1, EmptyIs
<1> HIDE DEF q, b
<1>4. PICK t : /\ t[0] = b
               /\ \A i \in 1 .. Len(q) : t[i] = Opening(s, t[i - 1], q[i])
               /\ Openings!Folded(s, b, q) = t[Len(q)]
    BY <1>1, Openings!FoldSteps DEF Openings!Results
<1>5. Len(q) \in Nat /\ (\A i \in 1 .. Len(q) : q[i] \in DOMAIN s.docs)
      /\ (\A u \in DOMAIN s.docs : u \in Uris /\ s.docs[u] \in Document)
    BY <1>1 DEF IsMap
<1> DEFINE Good(c, i) ==
              /\ Sound(c, c.docs, s.release, TRUE, TRUE)
              /\ \A u \in DOMAIN c.docs : u \in DOMAIN s.docs /\ c.docs[u] = s.docs[u]
              /\ \A j \in 1 .. i : q[j] \in DOMAIN c.docs
           Bad == {i \in 0 .. Len(q) : ~Good(t[i], i)}
<1>6. Bad = {}
  <2> SUFFICES ASSUME Bad # {} PROVE FALSE
      OBVIOUS
  <2>1. Bad \in SUBSET Nat
    <3> HIDE DEF Good
    <3>1. QED OBVIOUS
  <2>2. PICK k \in Nat : k \in Bad /\ \A i \in Bad : k <= i
    <3> HIDE DEF Bad
    <3>1. QED BY <2>1, Openings!LeastNatural
  <2>3. Good(t[0], 0)
      BY <1>3, <1>4 DEF Sound
  <2>4. k \in 0 .. Len(q) /\ k # 0 /\ ~Good(t[k], k)
      BY <2>2, <2>3
  <2>5. k \in 1 .. Len(q) /\ k - 1 \in 0 .. Len(q) /\ ~(k <= k - 1)
      BY <2>4, <1>5
  <2>6. Good(t[k - 1], k - 1)
      BY <2>2, <2>5
  <2> DEFINE e == t[k - 1]
             u == q[k]
             d == OpenOrChange(e, u, s.docs[u])
  <2>7. t[k] = d /\ u \in DOMAIN s.docs /\ u \in Uris /\ s.docs[u] \in Document
      BY <2>5, <1>4, <1>5 DEF Opening
  <2>8. Sound(e, e.docs, s.release, TRUE, TRUE)
      BY <2>6
  <2>9. \A v \in DOMAIN e.docs : v \in DOMAIN s.docs /\ e.docs[v] = s.docs[v]
      BY <2>6
  <2>10. \A j \in 1 .. k - 1 : q[j] \in DOMAIN e.docs
      BY <2>6
  <2> HIDE DEF e, Good, Bad
  <2>11. /\ Usable(d) /\ d.docs = With(e.docs, u, s.docs[u]) /\ d.release = e.release
         /\ Settled(d) /\ FromDisk(d)
    <3> DEFINE doc == s.docs[u]
    <3> HIDE DEF u, doc
    <3>1. u \in Uris /\ doc \in Document /\ Usable(e) /\ Settled(e) /\ FromDisk(e)
        BY <2>7, <2>8 DEF Sound, doc
    <3>2. /\ Usable(OpenOrChange(e, u, doc)) /\ OpenOrChange(e, u, doc).docs = With(e.docs, u, doc)
          /\ OpenOrChange(e, u, doc).release = e.release
          /\ Settled(OpenOrChange(e, u, doc)) /\ FromDisk(OpenOrChange(e, u, doc))
        BY <3>1, OpenOrChangeIs
    <3>3. QED BY <3>2 DEF doc
  <2> HIDE DEF d
  <2>12. /\ DOMAIN d.docs = DOMAIN e.docs \cup {u} /\ d.docs[u] = s.docs[u]
         /\ \A v \in DOMAIN e.docs \ {u} : d.docs[v] = e.docs[v]
      BY <2>11 DEF With, Over
  <2>13. Sound(d, d.docs, s.release, TRUE, TRUE)
      BY <2>8, <2>11 DEF Sound
  <2>14. \A v \in DOMAIN d.docs : v \in DOMAIN s.docs /\ d.docs[v] = s.docs[v]
      BY <2>7, <2>9, <2>12
  <2>15. \A j \in 1 .. k : q[j] \in DOMAIN d.docs
    <3>1. \A j \in 1 .. k : j = k \/ j \in 1 .. k - 1
        BY <2>5, <1>5
    <3>2. QED BY <3>1, <2>10, <2>12
  <2>16. QED BY <2>4, <2>7, <2>13, <2>14, <2>15 DEF Good
<1>7. Good(t[Len(q)], Len(q))
  <2>1. Len(q) \in 0 .. Len(q)
      BY <1>5
  <2>2. QED BY <2>1, <1>6
<1> DEFINE c == t[Len(q)]
<1>8. Sound(c, c.docs, s.release, TRUE, TRUE)
    BY <1>7
<1>9. c.docs = s.docs
  <2>1. DOMAIN c.docs = DOMAIN s.docs
    <3>1. DOMAIN c.docs \subseteq DOMAIN s.docs
        BY <1>7
    <3>2. \A u \in DOMAIN s.docs : u \in DOMAIN c.docs
        BY <1>1, <1>7
    <3>3. QED BY <3>1, <3>2
  <2>2. \A u \in DOMAIN c.docs : c.docs[u] = s.docs[u]
      BY <1>7
  <2> HIDE DEF c
  <2>3. IsMap(c.docs, Uris, Document)
      BY <1>8 DEF Sound, Usable, IsCompiler
  <2>4. QED BY <2>1, <2>2, <2>3, <1>1, SameMap
<1>10. QED BY <1>2, <1>4, <1>8, <1>9

-----------------------------------------------------------------------------
(* What an analysis sees of a sound session is settled by its documents.   *)

Open(c) == {c.identities[u] : u \in DOMAIN c.docs \cap DOMAIN c.identities}
Reached(c) ==
    {id \in DOMAIN c.sources :
        \/ id \in Open(c)
        \/ id.kind = "project" /\ \E o \in Open(c) : o.kind = "project"}
Sight(c, id) == IF c.sources[id][1] = "disk" THEN c.sources[id] ELSE <<"overlay">>

LEMMA SpokenSight ==
    ASSUME NEW c, NEW id, Spoken(c, id)
    PROVE  id \in DOMAIN c.sources /\ Sight(c, id) = <<"overlay">>
<1>1. c.sources[id][1] = "overlay" /\ id \in DOMAIN c.sources
    BY DEF Spoken, Overlay
<1>2. QED BY <1>1 DEF Sight

LEMMA OpenIs ==
    ASSUME NEW c, Settled(c)
    PROVE  /\ Open(c) = IF manifest = "broken" THEN {} ELSE {IdOf(u) : u \in DOMAIN c.docs}
           /\ \A id \in Open(c) : Spoken(c, id)
BY DEF Open, Settled, Names, Known

\* What one sound session shows of a module, every other of the same documents does.
LEMMA SeenAlike ==
    ASSUME World, NEW docs, NEW release,
           NEW c, Sound(c, docs, release, TRUE, TRUE), NEW d, Sound(d, docs, release, TRUE, TRUE),
           NEW id \in Reached(c)
    PROVE  id \in Reached(d) /\ Sight(d, id) = Sight(c, id)
<1>1. Settled(c) /\ Settled(d) /\ FromDisk(c) /\ FromDisk(d) /\ c.docs = docs /\ d.docs = docs
      /\ IsCompiler(c) /\ IsCompiler(d)
    BY DEF Sound, Usable
<1>2. Open(c) = Open(d)
    BY <1>1, OpenIs
<1>3. CASE id \in Open(c)
  <2>1. Spoken(c, id) /\ Spoken(d, id) /\ id \in Open(d)
      BY <1>1, <1>2, <1>3, OpenIs
  <2>2. QED BY <2>1, SpokenSight DEF Reached
<1>4. CASE id \notin Open(c)
  <2>1. PICK o \in Open(c) : o.kind = "project"
      BY <1>4 DEF Reached
  <2>2. id.kind = "project" /\ id \in DOMAIN c.sources
      BY <1>4 DEF Reached
  <2>3. manifest # "broken" /\ Open(c) = {IdOf(u) : u \in DOMAIN docs}
      BY <2>1, <1>1, OpenIs
  <2>4. manifest = "present" /\ DOMAIN docs # {}
      BY <2>1, <2>3 DEF IdOf, World
  <2>5. c.synchronized /\ d.synchronized
      BY <2>4, <1>1 DEF Settled, Known
  <2>6. PICK f \in Files : id = Project(f)
    <3>1. id \in Identity
        BY <2>2, <1>1 DEF IsCompiler, IsMap
    <3>2. QED BY <3>1, <2>2 DEF Identity, Project
  <2>7. \A u \in DOMAIN docs : FileOf[u] # f
      BY <2>3, <2>4, <2>6, <1>4, ProjectOf
  <2>8. Shut(c, f) /\ Shut(d, f)
      BY <2>7, <1>1 DEF Shut
  <2>9. disk[f] # 0 /\ c.sources[id] = OnDisk(f) /\ id \in DOMAIN d.sources /\ d.sources[id] = OnDisk(f)
      BY <2>2, <2>4, <2>5, <2>6, <2>8, <1>1 DEF FromDisk, Project
  <2>10. Sight(c, id) = Sight(d, id)
      BY <2>9 DEF Sight
  <2>11. id \in Reached(d)
      BY <2>1, <2>2, <2>9, <1>2 DEF Reached
  <2>12. QED BY <2>10, <2>11
<1>5. QED BY <1>3, <1>4

\* So they look the same to an analysis.
LEMMA SameSight ==
    ASSUME World, NEW docs, NEW release,
           NEW c, Sound(c, docs, release, TRUE, TRUE), NEW d, Sound(d, docs, release, TRUE, TRUE)
    PROVE  Visible(c) = Visible(d)
<1> DEFINE Seen(e) == [id \in Reached(e) |-> Sight(e, id)]
           Called(e) == Restrict(e.identities, DOMAIN e.docs \cap DOMAIN e.identities)
<1>1. \A e : Visible(e) = [documents |-> e.docs, errors |-> e.errors, release |-> e.release,
                           names |-> Called(e), sources |-> Seen(e)]
    BY Zenon DEF Visible, Reached, Open, Sight
<1>2. c.docs = d.docs /\ c.release = d.release /\ Settled(c) /\ Settled(d)
    BY DEF Sound
<1>3. c.errors = d.errors
    BY <1>2 DEF Settled, Known
<1>4. Called(c) = Called(d)
  <2>1. DOMAIN c.docs \cap DOMAIN c.identities = DOMAIN d.docs \cap DOMAIN d.identities
      BY <1>2 DEF Settled, Known
  <2>2. \A u \in DOMAIN c.docs \cap DOMAIN c.identities : c.identities[u] = d.identities[u]
      BY <1>2, <2>1 DEF Settled, Names
  <2>3. QED BY <2>1, <2>2 DEF Restrict
<1>5. Reached(c) = Reached(d) /\ \A id \in Reached(c) : Sight(c, id) = Sight(d, id)
  <2>1. \A id \in Reached(c) : id \in Reached(d) /\ Sight(d, id) = Sight(c, id)
      BY SeenAlike
  <2>2. \A id \in Reached(d) : id \in Reached(c)
      BY SeenAlike
  <2>3. QED BY <2>1, <2>2
<1>6. Seen(c) = Seen(d)
    BY <1>5
<1> HIDE DEF Seen, Called
<1>7. QED BY <1>1, <1>2, <1>3, <1>4, <1>6

-----------------------------------------------------------------------------
(* The owner's documents.                                                  *)

LEMMA StoreFacts ==
    ASSUME NEW s, NEW n, Sensible(s, n)
    PROVE  /\ s.revision \in Nat /\ s.filesystem \in Nat /\ s.release \in BOOLEAN
           /\ DOMAIN s.docs \subseteq Uris /\ IsMap(s.docs, Uris, Document)
           /\ \A u \in DOMAIN s.docs : s.docs[u] \in Document /\ s.docs[u].update \in Nat
BY DEF Sensible, IsStore, IsMap, Document

\* What was no later than one notice is no later than the next.
LEMMA LaterNotices ==
    ASSUME NEW n \in Nat, NEW m \in Nat, n <= m
    PROVE  /\ \A s : Sensible(s, n) => Sensible(s, m)
           /\ \A j : JobOK(j, n) => JobOK(j, m)
<1>1. ASSUME NEW s, Sensible(s, n) PROVE Sensible(s, m)
  <2>1. s.filesystem \in Nat /\ s.filesystem <= n
      BY <1>1, StoreFacts DEF Sensible
  <2>2. s.filesystem <= m
      BY <2>1
  <2>3. QED BY <2>2, <1>1 DEF Sensible
<1>2. QED BY <1>1 DEF JobOK

Writes(s, r, u, doc) ==
    /\ r \in [docs : {r.docs}, revision : {s.revision + 1}, filesystem : {s.filesystem},
             release : {s.release}]
    /\ r.docs = With(s.docs, u, doc)

\* A document is written with the next revision.
LEMMA WrittenIs ==
    ASSUME NEW s, NEW n, Sensible(s, n), NEW u \in Uris, NEW doc \in Document,
           doc.update = s.revision + 1, NEW r, Writes(s, r, u, doc)
    PROVE  Sensible(r, n)
<1>1. /\ r.docs = With(s.docs, u, doc) /\ r.revision = s.revision + 1
      /\ r.filesystem = s.filesystem /\ r.release = s.release
      /\ r \in [docs : {r.docs}, revision : Nat, filesystem : Nat, release : BOOLEAN]
  <2>1. s.revision + 1 \in Nat
      BY StoreFacts
  <2>2. QED BY <2>1 DEF Sensible, IsStore, Writes
<1>2. IsMap(r.docs, Uris, Document)
    BY <1>1, StoreFacts, WithIs
<1>3. /\ DOMAIN r.docs = DOMAIN s.docs \cup {u} /\ r.docs[u] = doc
      /\ \A v \in DOMAIN s.docs \ {u} : r.docs[v] = s.docs[v]
    BY <1>1 DEF With, Over
<1>4. IsFiniteSet(DOMAIN r.docs)
    BY <1>3, FS_AddElement DEF Sensible, Ordered
<1>5. \A v \in DOMAIN s.docs : s.docs[v].update \in Nat /\ s.docs[v].update <= s.revision /\ s.revision \in Nat
    BY StoreFacts DEF Sensible
<1>6. ASSUME NEW v \in DOMAIN r.docs, NEW w \in DOMAIN r.docs, r.docs[v].update = r.docs[w].update
      PROVE  v = w
  <2>1. CASE v = u /\ w # u
    <3>1. r.docs[w].update <= s.revision /\ r.docs[w].update \in Nat /\ s.revision \in Nat
        BY <2>1, <1>3, <1>5
    <3>2. QED BY <3>1, <2>1, <1>3, <1>6
  <2>2. CASE v # u /\ w = u
    <3>1. r.docs[v].update <= s.revision /\ r.docs[v].update \in Nat /\ s.revision \in Nat
        BY <2>2, <1>3, <1>5
    <3>2. QED BY <3>1, <2>2, <1>3, <1>6
  <2>3. CASE v # u /\ w # u
      BY <2>3, <1>3, <1>6 DEF Sensible, Ordered
  <2>4. QED BY <2>1, <2>2, <2>3
<1>7. ASSUME NEW v \in DOMAIN r.docs PROVE r.docs[v].update <= r.revision
  <2>1. s.revision \in Nat
      BY StoreFacts
  <2>2. CASE v = u
      BY <2>1, <2>2, <1>1, <1>3
  <2>3. CASE v # u
    <3>1. r.docs[v].update \in Nat /\ r.docs[v].update <= s.revision
        BY <2>3, <1>3, <1>5
    <3>2. QED BY <3>1, <2>1, <1>1
  <2>4. QED BY <2>2, <2>3
<1>8. QED BY <1>1, <1>2, <1>4, <1>6, <1>7 DEF Sensible, IsStore, Ordered

LEMMA OpenedIs ==
    ASSUME NEW s, NEW n, Sensible(s, n), NEW u \in Uris, NEW version \in Versions
    PROVE  Sensible(Opened(s, u, version), n) /\ Opened(s, u, version).filesystem = s.filesystem
<1> DEFINE r == s.revision + 1
           doc == [update |-> r, lifecycle |-> r, version |-> version]
<1>1. doc \in Document /\ doc.update = s.revision + 1
  <2>1. r \in Nat
      BY StoreFacts
  <2> HIDE DEF r
  <2>2. QED BY <2>1, SpellingAssumption DEF Document, r
<1> DEFINE after == Opened(s, u, version)
<1>2. Writes(s, after, u, doc)
    BY DEF Opened, Sensible, IsStore, Writes
<1> HIDE DEF doc, after
<1>3. Sensible(after, n) /\ after.filesystem = s.filesystem
    BY <1>1, <1>2, WrittenIs DEF Writes
<1>4. QED BY <1>3 DEF after

LEMMA ChangedIs ==
    ASSUME NEW s, NEW n, Sensible(s, n), NEW u \in DOMAIN s.docs
    PROVE  Sensible(Changed(s, u), n) /\ Changed(s, u).filesystem = s.filesystem
<1> DEFINE r == s.revision + 1
           doc == [update |-> r, lifecycle |-> s.docs[u].lifecycle, version |-> s.docs[u].version + 1]
<1>1. r \in Nat /\ s.docs[u] \in Document /\ u \in Uris
    BY StoreFacts
<1>2. doc \in Document /\ doc.update = s.revision + 1
  <2> HIDE DEF r
  <2>1. QED BY <1>1 DEF Document, r
<1>3. [s.docs EXCEPT ![u].update = r, ![u].version = @ + 1] = With(s.docs, u, doc)
  <2> DEFINE a == [s.docs EXCEPT ![u].update = r, ![u].version = @ + 1]
             b == With(s.docs, u, doc)
  <2>1. s.docs \in [DOMAIN s.docs -> Document]
      BY StoreFacts DEF IsMap
  <2>2. a[u] = doc
      BY <2>1, <1>1 DEF Document
  <2>3. \A v \in DOMAIN s.docs \ {u} : a[v] = s.docs[v]
      BY <2>1
  <2>4. a = [v \in DOMAIN s.docs |-> a[v]]
      BY <2>1
  <2>5. b = [v \in DOMAIN s.docs |-> IF v = u THEN doc ELSE s.docs[v]]
      BY DEF With, Over
  <2> HIDE DEF a, b, doc
  <2>6. QED BY <2>2, <2>3, <2>4, <2>5 DEF a, b
<1> DEFINE after == Changed(s, u)
<1>4. Writes(s, after, u, doc)
  <2>1. Changed(s, u) = [s EXCEPT !.revision = s.revision + 1,
                                  !.docs = [s.docs EXCEPT ![u].update = r, ![u].version = @ + 1]]
      BY DEF Changed, Sensible, IsStore
  <2> HIDE DEF doc
  <2>2. QED BY <2>1, <1>3 DEF Writes, Sensible, IsStore
<1> HIDE DEF doc, after
<1>5. Sensible(after, n) /\ after.filesystem = s.filesystem
    BY <1>1, <1>2, <1>4, WrittenIs DEF Writes
<1>6. QED BY <1>5 DEF after

LEMMA ClosedIs ==
    ASSUME NEW s, NEW n, Sensible(s, n), NEW u
    PROVE  LET r == Closed(s, u)
           IN  /\ Sensible(r, n) /\ r.filesystem = s.filesystem /\ r.release = s.release
               /\ r.docs = Without(s.docs, {u})
<1> DEFINE r == Closed(s, u)
<1>1. /\ r.docs = Without(s.docs, {u}) /\ r.revision = s.revision + 1
      /\ r.filesystem = s.filesystem /\ r.release = s.release
      /\ r \in [docs : {r.docs}, revision : Nat, filesystem : Nat, release : BOOLEAN]
  <2>1. s.revision + 1 \in Nat
      BY StoreFacts
  <2>2. QED BY <2>1 DEF Sensible, IsStore, Closed
<1> HIDE DEF r
<1>2. IsMap(r.docs, Uris, Document)
    BY <1>1, StoreFacts, WithoutIs
<1>3. /\ DOMAIN r.docs = DOMAIN s.docs \ {u}
      /\ \A v \in DOMAIN s.docs \ {u} : r.docs[v] = s.docs[v]
    BY <1>1 DEF Without, Restrict
<1>4. IsFiniteSet(DOMAIN r.docs)
    BY <1>3, FS_RemoveElement DEF Sensible, Ordered
<1>5. ASSUME NEW v \in DOMAIN r.docs PROVE r.docs[v].update <= r.revision
  <2>1. r.docs[v].update \in Nat /\ r.docs[v].update <= s.revision /\ s.revision \in Nat
      BY <1>3, StoreFacts DEF Sensible
  <2>2. QED BY <2>1, <1>1
<1>6. \A v, w \in DOMAIN r.docs : r.docs[v].update = r.docs[w].update => v = w
    BY <1>3 DEF Sensible, Ordered
<1>7. Sensible(r, n)
    BY <1>1, <1>2, <1>4, <1>5, <1>6 DEF Sensible, IsStore, Ordered
<1>8. QED BY <1>1, <1>7 DEF r

\* Neither a notice nor another profile touches a document.
LEMMA RevisedIs ==
    ASSUME NEW s, NEW n \in Nat, Sensible(s, n), NEW m \in Nat, n <= m,
           NEW r, r.docs = s.docs, r.revision = s.revision + 1, r.filesystem <= m,
           r \in [docs : {r.docs}, revision : Nat, filesystem : Nat, release : BOOLEAN]
    PROVE  Sensible(r, m)
<1>1. s.revision \in Nat /\ \A u \in DOMAIN s.docs : s.docs[u].update \in Nat /\ s.docs[u].update <= s.revision
    BY StoreFacts DEF Sensible
<1>2. \A u \in DOMAIN r.docs : r.docs[u].update <= r.revision
    BY <1>1
<1>3. QED BY <1>2 DEF Sensible, IsStore

-----------------------------------------------------------------------------
(* What is left to be done makes the documents those of the job.           *)

Steps == [do : {"open", "update", "close"}, uri : Uris]

LEMMA OpsAre ==
    ASSUME NEW do \in {"open", "update", "close"}, NEW U \in SUBSET Uris, NEW q \in Seq(U)
    PROVE  /\ Ops(do, q) \in Seq(Steps) /\ Len(Ops(do, q)) = Len(q)
           /\ \A i \in 1 .. Len(q) : Ops(do, q)[i].do = do /\ Ops(do, q)[i].uri = q[i] /\ q[i] \in U
<1>1. DOMAIN q = 1 .. Len(q) /\ Len(q) \in Nat /\ \A i \in 1 .. Len(q) : q[i] \in U
    OBVIOUS
<1>2. Ops(do, q) = [i \in 1 .. Len(q) |-> [do |-> do, uri |-> q[i]]]
    BY <1>1 DEF Ops
<1>3. \A i \in 1 .. Len(q) : [do |-> do, uri |-> q[i]] \in Steps
    BY <1>1 DEF Steps
<1>4. Ops(do, q) \in [1 .. Len(q) -> Steps]
    BY <1>2, <1>3
<1>5. Ops(do, q) \in Seq(Steps) /\ Len(Ops(do, q)) = Len(q)
    BY <1>1, <1>4
<1>6. QED BY <1>1, <1>2, <1>5

\* Part of a snapshot can be put in order as well.
LEMMA OrderedPart ==
    ASSUME NEW docs, IsMap(docs, Uris, Document), Ordered(docs), NEW S \in SUBSET DOMAIN docs
    PROVE  /\ InUpdateOrder(Restrict(docs, S)) \in Seq(S)
           /\ \A u \in S : \E i \in 1 .. Len(InUpdateOrder(Restrict(docs, S))) :
                              InUpdateOrder(Restrict(docs, S))[i] = u
<1> DEFINE part == Restrict(docs, S)
<1>1. DOMAIN part = S /\ \A u \in S : part[u] = docs[u]
    BY DEF Restrict
<1>2. IsMap(part, Uris, Document)
    BY DEF IsMap, Restrict
<1> HIDE DEF part
<1>3. Ordered(part)
  <2>1. IsFiniteSet(S)
      BY FS_Subset DEF Ordered
  <2>2. QED BY <2>1, <1>1 DEF Ordered
<1>4. QED BY <1>1, <1>2, <1>3, UpdateOrder DEF part

\* A rebuilt session has every document to open.
LEMMA RebuildPending ==
    ASSUME NEW s, NEW n, Sensible(s, n)
    PROVE  LET steps == Ops("open", InUpdateOrder(s.docs))
           IN  steps \in Seq(Steps) /\ Pending(steps, <<>>, s.docs)
<1> DEFINE q == InUpdateOrder(s.docs)
           steps == Ops("open", q)
<1>1. q \in Seq(DOMAIN s.docs) /\ (\A u \in DOMAIN s.docs : \E i \in 1 .. Len(q) : q[i] = u)
      /\ DOMAIN s.docs \in SUBSET Uris
    BY StoreFacts, UpdateOrder DEF Sensible
<1> HIDE DEF q
<1>2. /\ steps \in Seq(Steps) /\ Len(steps) = Len(q)
      /\ \A i \in 1 .. Len(q) : steps[i].do = "open" /\ steps[i].uri = q[i] /\ q[i] \in DOMAIN s.docs
    BY <1>1, OpsAre
<1> HIDE DEF steps
<1>3. DOMAIN steps = 1 .. Len(q)
    BY <1>2
<1>4. DOMAIN <<>> = {}
    OBVIOUS
<1>5. Pending(steps, <<>>, s.docs)
    BY <1>1, <1>2, <1>3, <1>4 DEF Pending
<1>6. QED BY <1>2, <1>5 DEF steps, q

\* The steps of a reconciliation make up all the difference between the snapshots.
LEMMA ReconcilePending ==
    ASSUME NEW n, Sensible(snapshot, n), NEW s, NEW m, Sensible(s, m)
    PROVE  Reconciliation(s) \in Seq(Steps) /\ Pending(Reconciliation(s), snapshot.docs, s.docs)
<1> DEFINE gone == DOMAIN snapshot.docs \ DOMAIN s.docs
           differs == {u \in DOMAIN s.docs : u \in DOMAIN snapshot.docs => snapshot.docs[u] # s.docs[u]}
           p == InUpdateOrder(Restrict(snapshot.docs, gone))
           q == Reverse(p)
           r == InUpdateOrder(Restrict(s.docs, differs))
           a == Ops("close", q)
           b == Ops("update", r)
           steps == a \o b
<1>1. Reconciliation(s) = steps
    BY DEF Reconciliation
<1>2. /\ gone \in SUBSET DOMAIN snapshot.docs /\ differs \in SUBSET DOMAIN s.docs
      /\ gone \in SUBSET Uris /\ differs \in SUBSET Uris
    BY StoreFacts
<1>3. \A u \in Uris : u \notin gone /\ u \notin differs =>
          /\ u \in DOMAIN snapshot.docs <=> u \in DOMAIN s.docs
          /\ u \in DOMAIN snapshot.docs => snapshot.docs[u] = s.docs[u]
    OBVIOUS
<1>4. \A u \in gone : u \notin DOMAIN s.docs
    OBVIOUS
<1> HIDE DEF gone, differs
<1>5. p \in Seq(gone) /\ \A u \in gone : \E i \in 1 .. Len(p) : p[i] = u
    BY <1>2, StoreFacts, OrderedPart DEF Sensible
<1>6. r \in Seq(differs) /\ \A u \in differs : \E i \in 1 .. Len(r) : r[i] = u
    BY <1>2, StoreFacts, OrderedPart DEF Sensible
<1> HIDE DEF p, r
<1>7. q \in Seq(gone) /\ \A u \in gone : \E i \in 1 .. Len(q) : q[i] = u
  <2>1. Len(p) \in Nat /\ \A i \in 1 .. Len(p) : p[i] \in gone
      BY <1>5
  <2>2. q = [i \in 1 .. Len(p) |-> p[Len(p) - i + 1]]
      BY DEF Reverse
  <2>3. \A i \in 1 .. Len(p) : Len(p) - i + 1 \in 1 .. Len(p)
      BY <2>1
  <2>4. q \in [1 .. Len(p) -> gone] /\ \A i \in 1 .. Len(p) : q[i] = p[Len(p) - i + 1]
      BY <2>1, <2>2, <2>3
  <2> HIDE DEF q
  <2>5. q \in Seq(gone) /\ Len(q) = Len(p)
      BY <2>1, <2>4
  <2>6. ASSUME NEW u \in gone PROVE \E i \in 1 .. Len(q) : q[i] = u
    <3>1. PICK i \in 1 .. Len(p) : p[i] = u
        BY <1>5
    <3>2. Len(p) - i + 1 \in 1 .. Len(p) /\ Len(p) - (Len(p) - i + 1) + 1 = i
        BY <2>1
    <3>3. q[Len(p) - i + 1] = u
        BY <3>1, <3>2, <2>4
    <3>4. QED BY <3>2, <3>3, <2>5
  <2>7. QED BY <2>5, <2>6
<1> HIDE DEF q
<1>8. /\ a \in Seq(Steps) /\ Len(a) = Len(q)
      /\ \A i \in 1 .. Len(q) : a[i].do = "close" /\ a[i].uri = q[i] /\ q[i] \in gone
    BY <1>2, <1>7, OpsAre
<1>9. /\ b \in Seq(Steps) /\ Len(b) = Len(r)
      /\ \A i \in 1 .. Len(r) : b[i].do = "update" /\ b[i].uri = r[i] /\ r[i] \in differs
    BY <1>2, <1>6, OpsAre
<1> HIDE DEF a, b
<1>10. /\ steps \in Seq(Steps) /\ Len(a) \in Nat /\ Len(b) \in Nat
       /\ DOMAIN steps = 1 .. Len(a) + Len(b)
       /\ \A i \in 1 .. Len(a) : steps[i] = a[i]
       /\ \A i \in 1 .. Len(b) : steps[Len(a) + i] = b[i]
       /\ \A i \in 1 .. Len(a) + Len(b) : i \in 1 .. Len(a) \/ (i - Len(a) \in 1 .. Len(b) /\ steps[i] = b[i - Len(a)])
  <2>1. a \in Seq(Steps) /\ b \in Seq(Steps)
      BY <1>8, <1>9
  <2>2. /\ steps \in Seq(Steps) /\ Len(steps) = Len(a) + Len(b)
        /\ \A i \in 1 .. Len(a) + Len(b) : steps[i] = IF i <= Len(a) THEN a[i] ELSE b[i - Len(a)]
      BY <2>1, ConcatProperties, Zenon
  <2>3. Len(a) \in Nat /\ Len(b) \in Nat
      BY <2>1
  <2> HIDE DEF steps
  <2>4. DOMAIN steps = 1 .. Len(a) + Len(b)
      BY <2>2
  <2>5. \A i \in 1 .. Len(a) : steps[i] = a[i]
      BY <2>2, <2>3
  <2>6. \A i \in 1 .. Len(b) : steps[Len(a) + i] = b[i]
    <3>1. \A i \in 1 .. Len(b) : Len(a) + i \in 1 .. Len(a) + Len(b) /\ ~(Len(a) + i <= Len(a)) /\ (Len(a) + i) - Len(a) = i
        BY <2>3
    <3>2. QED BY <3>1, <2>2
  <2>7. \A i \in 1 .. Len(a) + Len(b) : i \in 1 .. Len(a) \/ (i - Len(a) \in 1 .. Len(b) /\ steps[i] = b[i - Len(a)])
    <3>1. \A i \in 1 .. Len(a) + Len(b) : i \in 1 .. Len(a) \/ (~(i <= Len(a)) /\ i - Len(a) \in 1 .. Len(b))
        BY <2>3
    <3>2. QED BY <3>1, <2>2
  <2>8. QED BY <2>2, <2>3, <2>4, <2>5, <2>6, <2>7
<1> HIDE DEF steps
<1>11. ASSUME NEW i \in DOMAIN steps
       PROVE  steps[i].do = "close" <=> steps[i].uri \notin DOMAIN s.docs
  <2>1. CASE i \in 1 .. Len(a)
      BY <2>1, <1>4, <1>8, <1>10
  <2>2. CASE i - Len(a) \in 1 .. Len(b) /\ steps[i] = b[i - Len(a)]
      BY <2>2, <1>2, <1>9
  <2>3. QED BY <2>1, <2>2, <1>10
<1>12. ASSUME NEW u \in Uris, \A i \in DOMAIN steps : steps[i].uri # u
       PROVE  u \notin gone /\ u \notin differs
  <2>1. ASSUME u \in gone PROVE FALSE
    <3>1. PICK i \in 1 .. Len(q) : q[i] = u
        BY <2>1, <1>7
    <3>2. i \in DOMAIN steps /\ steps[i].uri = u
        BY <3>1, <1>8, <1>10
    <3>3. QED BY <3>2, <1>12
  <2>2. ASSUME u \in differs PROVE FALSE
    <3>1. PICK i \in 1 .. Len(r) : r[i] = u
        BY <2>2, <1>6
    <3>2. Len(a) + i \in DOMAIN steps /\ steps[Len(a) + i].uri = u
        BY <3>1, <1>9, <1>10
    <3>3. QED BY <3>2, <1>12
  <2>3. QED BY <2>1, <2>2
<1>13. Pending(steps, snapshot.docs, s.docs)
    BY <1>3, <1>11, <1>12 DEF Pending
<1>14. QED BY <1>1, <1>10, <1>13

\* have and want agree about u.
Agreed(u, have, want) ==
    /\ u \in DOMAIN have <=> u \in DOMAIN want
    /\ u \in DOMAIN have => have[u] = want[u]

\* A step taken is no longer needed.
LEMMA OneStep ==
    ASSUME NEW steps \in Seq(Steps), steps # <<>>, NEW have, NEW want, Pending(steps, have, want),
           NEW now, Agreed(Head(steps).uri, now, want),
           \A u \in Uris \ {Head(steps).uri} : Agreed(u, now, have)
    PROVE  Tail(steps) \in Seq(Steps) /\ Pending(Tail(steps), now, want)
<1> DEFINE rest == Tail(steps)
           n == Len(steps)
<1>1. /\ n \in Nat /\ n # 0 /\ DOMAIN steps = 1 .. n /\ rest \in Seq(Steps) /\ DOMAIN rest = 1 .. n - 1
      /\ \A i \in 1 .. n - 1 : rest[i] = steps[i + 1] /\ i + 1 \in 1 .. n
      /\ \A i \in 1 .. n : i = 1 \/ (i - 1 \in 1 .. n - 1 /\ (i - 1) + 1 = i)
      /\ Head(steps) = steps[1]
  <2>1. n \in Nat /\ n # 0 /\ DOMAIN steps = 1 .. n /\ Head(steps) = steps[1]
      OBVIOUS
  <2>2. rest \in Seq(Steps) /\ Len(rest) = n - 1
      OBVIOUS
  <2>3. \A i \in 1 .. n - 1 : rest[i] = steps[i + 1]
      OBVIOUS
  <2> HIDE DEF rest, n
  <2>4. DOMAIN rest = 1 .. n - 1
      BY <2>2
  <2>5. \A i \in 1 .. n - 1 : i + 1 \in 1 .. n
      BY <2>1
  <2>6. \A i \in 1 .. n : i = 1 \/ (i - 1 \in 1 .. n - 1 /\ (i - 1) + 1 = i)
      BY <2>1
  <2>7. QED BY <2>1, <2>2, <2>3, <2>4, <2>5, <2>6
<1> HIDE DEF rest, n
<1>2. \A i \in DOMAIN rest : rest[i].do = "close" <=> rest[i].uri \notin DOMAIN want
    BY <1>1 DEF Pending
<1>3. ASSUME NEW u \in Uris, \A i \in DOMAIN rest : rest[i].uri # u
      PROVE  Agreed(u, now, want)
  <2>1. CASE u = Head(steps).uri
      BY <2>1
  <2>2. CASE u # Head(steps).uri
    <3>1. ASSUME NEW i \in DOMAIN steps PROVE steps[i].uri # u
      <4>1. CASE i = 1
          BY <4>1, <2>2, <1>1
      <4>2. CASE i # 1
        <5>1. i - 1 \in DOMAIN rest /\ rest[i - 1] = steps[i]
            BY <4>2, <1>1
        <5>2. QED BY <5>1, <1>3
      <4>3. QED BY <4>1, <4>2
    <3>2. Agreed(u, have, want)
        BY <3>1 DEF Pending, Agreed
    <3>3. QED BY <3>2, <2>2 DEF Agreed
  <2>3. QED BY <2>1, <2>2
<1>4. Pending(rest, now, want)
    BY <1>2, <1>3 DEF Pending, Agreed
<1>5. QED BY <1>1, <1>4 DEF rest

\* With no step left the documents are those wanted.
LEMMA NothingPending ==
    ASSUME NEW have, NEW want, IsMap(have, Uris, Document), IsMap(want, Uris, Document),
           Pending(<<>>, have, want)
    PROVE  have = want
<1>1. DOMAIN <<>> = {}
    OBVIOUS
<1>2. \A u \in Uris : Agreed(u, have, want)
    BY <1>1 DEF Pending, Agreed
<1>3. DOMAIN have = DOMAIN want /\ \A u \in DOMAIN have : have[u] = want[u]
    BY <1>2 DEF Agreed, IsMap
<1>4. QED BY <1>3, SameMap

-----------------------------------------------------------------------------
(* The actions.                                                            *)

LEMMA InWorld == ASSUME TypeOK PROVE World
BY DEF TypeOK, World

LEMMA UsableNow == ASSUME TypeOK, Snapshots PROVE Usable(compiler)
BY DEF TypeOK, Snapshots, Usable

\* A session is still fresh after a step that leaves the world as it is.
LEMMA FreshKept ==
    ASSUME Fresh, UNCHANGED <<disk, manifest, untold>>, store'.filesystem = store.filesystem, Base' = Base,
           pc' # "idle" \/ initialized' => pc # "idle" \/ initialized,
           NEW d, compiler' = d,
           Settled(compiler) => Settled(d), Settled(compiler) /\ FromDisk(compiler) => FromDisk(d)
    PROVE  Fresh'
<1>1. /\ Current({"manifest"})' => Current({"manifest"})
      /\ Current(Files \cup {"manifest"})' => Current(Files \cup {"manifest"}) /\ Current({"manifest"})
    BY DEF Current
<1>2. Settled(d) => Settled(compiler)'
    BY DEF Settled, Names, Known, Spoken, Overlay, IdOf
<1>3. FromDisk(d) => FromDisk(compiler)'
    BY DEF FromDisk, Shut, OnDisk
<1>4. QED BY <1>1, <1>2, <1>3 DEF Fresh

LEMMA InitHolds == Init => IndInv
<1> SUFFICES ASSUME Init PROVE IndInv
    OBVIOUS
<1>1. Sound(EmptyCompiler(FALSE), <<>>, FALSE, TRUE, TRUE) /\ DOMAIN EmptyCompiler(FALSE).docs = {}
    BY EmptyIs
<1>2. EmptyStore.docs = <<>> /\ EmptyStore.filesystem = 0 /\ EmptyStore.revision = 0
      /\ IsStore(EmptyStore) /\ DOMAIN EmptyStore.docs = {} /\ EmptyStore.release = FALSE
  <2>1. DOMAIN <<>> = {} /\ IsMap(<<>>, Uris, Document)
      BY DEF IsMap
  <2>2. QED BY <2>1 DEF EmptyStore, IsStore
<1>3. Sensible(EmptyStore, 0)
  <2>1. Ordered(EmptyStore.docs)
      BY <1>2, FS_EmptySet DEF Ordered
  <2>2. QED BY <1>2, <2>1 DEF Sensible
<1>4. TypeOK
  <2>1. /\ MaxDisk \in Nat /\ MaxRequests \in Nat
        /\ <<>> \in Seq([do : {"open", "update", "close"}, uri : Uris])
      BY SpellingAssumption
  <2>2. disk \in [Files -> 0 .. 2]
      BY DEF Init
  <2>3. changes \in 0 .. MaxDisk /\ requests \in 0 .. MaxRequests
      BY <2>1 DEF Init
  <2>4. IsCompiler(compiler) /\ IsStore(store) /\ IsStore(snapshot)
      BY <1>1, <1>2 DEF Init, Sound, Usable
  <2>5. QED BY <2>1, <2>2, <2>3, <2>4 DEF Init, TypeOK
<1>5. Snapshots
    BY <1>1, <1>2, <1>3, FS_EmptySet DEF Init, Snapshots, Sound, Usable
<1>6. Agreement
    BY DEF Init, Agreement
<1>7. Fresh
    BY <1>1 DEF Init, Fresh, Sound
<1>8. QED BY <1>4, <1>5, <1>6, <1>7 DEF IndInv

LEMMA WriteFileKeeps ==
    ASSUME IndInv, NEW f \in Files, NEW text \in 0 .. 2, WriteFile(f, text) PROVE IndInv'
<1> USE DEF WriteFile, IndInv, owner, session
<1>1. TypeOK'
  <2>1. disk' \in [Files -> 0 .. 2]
      BY DEF TypeOK
  <2>2. changes' \in 0 .. MaxDisk
      BY SpellingAssumption DEF TypeOK
  <2>3. untold' \subseteq Files \cup {"manifest"}
      BY DEF TypeOK
  <2>4. QED BY <2>1, <2>2, <2>3 DEF TypeOK
<1>2. Snapshots'
  <2>1. IsFiniteSet(untold')
      BY FS_AddElement DEF Snapshots
  <2>2. QED BY <2>1 DEF Snapshots
<1>3. Agreement'
    BY DEF Agreement
<1>4. Fresh'
  <2>1. Current({"manifest"})' => Current({"manifest"})
      BY DEF Current, Base
  <2>2. ~Current(Files \cup {"manifest"})'
      BY DEF Current
  <2>3. Settled(compiler) => Settled(compiler)'
      BY DEF Settled, Names, Known, Spoken, Overlay, IdOf
  <2>4. QED BY <2>1, <2>2, <2>3 DEF Fresh
<1>5. QED BY <1>1, <1>2, <1>3, <1>4

LEMMA WriteManifestKeeps ==
    ASSUME IndInv, NEW state \in {"present", "absent", "broken"}, WriteManifest(state) PROVE IndInv'
<1> USE DEF WriteManifest, IndInv, owner, session
<1>1. TypeOK'
  <2>1. changes' \in 0 .. MaxDisk
      BY SpellingAssumption DEF TypeOK
  <2>2. untold' \subseteq Files \cup {"manifest"} /\ manifest' \in {"present", "absent", "broken"}
      BY DEF TypeOK
  <2>3. QED BY <2>1, <2>2 DEF TypeOK
<1>2. Snapshots'
  <2>1. IsFiniteSet(untold')
      BY FS_AddElement DEF Snapshots
  <2>2. QED BY <2>1 DEF Snapshots
<1>3. Agreement'
    BY DEF Agreement
<1>4. Fresh'
    BY DEF Fresh, Current
<1>5. QED BY <1>1, <1>2, <1>3, <1>4

\* A step of the owner that reads and writes documents, but hears no notice.
LEMMA OwnerKeeps ==
    ASSUME IndInv, UNCHANGED <<world, job, todo, pc, session>>,
           Sensible(store', store.filesystem), store'.filesystem = store.filesystem,
           projects' \subseteq Files, requests' \in 0 .. MaxRequests,
           NEW j, jobs' \subseteq jobs \cup {j}, j \in jobs' => JobOK(j, store.filesystem)
    PROVE  IndInv'
<1> USE DEF IndInv, world, session
<1>1. \A k \in jobs' : JobOK(k, store.filesystem)
    BY DEF Snapshots
<1>2. TypeOK'
  <2>1. \A k \in jobs' : IsJob(k)
      BY <1>1 DEF JobOK
  <2>2. IsStore(store)'
      BY DEF Sensible, IsStore
  <2>3. QED BY <2>1, <2>2 DEF TypeOK
<1>3. Snapshots'
    BY <1>1 DEF Snapshots
<1>4. Agreement'
    BY DEF Agreement
<1>5. Fresh'
  <2>1. Base' = Base
      BY DEF Base
  <2>2. QED BY <2>1, FreshKept
<1>6. QED BY <1>2, <1>3, <1>4, <1>5

LEMMA KeyedFiles ==
    ASSUME TypeOK, NEW u \in Uris PROVE Keyed(FileOf[u]) \subseteq Files
BY SpellingAssumption DEF TypeOK, Keyed

LEMMA AnalyseOK ==
    ASSUME NEW s, NEW n, Sensible(s, n) PROVE JobOK(Analyse(s), n)
BY DEF JobOK, IsJob, Analyse, Sensible

LEMMA DidOpenKeeps ==
    ASSUME IndInv, NEW u \in Uris, NEW version \in Versions, DidOpen(u, version) PROVE IndInv'
<1> DEFINE n == store.filesystem
<1>1. TypeOK /\ Sensible(store, n) /\ requests \in 0 .. MaxRequests
    BY DEF IndInv, Snapshots, TypeOK
<1>2. Sensible(store', n) /\ store'.filesystem = n
    BY <1>1, OpenedIs DEF DidOpen
<1>3. JobOK(Analyse(store'), n)
    BY <1>2, AnalyseOK
<1>4. projects' \subseteq Files /\ requests' = requests
    BY <1>1, KeyedFiles DEF DidOpen
<1>5. jobs' \subseteq jobs \cup {Analyse(store')} /\ UNCHANGED <<world, job, todo, pc, session>>
    BY DEF DidOpen
<1> DEFINE j == Analyse(store')
<1> HIDE DEF j
<1>6. QED BY <1>1, <1>2, <1>3, <1>4, <1>5, OwnerKeeps DEF j

LEMMA DidChangeKeeps ==
    ASSUME IndInv, NEW u \in Uris, DidChange(u) PROVE IndInv'
<1> DEFINE n == store.filesystem
<1>1. TypeOK /\ Sensible(store, n) /\ requests \in 0 .. MaxRequests
    BY DEF IndInv, Snapshots, TypeOK
<1>2. Sensible(store', n) /\ store'.filesystem = n
    BY <1>1, ChangedIs DEF DidChange
<1>3. JobOK(Analyse(store'), n)
    BY <1>2, AnalyseOK
<1>4. projects' \subseteq Files /\ requests' = requests
    BY <1>1, KeyedFiles DEF DidChange
<1>5. jobs' \subseteq jobs \cup {Analyse(store')} /\ UNCHANGED <<world, job, todo, pc, session>>
    BY DEF DidChange
<1>6. QED BY <1>1, <1>2, <1>3, <1>4, <1>5, OwnerKeeps

LEMMA DidCloseKeeps ==
    ASSUME IndInv, NEW u \in Uris, DidClose(u) PROVE IndInv'
<1> DEFINE n == store.filesystem
           j == [kind |-> "close", of |-> store, uri |-> u, after |-> store']
<1>1. TypeOK /\ Sensible(store, n) /\ requests \in 0 .. MaxRequests
    BY DEF IndInv, Snapshots, TypeOK
<1>2. /\ Sensible(store', n) /\ store'.filesystem = n /\ store'.release = store.release
      /\ store'.docs = Without(store.docs, {u})
    BY <1>1, ClosedIs DEF DidClose
<1>3. JobOK(j, n)
    BY <1>1, <1>2 DEF JobOK, IsJob, Sensible
<1>4. projects' \subseteq Files /\ requests' = requests
    BY <1>1, KeyedFiles DEF DidClose
<1>5. jobs' \subseteq jobs \cup {j} /\ UNCHANGED <<world, job, todo, pc, session>>
    BY DEF DidClose
<1> HIDE DEF j
<1>6. QED BY <1>1, <1>2, <1>3, <1>4, <1>5, OwnerKeeps

LEMMA DidChangeConfigurationKeeps ==
    ASSUME IndInv, DidChangeConfiguration PROVE IndInv'
<1> DEFINE n == store.filesystem
<1>1. TypeOK /\ Sensible(store, n) /\ requests \in 0 .. MaxRequests
    BY DEF IndInv, Snapshots, TypeOK
<1>2. Sensible(store', n) /\ store'.filesystem = n
  <2> DEFINE r == store'
  <2>1. /\ r.docs = store.docs /\ r.revision = store.revision + 1 /\ r.filesystem = n
        /\ r \in [docs : {r.docs}, revision : Nat, filesystem : Nat, release : BOOLEAN]
    <3>1. store.revision + 1 \in Nat
        BY <1>1, StoreFacts
    <3>2. QED BY <3>1, <1>1 DEF DidChangeConfiguration, Sensible, IsStore
  <2> HIDE DEF r
  <2>2. n \in Nat /\ r.filesystem <= n
      BY <2>1, <1>1, StoreFacts
  <2>3. Sensible(r, n)
      BY <2>1, <2>2, <1>1, RevisedIs
  <2>4. QED BY <2>1, <2>3 DEF r
<1>3. JobOK(Analyse(store'), n)
    BY <1>2, AnalyseOK
<1>4. projects' \subseteq Files /\ requests' = requests
  <2>1. \A u \in DOMAIN store.docs : FileOf[u] \in Files
      BY <1>1, StoreFacts, SpellingAssumption
  <2>2. QED BY <2>1, <1>1 DEF DidChangeConfiguration, TypeOK
<1>5. jobs' \subseteq jobs \cup {Analyse(store')} /\ UNCHANGED <<world, job, todo, pc, session>>
    BY DEF DidChangeConfiguration
<1>6. QED BY <1>1, <1>2, <1>3, <1>4, <1>5, OwnerKeeps

LEMMA RequestKeeps ==
    ASSUME IndInv, NEW kind \in {"references", "symbols"}, NEW u \in Uris, Request(kind, u) PROVE IndInv'
<1> DEFINE n == store.filesystem
           j == [kind |-> kind, of |-> store, uri |-> u]
<1>1. TypeOK /\ Sensible(store, n)
    BY DEF IndInv, Snapshots
<1>2. store' = store /\ u \in DOMAIN store.docs
    BY DEF Request
<1>3. JobOK(j, n)
    BY <1>1, <1>2 DEF JobOK, IsJob, Sensible
<1>4. projects' \subseteq Files /\ requests' \in 0 .. MaxRequests
    BY <1>1, SpellingAssumption DEF Request, TypeOK
<1>5. jobs' \subseteq jobs \cup {j} /\ UNCHANGED <<world, job, todo, pc, session>>
    BY DEF Request
<1> HIDE DEF j
<1>6. QED BY <1>1, <1>2, <1>3, <1>4, <1>5, OwnerKeeps
\* A notice puts every session in the past.
LEMMA DidChangeWatchedFilesKeeps ==
    ASSUME IndInv, NEW batch \in SUBSET untold, DidChangeWatchedFiles(batch) PROVE IndInv'
<1> DEFINE n == store.filesystem
           m == n + 1
           open == {FileOf[u] : u \in DOMAIN store.docs}
           watch == [kind |-> "watch", of |-> store', files |-> batch]
<1>1. TypeOK /\ Snapshots /\ Agreement /\ Sensible(store, n) /\ n \in Nat /\ m \in Nat /\ n <= m /\ n < m
    BY StoreFacts DEF IndInv, Snapshots
<1>2. Sensible(store', m) /\ store'.filesystem = m
  <2> DEFINE r == store'
  <2>1. /\ r.docs = store.docs /\ r.revision = store.revision + 1 /\ r.filesystem = m
        /\ r \in [docs : {r.docs}, revision : Nat, filesystem : Nat, release : BOOLEAN]
    <3>1. store.revision + 1 \in Nat
        BY <1>1, StoreFacts
    <3>2. QED BY <3>1, <1>1 DEF DidChangeWatchedFiles, FilesystemChanged, Sensible, IsStore
  <2> HIDE DEF r, m, n
  <2>2. r.filesystem <= m
      BY <2>1, <1>1
  <2>3. Sensible(r, m)
      BY <2>1, <2>2, <1>1, RevisedIs
  <2>4. QED BY <2>1, <2>3 DEF r
<1>3. IsFiniteSet(batch) /\ IsFiniteSet(untold \ batch) /\ open \subseteq Files
  <2>1. IsFiniteSet(untold)
      BY <1>1 DEF Snapshots
  <2>2. \A u \in DOMAIN store.docs : FileOf[u] \in Files
      BY <1>1, StoreFacts, SpellingAssumption
  <2>3. QED BY <2>1, <2>2, FS_Subset
<1>4. /\ UNCHANGED <<disk, manifest, changes, requests, job, todo, pc, compiler, snapshot, initialized>>
      /\ untold' = untold \ batch
    BY DEF DidChangeWatchedFiles, session
<1>5. projects' \subseteq Files
  <2>1. projects \subseteq Files /\ untold \subseteq Files \cup {"manifest"}
      BY <1>1 DEF TypeOK
  <2>2. "manifest" \notin batch => batch \subseteq Files
      BY <2>1
  <2>3. CASE "manifest" \in batch
    <3>1. projects' \subseteq projects \cup open
        BY <2>3 DEF DidChangeWatchedFiles
    <3>2. QED BY <3>1, <2>1, <1>3
  <2>4. CASE "manifest" \notin batch
      BY <2>1, <2>2, <2>4 DEF DidChangeWatchedFiles
  <2>5. QED BY <2>3, <2>4
<1>6. JobOK(Analyse(store'), m)
    BY <1>2, AnalyseOK
<1>7. "manifest" \notin batch => JobOK(watch, m)
  <2>1. "manifest" \notin batch => batch \subseteq Files
      BY <1>1 DEF TypeOK
  <2> HIDE DEF m
  <2>2. QED BY <2>1, <1>2, <1>3 DEF JobOK, IsJob, Sensible
<1>8. /\ jobs' \subseteq jobs \cup {Analyse(store'), watch}
      /\ "manifest" \in batch => jobs' \subseteq jobs \cup {Analyse(store')}
    BY DEF DidChangeWatchedFiles
<1> HIDE DEF watch, m, n
<1>9. \A j : JobOK(j, n) => JobOK(j, m)
    BY <1>1, LaterNotices
<1>10. /\ Sensible(snapshot, n) /\ (\A j \in jobs : JobOK(j, n)) /\ (pc # "idle" => JobOK(job, n))
    BY <1>1 DEF Snapshots, n
<1>11. \A j \in jobs' : JobOK(j, m)
  <2>1. \A j \in jobs : JobOK(j, m)
      BY <1>9, <1>10
  <2>2. CASE "manifest" \in batch
      BY <2>1, <2>2, <1>6, <1>8
  <2>3. CASE "manifest" \notin batch
      BY <2>1, <2>3, <1>6, <1>7, <1>8
  <2>4. QED BY <2>2, <2>3
<1>12. Snapshots'
  <2>1. Sensible(snapshot, m)
      BY <1>1, <1>10, LaterNotices
  <2>2. pc # "idle" => JobOK(job, m)
      BY <1>9, <1>10
  <2>3. IsFiniteSet(untold') /\ IsFiniteSet(DOMAIN compiler'.docs)
      BY <1>1, <1>3, <1>4 DEF Snapshots
  <2>4. QED BY <2>1, <2>2, <2>3, <1>2, <1>4, <1>11 DEF Snapshots
<1>13. TypeOK'
  <2>1. \A j \in jobs' : IsJob(j)
      BY <1>11 DEF JobOK
  <2>2. IsStore(store')
      BY <1>2 DEF Sensible
  <2>3. QED BY <2>1, <2>2, <1>1, <1>4, <1>5 DEF TypeOK
<1>14. Agreement'
    BY <1>1, <1>4 DEF Agreement
<1>15. Fresh'
  <2>1. Base' = Base
      BY <1>4 DEF Base
  <2>2. Base \in Nat /\ Base <= n
    <3>1. pc = "sync" => Sensible(job.of, n)
        BY <1>10 DEF JobOK
    <3>2. Sensible(snapshot, n)
        BY <1>10
    <3>3. (pc = "sync" => job.of.filesystem \in Nat) /\ snapshot.filesystem \in Nat
        BY <3>1, <3>2, StoreFacts
    <3>4. QED BY <3>1, <3>2, <3>3 DEF Base, Sensible
  <2>3. Base' # store'.filesystem
      BY <2>1, <2>2, <1>1, <1>2
  <2>4. QED BY <2>3 DEF Fresh, Current
<1>16. QED BY <1>12, <1>13, <1>14, <1>15 DEF IndInv

\* A job either rebuilds the session, or goes on from the snapshot it is at.
LEMMA TakeJobKeeps ==
    ASSUME IndInv, NEW j \in jobs, TakeJob(j) PROVE IndInv'
<1> DEFINE n == store.filesystem
<1>1. TypeOK /\ Snapshots /\ Agreement /\ Fresh
    BY DEF IndInv
<1>2. JobOK(j, n) /\ Sensible(j.of, n) /\ Sensible(snapshot, n) /\ IsJob(j) /\ j.of.release \in BOOLEAN
  <2>1. JobOK(j, n) /\ Sensible(j.of, n) /\ Sensible(snapshot, n) /\ IsJob(j)
      BY <1>1 DEF Snapshots, JobOK
  <2>2. QED BY <2>1, StoreFacts
<1>3. /\ UNCHANGED <<world, owner, snapshot, initialized>> /\ pc = "idle" /\ pc' = "sync"
      /\ job' = j /\ jobs' = jobs \ {j}
    BY DEF TakeJob
<1>4. UNCHANGED <<disk, manifest, changes, untold, store, projects, requests, snapshot, initialized>>
    BY <1>3 DEF world, owner
<1>5. CASE MustRebuild(j.of)
  <2> DEFINE d == EmptyCompiler(j.of.release)
             steps == Ops("open", InUpdateOrder(j.of.docs))
  <2>1. compiler' = d /\ todo' = steps
      BY <1>5 DEF TakeJob
  <2>2. Sound(d, <<>>, j.of.release, TRUE, TRUE) /\ DOMAIN d.docs = {}
      BY <1>2, EmptyIs
  <2>3. steps \in Seq(Steps) /\ Pending(steps, <<>>, j.of.docs)
      BY <1>2, RebuildPending
  <2> HIDE DEF d, steps
  <2>4. Usable(d) /\ d.docs = <<>> /\ d.release = j.of.release /\ Settled(d) /\ FromDisk(d)
      BY <2>2 DEF Sound
  <2>5. TypeOK'
      BY <2>1, <2>3, <2>4, <1>1, <1>2, <1>3, <1>4 DEF TypeOK, Usable, Steps
  <2>6. Snapshots'
      BY <2>1, <2>4, <1>1, <1>2, <1>3, <1>4 DEF Snapshots, Usable
  <2>7. Agreement'
      BY <2>1, <2>3, <2>4, <1>3 DEF Agreement
  <2>8. Fresh'
    <3>1. Settled(compiler)'
        BY <2>1, <2>4, <1>4 DEF Settled, Names, Known, Spoken, Overlay, IdOf
    <3>2. FromDisk(compiler)'
        BY <2>1, <2>4, <1>4 DEF FromDisk, Shut, OnDisk
    <3>3. QED BY <3>1, <3>2 DEF Fresh
  <2>9. QED BY <2>5, <2>6, <2>7, <2>8 DEF IndInv
<1>6. CASE ~MustRebuild(j.of)
  <2> DEFINE d == [compiler EXCEPT !.release =
                     IF snapshot.release # j.of.release THEN j.of.release ELSE @]
             steps == Reconciliation(j.of)
  <2>1. compiler' = d /\ todo' = steps
      BY <1>6 DEF TakeJob
  <2>2. initialized /\ snapshot.filesystem = j.of.filesystem
      BY <1>6 DEF MustRebuild
  <2>3. compiler.docs = snapshot.docs /\ compiler.release = snapshot.release
      BY <2>2, <1>1, <1>3 DEF Agreement
  <2>4. Usable(compiler)
      BY <1>1, UsableNow
  <2>5. /\ Usable(d) /\ d.docs = compiler.docs /\ d.identities = compiler.identities
        /\ d.errors = compiler.errors /\ d.overlays = compiler.overlays /\ d.sources = compiler.sources
        /\ d.synchronized = compiler.synchronized /\ d.release = j.of.release
      BY <2>3, <2>4, <1>2 DEF Usable, IsCompiler
  <2>6. steps \in Seq(Steps) /\ Pending(steps, snapshot.docs, j.of.docs)
      BY <1>2, ReconcilePending
  <2> HIDE DEF d, steps
  <2>7. TypeOK'
      BY <2>1, <2>5, <2>6, <1>1, <1>2, <1>3, <1>4 DEF TypeOK, Usable, Steps
  <2>8. Snapshots'
      BY <2>1, <2>5, <1>1, <1>2, <1>3, <1>4 DEF Snapshots, Usable
  <2>9. Agreement'
      BY <2>1, <2>3, <2>5, <2>6, <1>3 DEF Agreement
  <2>10. Settled(compiler) => Settled(d)
      BY <2>5 DEF Settled, Names, Known, Spoken, Overlay
  <2>11. FromDisk(compiler) => FromDisk(d)
      BY <2>5 DEF FromDisk, Shut
  <2>12. Base' = Base
      BY <2>2, <1>3, <1>4 DEF Base
  <2>13. Fresh'
      BY <2>1, <2>2, <2>10, <2>11, <2>12, <1>1, <1>4, FreshKept
  <2>14. QED BY <2>7, <2>8, <2>9, <2>13 DEF IndInv
<1>7. QED BY <1>5, <1>6

LEMMA SynchronizeOneKeeps ==
    ASSUME IndInv, SynchronizeOne PROVE IndInv'
<1> DEFINE op == Head(todo)
           u == op.uri
           want == job.of.docs
           doc == want[u]
           reopened == /\ op.do = "update"
                       /\ u \in DOMAIN snapshot.docs
                       /\ snapshot.docs[u].lifecycle # doc.lifecycle
           before == IF reopened THEN Close(compiler, u) ELSE compiler
           d == IF op.do = "close" THEN Close(compiler, u) ELSE OpenOrChange(before, u, doc)
<1>1. TypeOK /\ Snapshots /\ Agreement /\ Fresh /\ World /\ Usable(compiler)
    BY InWorld, UsableNow DEF IndInv
<1>2. /\ pc = "sync" /\ todo # <<>> /\ compiler' = d /\ todo' = Tail(todo)
      /\ UNCHANGED <<world, owner, jobs, job, pc, snapshot, initialized>>
    BY DEF SynchronizeOne
<1>3. UNCHANGED <<disk, manifest, changes, untold, store, projects, requests>>
    BY <1>2 DEF world, owner
<1>4. todo \in Seq(Steps) /\ op \in Steps /\ u \in Uris /\ op = todo[1] /\ 1 \in DOMAIN todo
  <2>1. todo \in Seq(Steps)
      BY <1>1 DEF TypeOK, Steps
  <2>2. op \in Steps /\ op = todo[1] /\ 1 \in DOMAIN todo
      BY <2>1, <1>2
  <2>3. QED BY <2>1, <2>2 DEF Steps
<1>5. Pending(todo, compiler.docs, want) /\ compiler.release = job.of.release
    BY <1>1, <1>2 DEF Agreement
<1>6. op.do = "close" <=> u \notin DOMAIN want
    BY <1>4, <1>5 DEF Pending
<1>7. IsMap(want, Uris, Document) /\ (u \in DOMAIN want => doc \in Document)
  <2>1. Sensible(job.of, store.filesystem)
      BY <1>1, <1>2 DEF Snapshots, JobOK
  <2>2. QED BY <2>1, StoreFacts
<1> HIDE DEF u, doc, want, op, reopened
<1> DEFINE shut == Close(compiler, u)
<1>8. /\ Usable(shut) /\ shut.docs = Without(compiler.docs, {u}) /\ shut.release = compiler.release
      /\ Settled(compiler) => Settled(shut)
      /\ Settled(compiler) /\ FromDisk(compiler) => FromDisk(shut)
    BY <1>1, <1>4, CloseIs
<1> HIDE DEF shut
<1>9. /\ DOMAIN shut.docs = DOMAIN compiler.docs \ {u}
      /\ \A v \in DOMAIN compiler.docs \ {u} : shut.docs[v] = compiler.docs[v]
    BY <1>8 DEF Without, Restrict
<1>10. before = IF reopened THEN shut ELSE compiler
    BY DEF shut
<1>11. /\ Usable(before) /\ before.release = compiler.release
       /\ Settled(compiler) => Settled(before)
       /\ Settled(compiler) /\ FromDisk(compiler) => FromDisk(before)
       /\ \A v \in Uris \ {u} : Agreed(v, before.docs, compiler.docs)
    BY <1>1, <1>8, <1>9, <1>10 DEF Agreed
<1> HIDE DEF before
<1> DEFINE opened == OpenOrChange(before, u, doc)
<1>12. u \in DOMAIN want =>
          /\ Usable(opened) /\ opened.docs = With(before.docs, u, doc) /\ opened.release = before.release
          /\ Settled(before) => Settled(opened)
          /\ Settled(before) /\ FromDisk(before) => FromDisk(opened)
    BY <1>1, <1>4, <1>7, <1>11, OpenOrChangeIs
<1>13. d = IF op.do = "close" THEN shut ELSE opened
    BY DEF shut
<1> HIDE DEF opened, d
<1>14. /\ Usable(d) /\ d.release = job.of.release
       /\ Settled(compiler) => Settled(d)
       /\ Settled(compiler) /\ FromDisk(compiler) => FromDisk(d)
       /\ Agreed(u, d.docs, want)
       /\ \A v \in Uris \ {u} : Agreed(v, d.docs, compiler.docs)
  <2>1. CASE op.do = "close"
      BY <2>1, <1>5, <1>6, <1>8, <1>9, <1>13 DEF Agreed
  <2>2. CASE op.do # "close"
    <3>1. u \in DOMAIN want /\ d = opened
        BY <2>2, <1>6, <1>13
    <3>2. /\ DOMAIN d.docs = DOMAIN before.docs \cup {u} /\ d.docs[u] = want[u]
          /\ \A v \in DOMAIN before.docs \ {u} : d.docs[v] = before.docs[v]
        BY <3>1, <1>12 DEF With, Over, doc
    <3>3. /\ Usable(d) /\ d.release = job.of.release
          /\ Settled(compiler) => Settled(d)
          /\ Settled(compiler) /\ FromDisk(compiler) => FromDisk(d)
        BY <3>1, <1>5, <1>11, <1>12
    <3>4. QED BY <3>1, <3>2, <3>3, <1>11 DEF Agreed
  <2>3. QED BY <2>1, <2>2
<1>15. Tail(todo) \in Seq(Steps) /\ Pending(Tail(todo), d.docs, want)
    BY <1>2, <1>4, <1>5, <1>14, OneStep DEF u, op
<1>16. TypeOK'
    BY <1>1, <1>2, <1>3, <1>14, <1>15 DEF TypeOK, Usable, Steps
<1>17. Snapshots'
    BY <1>1, <1>2, <1>3, <1>14 DEF Snapshots, Usable
<1>18. Agreement'
    BY <1>2, <1>14, <1>15 DEF Agreement, want
<1>19. Fresh'
  <2>1. Base' = Base
      BY <1>2 DEF Base
  <2>2. QED BY <2>1, <1>1, <1>2, <1>3, <1>14, FreshKept
<1>20. QED BY <1>16, <1>17, <1>18, <1>19 DEF IndInv
LEMMA AdoptSnapshotKeeps ==
    ASSUME IndInv, AdoptSnapshot PROVE IndInv'
<1>1. TypeOK /\ Snapshots /\ Agreement /\ Fresh /\ Usable(compiler)
    BY UsableNow DEF IndInv
<1>2. /\ pc = "sync" /\ todo = <<>> /\ snapshot' = job.of /\ initialized' = TRUE /\ pc' = "work"
      /\ UNCHANGED <<world, owner, jobs, job, todo, compiler>>
    BY DEF AdoptSnapshot
<1>3. UNCHANGED <<disk, manifest, changes, untold, store, projects, requests>>
    BY <1>2 DEF world, owner
<1>4. JobOK(job, store.filesystem) /\ Sensible(job.of, store.filesystem) /\ IsStore(job.of)
    BY <1>1, <1>2 DEF Snapshots, JobOK, Sensible
<1>5. compiler.docs = job.of.docs /\ compiler.release = job.of.release
  <2>1. Pending(<<>>, compiler.docs, job.of.docs) /\ compiler.release = job.of.release
      BY <1>1, <1>2 DEF Agreement
  <2>2. IsMap(compiler.docs, Uris, Document) /\ IsMap(job.of.docs, Uris, Document)
      BY <1>1, <1>4, StoreFacts DEF Usable, IsCompiler
  <2>3. QED BY <2>1, <2>2, NothingPending
<1>6. TypeOK'
    BY <1>1, <1>2, <1>3, <1>4 DEF TypeOK
<1>7. Snapshots'
    BY <1>1, <1>2, <1>3, <1>4 DEF Snapshots
<1>8. Agreement'
    BY <1>2, <1>5 DEF Agreement
<1>9. Fresh'
  <2>1. Base' = Base
      BY <1>2 DEF Base
  <2> DEFINE d == compiler
  <2> HIDE DEF d
  <2>2. compiler' = d /\ (Settled(compiler) => Settled(d)) /\ (FromDisk(compiler) => FromDisk(d))
      BY <1>2 DEF d
  <2>3. QED BY <2>1, <2>2, <1>1, <1>2, <1>3, FreshKept
<1>10. QED BY <1>6, <1>7, <1>8, <1>9 DEF IndInv

\* A search for references looks at the project before it answers.
LEMMA SearchIs ==
    ASSUME World, NEW c, Usable(c), NEW u \in DOMAIN c.docs
    PROVE  LET e == Synchronize(c, u)
               d == IF Spells(e, u, [kind |-> "project", file |-> FileOf[u]]) THEN SynchronizeFiles(e) ELSE e
           IN  /\ Usable(d) /\ KeepsUse(c, d)
               /\ Settled(c) => Settled(d)
               /\ Settled(c) /\ FromDisk(c) => FromDisk(d)
<1> DEFINE e == Synchronize(c, u)
           f == SynchronizeFiles(e)
           project == Spells(e, u, [kind |-> "project", file |-> FileOf[u]])
<1>1. u \in Uris
    BY DEF Usable, IsCompiler, IsMap
<1>2. Usable(e) /\ KeepsUse(c, e)
    BY <1>1, SynchronizeIs
<1>3. ASSUME Settled(c) PROVE Settled(e) /\ (FromDisk(c) => FromDisk(e))
  <2>1. Unsettled(c, u)
      BY <1>3, SettledAgain
  <2>2. QED BY <2>1, <1>1, SynchronizeSettles
<1> HIDE DEF e
<1>4. Scans(e, f)
    BY <1>2, ScanIs
<1> HIDE DEF f
<1>5. Usable(f) /\ KeepsUse(c, f)
    BY <1>2, <1>4 DEF Scans, KeepsUse, Usable
<1>6. ASSUME Settled(c), project PROVE Settled(f) /\ FromDisk(f)
  <2>1. e.identities[u] = IdOf(u) /\ e.identities[u].kind = "project"
      BY <1>3, <1>6 DEF Settled, Names, Spells
  <2>2. manifest = "present"
      BY <2>1 DEF IdOf
  <2>3. Settled(e) /\ Names(e)
      BY <1>3, <1>6 DEF Settled
  <2>4. QED BY <2>2, <2>3, <1>2, <1>4, ScanSettles, ScanReadsDisk
<1> HIDE DEF project
<1>7. QED BY <1>2, <1>3, <1>5, <1>6 DEF e, f, project

\* And so does one for symbols.
LEMMA SurveyIs ==
    ASSUME World, NEW c, Usable(c), ProjectKnown(c)
    PROVE  LET d == SynchronizeFiles(c)
           IN  /\ Usable(d) /\ KeepsUse(c, d)
               /\ Settled(c) => Settled(d)
               /\ Settled(c) /\ FromDisk(c) => FromDisk(d)
<1> DEFINE d == SynchronizeFiles(c)
<1>1. Scans(c, d)
    BY ScanIs
<1> HIDE DEF d
<1>2. Usable(d) /\ KeepsUse(c, d)
    BY <1>1 DEF Scans, KeepsUse, Usable
<1>3. ASSUME Settled(c) PROVE Settled(d) /\ FromDisk(d)
  <2>1. PICK u \in DOMAIN c.identities : c.identities[u].kind = "project"
      BY DEF ProjectKnown
  <2>2. manifest = "present"
    <3>1. IdOf(u).kind = "project"
        BY <2>1, <1>3 DEF Settled, Names
    <3>2. QED BY <3>1 DEF IdOf
  <2>3. QED BY <2>2, <1>1, <1>3, ScanSettles, ScanReadsDisk DEF Settled
<1>4. QED BY <1>2, <1>3 DEF d

\* The job's own work leaves the session at its snapshot.
LEMMA WorkKeeps ==
    ASSUME IndInv, Work PROVE IndInv'
<1> DEFINE n == store.filesystem
           d == compiler'
           Done(docs) == /\ Usable(d) /\ d.release = compiler.release /\ d.docs = docs
                         /\ Settled(compiler) => Settled(d)
                         /\ Settled(compiler) /\ FromDisk(compiler) => FromDisk(d)
<1>1. TypeOK /\ Snapshots /\ Agreement /\ Fresh /\ World /\ Usable(compiler)
    BY InWorld, UsableNow DEF IndInv
<1>2. /\ pc = "work" /\ pc' = "answer"
      /\ snapshot' = (IF job.kind = "close" THEN job.after ELSE snapshot)
      /\ UNCHANGED <<world, owner, jobs, job, todo, initialized>>
    BY DEF Work
<1>3. UNCHANGED <<disk, manifest, changes, untold, store, projects, requests>>
    BY <1>2 DEF world, owner
<1>4. /\ JobOK(job, n) /\ IsJob(job) /\ initialized /\ snapshot = job.of
      /\ compiler.docs = snapshot.docs /\ compiler.release = snapshot.release
    BY <1>1, <1>2 DEF Snapshots, Agreement, JobOK
<1>5. /\ job.kind = "close" => d = Close(compiler, job.uri)
      /\ job.kind = "watch" => d = FoldLeft(RefreshSource, compiler, SetToSeq(job.files))
      /\ job.kind = "references" =>
            d = LET e == Synchronize(compiler, job.uri)
                IN  IF Spells(e, job.uri, [kind |-> "project", file |-> FileOf[job.uri]])
                    THEN SynchronizeFiles(e) ELSE e
      /\ job.kind = "symbols" =>
            \/ d = compiler
            \/ ProjectKnown(compiler) /\ d = SynchronizeFiles(compiler)
      /\ job.kind = "analyse" => d = compiler
    BY DEF Work
<1> HIDE DEF d
<1>6. ASSUME job.kind = "close"
      PROVE  /\ Done(job.after.docs) /\ Sensible(job.after, n) /\ IsStore(job.after)
             /\ job.after.release = snapshot.release /\ job.after.filesystem = snapshot.filesystem
  <2>1. /\ job.uri \in Uris /\ Sensible(job.after, n) /\ job.after.docs = Without(job.of.docs, {job.uri})
        /\ job.after.release = job.of.release /\ job.after.filesystem = job.of.filesystem
      BY <1>4, <1>6 DEF JobOK, IsJob
  <2>2. /\ Usable(d) /\ d.docs = Without(compiler.docs, {job.uri}) /\ d.release = compiler.release
        /\ Settled(compiler) => Settled(d)
        /\ Settled(compiler) /\ FromDisk(compiler) => FromDisk(d)
      BY <2>1, <1>1, <1>5, <1>6, CloseIs
  <2>3. IsStore(job.after)
      BY <2>1 DEF Sensible
  <2>4. Done(job.after.docs)
      BY <2>1, <2>2, <1>4
  <2>5. QED BY <2>1, <2>3, <2>4, <1>4
<1>7. ASSUME job.kind = "watch" PROVE Done(compiler.docs)
  <2>1. job.files \in SUBSET Files /\ IsFiniteSet(job.files)
      BY <1>4, <1>7 DEF JobOK, IsJob
  <2> DEFINE told == Settled(compiler)
             all == FromDisk(compiler)
  <2>2. Sound(compiler, compiler.docs, compiler.release, told, all)
      BY <1>1 DEF Sound
  <2> HIDE DEF told, all
  <2>3. Sound(d, compiler.docs, compiler.release, told, all)
      BY <2>1, <2>2, <1>1, <1>5, <1>7, RefreshesKeep
  <2>4. QED BY <2>3 DEF Sound, told, all
<1>8. ASSUME job.kind = "references" PROVE Done(compiler.docs)
  <2>1. job.uri \in DOMAIN compiler.docs
      BY <1>4, <1>8 DEF JobOK
  <2>2. QED BY <2>1, <1>1, <1>5, <1>8, SearchIs DEF KeepsUse
<1>9. ASSUME job.kind = "symbols" PROVE Done(compiler.docs)
  <2>1. CASE d = compiler
      BY <2>1, <1>1
  <2>2. CASE ProjectKnown(compiler) /\ d = SynchronizeFiles(compiler)
      BY <2>2, <1>1, SurveyIs DEF KeepsUse
  <2>3. QED BY <2>1, <2>2, <1>5, <1>9
<1>10. ASSUME job.kind = "analyse" PROVE Done(compiler.docs)
    BY <1>1, <1>5, <1>10
<1>11. job.kind \in {"analyse", "close", "watch", "references", "symbols"}
    BY <1>4 DEF IsJob
<1>12. /\ Done(snapshot'.docs) /\ Sensible(snapshot', n) /\ IsStore(snapshot')
       /\ snapshot'.release = snapshot.release /\ snapshot'.filesystem = snapshot.filesystem
  <2>1. CASE job.kind = "close"
      BY <2>1, <1>2, <1>6
  <2>2. CASE job.kind # "close"
    <3>1. Done(compiler.docs)
        BY <2>2, <1>7, <1>8, <1>9, <1>10, <1>11
    <3>2. snapshot' = snapshot /\ Sensible(snapshot, n)
        BY <2>2, <1>1, <1>2 DEF Snapshots
    <3>3. QED BY <3>1, <3>2, <1>4 DEF Sensible
  <2>3. QED BY <2>1, <2>2
<1>13. compiler' = d
    BY DEF d
<1>14. TypeOK'
    BY <1>1, <1>2, <1>3, <1>12, <1>13 DEF TypeOK, Usable
<1>15. Snapshots'
    BY <1>1, <1>2, <1>3, <1>12, <1>13 DEF Snapshots, Usable
<1>16. Agreement'
    BY <1>2, <1>4, <1>12, <1>13 DEF Agreement
<1>17. Fresh'
  <2>1. Base' = Base
      BY <1>2, <1>12 DEF Base
  <2>2. QED BY <2>1, <1>1, <1>2, <1>3, <1>12, <1>13, FreshKept
<1>18. QED BY <1>14, <1>15, <1>16, <1>17 DEF IndInv

LEMMA AnswerKeeps ==
    ASSUME IndInv, Answer PROVE IndInv'
<1> USE DEF IndInv, Answer, world, owner, session
<1>1. TypeOK'
    BY DEF TypeOK
<1>2. Snapshots'
    BY DEF Snapshots
<1>3. Agreement'
    BY DEF Agreement
<1>4. Fresh'
  <2>1. Base' = Base
      BY DEF Base
  <2> DEFINE d == compiler
  <2> HIDE DEF d
  <2>2. compiler' = d /\ (Settled(compiler) => Settled(d)) /\ (FromDisk(compiler) => FromDisk(d))
      BY DEF d
  <2>3. QED BY <2>1, <2>2, FreshKept
<1>5. QED BY <1>1, <1>2, <1>3, <1>4

LEMMA GiveUpKeeps ==
    ASSUME IndInv, GiveUp PROVE IndInv'
<1> USE DEF IndInv, GiveUp, Fail, world, owner
<1>1. TypeOK'
  <2>1. <<>> \in Seq([do : {"open", "update", "close"}, uri : Uris])
      OBVIOUS
  <2>2. QED BY <2>1 DEF TypeOK
<1>2. Snapshots'
    BY DEF Snapshots
<1>3. Agreement'
    BY DEF Agreement
<1>4. Fresh'
    BY DEF Fresh, Current
<1>5. QED BY <1>1, <1>2, <1>3, <1>4

LEMMA StutterKeeps ==
    ASSUME IndInv, UNCHANGED vars PROVE IndInv'
<1> USE DEF IndInv, vars, world, owner, session
<1>1. TypeOK'
    BY DEF TypeOK
<1>2. Snapshots'
    BY DEF Snapshots
<1>3. Agreement'
    BY DEF Agreement
<1>4. Fresh'
    BY DEF Fresh, Current, Base, Settled, Names, Known, Spoken, Overlay, IdOf, FromDisk, Shut, OnDisk
<1>5. QED BY <1>1, <1>2, <1>3, <1>4

-----------------------------------------------------------------------------
(* The theorems.                                                           *)

\* Whatever files, documents, notices and requests come in whatever order, and
\* whatever the worker gives up: the inductive invariant of its session.
THEOREM WorkerInvariant == Spec => []IndInv
<1>1. Init => IndInv
    BY InitHolds
<1>2. IndInv /\ [Next]_vars => IndInv'
  <2> SUFFICES ASSUME IndInv, [Next]_vars PROVE IndInv'
      OBVIOUS
  <2>1. CASE \E f \in Files, text \in 0 .. 2 : WriteFile(f, text)
      BY <2>1, WriteFileKeeps
  <2>2. CASE \E state \in {"present", "absent", "broken"} : WriteManifest(state)
      BY <2>2, WriteManifestKeeps
  <2>3. CASE \E u \in Uris, version \in Versions : DidOpen(u, version)
      BY <2>3, DidOpenKeeps
  <2>4. CASE \E u \in Uris : DidChange(u) \/ DidClose(u)
      BY <2>4, DidChangeKeeps, DidCloseKeeps
  <2>5. CASE \E batch \in SUBSET untold : DidChangeWatchedFiles(batch)
      BY <2>5, DidChangeWatchedFilesKeeps
  <2>6. CASE DidChangeConfiguration
      BY <2>6, DidChangeConfigurationKeeps
  <2>7. CASE \E kind \in {"references", "symbols"}, u \in Uris : Request(kind, u)
      BY <2>7, RequestKeeps
  <2>8. CASE \E j \in jobs : TakeJob(j)
      BY <2>8, TakeJobKeeps
  <2>9. CASE SynchronizeOne
      BY <2>9, SynchronizeOneKeeps
  <2>10. CASE AdoptSnapshot
      BY <2>10, AdoptSnapshotKeeps
  <2>11. CASE Work
      BY <2>11, WorkKeeps
  <2>12. CASE Answer
      BY <2>12, AnswerKeeps
  <2>13. CASE GiveUp
      BY <2>13, GiveUpKeeps
  <2>14. CASE UNCHANGED vars
      BY <2>14, StutterKeeps
  <2>15. QED BY <2>1, <2>2, <2>3, <2>4, <2>5, <2>6, <2>7, <2>8, <2>9, <2>10, <2>11,
                <2>12, <2>13, <2>14 DEF Next
<1>3. QED BY <1>1, <1>2, PTL DEF Spec

\* Documents, sessions, jobs and the steps left stay what their types say.
THEOREM WorkerTypes == Spec => []TypeOK
<1>1. IndInv => TypeOK
    BY DEF IndInv
<1>2. QED BY <1>1, WorkerInvariant, PTL

\* A worker answers from its job's documents and profile, and an open module has
\* the text one of its open spellings has now, whatever came before.
THEOREM WorkerAnswersFromSnapshot == Spec => []AnswersFromSnapshot
<1>1. IndInv => AnswersFromSnapshot
  <2> SUFFICES ASSUME IndInv, pc = "answer"
               PROVE  /\ compiler.docs = snapshot.docs /\ compiler.release = snapshot.release
                      /\ TellsOf({"manifest"}) => \A id \in OpenModules(compiler) :
                            /\ id \in DOMAIN compiler.sources
                            /\ \E v \in SpellingsOf(compiler, id) :
                                  compiler.sources[id] = Overlay(compiler, v)
      BY DEF AnswersFromSnapshot
  <2>1. compiler.docs = snapshot.docs /\ compiler.release = snapshot.release
      BY DEF IndInv, Agreement
  <2>2. ASSUME TellsOf({"manifest"}), NEW id \in OpenModules(compiler)
        PROVE  /\ id \in DOMAIN compiler.sources
               /\ \E v \in SpellingsOf(compiler, id) : compiler.sources[id] = Overlay(compiler, v)
    <3>1. Settled(compiler)
        BY <2>2 DEF IndInv, Fresh, Current, Base, TellsOf
    <3>2. PICK u \in DOMAIN compiler.docs \cap DOMAIN compiler.identities : id = compiler.identities[u]
        BY <2>2 DEF OpenModules
    <3>3. id = IdOf(u) /\ Spoken(compiler, id)
        BY <3>1, <3>2 DEF Settled, Names
    <3> DEFINE v == compiler.overlays[id]
    <3>4. /\ id \in DOMAIN compiler.sources /\ compiler.sources[id] = Overlay(compiler, v)
          /\ v \in DOMAIN compiler.docs /\ id = IdOf(v)
        BY <3>1, <3>3 DEF Spoken, Settled, Names
    <3>5. v \in DOMAIN compiler.identities /\ compiler.identities[v] = id
        BY <3>1, <3>2, <3>4 DEF Settled, Known, Names
    <3> HIDE DEF v
    <3>6. v \in SpellingsOf(compiler, id)
        BY <3>4, <3>5 DEF SpellingsOf, Spells
    <3>7. QED BY <3>4, <3>6
  <2>3. QED BY <2>1, <2>2
<1>2. QED BY <1>1, WorkerInvariant, PTL

\* A session reconciled step by step sees what one rebuilt from the snapshot
\* sees, once the server was told of every change.
THEOREM ReconciledLikeRebuilt == Spec => []SessionMatchesRebuild
<1>1. IndInv => SessionMatchesRebuild
  <2> SUFFICES ASSUME IndInv, pc = "answer", TellsOf(Files \cup {"manifest"})
               PROVE  Visible(compiler) = Visible(Rebuilt(snapshot))
      BY DEF SessionMatchesRebuild
  <2>1. World /\ Usable(compiler) /\ IsStore(snapshot) /\ Ordered(snapshot.docs)
      BY InWorld, UsableNow DEF IndInv, Snapshots, Sensible
  <2>2. Settled(compiler) /\ FromDisk(compiler)
      BY DEF IndInv, Fresh, Current, Base, TellsOf
  <2>3. Sound(compiler, snapshot.docs, snapshot.release, TRUE, TRUE)
      BY <2>1, <2>2 DEF Sound, IndInv, Agreement
  <2>4. Sound(Rebuilt(snapshot), snapshot.docs, snapshot.release, TRUE, TRUE)
      BY <2>1, RebuiltIs
  <2>5. QED BY <2>1, <2>3, <2>4, SameSight
<1>2. QED BY <1>1, WorkerInvariant, PTL
=============================================================================
