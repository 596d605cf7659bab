-------------------------- MODULE LspServer_proofs --------------------------
(***************************************************************************)
(* Safety of the language server's owner and its worker pool, for any      *)
(* documents, workers, request ids and capacities: every variable has its  *)
(* type, no request is answered twice or forgotten, and a worker that has  *)
(* finished a job finds room on the completion channel.                    *)
(***************************************************************************)
EXTENDS LspServer, FiniteSetTheorems, SequenceTheorems, TLAPS

\* The folds of LspServer, in the form FoldFacts has them.
Keep(J, kept, j) == IF j \in J THEN kept ELSE Append(kept, j)
Kept == INSTANCE FoldFacts WITH Step <- Keep

\* The types of the owner's record.
Phases == {"running", "shuttingDown"}
Answers == {"none", "owed", "result", "null", "error", "twice"}
Metas == RequestMeta \union DiagnosticsMeta
JobTables == UNION {[D -> Metas] : D \in SUBSET Nat}
Lists == Seq(Nat)
Ended == [job : Nat, result : {"ok", "cancelled", "failed"}]
Channels == Seq(Ended)
Promise == [id : Ids, through : Nat]

Owners ==
    [ phase : Phases, docs : [Docs -> Nat], rev : Nat, gen : [Keys -> Nat], nextJob : Nat,
      jobs : JobTables, unfinished : SUBSET Nat, pending : Lists, submitted : SUBSET Nat,
      queue : [Workers -> Lists], completed : Channels, deferred : Channels,
      barriers : SUBSET Promise, requests : [Ids -> Nat], tokens : [Keys -> Nat],
      cancelled : SUBSET Nat, reply : [Ids -> Answers], shown : [Docs -> Nat] ]

\* Job numbers that were given out.
Given(o) == 1 .. (o.nextJob - 1)

\* The jobs of the results on a channel.
Over(seq) == {c.job : c \in Range(seq)}

Distinct(seq) == \A i, j \in DOMAIN seq : seq[i] = seq[j] => i = j
OneEach(seq) == \A i, j \in DOMAIN seq : seq[i].job = seq[j].job => i = j

\* Whatever the record holds was given out, of a store no newer than it is.
Numbered(o) ==
    /\ o.nextJob > 0
    /\ DOMAIN o.jobs \subseteq Given(o) /\ o.unfinished \subseteq Given(o)
    /\ o.submitted \subseteq Given(o) /\ o.cancelled \subseteq Given(o)
    /\ Range(o.pending) \subseteq DOMAIN o.jobs
    /\ Over(o.deferred) \subseteq Given(o)
    /\ \A id \in Ids : o.requests[id] \in Given(o) \union {0}
    /\ \A k \in Keys : o.tokens[k] \in Given(o) \union {0}
    /\ \A d \in Docs : o.docs[d] <= o.rev /\ o.shown[d] <= o.rev
    /\ \A j \in DOMAIN o.jobs : \A d \in Docs : o.jobs[j].snapshot[d] <= o.rev

\* A job is in one place: it waits, is in a queue, runs or has its result on the
\* channel; all but the first are submitted, which no deferred result is.
Waiting(o) ==
    /\ Distinct(o.pending) /\ Range(o.pending) \intersect o.submitted = {}
    /\ Over(o.deferred) \intersect o.submitted = {}
Finished(o) == OneEach(o.completed) /\ Over(o.completed) \subseteq o.submitted
Queued(o) ==
    \A w \in Workers :
        /\ Distinct(o.queue[w]) /\ Range(o.queue[w]) \subseteq o.submitted \ Over(o.completed)
        /\ \A v \in Workers \ {w} : Range(o.queue[v]) \intersect Range(o.queue[w]) = {}
Executed(o, r) ==
    \A w \in Workers : r[w] # 0 =>
        /\ r[w] \in o.submitted \ Over(o.completed)
        /\ \A v \in Workers : r[w] \notin Range(o.queue[v])
        /\ \A v \in Workers \ {w} : r[v] # r[w]

Good(r) == {o \in Owners : Numbered(o) /\ Waiting(o) /\ Finished(o) /\ Queued(o) /\ Executed(o, r)}

\* An answer is owed to the ids of F, for which nothing stands, and to those a
\* live job or a barrier stands for.
Owes(o, F) ==
    /\ \A id \in Ids : o.requests[id] # 0 =>
          /\ o.requests[id] \in DOMAIN o.jobs
          /\ o.jobs[o.requests[id]].kind = "request" /\ o.jobs[o.requests[id]].id = id
    /\ \A j \in DOMAIN o.jobs : o.jobs[j].kind = "request" => o.requests[o.jobs[j].id] = j
    /\ \A id \in Ids :
          o.reply[id] = "owed" <=> id \in F \/ o.requests[id] # 0 \/ \E b \in o.barriers : b.id = id
    /\ \A id \in Ids : o.reply[id] # "twice"
    /\ \A id \in F : o.requests[id] = 0
    /\ \A b \in o.barriers : b.id \notin F /\ o.requests[b.id] = 0
    /\ \A b, c \in o.barriers : b.id = c.id => b = c
    /\ o.phase # "running" => \A id \in Ids : o.requests[id] = 0

-----------------------------------------------------------------------------
(* Sequences and finite sets.                                              *)

LEMMA RangeAppend ==
    ASSUME NEW S, NEW seq \in Seq(S), NEW x \in S
    PROVE  /\ Append(seq, x) \in Seq(S) /\ Len(Append(seq, x)) = Len(seq) + 1
           /\ Range(Append(seq, x)) = Range(seq) \union {x}
           /\ Distinct(seq) /\ x \notin Range(seq) => Distinct(Append(seq, x))
<1> DEFINE q == Append(seq, x)
           n == Len(seq)
<1>1. /\ n \in Nat /\ DOMAIN seq = 1 .. n /\ DOMAIN q = 1 .. n + 1 /\ q \in Seq(S) /\ Len(q) = n + 1
      /\ \A i \in 1 .. n : q[i] = seq[i]
      /\ q[n + 1] = x
    OBVIOUS
<1> HIDE DEF q, n
<1>2. Range(q) = Range(seq) \union {x}
  <2>1. n + 1 \in DOMAIN q /\ \A i \in DOMAIN seq : i \in DOMAIN q /\ q[i] = seq[i]
      BY <1>1
  <2>2. \A i \in DOMAIN q : i \in DOMAIN seq \/ i = n + 1
      BY <1>1
  <2>3. QED BY <1>1, <2>1, <2>2 DEF Range
<1>3. ASSUME Distinct(seq), x \notin Range(seq), NEW i \in DOMAIN q, NEW j \in DOMAIN q, q[i] = q[j]
      PROVE  i = j
  <2>1. \A k \in DOMAIN q : k \in DOMAIN seq \/ k = n + 1
      BY <1>1
  <2>2. \A k \in DOMAIN seq : q[k] = seq[k] /\ seq[k] \in Range(seq)
      BY <1>1 DEF Range
  <2>3. QED BY <1>1, <1>3, <2>1, <2>2 DEF Distinct
<1>4. QED BY <1>1, <1>2, <1>3 DEF q, n, Distinct

LEMMA RangeTail ==
    ASSUME NEW S, NEW seq \in Seq(S), seq # <<>>
    PROVE  /\ Tail(seq) \in Seq(S) /\ Head(seq) \in S /\ Head(seq) \in Range(seq)
           /\ Len(Tail(seq)) = Len(seq) - 1
           /\ Range(Tail(seq)) \subseteq Range(seq)
           /\ Distinct(seq) => Distinct(Tail(seq)) /\ Head(seq) \notin Range(Tail(seq))
           /\ \A i \in DOMAIN Tail(seq) : i + 1 \in DOMAIN seq /\ Tail(seq)[i] = seq[i + 1]
           /\ Head(seq) = seq[1] /\ 1 \in DOMAIN seq
<1> DEFINE q == Tail(seq)
           n == Len(seq)
<1>1. /\ n \in Nat \ {0} /\ DOMAIN seq = 1 .. n /\ DOMAIN q = 1 .. (n - 1) /\ q \in Seq(S)
      /\ Len(q) = n - 1
      /\ \A i \in 1 .. (n - 1) : q[i] = seq[i + 1]
      /\ Head(seq) = seq[1] /\ Head(seq) \in S
    OBVIOUS
<1> HIDE DEF q, n
<1>2. 1 \in DOMAIN seq /\ \A i \in DOMAIN q : i + 1 \in DOMAIN seq /\ i + 1 # 1 /\ q[i] = seq[i + 1]
    BY <1>1
<1>3. Head(seq) \in Range(seq) /\ Range(q) \subseteq Range(seq)
    BY <1>1, <1>2 DEF Range
<1>4. ASSUME Distinct(seq), NEW i \in DOMAIN q
      PROVE  q[i] # Head(seq) /\ \A j \in DOMAIN q : q[i] = q[j] => i = j
  <2>1. \A j \in DOMAIN q : q[i] = q[j] => i + 1 = j + 1
      BY <1>2, <1>4 DEF Distinct
  <2>2. \A j \in DOMAIN q : i + 1 = j + 1 => i = j
      BY <1>1
  <2>3. q[i] # seq[1]
      BY <1>2, <1>4 DEF Distinct
  <2>4. QED BY <2>1, <2>2, <2>3, <1>1
<1>5. Distinct(seq) => Distinct(q) /\ Head(seq) \notin Range(q)
    BY <1>4 DEF Distinct, Range
<1>6. QED BY <1>1, <1>2, <1>3, <1>5 DEF q, n

LEMMA RangeConcat ==
    ASSUME NEW S, NEW p \in Seq(S), NEW q \in Seq(S)
    PROVE  p \o q \in Seq(S) /\ Range(p \o q) = Range(p) \union Range(q)
<1> DEFINE m == Len(p)
           n == Len(q)
           c == p \o q
<1>1. /\ m \in Nat /\ n \in Nat /\ DOMAIN p = 1 .. m /\ DOMAIN q = 1 .. n /\ DOMAIN c = 1 .. m + n
      /\ c \in Seq(S)
      /\ \A i \in 1 .. m + n : c[i] = IF i <= m THEN p[i] ELSE q[i - m]
    OBVIOUS
<1> HIDE DEF m, n, c
<1>2. \A i \in DOMAIN p : i \in DOMAIN c /\ c[i] = p[i]
    BY <1>1
<1>3. \A i \in DOMAIN q : i + m \in DOMAIN c /\ c[i + m] = q[i]
  <2>1. \A i \in 1 .. n : i + m \in 1 .. m + n /\ ~(i + m <= m) /\ (i + m) - m = i
      BY <1>1
  <2>2. QED BY <1>1, <2>1
<1>4. \A i \in DOMAIN c : \/ i \in DOMAIN p /\ c[i] = p[i]
                          \/ i - m \in DOMAIN q /\ c[i] = q[i - m]
  <2>1. \A i \in 1 .. m + n : (i <= m /\ i \in 1 .. m) \/ (~(i <= m) /\ i - m \in 1 .. n)
      BY <1>1
  <2>2. QED BY <1>1, <2>1
<1>6. Range(c) \subseteq Range(p) \union Range(q)
    BY <1>4 DEF Range
<1>7. Range(p) \union Range(q) \subseteq Range(c)
    BY <1>2, <1>3 DEF Range
<1>5. QED BY <1>1, <1>6, <1>7 DEF c

\* What is left of a sequence: nothing of J, in the same order, less of it.
LEMMA WithoutFacts ==
    ASSUME NEW S, NEW seq \in Seq(S), NEW J
    PROVE  /\ Without(seq, J) \in Seq(S)
           /\ Range(Without(seq, J)) \subseteq Range(seq) \ J
           /\ Distinct(seq) => Distinct(Without(seq, J))
           /\ Len(Without(seq, J)) <= Len(seq)
           /\ Range(seq) \intersect J # {} => Len(Without(seq, J)) < Len(seq)
<1> DEFINE n == Len(seq)
           Before(i) == {seq[k] : k \in 1 .. i}
           Leads(i, q) == /\ Range(q) \subseteq Before(i) \ J
                          /\ Distinct(seq) => Distinct(q)
                          /\ Len(q) <= i
                          /\ Before(i) \intersect J # {} => Len(q) < i
           G == [i \in 0 .. n |-> {q \in Seq(S) : Leads(i, q)}]
<1>1. Without(seq, J) = Kept!Folded(J, <<>>, seq)
    BY Zenon DEF Without, Kept!Folded, Kept!Table, FoldLeft, MapThenFoldSet, Max, Kept!Greatest, Keep
<1>2. n \in Nat /\ DOMAIN seq = 1 .. n /\ \A i \in 1 .. n : seq[i] \in S
    OBVIOUS
<1> HIDE DEF n
<1>3. <<>> \in G[0]
  <2>1. <<>> \in Seq(S) /\ Range(<<>>) = {} /\ Distinct(<<>>) /\ Len(<<>>) = 0
      BY DEF Range, Distinct
  <2>2. Before(0) = {} /\ 0 \in 0 .. n
      BY <1>2
  <2>3. Leads(0, <<>>)
      BY <2>1, <2>2
  <2>4. QED BY <2>1, <2>2, <2>3
<1>4. ASSUME NEW i \in 1 .. n, NEW q \in G[i - 1] PROVE Keep(J, q, seq[i]) \in G[i]
  <2>1. i - 1 \in 0 .. n /\ i \in 0 .. n /\ i \in Int
      BY <1>2
  <2>2. q \in Seq(S) /\ Leads(i - 1, q) /\ Len(q) \in Nat
      BY <2>1
  <2>3. Before(i) = Before(i - 1) \union {seq[i]}
    <3>1. 1 .. i = (1 .. (i - 1)) \union {i}
        BY <2>1
    <3>2. QED BY <3>1
  <2>4. seq[i] \in S
      BY <1>2
  <2>5. Distinct(seq) => seq[i] \notin Before(i - 1)
    <3>1. \A k \in 1 .. (i - 1) : k \in DOMAIN seq /\ k # i
        BY <1>2, <2>1
    <3>2. i \in DOMAIN seq
        BY <1>2
    <3>3. QED BY <3>1, <3>2 DEF Distinct
  <2> DEFINE B == Before(i - 1)
  <2>6. CASE seq[i] \in J
    <3>1. Keep(J, q, seq[i]) = q
        BY <2>6 DEF Keep
    <3>2. Leads(i, q)
        BY <2>1, <2>2, <2>3
    <3>3. QED BY <3>1, <3>2, <2>1, <2>2
  <2>7. CASE seq[i] \notin J
    <3> DEFINE p == Append(q, seq[i])
    <3>1. Keep(J, q, seq[i]) = p
        BY <2>7 DEF Keep
    <3>2. /\ p \in Seq(S) /\ Range(p) = Range(q) \union {seq[i]} /\ Len(p) = Len(q) + 1
          /\ Distinct(q) /\ seq[i] \notin Range(q) => Distinct(p)
        BY <2>2, <2>4, RangeAppend
    <3> HIDE DEF p
    <3>3. Distinct(seq) => Distinct(p)
        BY <3>2, <2>2, <2>5
    <3>4. Len(p) <= i /\ (Before(i) \intersect J # {} => Len(p) < i)
        BY <3>2, <2>1, <2>2, <2>3, <2>7
    <3>5. Range(p) \subseteq Before(i) \ J
        BY <3>2, <2>2, <2>3, <2>7
    <3>6. QED BY <3>1, <3>2, <3>3, <3>4, <3>5, <2>1
  <2>8. QED BY <2>6, <2>7
<1> HIDE DEF G
<1>5. Without(seq, J) \in G[n]
    BY <1>1, <1>3, <1>4, Kept!FoldLeads DEF n
<1>6. Before(n) = Range(seq)
    BY <1>2 DEF Range
<1>7. n \in 0 .. n
    BY <1>2
<1>8. Without(seq, J) \in Seq(S) /\ Leads(n, Without(seq, J))
    BY <1>5, <1>7 DEF G
<1>9. QED BY <1>6, <1>8 DEF n

\* A set of job numbers is finite, and removing some leaves no more.
LEMMA Submitted ==
    ASSUME NEW o \in Owners, Numbered(o)
    PROVE  /\ IsFiniteSet(o.submitted) /\ Cardinality(o.submitted) \in Nat
           /\ \A T \in SUBSET o.submitted : /\ IsFiniteSet(T) /\ Cardinality(T) \in Nat
                                            /\ Cardinality(T) <= Cardinality(o.submitted)
<1>1. o.submitted \in SUBSET (1 .. (o.nextJob - 1)) /\ o.nextJob - 1 \in Int
    BY DEF Owners, Numbered, Given
<1>2. IsFiniteSet(1 .. (o.nextJob - 1))
    BY <1>1, FS_Interval
<1>3. IsFiniteSet(o.submitted)
    BY <1>1, <1>2, FS_Subset
<1>4. QED BY <1>3, FS_Subset, FS_CardinalityType

LEMMA Load ==
    ASSUME NEW o \in Owners, Numbered(o)
    PROVE  /\ Outstanding(o) \in Nat
           /\ \A p \in Owners :
                 p.submitted \subseteq o.submitted /\ Len(p.pending) <= Len(o.pending) =>
                    Outstanding(p) <= Outstanding(o)
<1>1. \A p \in Owners : Len(p.pending) \in Nat
    BY DEF Owners, Lists
<1>2. Cardinality(o.submitted) \in Nat /\ Len(o.pending) \in Nat
    BY <1>1, Submitted
<1>3. ASSUME NEW p \in Owners, p.submitted \subseteq o.submitted, Len(p.pending) <= Len(o.pending)
      PROVE  Outstanding(p) <= Outstanding(o)
  <2>1. Cardinality(p.submitted) \in Nat /\ Cardinality(p.submitted) <= Cardinality(o.submitted)
      BY <1>3, Submitted
  <2>2. QED BY <2>1, <1>1, <1>2, <1>3 DEF Outstanding
<1>4. QED BY <1>2, <1>3 DEF Outstanding

LEMMA Sizes ==
    ASSUME NEW r, NEW o \in Good(r)
    PROVE  /\ o \in Owners /\ o.pending \in Seq(Nat) /\ Len(o.pending) \in Nat
           /\ IsFiniteSet(o.submitted) /\ Cardinality(o.submitted) \in Nat
           /\ Outstanding(o) \in Nat
<1>1. o \in Owners /\ Numbered(o)
    BY DEF Good
<1>2. o.pending \in Seq(Nat)
    BY <1>1 DEF Owners, Lists
<1>3. QED BY <1>1, <1>2, Submitted, Load

LEMMA CapIsNatural == OutstandingCap \in Nat
<1>1. Cardinality(Workers) \in Nat
    BY Capacities, FS_CardinalityType
<1>2. QED BY <1>1, Capacities DEF OutstandingCap

-----------------------------------------------------------------------------
(* The parts handlers are made of.  Each leads from a good record to a good *)
(* one and keeps account of the answers that are owed.                     *)

SameWork(o, p) ==
    /\ p.nextJob = o.nextJob /\ p.jobs = o.jobs /\ p.pending = o.pending
    /\ p.submitted = o.submitted /\ p.queue = o.queue
    /\ p.completed = o.completed /\ p.deferred = o.deferred

SameStore(o, p) ==
    /\ p.docs = o.docs /\ p.rev = o.rev /\ p.shown = o.shown /\ p.phase = o.phase

\* What one client is owed and by what.
SameDebts(o, p) == p.requests = o.requests /\ p.reply = o.reply /\ p.barriers = o.barriers

LEMMA SameWorkIsGood ==
    ASSUME NEW r, NEW o \in Good(r), NEW p \in Owners, SameWork(o, p), SameStore(o, p),
           p.unfinished \subseteq Given(o), p.cancelled \subseteq Given(o),
           \A id \in Ids : p.requests[id] \in Given(o) \union {0},
           \A k \in Keys : p.tokens[k] \in Given(o) \union {0}
    PROVE  p \in Good(r) /\ Outstanding(p) = Outstanding(o)
<1>1. Numbered(p)
    BY DEF Good, Numbered, SameWork, SameStore, Given
<1>2. Waiting(p) /\ Finished(p) /\ Queued(p) /\ Executed(p, r)
    BY DEF Good, SameWork, Waiting, Finished, Queued, Executed
<1>3. QED BY <1>1, <1>2 DEF Good, SameWork, Outstanding

LEMMA AskFacts ==
    ASSUME NEW r, NEW o \in Good(r), NEW id \in Ids
    PROVE  /\ Ask(o, id) \in Good(r) /\ SameWork(o, Ask(o, id)) /\ SameStore(o, Ask(o, id))
           /\ Ask(o, id).requests = o.requests /\ Ask(o, id).barriers = o.barriers
           /\ Owes(o, {}) /\ o.reply[id] = "owed" => Owes(Ask(o, id), {})
           /\ Owes(o, {}) /\ o.reply[id] # "owed" => Owes(Ask(o, id), {id})
<1> DEFINE p == Ask(o, id)
<1>1. /\ p \in Owners /\ SameWork(o, p) /\ SameStore(o, p)
      /\ p.requests = o.requests /\ p.barriers = o.barriers /\ p.tokens = o.tokens
      /\ p.unfinished = o.unfinished /\ p.cancelled = o.cancelled
      /\ p.reply = [o.reply EXCEPT ![id] = "owed"]
    BY DEF Good, Owners, Ask, SameWork, SameStore, Answers
<1>2. o.reply \in [Ids -> Answers] /\ o.barriers \subseteq Promise /\ o.requests \in [Ids -> Nat]
    BY DEF Good, Owners
<1> HIDE DEF p
<1>3. p \in Good(r)
    BY <1>1, SameWorkIsGood DEF Good, Numbered
<1>4. ASSUME Owes(o, {}), o.reply[id] = "owed" PROVE Owes(p, {})
    BY <1>1, <1>2, <1>4 DEF Owes, SameWork, SameStore
<1>5. ASSUME Owes(o, {}), o.reply[id] # "owed" PROVE Owes(p, {id})
    BY <1>1, <1>2, <1>5 DEF Owes, SameWork, SameStore
<1>6. QED BY <1>1, <1>3, <1>4, <1>5 DEF p

LEMMA ReplyFacts ==
    ASSUME NEW r, NEW o \in Good(r), NEW id \in Ids, NEW a \in {"result", "null", "error"}
    PROVE  /\ Reply(o, id, a) \in Good(r)
           /\ SameWork(o, Reply(o, id, a)) /\ SameStore(o, Reply(o, id, a))
           /\ Outstanding(Reply(o, id, a)) = Outstanding(o)
           /\ \A F \in SUBSET Ids : id \in F /\ Owes(o, F) => Owes(Reply(o, id, a), F \ {id})
<1> DEFINE p == Reply(o, id, a)
<1>1. /\ p \in Owners /\ SameWork(o, p) /\ SameStore(o, p)
      /\ p.requests = o.requests /\ p.barriers = o.barriers /\ p.tokens = o.tokens
      /\ p.unfinished = o.unfinished /\ p.cancelled = o.cancelled
      /\ p.reply = [o.reply EXCEPT ![id] = Told(@, a)]
    BY DEF Good, Owners, Reply, Told, SameWork, SameStore, Answers
<1>2. o.reply \in [Ids -> Answers] /\ o.barriers \subseteq Promise /\ o.requests \in [Ids -> Nat]
    BY DEF Good, Owners
<1> HIDE DEF p
<1>3. p \in Good(r) /\ Outstanding(p) = Outstanding(o)
    BY <1>1, SameWorkIsGood DEF Good, Numbered
<1>4. ASSUME NEW F \in SUBSET Ids, id \in F, Owes(o, F) PROVE Owes(p, F \ {id})
  <2>1. o.reply[id] = "owed" /\ o.requests[id] = 0 /\ \A b \in o.barriers : b.id # id
      BY <1>4 DEF Owes
  <2>2. p.reply[id] = a /\ \A x \in Ids \ {id} : p.reply[x] = o.reply[x]
      BY <1>1, <1>2, <2>1 DEF Told
  <2>3. QED BY <1>1, <1>2, <1>4, <2>1, <2>2 DEF Owes, SameWork, SameStore
<1>5. QED BY <1>1, <1>3, <1>4 DEF p

LEMMA CancelFacts ==
    ASSUME NEW r, NEW o \in Good(r), NEW J \in SUBSET Given(o)
    PROVE  /\ Cancel(o, J) \in Good(r) /\ SameWork(o, Cancel(o, J)) /\ SameStore(o, Cancel(o, J))
           /\ SameDebts(o, Cancel(o, J)) /\ Outstanding(Cancel(o, J)) = Outstanding(o)
           /\ \A F : Owes(o, F) => Owes(Cancel(o, J), F)
<1> DEFINE p == Cancel(o, J)
<1>1. /\ p \in Owners /\ SameWork(o, p) /\ SameStore(o, p)
      /\ p.requests = o.requests /\ p.barriers = o.barriers /\ p.tokens = o.tokens
      /\ p.unfinished = o.unfinished /\ p.cancelled = o.cancelled \union J /\ p.reply = o.reply
    BY DEF Good, Owners, Cancel, SameWork, SameStore, Given
<1> HIDE DEF p
<1>2. p \in Good(r) /\ Outstanding(p) = Outstanding(o)
    BY <1>1, SameWorkIsGood DEF Good, Numbered
<1>3. \A F : Owes(o, F) => Owes(p, F)
    BY <1>1 DEF Owes, SameWork, SameStore
<1>4. QED BY <1>1, <1>2, <1>3 DEF p, SameDebts

LEMMA FinishCancellationFacts ==
    ASSUME NEW r, NEW o \in Good(r), NEW k \in Keys, NEW j
    PROVE  /\ FinishCancellation(o, k, j) \in Good(r)
           /\ SameWork(o, FinishCancellation(o, k, j)) /\ SameStore(o, FinishCancellation(o, k, j))
           /\ SameDebts(o, FinishCancellation(o, k, j))
           /\ \A F : Owes(o, F) => Owes(FinishCancellation(o, k, j), F)
<1> DEFINE p == FinishCancellation(o, k, j)
<1>1. /\ p \in Owners /\ SameWork(o, p) /\ SameStore(o, p)
      /\ p.requests = o.requests /\ p.barriers = o.barriers /\ p.reply = o.reply
      /\ p.unfinished = o.unfinished /\ p.cancelled = o.cancelled
      /\ p.tokens = [o.tokens EXCEPT ![k] = IF @ = j THEN 0 ELSE @]
    BY DEF Good, Owners, FinishCancellation, SameWork, SameStore
<1>2. o.tokens \in [Keys -> Nat]
    BY DEF Good, Owners
<1> HIDE DEF p
<1>3. p \in Good(r)
    BY <1>1, <1>2, SameWorkIsGood DEF Good, Numbered
<1>4. \A F : Owes(o, F) => Owes(p, F)
    BY <1>1 DEF Owes, SameWork, SameStore
<1>5. QED BY <1>1, <1>3, <1>4 DEF p, SameDebts

\* Barriers that are ready are answered, each to an id that was owed.
LEMMA FinishBarriersFacts ==
    ASSUME NEW r, NEW o \in Good(r)
    PROVE  /\ FinishBarriers(o) \in Good(r) /\ Outstanding(FinishBarriers(o)) = Outstanding(o)
           /\ SameWork(o, FinishBarriers(o)) /\ SameStore(o, FinishBarriers(o))
           /\ \A F : Owes(o, F) => Owes(FinishBarriers(o), F)
<1> DEFINE p == FinishBarriers(o)
           done == {b.id : b \in ReadyBarriers(o)}
<1>1. /\ SameWork(o, p) /\ SameStore(o, p)
      /\ p.requests = o.requests /\ p.tokens = o.tokens
      /\ p.unfinished = o.unfinished /\ p.cancelled = o.cancelled
      /\ p.barriers = o.barriers \ ReadyBarriers(o)
      /\ p.reply = [id \in Ids |-> IF id \in done THEN Told(o.reply[id], "null") ELSE o.reply[id]]
    BY SMTT(30) DEF Good, Owners, FinishBarriers, SameWork, SameStore
<1>2. p \in Owners
  <2>1. [id \in Ids |-> IF id \in done THEN Told(o.reply[id], "null") ELSE o.reply[id]]
           \in [Ids -> Answers]
      BY DEF Good, Owners, Told, Answers
  <2>2. QED BY <2>1 DEF Good, Owners, FinishBarriers
<1>3. o.reply \in [Ids -> Answers] /\ o.barriers \subseteq Promise /\ o.requests \in [Ids -> Nat]
    BY DEF Good, Owners
<1>4. ReadyBarriers(o) \subseteq o.barriers
    BY DEF ReadyBarriers
<1> HIDE DEF p
<1>5. p \in Good(r) /\ Outstanding(p) = Outstanding(o)
    BY <1>1, <1>2, SameWorkIsGood DEF Good, Numbered
<1>6. ASSUME NEW F, Owes(o, F) PROVE Owes(p, F)
  <2>1. \A id \in done : /\ id \in Ids /\ o.reply[id] = "owed" /\ id \notin F /\ o.requests[id] = 0
                         /\ \A b \in p.barriers : b.id # id
    <3> SUFFICES ASSUME NEW b \in ReadyBarriers(o)
                 PROVE  /\ b.id \in Ids /\ o.reply[b.id] = "owed" /\ b.id \notin F
                        /\ o.requests[b.id] = 0 /\ \A c \in p.barriers : c.id # b.id
        OBVIOUS
    <3>1. b \in o.barriers /\ b.id \in Ids
        BY <1>3, <1>4 DEF Promise
    <3>2. QED BY <3>1, <1>1, <1>6 DEF Owes
  <2>2. \A id \in Ids : p.reply[id] = IF id \in done THEN "null" ELSE o.reply[id]
      BY <1>1, <2>1 DEF Told
  <2>3. \A id \in Ids \ done : (\E b \in p.barriers : b.id = id) <=> (\E b \in o.barriers : b.id = id)
      BY <1>1
  <2> HIDE DEF done
  <2>4. \A id \in Ids :
          p.reply[id] = "owed" <=> id \in F \/ p.requests[id] # 0 \/ \E b \in p.barriers : b.id = id
      BY <1>1, <1>6, <2>1, <2>2, <2>3 DEF Owes
  <2>5. \A id \in Ids : p.reply[id] # "twice"
      BY <1>6, <2>2 DEF Owes
  <2>6. QED BY <1>1, <1>6, <2>4, <2>5 DEF Owes, SameWork, SameStore
<1>7. QED BY <1>1, <1>5, <1>6 DEF p

LEMMA JobMeta == ASSUME NEW o \in Owners, NEW j \in DOMAIN o.jobs PROVE o.jobs[j] \in Metas /\ j \in Nat
<1>1. PICK D \in SUBSET Nat : o.jobs \in [D -> Metas]
    BY DEF Owners, JobTables
<1>2. QED BY <1>1

\* A table but for the jobs of J.
Cut(f, J) == [j \in DOMAIN f \ J |-> f[j]]

\* p is o without the jobs of J.
Drops(o, p, J) ==
    /\ SameStore(o, p) /\ p.nextJob = o.nextJob /\ p.submitted = o.submitted /\ p.queue = o.queue
    /\ p.completed = o.completed /\ p.deferred = o.deferred /\ p.jobs = Cut(o.jobs, J)
    /\ Range(p.pending) \subseteq Range(o.pending) \ J /\ Outstanding(p) <= Outstanding(o)
    /\ Range(o.pending) \intersect J # {} => Outstanding(p) < Outstanding(o)

\* Retiring jobs takes them off the table and out of the waiting list.
LEMMA RetireAllFacts ==
    ASSUME NEW r, NEW o \in Good(r), NEW J, NEW p, p = RetireAll(o, J)
    PROVE  p \in Good(r) /\ Drops(o, p, J) /\ SameDebts(o, p) /\ p.tokens = o.tokens
<1> DEFINE table == Cut(o.jobs, J)
<1>1. /\ p.jobs = table /\ p.pending = Without(o.pending, J) /\ p.unfinished = o.unfinished \ J
      /\ p.nextJob = o.nextJob /\ p.submitted = o.submitted /\ p.queue = o.queue
      /\ p.completed = o.completed /\ p.deferred = o.deferred /\ p.tokens = o.tokens
      /\ p.cancelled = o.cancelled /\ SameStore(o, p) /\ SameDebts(o, p)
    BY DEF Good, Owners, RetireAll, SameStore, SameDebts, Cut
<1>2. /\ o.pending \in Seq(Nat) /\ Len(o.pending) \in Nat
      /\ Without(o.pending, J) \in Seq(Nat) /\ Len(Without(o.pending, J)) \in Nat
      /\ Range(Without(o.pending, J)) \subseteq Range(o.pending) \ J
      /\ Distinct(o.pending) => Distinct(Without(o.pending, J))
      /\ Len(Without(o.pending, J)) <= Len(o.pending)
      /\ Range(o.pending) \intersect J # {} => Len(Without(o.pending, J)) < Len(o.pending)
    <2>1. o.pending \in Seq(Nat)
        BY DEF Good, Owners, Lists
    <2>2. QED BY <2>1, WithoutFacts
<1>3. table \in JobTables
  <2>1. PICK D \in SUBSET Nat : o.jobs \in [D -> Metas]
      BY DEF Good, Owners, JobTables
  <2>2. D \ J \in SUBSET Nat /\ table \in [D \ J -> Metas]
      BY <2>1 DEF Cut
  <2>3. QED BY <2>2 DEF JobTables
<1>4. p \in Owners
    BY <1>2, <1>3 DEF Good, Owners, RetireAll, Lists, Cut
<1> HIDE DEF table
<1>5. Numbered(p)
    BY <1>1, <1>2 DEF Good, Numbered, Given, SameStore, SameDebts, table, Cut
<1>6. Waiting(p) /\ Finished(p) /\ Queued(p) /\ Executed(p, r)
    BY <1>1, <1>2 DEF Good, Waiting, Finished, Queued, Executed
<1>7. Cardinality(o.submitted) \in Nat
    BY Submitted DEF Good
<1>8. /\ Outstanding(p) <= Outstanding(o)
      /\ Range(o.pending) \intersect J # {} => Outstanding(p) < Outstanding(o)
    BY <1>1, <1>2, <1>7 DEF Outstanding
<1>9. QED BY <1>1, <1>2, <1>4, <1>5, <1>6, <1>8 DEF table, Good, Drops

\* Retiring diagnostics leaves every answer tracked.
LEMMA RetireDiagnostics ==
    ASSUME NEW r, NEW o \in Good(r), NEW J, NEW F, Owes(o, F),
           \A j \in DOMAIN o.jobs : j \in J => o.jobs[j].kind = "diagnostics"
    PROVE  Owes(RetireAll(o, J), F)
<1> DEFINE p == RetireAll(o, J)
<1>1. /\ p.requests = o.requests /\ p.reply = o.reply /\ p.barriers = o.barriers /\ p.phase = o.phase
      /\ p.jobs = Cut(o.jobs, J)
    BY RetireAllFacts DEF SameStore, SameDebts, Drops
<1> HIDE DEF p
<1>2. \A id \in Ids : o.requests[id] # 0 =>
         /\ o.requests[id] \in DOMAIN o.jobs \ J
         /\ o.jobs[o.requests[id]].kind = "request" /\ o.jobs[o.requests[id]].id = id
    BY DEF Owes
<1>3. \A j \in DOMAIN p.jobs : j \in DOMAIN o.jobs /\ p.jobs[j] = o.jobs[j]
    BY <1>1 DEF Cut
<1>4. \A j \in DOMAIN o.jobs \ J : j \in DOMAIN p.jobs /\ p.jobs[j] = o.jobs[j]
    BY <1>1 DEF Cut
<1>5. QED BY <1>1, <1>2, <1>3, <1>4 DEF Owes, p

LEMMA RetireRequest ==
    ASSUME NEW r, NEW o \in Good(r), NEW id \in Ids, NEW j,
           NEW p, p = FinishRequest(RetireJob(o, j), id, j)
    PROVE  /\ p \in Good(r) /\ Drops(o, p, {j}) /\ p.reply = o.reply /\ p.barriers = o.barriers
           /\ \A x \in Ids : p.requests[x] = IF x = id /\ o.requests[x] = j THEN 0 ELSE o.requests[x]
<1> DEFINE J == {j}
<1> HIDE DEF J
<1>0. PICK q : q = RetireAll(o, J)
    OBVIOUS
<1>1. q \in Good(r) /\ Drops(o, q, J) /\ SameDebts(o, q) /\ p = FinishRequest(q, id, j)
    BY <1>0, RetireAllFacts DEF RetireJob, J
<1>2. q \in Owners /\ o.requests \in [Ids -> Nat] /\ q.requests = o.requests
    BY <1>1 DEF Good, Owners, SameDebts
<1> DEFINE left == [o.requests EXCEPT ![id] = IF @ = j THEN 0 ELSE @]
<1>3. left \in [Ids -> Nat]
      /\ \A x \in Ids : left[x] = IF x = id /\ o.requests[x] = j THEN 0 ELSE o.requests[x]
    BY <1>2
<1> HIDE DEF left
<1>4. p = [q EXCEPT !.requests = left]
    BY <1>1, <1>2 DEF FinishRequest, left, Owners
<1>5. /\ p \in Owners /\ SameWork(q, p) /\ SameStore(q, p) /\ p.requests = left
      /\ p.reply = q.reply /\ p.barriers = q.barriers /\ p.tokens = q.tokens
      /\ p.unfinished = q.unfinished /\ p.cancelled = q.cancelled
    BY <1>2, <1>3, <1>4 DEF Owners, SameWork, SameStore
<1>6. p \in Good(r) /\ Outstanding(p) = Outstanding(q)
  <2>1. \A x \in Ids : p.requests[x] \in Given(q) \union {0}
      BY <1>1, <1>2, <1>3, <1>5 DEF Good, Numbered
  <2>2. QED BY <1>1, <1>5, <2>1, SameWorkIsGood DEF Good, Numbered
<1>7. Drops(o, p, J)
    BY <1>1, <1>5, <1>6 DEF Drops, SameWork, SameStore
<1>8. QED BY <1>1, <1>3, <1>5, <1>6, <1>7 DEF J, SameDebts

\* Retiring the job of a request leaves its answer owed and untracked.
LEMMA RetireRequestOwes ==
    ASSUME NEW r, NEW o \in Good(r), NEW id \in Ids, NEW j \in DOMAIN o.jobs,
           NEW p, p = FinishRequest(RetireJob(o, j), id, j), NEW F \in SUBSET Ids,
           Owes(o, F), o.jobs[j].kind = "request", o.jobs[j].id = id
    PROVE  id \notin F /\ Owes(p, F \union {id})
<1>17. /\ Drops(o, p, {j}) /\ p.reply = o.reply /\ p.barriers = o.barriers
       /\ \A x \in Ids : p.requests[x] = IF x = id /\ o.requests[x] = j THEN 0 ELSE o.requests[x]
    BY RetireRequest
<1>0. /\ SameStore(o, p) /\ p.jobs = Cut(o.jobs, {j}) /\ p.reply = o.reply /\ p.barriers = o.barriers
      /\ \A x \in Ids : p.requests[x] = IF x = id /\ o.requests[x] = j THEN 0 ELSE o.requests[x]
    BY <1>17 DEF Drops
<1>16. o.requests \in [Ids -> Nat] /\ o.barriers \subseteq Promise
    BY DEF Good, Owners
<1>1. o.requests[id] = j
    BY DEF Owes
<1>2. j \in Nat \ {0}
  <2>1. \A i \in DOMAIN o.jobs : i \in Nat \ {0}
      BY DEF Good, Owners, Numbered, Given
  <2>2. QED BY <2>1
<1>3. id \notin F /\ o.reply[id] = "owed" /\ \A b \in o.barriers : b.id # id
    BY <1>1, <1>2 DEF Owes
<1>4. /\ p.reply = o.reply /\ p.barriers = o.barriers /\ p.phase = o.phase
      /\ p.jobs = Cut(o.jobs, {j})
    BY <1>0 DEF SameStore
<1>5. \A x \in Ids : p.requests[x] = IF x = id THEN 0 ELSE o.requests[x]
    BY <1>0, <1>16, <1>1
<1>6. \A i \in DOMAIN p.jobs : i \in DOMAIN o.jobs /\ i # j /\ p.jobs[i] = o.jobs[i]
    BY <1>4 DEF Cut
<1>7. \A i \in DOMAIN o.jobs \ {j} : i \in DOMAIN p.jobs /\ p.jobs[i] = o.jobs[i]
    BY <1>4 DEF Cut
<1>8. \A x \in Ids \ {id} : o.requests[x] # 0 =>
         o.requests[x] # j /\ o.requests[x] \in DOMAIN o.jobs \ {j}
    BY DEF Owes
<1>9. \A x \in Ids : p.requests[x] # 0 =>
         /\ p.requests[x] \in DOMAIN p.jobs
         /\ p.jobs[p.requests[x]].kind = "request" /\ p.jobs[p.requests[x]].id = x
    BY <1>5, <1>7, <1>8 DEF Owes
<1>10. \A i \in DOMAIN p.jobs : p.jobs[i].kind = "request" => p.requests[p.jobs[i].id] = i
  <2> SUFFICES ASSUME NEW i \in DOMAIN p.jobs, p.jobs[i].kind = "request"
               PROVE  p.requests[p.jobs[i].id] = i
      OBVIOUS
  <2>1. o.requests[o.jobs[i].id] = i /\ i \in DOMAIN o.jobs /\ i # j /\ p.jobs[i] = o.jobs[i]
      BY <1>6 DEF Owes
  <2>2. o.jobs[i] \in Metas
      BY <2>1, JobMeta DEF Good
  <2>3. o.jobs[i].id \in Ids
      BY <2>1, <2>2 DEF Metas, RequestMeta, DiagnosticsMeta
  <2>4. o.jobs[i].id # id
      BY <2>1, <1>1
  <2>5. QED BY <2>1, <2>3, <2>4, <1>5
<1>11. \A x \in Ids :
         p.reply[x] = "owed" <=> \/ x \in F \union {id} \/ p.requests[x] # 0
                                 \/ \E b \in p.barriers : b.id = x
    BY <1>3, <1>4, <1>5 DEF Owes
<1>12. \A b \in p.barriers : b.id \notin F \union {id} /\ p.requests[b.id] = 0
  <2>1. \A b \in p.barriers : b.id \in Ids
      BY <1>16, <1>4 DEF Promise
  <2>2. QED BY <1>3, <1>4, <1>5, <2>1 DEF Owes
<1>13. \A x \in F \union {id} : p.requests[x] = 0
    BY <1>5 DEF Owes
<1>14. /\ \A x \in Ids : p.reply[x] # "twice"
       /\ \A b, c \in p.barriers : b.id = c.id => b = c
       /\ p.phase # "running" => \A x \in Ids : p.requests[x] = 0
    BY <1>4, <1>5 DEF Owes
<1>15. QED BY <1>3, <1>9, <1>10, <1>11, <1>12, <1>13, <1>14 DEF Owes

LEMMA RetireDuplicateFacts ==
    ASSUME NEW r, NEW o \in Good(r), NEW id \in Ids, NEW p, p = RetireDuplicate(o, id)
    PROVE  /\ p \in Good(r) /\ SameStore(o, p) /\ Outstanding(p) <= Outstanding(o)
           /\ o.requests[id] = 0 => p = o
           /\ Owes(o, {}) /\ o.requests[id] # 0 => Owes(p, {id})
<1> DEFINE j == o.requests[id]
<1>1. j \in Given(o) \union {0} /\ o \in Owners
    BY DEF Good, Numbered
<1>2. Outstanding(o) \in Nat
    BY Load DEF Good
<1>3. CASE j = 0
    BY <1>1, <1>2, <1>3 DEF RetireDuplicate, SameStore
<1>4. CASE j # 0
  <2>1. PICK q : q = FinishRequest(RetireJob(o, j), id, j)
      OBVIOUS
  <2>2. RetireJob([o EXCEPT !.requests[id] = 0], j) = q
    <3> DEFINE left == RetireAll([o EXCEPT !.requests[id] = 0], {j})
               right == FinishRequest(RetireAll(o, {j}), id, j)
    <3>1. left = [o EXCEPT !.unfinished = @ \ {j}, !.pending = Without(@, {j}),
                           !.jobs = Cut(@, {j}), !.requests = [@ EXCEPT ![id] = 0]]
        BY <1>1 DEF RetireAll, Owners, Cut
    <3>2. right = [o EXCEPT !.unfinished = @ \ {j}, !.pending = Without(@, {j}),
                            !.jobs = Cut(@, {j}), !.requests = [@ EXCEPT ![id] = 0]]
        BY <1>1 DEF RetireAll, Owners, Cut, FinishRequest
    <3>3. QED BY <3>1, <3>2, <2>1 DEF RetireJob
  <2>3. q \in Good(r) /\ Drops(o, q, {j})
      BY <2>1, RetireRequest
  <2>4. p = Cancel(q, {j})
      BY <2>2, <1>4 DEF RetireDuplicate
  <2>5. {j} \in SUBSET Given(q)
      BY <1>1, <1>4, <2>3 DEF Given, Drops
  <2>6. /\ p \in Good(r) /\ SameStore(q, p) /\ Outstanding(p) = Outstanding(q)
        /\ \A F : Owes(q, F) => Owes(p, F)
      BY <2>3, <2>4, <2>5, CancelFacts
  <2>7. ASSUME Owes(o, {}) PROVE Owes(p, {id})
    <3>1. j \in DOMAIN o.jobs /\ o.jobs[j].kind = "request" /\ o.jobs[j].id = id
        BY <2>7, <1>4 DEF Owes
    <3>2. Owes(q, {} \union {id})
        BY <3>1, <2>1, <2>7, RetireRequestOwes
    <3>3. QED BY <3>2, <2>6
  <2>8. QED BY <2>3, <2>6, <2>7, <1>4 DEF SameStore, Drops
<1>5. QED BY <1>3, <1>4

\* The newer generation of a key has no job left of the older ones.
LEMMA SupersedeFacts ==
    ASSUME NEW r, NEW o \in Good(r), NEW k \in Keys, NEW p, p = Supersede(o, k)
    PROVE  /\ p \in Good(r) /\ SameStore(o, p) /\ Outstanding(p) <= Outstanding(o)
           /\ DiagnosticJobs(p, k) = {}
           /\ \A F : Owes(o, F) => Owes(p, F)
<1> DEFINE old == DiagnosticJobs(o, k)
           b == [o EXCEPT !.gen[k] = @ + 1, !.tokens[k] = 0]
<1>1. /\ b \in Owners /\ SameWork(o, b) /\ SameStore(o, b) /\ SameDebts(o, b)
      /\ b.unfinished = o.unfinished /\ b.cancelled = o.cancelled
      /\ b.tokens = [o.tokens EXCEPT ![k] = 0]
  <2>1. o.gen \in [Keys -> Nat] /\ o.tokens \in [Keys -> Nat] /\ o \in Owners
      BY DEF Good, Owners
  <2>2. [o.gen EXCEPT ![k] = @ + 1] \in [Keys -> Nat] /\ [o.tokens EXCEPT ![k] = 0] \in [Keys -> Nat]
      BY <2>1
  <2>3. QED BY <2>1, <2>2 DEF Good, Owners, SameWork, SameStore, SameDebts
<1>2. o.tokens \in [Keys -> Nat] /\ \A x \in Keys : o.tokens[x] \in Given(o) \union {0}
    BY DEF Good, Owners, Numbered
<1> HIDE DEF b
<1>3. b \in Good(r) /\ Outstanding(b) = Outstanding(o)
    BY <1>1, <1>2, SameWorkIsGood DEF Good, Numbered, SameDebts
<1>4. PICK q : q = RetireAll(b, old)
    OBVIOUS
<1>5. old \subseteq DOMAIN o.jobs /\ old \subseteq Given(o)
    BY DEF DiagnosticJobs, Good, Numbered
<1>6. \A j \in DOMAIN b.jobs : j \in old => b.jobs[j].kind = "diagnostics"
    BY <1>1 DEF DiagnosticJobs, SameWork
<1> HIDE DEF old
<1>7. q \in Good(r) /\ Drops(b, q, old)
    BY <1>3, <1>4, RetireAllFacts
<1>8. \A F : Owes(b, F) => Owes(q, F)
    BY <1>3, <1>4, <1>6, RetireDiagnostics
<1> DEFINE J == old \union ({o.tokens[k]} \ {0})
<1>9. J \in SUBSET Given(q)
    BY <1>1, <1>2, <1>5, <1>7 DEF Given, SameWork, Drops
<1>10. p = Cancel(q, J)
    BY <1>4 DEF Supersede, old, b
<1> HIDE DEF J
<1>11. /\ p \in Good(r) /\ SameStore(q, p) /\ SameWork(q, p) /\ Outstanding(p) = Outstanding(q)
       /\ \A F : Owes(q, F) => Owes(p, F)
    BY <1>7, <1>9, <1>10, CancelFacts
<1>12. \A F : Owes(o, F) => Owes(b, F)
    BY <1>1 DEF Owes, SameWork, SameStore, SameDebts
<1>13. DiagnosticJobs(p, k) = {}
  <2>1. p.jobs = Cut(o.jobs, old)
      BY <1>1, <1>7, <1>11 DEF SameWork, Drops
  <2>2. QED BY <2>1 DEF DiagnosticJobs, Cut, old
<1>14. Outstanding(p) <= Outstanding(o) /\ SameStore(o, p)
    BY <1>1, <1>3, <1>7, <1>11 DEF SameStore, Drops
<1>15. QED BY <1>8, <1>11, <1>12, <1>13, <1>14

LEMMA VictimWaits ==
    ASSUME NEW o \in Owners, Numbered(o), o.pending # <<>>
    PROVE  Victim(o) \in Range(o.pending) /\ Victim(o) \in DOMAIN o.jobs
<1> DEFINE requests == {i \in DOMAIN o.pending : o.jobs[o.pending[i]].kind = "request"}
<1>1. o.pending \in Seq(Nat)
    BY DEF Owners, Lists
<1>2. 1 \in DOMAIN o.pending /\ DOMAIN o.pending \subseteq Nat
    BY <1>1
<1>3. requests # {} => Min(requests) \in requests
  <2>1. requests \in SUBSET Nat
      BY <1>2
  <2> HIDE DEF requests
  <2>2. requests # {} => \E m \in requests : \A i \in requests : m <= i
      BY <2>1, Kept!LeastNatural
  <2>3. QED BY <2>2 DEF Min
<1>4. Victim(o) \in Range(o.pending)
    BY <1>2, <1>3 DEF Victim, Range
<1>5. QED BY <1>4 DEF Numbered

\* Evicting makes room for one, and the request it gives up is answered.
LEMMA EvictFacts ==
    ASSUME NEW r, NEW o \in Good(r), o.pending # <<>>, NEW p, p = Evict(o)
    PROVE  /\ p \in Good(r) /\ Drops(o, p, {Victim(o)}) /\ Outstanding(p) < Outstanding(o)
           /\ \A F \in SUBSET Ids : Owes(o, F) => Owes(p, F)
<1> DEFINE j == Victim(o)
           meta == o.jobs[j]
<1>1. o \in Owners /\ Numbered(o)
    BY DEF Good
<1>2. j \in Range(o.pending) /\ j \in DOMAIN o.jobs /\ {j} \in SUBSET Given(o)
    BY <1>1, VictimWaits DEF Numbered
<1>3. meta \in Metas
    BY <1>1, <1>2, JobMeta
<1> HIDE DEF j
<1>4. CASE meta.kind = "request"
  <2>1. meta.id \in Ids
      BY <1>3, <1>4 DEF Metas, RequestMeta, DiagnosticsMeta
  <2>2. PICK id \in Ids : id = meta.id
      BY <2>1
  <2>3. PICK q : q = FinishRequest(RetireJob(o, j), id, j)
      OBVIOUS
  <2>4. q \in Good(r) /\ Drops(o, q, {j})
      BY <2>3, RetireRequest
  <2>5. PICK c : c = Cancel(q, {j})
      OBVIOUS
  <2>6. {j} \in SUBSET Given(q)
      BY <1>2, <2>4 DEF Given, Drops
  <2>7. /\ c \in Good(r) /\ SameStore(q, c) /\ SameWork(q, c) /\ Outstanding(c) = Outstanding(q)
        /\ \A F : Owes(q, F) => Owes(c, F)
      BY <2>4, <2>5, <2>6, CancelFacts
  <2>8. p = Reply(c, id, "error")
    <3>1. p = Reply(FinishRequest(Cancel(RetireJob(o, j), {j}), id, j), id, "error")
        BY <1>4, <2>2 DEF Evict, j
    <3>2. \A x : FinishRequest(Cancel(x, {j}), id, j) = Cancel(FinishRequest(x, id, j), {j})
        BY DEF FinishRequest, Cancel
    <3>3. QED BY <3>1, <3>2, <2>3, <2>5
  <2>9. /\ p \in Good(r) /\ SameWork(c, p) /\ SameStore(c, p) /\ Outstanding(p) = Outstanding(c)
        /\ \A F \in SUBSET Ids : id \in F /\ Owes(c, F) => Owes(p, F \ {id})
      BY <2>7, <2>8, ReplyFacts
  <2>10. ASSUME NEW F \in SUBSET Ids, Owes(o, F) PROVE Owes(p, F)
    <3>1. id \notin F /\ Owes(q, F \union {id})
        BY <2>10, <1>2, <1>4, <2>2, <2>3, RetireRequestOwes
    <3>2. Owes(p, (F \union {id}) \ {id})
        BY <3>1, <2>7, <2>9
    <3>3. (F \union {id}) \ {id} = F
        BY <3>1
    <3>4. QED BY <3>2, <3>3
  <2>11. Drops(o, p, {j})
      BY <2>4, <2>7, <2>9 DEF SameStore, SameWork, Drops
  <2>12. Outstanding(p) < Outstanding(o)
      BY <1>2, <2>4, <2>7, <2>9 DEF Drops
  <2>13. QED BY <2>9, <2>10, <2>11, <2>12 DEF j
<1>5. CASE meta.kind # "request"
  <2>1. meta.kind = "diagnostics" /\ meta.key \in Keys
      BY <1>3, <1>5 DEF Metas, RequestMeta, DiagnosticsMeta
  <2>2. PICK k \in Keys : k = meta.key
      BY <2>1
  <2> DEFINE J == {j}
  <2> HIDE DEF J
  <2>3. PICK q : q = RetireAll(o, J)
      OBVIOUS
  <2>4. q \in Good(r) /\ Drops(o, q, J)
      BY <2>3, RetireAllFacts
  <2>5. Range(o.pending) \intersect J # {}
      BY <1>2 DEF J
  <2>6. PICK c : c = Cancel(q, J)
      OBVIOUS
  <2>7. J \in SUBSET Given(q)
      BY <1>2, <2>4 DEF Given, J, Drops
  <2>8. /\ c \in Good(r) /\ SameStore(q, c) /\ SameWork(q, c) /\ Outstanding(c) = Outstanding(q)
        /\ \A F : Owes(q, F) => Owes(c, F)
      BY <2>4, <2>6, <2>7, CancelFacts
  <2>9. p = FinishCancellation(c, k, j)
      BY <1>5, <2>2, <2>3, <2>6 DEF Evict, j, J, RetireJob
  <2>10. /\ p \in Good(r) /\ SameWork(c, p) /\ SameStore(c, p)
         /\ \A F : Owes(c, F) => Owes(p, F)
      BY <2>8, <2>9, FinishCancellationFacts
  <2>11. \A i \in DOMAIN o.jobs : i \in J => o.jobs[i].kind = "diagnostics"
      BY <2>1 DEF J
  <2>12. \A F : Owes(o, F) => Owes(q, F)
      BY <2>3, <2>11, RetireDiagnostics
  <2>13. Outstanding(p) < Outstanding(o)
      BY <2>4, <2>5, <2>8, <2>10 DEF SameWork, Outstanding, Drops
  <2>14. Drops(o, p, J)
      BY <2>4, <2>8, <2>10 DEF SameStore, SameWork, Drops, Outstanding
  <2>15. QED BY <2>8, <2>10, <2>12, <2>13, <2>14 DEF j, J
<1>6. QED BY <1>4, <1>5

-----------------------------------------------------------------------------
(* A job that starts, and where it goes.                                   *)

Grown(f, j, m) == [i \in DOMAIN f \union {j} |-> IF i = j THEN m ELSE f[i]]

\* A live job that is in no list.
Homeless(o, j) ==
    j \in DOMAIN o.jobs /\ j \notin Range(o.pending) /\ j \notin o.submitted /\ j \notin Over(o.deferred)

\* p is o with job j started, b what it was started from.
Starts(o, b, p, m) ==
    /\ SameStore(o, p) /\ SameDebts(b, p) /\ Outstanding(p) = Outstanding(o)
    /\ p.nextJob = o.nextJob + 1 /\ p.jobs = Grown(o.jobs, o.nextJob, m)
    /\ p.pending = o.pending /\ p.submitted = o.submitted /\ p.queue = o.queue
    /\ Homeless(p, o.nextJob)

LEMMA StartJobFacts ==
    ASSUME NEW r, NEW o \in Good(r), NEW b \in Owners, SameWork(o, b), SameStore(o, b),
           b.unfinished = o.unfinished, b.cancelled = o.cancelled,
           \A id \in Ids : b.requests[id] \in Given(o) \union {0, o.nextJob},
           \A k \in Keys : b.tokens[k] \in Given(o) \union {0, o.nextJob},
           NEW m \in Metas, \A d \in Docs : m.snapshot[d] <= o.rev,
           NEW p, p = StartJob(b, m)
    PROVE  p \in Good(r) /\ Starts(o, b, p, m)
<1> DEFINE n == o.nextJob
           table == Grown(o.jobs, n, m)
<1>1. n \in Nat \ {0} /\ n = b.nextJob /\ o.jobs = b.jobs
    BY DEF Good, Owners, Numbered, SameWork
<1>2. /\ SameStore(o, p) /\ SameDebts(b, p) /\ p.nextJob = n + 1 /\ p.jobs = table
      /\ p.pending = o.pending /\ p.submitted = o.submitted /\ p.queue = o.queue
      /\ p.completed = o.completed /\ p.deferred = o.deferred
      /\ p.tokens = b.tokens /\ p.cancelled = o.cancelled /\ p.unfinished = o.unfinished \union {n}
    BY <1>1 DEF Owners, StartJob, SameStore, SameDebts, SameWork, Grown
<1>3. table \in JobTables
  <2>1. PICK D \in SUBSET Nat : o.jobs \in [D -> Metas]
      BY DEF Good, Owners, JobTables
  <2>2. D \union {n} \in SUBSET Nat /\ table \in [D \union {n} -> Metas]
      BY <2>1, <1>1 DEF Grown
  <2>3. QED BY <2>2 DEF JobTables
<1>4. p \in Owners
  <2> DEFINE next == n + 1
             live == b.unfinished \union {n}
  <2>1. p = [b EXCEPT !.nextJob = next, !.jobs = table, !.unfinished = live]
      BY <1>1 DEF StartJob, Grown
  <2>2. next \in Nat /\ live \in SUBSET Nat
      BY <1>1 DEF Owners
  <2> HIDE DEF table, next, live
  <2>3. ASSUME NEW i \in Nat, NEW f \in JobTables, NEW u \in SUBSET Nat,
               NEW q, q = [b EXCEPT !.nextJob = i, !.jobs = f, !.unfinished = u]
        PROVE  q \in Owners
      BY <2>3 DEF Owners
  <2>4. QED BY <2>1, <2>2, <2>3, <1>3
<1>5. /\ Given(p) = Given(o) \union {n} /\ n \notin Given(o)
      /\ DOMAIN table = DOMAIN o.jobs \union {n} /\ table[n] = m
      /\ \A j \in DOMAIN o.jobs \ {n} : table[j] = o.jobs[j]
    BY <1>1, <1>2 DEF Given, Grown
<1> HIDE DEF table
<1>6. Numbered(o)
    BY DEF Good
<1>7. Numbered(p)
  <2>1. p.nextJob > 0
      BY <1>1, <1>2
  <2>2. \A j \in DOMAIN p.jobs : \A d \in Docs : p.jobs[j].snapshot[d] <= p.rev
      BY <1>2, <1>5, <1>6 DEF Numbered, SameStore
  <2>3. /\ \A id \in Ids : p.requests[id] \in Given(p) \union {0}
        /\ \A k \in Keys : p.tokens[k] \in Given(p) \union {0}
      BY <1>2, <1>5 DEF SameDebts
  <2>4. QED BY <1>2, <1>5, <1>6, <2>1, <2>2, <2>3 DEF Numbered, SameStore
<1>8. Waiting(p) /\ Finished(p) /\ Queued(p) /\ Executed(p, r)
    BY <1>2 DEF Good, Waiting, Finished, Queued, Executed
<1>9. Homeless(p, n)
    BY <1>2, <1>5, <1>6 DEF Homeless, Numbered
<1>10. Outstanding(p) = Outstanding(o)
    BY <1>2 DEF Outstanding
<1>11. QED BY <1>2, <1>4, <1>7, <1>8, <1>9, <1>10 DEF Good, Starts, table

\* The answer owed to a new request is tracked from the moment its job starts.
LEMMA StartRequestOwes ==
    ASSUME NEW r, NEW o \in Good(r), NEW id \in Ids, NEW F \in SUBSET Ids, id \in F, Owes(o, F),
           o.phase = "running", NEW b, b.requests = [o.requests EXCEPT ![id] = o.nextJob],
           b.reply = o.reply, b.barriers = o.barriers,
           NEW m, m.kind = "request", m.id = id, NEW p, Starts(o, b, p, m)
    PROVE  Owes(p, F \ {id})
<1> DEFINE n == o.nextJob
<1>1. o.requests \in [Ids -> Nat] /\ o.barriers \subseteq Promise /\ n \in Nat \ {0}
    BY DEF Good, Owners, Numbered
<1>2. n \notin DOMAIN o.jobs
    BY <1>1 DEF Good, Numbered, Given
<1>3. /\ p.reply = o.reply /\ p.barriers = o.barriers /\ p.phase = "running"
      /\ \A x \in Ids : p.requests[x] = IF x = id THEN n ELSE o.requests[x]
    BY <1>1 DEF Starts, SameDebts, SameStore
<1>4. /\ DOMAIN p.jobs = DOMAIN o.jobs \union {n} /\ p.jobs[n] = m
      /\ \A j \in DOMAIN o.jobs : p.jobs[j] = o.jobs[j]
    BY <1>2 DEF Starts, Grown
<1>5. o.requests[id] = 0 /\ \A c \in o.barriers : c.id # id
    BY DEF Owes
<1> HIDE DEF n
<1>6. \A x \in Ids : p.requests[x] # 0 =>
         /\ p.requests[x] \in DOMAIN p.jobs
         /\ p.jobs[p.requests[x]].kind = "request" /\ p.jobs[p.requests[x]].id = x
    BY <1>3, <1>4 DEF Owes
<1>7. \A j \in DOMAIN p.jobs : p.jobs[j].kind = "request" => p.requests[p.jobs[j].id] = j
  <2> SUFFICES ASSUME NEW j \in DOMAIN p.jobs, p.jobs[j].kind = "request"
               PROVE  p.requests[p.jobs[j].id] = j
      OBVIOUS
  <2>1. CASE j = n
      BY <2>1, <1>3, <1>4
  <2>2. CASE j # n
    <3>1. j \in DOMAIN o.jobs /\ p.jobs[j] = o.jobs[j] /\ o.jobs[j] \in Metas /\ j # 0
        BY <2>2, <1>4, JobMeta DEF Good, Numbered, Given
    <3>2. o.jobs[j].id \in Ids
        BY <3>1 DEF Metas, RequestMeta, DiagnosticsMeta
    <3>3. o.requests[o.jobs[j].id] = j
        BY <3>1 DEF Owes
    <3>4. QED BY <3>1, <3>2, <3>3, <1>3, <1>5
  <2>3. QED BY <2>1, <2>2
<1>8. \A x \in Ids :
         p.reply[x] = "owed" <=> \/ x \in F \ {id} \/ p.requests[x] # 0
                                 \/ \E c \in p.barriers : c.id = x
    BY <1>1, <1>3, <1>5 DEF Owes
<1>9. \A c \in p.barriers : c.id \notin F \ {id} /\ p.requests[c.id] = 0
  <2>1. \A c \in p.barriers : c.id \in Ids
      BY <1>1, <1>3 DEF Promise
  <2>2. QED BY <1>3, <1>5, <2>1 DEF Owes
<1>10. \A x \in F \ {id} : p.requests[x] = 0
    BY <1>3 DEF Owes
<1>11. /\ \A x \in Ids : p.reply[x] # "twice"
       /\ \A c, e \in p.barriers : c.id = e.id => c = e
    BY <1>3 DEF Owes
<1>12. QED BY <1>3, <1>6, <1>7, <1>8, <1>9, <1>10, <1>11 DEF Owes

LEMMA StartDiagnosticsOwes ==
    ASSUME NEW r, NEW o \in Good(r), NEW F, Owes(o, F), NEW b, SameDebts(o, b),
           NEW m, m.kind = "diagnostics", NEW p, Starts(o, b, p, m)
    PROVE  Owes(p, F)
<1> DEFINE n == o.nextJob
<1>1. n \notin DOMAIN o.jobs
    BY DEF Good, Owners, Numbered, Given
<1>2. SameDebts(o, p) /\ p.phase = o.phase
    BY DEF Starts, SameDebts, SameStore
<1>3. /\ DOMAIN p.jobs = DOMAIN o.jobs \union {n} /\ p.jobs[n] = m
      /\ \A j \in DOMAIN o.jobs : p.jobs[j] = o.jobs[j]
    BY <1>1 DEF Starts, Grown
<1> HIDE DEF n
<1>4. QED BY <1>1, <1>2, <1>3 DEF Owes, SameDebts

\* p is o with job j given a place.
Places(o, p, j) ==
    /\ SameStore(o, p) /\ SameDebts(o, p) /\ Outstanding(p) = Outstanding(o) + 1
    /\ p.nextJob = o.nextJob /\ p.jobs = o.jobs /\ p.deferred = o.deferred
    /\ p.submitted \subseteq o.submitted \union {j}
    /\ Range(p.pending) \subseteq Range(o.pending) \union {j}

LEMMA PlacedOwes ==
    ASSUME NEW o, NEW p, NEW j, Places(o, p, j), NEW F, Owes(o, F) PROVE Owes(p, F)
BY DEF Places, Owes, SameStore, SameDebts

LEMMA WaitFacts ==
    ASSUME NEW r, NEW o \in Good(r), NEW j, Homeless(o, j), NEW p, p = Wait(o, j)
    PROVE  p \in Good(r) /\ Places(o, p, j)
<1>1. /\ o \in Owners /\ o.pending \in Seq(Nat) /\ Len(o.pending) \in Nat
      /\ Cardinality(o.submitted) \in Nat
    BY Sizes
<1>2. j \in Nat
    BY <1>1, JobMeta DEF Homeless
<1> DEFINE q == Append(o.pending, j)
<1>3. /\ q \in Seq(Nat) /\ Len(q) = Len(o.pending) + 1 /\ Range(q) = Range(o.pending) \union {j}
      /\ Distinct(o.pending) /\ j \notin Range(o.pending) => Distinct(q)
    BY <1>1, <1>2, RangeAppend
<1> HIDE DEF q
<1>4. p = [o EXCEPT !.pending = q]
    BY DEF Wait, q
<1>5. /\ SameStore(o, p) /\ SameDebts(o, p) /\ p.nextJob = o.nextJob /\ p.jobs = o.jobs
      /\ p.deferred = o.deferred /\ p.completed = o.completed /\ p.submitted = o.submitted
      /\ p.queue = o.queue /\ p.pending = q /\ p.tokens = o.tokens
      /\ p.unfinished = o.unfinished /\ p.cancelled = o.cancelled
    BY <1>1, <1>4 DEF Owners, SameStore, SameDebts
<1>6. p \in Owners
    BY <1>1, <1>3, <1>4 DEF Owners, Lists
<1>7. Numbered(p)
    BY <1>3, <1>5 DEF Good, Numbered, Given, SameStore, SameDebts, Homeless
<1>8. Waiting(p) /\ Finished(p) /\ Queued(p) /\ Executed(p, r)
  <2>1. Waiting(p)
      BY <1>3, <1>5 DEF Good, Waiting, Homeless
  <2>2. Finished(p) /\ Queued(p) /\ Executed(p, r)
      BY <1>5 DEF Good, Finished, Queued, Executed
  <2>3. QED BY <2>1, <2>2
<1>9. Outstanding(p) = Outstanding(o) + 1
  <2>1. Len(p.pending) = Len(o.pending) + 1 /\ p.submitted = o.submitted
      BY <1>3, <1>5
  <2>2. QED BY <2>1, <1>1 DEF Outstanding
<1>10. QED BY <1>3, <1>5, <1>6, <1>7, <1>8, <1>9 DEF Good, Places

LEMMA SubmitFacts ==
    ASSUME NEW r, NEW o \in Good(r), NEW j, Homeless(o, j), NEW w \in Workers,
           NEW p, p = Submit(o, j, w)
    PROVE  p \in Good(r) /\ Places(o, p, j)
<1>1. /\ o \in Owners /\ o.queue \in [Workers -> Lists] /\ IsFiniteSet(o.submitted)
      /\ Len(o.pending) \in Nat /\ Cardinality(o.submitted) \in Nat
    BY Sizes DEF Owners
<1>2. j \in Nat
    BY <1>1, JobMeta DEF Homeless
<1> DEFINE q == [o.queue EXCEPT ![w] = Append(@, j)]
<1>3. /\ q \in [Workers -> Lists] /\ Range(q[w]) = Range(o.queue[w]) \union {j}
      /\ Distinct(o.queue[w]) /\ j \notin Range(o.queue[w]) => Distinct(q[w])
      /\ \A v \in Workers \ {w} : q[v] = o.queue[v]
  <2>1. o.queue[w] \in Seq(Nat)
      BY <1>1 DEF Lists
  <2>2. /\ Append(o.queue[w], j) \in Seq(Nat)
        /\ Range(Append(o.queue[w], j)) = Range(o.queue[w]) \union {j}
        /\ Distinct(o.queue[w]) /\ j \notin Range(o.queue[w]) => Distinct(Append(o.queue[w], j))
      BY <2>1, <1>2, RangeAppend
  <2>3. q[w] = Append(o.queue[w], j) /\ \A v \in Workers \ {w} : q[v] = o.queue[v]
      BY <1>1
  <2>4. q \in [Workers -> Lists]
      BY <1>1, <2>2 DEF Lists
  <2> HIDE DEF q
  <2>5. QED BY <2>2, <2>3, <2>4
<1> HIDE DEF q
<1>4. p = [o EXCEPT !.queue = q, !.submitted = @ \union {j}]
    BY <1>1 DEF Submit, q, Owners
<1>5. /\ SameStore(o, p) /\ SameDebts(o, p) /\ p.nextJob = o.nextJob /\ p.jobs = o.jobs
      /\ p.deferred = o.deferred /\ p.completed = o.completed
      /\ p.submitted = o.submitted \union {j}
      /\ p.queue = q /\ p.pending = o.pending /\ p.tokens = o.tokens
      /\ p.unfinished = o.unfinished /\ p.cancelled = o.cancelled
    BY <1>1, <1>4 DEF Owners, SameStore, SameDebts
<1>6. p \in Owners
  <2>1. o.submitted \union {j} \in SUBSET Nat
      BY <1>1, <1>2 DEF Owners
  <2>2. QED BY <1>1, <1>3, <1>4, <2>1 DEF Owners
<1>7. Numbered(p)
    BY <1>3, <1>5 DEF Good, Numbered, Given, SameStore, SameDebts, Homeless
<1>8. Waiting(p) /\ Finished(p)
    BY <1>5 DEF Good, Waiting, Finished, Homeless
<1>9. /\ j \notin Over(o.completed) /\ \A v \in Workers : j \notin Range(o.queue[v])
      /\ \A v \in Workers : r[v] # 0 => r[v] # j
    BY DEF Good, Homeless, Finished, Queued, Executed
<1>10. Queued(p)
  <2> SUFFICES ASSUME NEW v \in Workers
               PROVE  /\ Distinct(q[v]) /\ Range(q[v]) \subseteq p.submitted \ Over(p.completed)
                      /\ \A x \in Workers \ {v} : Range(q[x]) \intersect Range(q[v]) = {}
      BY <1>5 DEF Queued
  <2>1. Queued(o)
      BY DEF Good
  <2>2. CASE v = w
      BY <2>1, <2>2, <1>3, <1>5, <1>9 DEF Queued
  <2>3. CASE v # w
      BY <2>1, <2>3, <1>3, <1>5, <1>9 DEF Queued
  <2>4. QED BY <2>2, <2>3
<1>11. Executed(p, r)
    BY <1>3, <1>5, <1>9 DEF Good, Executed
<1>12. Outstanding(p) = Outstanding(o) + 1
  <2>1. Cardinality(o.submitted \union {j}) = Cardinality(o.submitted) + 1
      BY <1>1, FS_AddElement DEF Homeless
  <2>2. QED BY <2>1, <1>1, <1>5 DEF Outstanding
<1>13. QED BY <1>5, <1>6, <1>7, <1>8, <1>10, <1>11, <1>12 DEF Good, Places

-----------------------------------------------------------------------------
(* Capacity and scheduling.                                                *)

\* Draining frees what the results on the channel held, and loses none.
Drains(o, p) ==
    /\ SameStore(o, p) /\ SameDebts(o, p) /\ Outstanding(p) <= Outstanding(o)
    /\ p.nextJob = o.nextJob /\ p.jobs = o.jobs /\ p.pending = o.pending /\ p.queue = o.queue
    /\ p.completed = <<>> /\ Over(p.deferred) \intersect p.submitted = {}

LEMMA DrainFacts ==
    ASSUME NEW r, NEW o \in Good(r), NEW p, p = Drain(o)
    PROVE  p \in Good(r) /\ Drains(o, p)
<1>1. o \in Owners /\ o.deferred \in Seq(Ended) /\ o.completed \in Seq(Ended)
    BY DEF Good, Owners, Channels
<1> DEFINE all == o.deferred \o o.completed
           kept == o.submitted \ Over(o.completed)
<1>2. all \in Seq(Ended) /\ Over(all) = Over(o.deferred) \union Over(o.completed)
  <2>1. all \in Seq(Ended) /\ Range(all) = Range(o.deferred) \union Range(o.completed)
      BY <1>1, RangeConcat
  <2> HIDE DEF all
  <2>2. QED BY <2>1 DEF Over
<1>3. p = [o EXCEPT !.submitted = kept, !.deferred = all, !.completed = <<>>]
    BY <1>1 DEF Drain, Over, Owners
<1>4. kept \in SUBSET Nat /\ <<>> \in Channels
    BY <1>1 DEF Owners, Channels
<1>5. Over(<<>>) = {} /\ OneEach(<<>>)
    BY DEF Over, Range, OneEach
<1> HIDE DEF all
<1>6. /\ SameStore(o, p) /\ SameDebts(o, p) /\ p.nextJob = o.nextJob /\ p.jobs = o.jobs
      /\ p.deferred = all /\ p.completed = <<>> /\ p.submitted = kept
      /\ p.queue = o.queue /\ p.pending = o.pending /\ p.tokens = o.tokens
      /\ p.unfinished = o.unfinished /\ p.cancelled = o.cancelled
    BY <1>1, <1>3 DEF Owners, SameStore, SameDebts
<1>7. p \in Owners
    BY <1>1, <1>2, <1>3, <1>4 DEF Owners, Channels
<1>8. Over(o.completed) \subseteq o.submitted /\ Over(o.deferred) \intersect o.submitted = {}
    BY DEF Good, Finished, Waiting
<1>9. Numbered(p)
  <2>1. Numbered(o)
      BY DEF Good
  <2>2. QED BY <2>1, <1>2, <1>6, <1>8 DEF Numbered, Given, SameStore, SameDebts
<1>10. Over(p.deferred) \intersect p.submitted = {}
    BY <1>2, <1>6, <1>8
<1>11. Waiting(p) /\ Finished(p)
    BY <1>5, <1>6, <1>10 DEF Good, Waiting, Finished
<1>12. Queued(p) /\ Executed(p, r)
  <2>1. Queued(o) /\ Executed(o, r)
      BY DEF Good
  <2>2. p.submitted \ Over(p.completed) = o.submitted \ Over(o.completed) /\ p.queue = o.queue
      BY <1>5, <1>6
  <2>3. QED BY <2>1, <2>2 DEF Queued, Executed
<1>13. Outstanding(p) <= Outstanding(o)
  <2>1. p.submitted \subseteq o.submitted /\ Len(p.pending) <= Len(o.pending)
      BY <1>6, Sizes
  <2>2. QED BY <2>1, <1>7, Load DEF Good
<1>14. QED BY <1>6, <1>7, <1>9, <1>10, <1>11, <1>12, <1>13 DEF Good, Drains

LEMMA ReclaimFacts ==
    ASSUME NEW r, NEW o \in Good(r), NEW p, p = Reclaim(o)
    PROVE  /\ p \in Good(r) /\ SameStore(o, p) /\ SameDebts(o, p) /\ Outstanding(p) <= Outstanding(o)
           /\ p.jobs = o.jobs /\ p.pending = o.pending
<1>1. CASE HasRoom(o)
    BY <1>1, Sizes DEF Reclaim, SameStore, SameDebts
<1>2. CASE ~HasRoom(o)
  <2>1. p \in Good(r) /\ Drains(o, p)
      BY <1>2, DrainFacts DEF Reclaim
  <2>2. QED BY <2>1 DEF Drains
<1>3. QED BY <1>1, <1>2

\* What the same jobs and the same debts owe is the same.
LEMMA SameOwes ==
    ASSUME NEW o, NEW p, SameStore(o, p), SameDebts(o, p), p.jobs = o.jobs, NEW F, Owes(o, F)
    PROVE  Owes(p, F)
BY DEF SameStore, SameDebts, Owes

\* An id that is asked about has a live job that will be replaced, or is owed
\* an answer that nothing stands for yet.
Asked(o, id) ==
    \/ Owes(o, {}) /\ o.requests[id] # 0
    \/ Owes(o, {id}) /\ o.requests[id] = 0

LEMMA ScheduleRequestFacts ==
    ASSUME NEW r, NEW o \in Good(r), Outstanding(o) <= OutstandingCap, o.phase = "running",
           NEW id \in Ids, NEW target \in Docs \union {Workspace},
           NEW z, z = ScheduleRequest(o, id, target)
    PROVE  /\ z \in Good(r) /\ Outstanding(z) <= OutstandingCap
           /\ Asked(o, id) => Owes(z, {})
<1>1. PICK p1 : p1 = RetireDuplicate(o, id)
    OBVIOUS
<1>2. /\ p1 \in Good(r) /\ SameStore(o, p1) /\ Outstanding(p1) <= Outstanding(o)
      /\ Asked(o, id) => Owes(p1, {id})
  <2>1. /\ p1 \in Good(r) /\ SameStore(o, p1) /\ Outstanding(p1) <= Outstanding(o)
        /\ o.requests[id] = 0 => p1 = o
        /\ Owes(o, {}) /\ o.requests[id] # 0 => Owes(p1, {id})
      BY <1>1, RetireDuplicateFacts
  <2>2. QED BY <2>1 DEF Asked
<1>3. PICK p : p = Reclaim(p1)
    OBVIOUS
<1>4. /\ p \in Good(r) /\ SameStore(p1, p) /\ SameDebts(p1, p) /\ Outstanding(p) <= Outstanding(p1)
      /\ p.jobs = p1.jobs
    BY <1>2, <1>3, ReclaimFacts
<1>5. Asked(o, id) => Owes(p, {id})
    BY <1>2, <1>4, SameOwes
<1>6. /\ Outstanding(p) \in Nat /\ OutstandingCap \in Nat /\ Outstanding(p) <= OutstandingCap
      /\ p.phase = "running"
  <2>1. Outstanding(p) \in Nat /\ Outstanding(p1) \in Nat /\ Outstanding(o) \in Nat
      BY <1>2, <1>4, Sizes
  <2>2. QED BY <2>1, <1>2, <1>4, CapIsNatural DEF SameStore
<1> DEFINE j == p.nextJob
           k == IF target = Workspace THEN Workspace ELSE Key[target]
           m == [kind |-> "request", id |-> id, target |-> target, route |-> Route[k],
                 stamp |-> IF target = Workspace THEN p.rev ELSE p.gen[k],
                 snapshot |-> p.docs]
           b == [p EXCEPT !.requests[id] = j]
<1>7. Route[k] \in Workers /\ (target # Workspace => k \in Keys)
    BY Layout DEF Keys, Docs
<1>8. m \in Metas /\ m.kind = "request" /\ m.id = id /\ \A d \in Docs : m.snapshot[d] <= p.rev
  <2>1. /\ p.rev \in Nat /\ p.gen \in [Keys -> Nat] /\ p.docs \in [Docs -> Nat]
        /\ \A d \in Docs : p.docs[d] <= p.rev
      BY <1>4 DEF Good, Owners, Numbered
  <2>2. m \in RequestMeta
      BY <1>7, <2>1 DEF RequestMeta
  <2>3. QED BY <2>1, <2>2 DEF Metas
<1> HIDE DEF m
<1>9. PICK q : q = StartJob(b, m)
    OBVIOUS
<1> DEFINE w == Route[k]
<1>10. z = CASE ~HasRoom(p) -> Reply(p, id, "error")
             [] HasRoom(p) /\ Fits(q, w) -> Submit(q, j, w)
             [] HasRoom(p) /\ ~Fits(q, w) /\ Len(q.pending) < PendingCap -> Wait(q, j)
             [] OTHER -> Reply(FinishRequest(RetireJob(q, j), id, j), id, "error")
    BY <1>1, <1>3, <1>9 DEF ScheduleRequest, m
<1>11. /\ b \in Owners /\ SameWork(p, b) /\ SameStore(p, b) /\ b.tokens = p.tokens
       /\ b.unfinished = p.unfinished /\ b.cancelled = p.cancelled
       /\ b.requests = [p.requests EXCEPT ![id] = j] /\ b.reply = p.reply /\ b.barriers = p.barriers
  <2>1. p \in Owners /\ p.requests \in [Ids -> Nat] /\ j \in Nat
      BY <1>4 DEF Good, Owners
  <2>2. [p.requests EXCEPT ![id] = j] \in [Ids -> Nat]
      BY <2>1
  <2>3. QED BY <2>1, <2>2 DEF Owners, SameWork, SameStore
<1> HIDE DEF b
<1>12. q \in Good(r) /\ Starts(p, b, q, m)
  <2>1. /\ \A x \in Ids : b.requests[x] \in Given(p) \union {0, p.nextJob}
        /\ \A x \in Keys : b.tokens[x] \in Given(p) \union {0, p.nextJob}
    <3>1. /\ p.requests \in [Ids -> Nat] /\ \A x \in Ids : p.requests[x] \in Given(p) \union {0}
          /\ \A x \in Keys : p.tokens[x] \in Given(p) \union {0}
        BY <1>4 DEF Good, Owners, Numbered
    <3>2. QED BY <3>1, <1>11
  <2>2. QED BY <2>1, <1>4, <1>8, <1>9, <1>11, StartJobFacts
<1>13. Asked(o, id) => Owes(q, {})
  <2> SUFFICES ASSUME Asked(o, id) PROVE Owes(q, {id} \ {id})
      BY Zenon
  <2>1. {id} \in SUBSET Ids /\ id \in {id}
      OBVIOUS
  <2>2. QED BY <2>1, <1>4, <1>5, <1>6, <1>8, <1>11, <1>12, StartRequestOwes
<1>14. Outstanding(q) = Outstanding(p) /\ Homeless(q, j)
    BY <1>12 DEF Starts
<1> HIDE DEF j, w
<1>15. w \in Workers
    BY <1>7 DEF w
<1>16. CASE ~HasRoom(p)
  <2>1. z = Reply(p, id, "error")
      BY <1>10, <1>16
  <2>2. /\ z \in Good(r) /\ Outstanding(z) = Outstanding(p)
        /\ Owes(p, {id}) => Owes(z, {id} \ {id})
      BY <2>1, <1>4, ReplyFacts
  <2>3. {id} \ {id} = {}
      OBVIOUS
  <2>4. QED BY <2>2, <2>3, <1>5, <1>6
<1>17. CASE HasRoom(p) /\ Fits(q, w)
  <2>1. z = Submit(q, j, w)
      BY <1>10, <1>17
  <2>2. z \in Good(r) /\ Places(q, z, j)
      BY <2>1, <1>12, <1>14, <1>15, SubmitFacts
  <2>3. Outstanding(z) <= OutstandingCap
      BY <2>2, <1>6, <1>14, <1>17 DEF HasRoom, Places
  <2>4. QED BY <2>2, <2>3, <1>13, PlacedOwes
<1>18. CASE HasRoom(p) /\ ~Fits(q, w) /\ Len(q.pending) < PendingCap
  <2>1. z = Wait(q, j)
      BY <1>10, <1>18
  <2>2. z \in Good(r) /\ Places(q, z, j)
      BY <2>1, <1>12, <1>14, WaitFacts
  <2>3. Outstanding(z) <= OutstandingCap
      BY <2>2, <1>6, <1>14, <1>18 DEF HasRoom, Places
  <2>4. QED BY <2>2, <2>3, <1>13, PlacedOwes
<1>19. CASE HasRoom(p) /\ ~Fits(q, w) /\ ~(Len(q.pending) < PendingCap)
  <2>1. PICK t : t = FinishRequest(RetireJob(q, j), id, j)
      OBVIOUS
  <2>2. z = Reply(t, id, "error")
      BY <2>1, <1>10, <1>19
  <2>3. t \in Good(r) /\ Drops(q, t, {j})
      BY <2>1, <1>12, RetireRequest
  <2>4. /\ z \in Good(r) /\ Outstanding(z) = Outstanding(t)
        /\ Owes(t, {} \union {id}) => Owes(z, ({} \union {id}) \ {id})
      BY <2>2, <2>3, ReplyFacts
  <2>5. j \in DOMAIN q.jobs /\ q.jobs[j] = m
      BY <1>12, <1>14 DEF Homeless, Starts, Grown, j
  <2>6. ASSUME Asked(o, id) PROVE Owes(z, {})
    <3>1. Owes(t, {} \union {id})
        BY <2>1, <2>5, <2>6, <1>8, <1>12, <1>13, RetireRequestOwes
    <3>2. ({} \union {id}) \ {id} = {}
        OBVIOUS
    <3>3. QED BY <3>1, <3>2, <2>4
  <2>7. Outstanding(t) \in Nat /\ Outstanding(q) \in Nat
      BY <2>3, <1>12, Sizes
  <2>8. Outstanding(z) <= OutstandingCap
      BY <2>3, <2>4, <2>7, <1>6, <1>14 DEF Drops
  <2>9. QED BY <2>4, <2>6, <2>8
<1>20. QED BY <1>16, <1>17, <1>18, <1>19

\* A slot is reserved only if there is room for one more.
LEMMA ReserveFacts ==
    ASSUME NEW r, NEW o \in Good(r), Outstanding(o) <= OutstandingCap,
           NEW k \in Keys, DiagnosticJobs(o, k) = {},
           NEW slot, slot = ReserveDiagnostic(o, k), NEW p, p = slot.state
    PROVE  /\ p \in Good(r) /\ SameStore(o, p) /\ Outstanding(p) <= OutstandingCap
           /\ slot.ok => Outstanding(p) < OutstandingCap
           /\ Owes(o, {}) => Owes(p, {})
<1>1. PICK q : q = Reclaim(o)
    OBVIOUS
<1>2. /\ q \in Good(r) /\ SameStore(o, q) /\ SameDebts(o, q) /\ Outstanding(q) <= Outstanding(o)
      /\ q.jobs = o.jobs
    BY <1>1, ReclaimFacts
<1>3. Owes(o, {}) => Owes(q, {})
    BY <1>2, SameOwes
<1>4. Outstanding(q) \in Nat /\ OutstandingCap \in Nat /\ Outstanding(q) <= OutstandingCap
    BY <1>2, Sizes, CapIsNatural
<1>5. \A i \in DOMAIN q.pending : q.pending[i] \notin DiagnosticJobs(q, k)
    BY <1>2 DEF DiagnosticJobs
<1> DEFINE replaces == \E i \in DOMAIN q.pending : q.pending[i] \in DiagnosticJobs(q, k)
           free == HasRoom(q) \/ replaces
           none == q.pending = <<>>
<1>6. slot = IF free \/ none THEN [state |-> q, ok |-> free] ELSE [state |-> Evict(q), ok |-> TRUE]
    BY Zenon, <1>1 DEF ReserveDiagnostic
<1>10. ~replaces
    BY <1>5
<1>11. free <=> HasRoom(q)
    BY <1>10
<1>12. none <=> q.pending = <<>>
    OBVIOUS
<1> HIDE DEF free, none, replaces
<1>7. CASE free \/ none
  <2>1. slot = [state |-> q, ok |-> free]
      BY <1>6, <1>7
  <2>2. p = q
      BY <2>1
  <2>3. slot.ok => free
      BY <2>1
  <2>4. QED BY <2>2, <2>3, <1>2, <1>3, <1>4, <1>11 DEF HasRoom
<1>8. CASE ~(free \/ none)
  <2>1. p = Evict(q)
      BY <1>6, <1>8
  <2>6. q.pending # <<>>
      BY <1>8, <1>12
  <2>2. p \in Good(r) /\ Drops(q, p, {Victim(q)}) /\ Outstanding(p) < Outstanding(q)
        /\ \A F \in SUBSET Ids : Owes(q, F) => Owes(p, F)
      BY <2>1, <2>6, <1>2, EvictFacts
  <2>3. Outstanding(p) \in Nat
      BY <2>2, Sizes
  <2>4. SameStore(o, p)
      BY <2>2, <1>2 DEF Drops, SameStore
  <2>5. QED BY <2>2, <2>3, <2>4, <1>3, <1>4
<1>9. QED BY <1>7, <1>8

LEMMA ScheduleDiagnosticsFacts ==
    ASSUME NEW r, NEW o \in Good(r), Outstanding(o) <= OutstandingCap, NEW d \in Docs,
           NEW z, z = ScheduleDiagnostics(o, d)
    PROVE  /\ z \in Good(r) /\ SameStore(o, z) /\ Outstanding(z) <= OutstandingCap
           /\ Owes(o, {}) => Owes(z, {})
<1> DEFINE k == Key[d]
<1>1. k \in Keys /\ Route[k] \in Workers
    BY Layout DEF Keys
<1> HIDE DEF k
<1>2. PICK p1 : p1 = Supersede(o, k)
    OBVIOUS
<1>3. /\ p1 \in Good(r) /\ SameStore(o, p1) /\ Outstanding(p1) <= Outstanding(o)
      /\ DiagnosticJobs(p1, k) = {}
      /\ \A F : Owes(o, F) => Owes(p1, F)
    BY <1>1, <1>2, SupersedeFacts
<1>4. Outstanding(p1) <= OutstandingCap /\ OutstandingCap \in Nat
    BY <1>3, Sizes, CapIsNatural
<1>5. PICK slot : slot = ReserveDiagnostic(p1, k)
    OBVIOUS
<1>6. PICK p : p = slot.state
    OBVIOUS
<1>7. /\ p \in Good(r) /\ SameStore(p1, p) /\ Outstanding(p) <= OutstandingCap
      /\ slot.ok => Outstanding(p) < OutstandingCap
      /\ Owes(p1, {}) => Owes(p, {})
    BY <1>1, <1>3, <1>4, <1>5, <1>6, ReserveFacts
<1> DEFINE j == p.nextJob
           w == Route[k]
           m == [kind |-> "diagnostics", key |-> k, target |-> d, route |-> w,
                 stamp |-> p.gen[k], snapshot |-> p.docs]
           b == [p EXCEPT !.tokens[k] = j]
<1>8. m \in Metas /\ m.kind = "diagnostics" /\ \A x \in Docs : m.snapshot[x] <= p.rev
  <2>1. /\ p.rev \in Nat /\ p.gen \in [Keys -> Nat] /\ p.docs \in [Docs -> Nat]
        /\ \A x \in Docs : p.docs[x] <= p.rev
      BY <1>7 DEF Good, Owners, Numbered
  <2>2. m \in DiagnosticsMeta
      BY <1>1, <2>1 DEF DiagnosticsMeta
  <2>3. QED BY <2>1, <2>2 DEF Metas
<1> HIDE DEF m
<1>9. PICK q : q = StartJob(b, m)
    OBVIOUS
<1>10. z = CASE ~slot.ok -> p
             [] slot.ok /\ Fits(q, w) -> Submit(q, j, w)
             [] slot.ok /\ ~Fits(q, w) /\ Len(q.pending) < PendingCap -> Wait(q, j)
             [] OTHER -> Wait(Evict(q), j)
    BY <1>2, <1>5, <1>6, <1>9 DEF ScheduleDiagnostics, m, k
<1>11. /\ b \in Owners /\ SameWork(p, b) /\ SameStore(p, b) /\ SameDebts(p, b)
       /\ b.unfinished = p.unfinished /\ b.cancelled = p.cancelled
       /\ b.tokens = [p.tokens EXCEPT ![k] = j]
  <2>1. p \in Owners /\ p.tokens \in [Keys -> Nat] /\ j \in Nat
      BY <1>7 DEF Good, Owners
  <2>2. [p.tokens EXCEPT ![k] = j] \in [Keys -> Nat]
      BY <2>1
  <2>3. QED BY <2>1, <2>2 DEF Owners, SameWork, SameStore, SameDebts
<1> HIDE DEF b
<1>12. q \in Good(r) /\ Starts(p, b, q, m)
  <2>1. /\ \A x \in Ids : b.requests[x] \in Given(p) \union {0, p.nextJob}
        /\ \A x \in Keys : b.tokens[x] \in Given(p) \union {0, p.nextJob}
    <3>1. /\ p.tokens \in [Keys -> Nat] /\ \A x \in Ids : p.requests[x] \in Given(p) \union {0}
          /\ \A x \in Keys : p.tokens[x] \in Given(p) \union {0}
        BY <1>7 DEF Good, Owners, Numbered
    <3>2. QED BY <3>1, <1>11 DEF SameDebts
  <2>2. QED BY <2>1, <1>7, <1>8, <1>9, <1>11, StartJobFacts
<1>13. Owes(o, {}) => Owes(p, {}) /\ Owes(q, {})
    BY <1>3, <1>7, <1>8, <1>11, <1>12, StartDiagnosticsOwes
<1>14. Outstanding(q) = Outstanding(p) /\ Homeless(q, j) /\ SameStore(p, q) /\ j = p.nextJob
    BY <1>12 DEF Starts
<1> HIDE DEF j, w
<1>15. w \in Workers
    BY <1>1 DEF w
<1>16. Outstanding(p) \in Nat /\ Outstanding(q) \in Nat
    BY <1>7, <1>12, Sizes
<1>17. CASE ~slot.ok
  <2>1. z = p
      BY <1>10, <1>17
  <2>2. QED BY <2>1, <1>3, <1>7, <1>13 DEF SameStore
<1>18. CASE slot.ok /\ Fits(q, w)
  <2>1. z = Submit(q, j, w)
      BY <1>10, <1>18
  <2>2. z \in Good(r) /\ Places(q, z, j)
      BY <2>1, <1>12, <1>14, <1>15, SubmitFacts
  <2>3. Outstanding(z) <= OutstandingCap /\ SameStore(o, z)
      BY <2>2, <1>3, <1>4, <1>7, <1>14, <1>16, <1>18 DEF Places, SameStore
  <2>4. QED BY <2>2, <2>3, <1>13, PlacedOwes
<1>19. CASE slot.ok /\ ~Fits(q, w) /\ Len(q.pending) < PendingCap
  <2>1. z = Wait(q, j)
      BY <1>10, <1>19
  <2>2. z \in Good(r) /\ Places(q, z, j)
      BY <2>1, <1>12, <1>14, WaitFacts
  <2>3. Outstanding(z) <= OutstandingCap /\ SameStore(o, z)
      BY <2>2, <1>3, <1>4, <1>7, <1>14, <1>16, <1>19 DEF Places, SameStore
  <2>4. QED BY <2>2, <2>3, <1>13, PlacedOwes
<1>20. CASE slot.ok /\ ~Fits(q, w) /\ ~(Len(q.pending) < PendingCap)
  <2>1. PICK t : t = Evict(q)
      OBVIOUS
  <2>2. z = Wait(t, j)
      BY <2>1, <1>10, <1>20
  <2>3. q.pending # <<>>
      BY <1>20, Capacities
  <2>4. /\ t \in Good(r) /\ Drops(q, t, {Victim(q)}) /\ Outstanding(t) < Outstanding(q)
        /\ \A F \in SUBSET Ids : Owes(q, F) => Owes(t, F)
      BY <2>1, <2>3, <1>12, EvictFacts
  <2>5. Victim(q) # j
      BY <2>3, <1>12, <1>14, VictimWaits DEF Good, Homeless
  <2>6. Homeless(t, j)
      BY <2>4, <2>5, <1>14 DEF Homeless, Drops, Cut
  <2>7. z \in Good(r) /\ Places(t, z, j)
      BY <2>2, <2>4, <2>6, WaitFacts
  <2>8. Outstanding(t) \in Nat
      BY <2>4, Sizes
  <2>9. Outstanding(z) <= OutstandingCap
      BY <2>4, <2>7, <2>8, <1>4, <1>7, <1>14, <1>16, <1>20 DEF Places
  <2>10. SameStore(o, z)
      BY <2>4, <2>7, <1>3, <1>7, <1>14 DEF Places, SameStore, Drops
  <2>11. Owes(o, {}) => Owes(z, {})
      BY <2>4, <2>7, <1>13, PlacedOwes
  <2>12. QED BY <2>7, <2>9, <2>10, <2>11
<1>21. QED BY <1>17, <1>18, <1>19, <1>20

-----------------------------------------------------------------------------
(* Results.                                                                *)

\* The store may move on, with whatever is shown of it.
LEMMA StoreMoves ==
    ASSUME NEW r, NEW o \in Good(r), NEW p \in Owners, SameWork(o, p), SameDebts(o, p),
           p.phase = o.phase, p.unfinished = o.unfinished, p.cancelled = o.cancelled,
           p.tokens = o.tokens, o.rev <= p.rev,
           \A d \in Docs : p.docs[d] <= p.rev /\ p.shown[d] <= p.rev
    PROVE  /\ p \in Good(r) /\ Outstanding(p) = Outstanding(o)
           /\ \A F : Owes(o, F) => Owes(p, F)
<1>1. Numbered(o) /\ o \in Owners
    BY DEF Good
<1>2. \A j \in DOMAIN p.jobs : \A d \in Docs : p.jobs[j].snapshot[d] <= p.rev
  <2> SUFFICES ASSUME NEW j \in DOMAIN o.jobs, NEW d \in Docs
               PROVE  o.jobs[j].snapshot[d] <= p.rev
      BY DEF SameWork
  <2>1. o.jobs[j].snapshot[d] <= o.rev /\ o.rev \in Nat /\ p.rev \in Nat
      BY <1>1 DEF Numbered, Owners
  <2>2. o.jobs[j].snapshot \in [Docs -> Nat]
    <3>1. o.jobs[j] \in RequestMeta \union DiagnosticsMeta
        BY <1>1, JobMeta DEF Metas
    <3>2. QED BY <3>1 DEF RequestMeta, DiagnosticsMeta
  <2>3. o.jobs[j].snapshot[d] \in Nat
      BY <2>2
  <2>4. QED BY <2>1, <2>3
<1>3. Numbered(p)
    BY <1>1, <1>2 DEF Numbered, Given, SameWork, SameDebts
<1>4. Waiting(p) /\ Finished(p) /\ Queued(p) /\ Executed(p, r)
    BY DEF Good, SameWork, Waiting, Finished, Queued, Executed
<1>5. \A F : Owes(o, F) => Owes(p, F)
    BY DEF Owes, SameWork, SameDebts
<1>6. QED BY <1>3, <1>4, <1>5 DEF Good, SameWork, Outstanding

\* The job is in no queue, is not run, and has no result on the channel.
Elsewhere(o, r, j) ==
    /\ j \notin Over(o.completed)
    /\ \A w \in Workers : r[w] # j /\ j \notin Range(o.queue[w])

\* p is o once the result of a job was applied.
Applies(o, p) ==
    /\ p.submitted \subseteq o.submitted /\ p.nextJob = o.nextJob /\ p.deferred = o.deferred
    /\ Outstanding(p) <= Outstanding(o)
    /\ Owes(o, {}) => Owes(p, {})

\* A job that is over gives its slot back.
LEMMA FreeFacts ==
    ASSUME NEW r, NEW o \in Good(r), NEW j, Elsewhere(o, r, j),
           NEW p, p = [o EXCEPT !.submitted = @ \ {j}]
    PROVE  /\ p \in Good(r) /\ Applies(o, p) /\ p.jobs = o.jobs /\ p.cancelled = o.cancelled
           /\ \A F : Owes(o, F) => Owes(p, F)
<1> DEFINE kept == o.submitted \ {j}
<1>1. o \in Owners /\ kept \in SUBSET Nat
    BY DEF Good, Owners
<1>2. /\ SameStore(o, p) /\ SameDebts(o, p) /\ p.nextJob = o.nextJob /\ p.jobs = o.jobs
      /\ p.deferred = o.deferred /\ p.completed = o.completed /\ p.submitted = kept
      /\ p.queue = o.queue /\ p.pending = o.pending /\ p.tokens = o.tokens
      /\ p.unfinished = o.unfinished /\ p.cancelled = o.cancelled
    BY <1>1 DEF Owners, SameStore, SameDebts
<1>3. p \in Owners
    BY <1>1 DEF Owners
<1>4. Numbered(p)
    BY <1>2 DEF Good, Numbered, Given, SameStore, SameDebts
<1>5. Waiting(p)
    BY <1>2 DEF Good, Waiting
<1>6. Finished(p) /\ Queued(p) /\ Executed(p, r)
    BY <1>2 DEF Good, Finished, Queued, Executed, Elsewhere
<1>7. Outstanding(p) <= Outstanding(o)
  <2>1. p.submitted \subseteq o.submitted /\ Len(p.pending) <= Len(o.pending)
      BY <1>2, Sizes
  <2>2. QED BY <2>1, <1>3, Load DEF Good
<1>8. \A F : Owes(o, F) => Owes(p, F)
    BY <1>2, SameOwes
<1>9. QED BY <1>2, <1>3, <1>4, <1>5, <1>6, <1>7, <1>8 DEF Good, Applies

LEMMA PublishFacts ==
    ASSUME NEW r, NEW o \in Good(r), NEW m \in DiagnosticsMeta,
           \A d \in Docs : m.snapshot[d] <= o.rev, NEW p, p = Publish(o, m)
    PROVE  p \in Good(r) /\ Applies(o, p)
<1> DEFINE shows == [d \in Docs |-> IF d \in Importers[m.target] THEN m.snapshot[d] ELSE o.shown[d]]
<1>1. /\ o \in Owners /\ o.shown \in [Docs -> Nat] /\ o.rev \in Nat
      /\ \A d \in Docs : o.docs[d] <= o.rev /\ o.shown[d] <= o.rev
    BY DEF Good, Owners, Numbered
<1>2. m.snapshot \in [Docs -> Nat]
    BY DEF DiagnosticsMeta
<1>3. shows \in [Docs -> Nat] /\ \A d \in Docs : shows[d] <= o.rev
    BY <1>1, <1>2
<1>4. p = [o EXCEPT !.shown = shows]
    BY DEF Publish
<1> HIDE DEF shows
<1>5. /\ p \in Owners /\ SameWork(o, p) /\ SameDebts(o, p) /\ p.phase = o.phase
      /\ p.unfinished = o.unfinished /\ p.cancelled = o.cancelled /\ p.tokens = o.tokens
      /\ p.rev = o.rev /\ p.docs = o.docs /\ p.shown = shows
    BY <1>1, <1>3, <1>4 DEF Owners, SameWork, SameDebts
<1>6. /\ p \in Good(r) /\ Outstanding(p) = Outstanding(o)
      /\ \A F : Owes(o, F) => Owes(p, F)
  <2>1. o.rev <= p.rev /\ \A d \in Docs : p.docs[d] <= p.rev /\ p.shown[d] <= p.rev
      BY <1>1, <1>3, <1>5
  <2>2. QED BY <2>1, <1>5, StoreMoves
<1>7. Outstanding(p) <= Outstanding(o)
    BY <1>6, Sizes
<1>8. QED BY <1>5, <1>6, <1>7 DEF Applies, SameWork

LEMMA AppliesOn ==
    ASSUME NEW r, NEW o \in Good(r), NEW p \in Good(r), NEW q \in Good(r), Applies(o, p), Applies(p, q)
    PROVE  Applies(o, q)
<1>1. Outstanding(o) \in Nat /\ Outstanding(p) \in Nat /\ Outstanding(q) \in Nat
    BY Sizes
<1>2. QED BY <1>1 DEF Applies

LEMMA BarriersApply ==
    ASSUME NEW r, NEW o \in Good(r), NEW p, p = FinishBarriers(o)
    PROVE  p \in Good(r) /\ Applies(o, p)
<1>1. /\ p \in Good(r) /\ Outstanding(p) = Outstanding(o) /\ SameWork(o, p)
      /\ \A F : Owes(o, F) => Owes(p, F)
    BY FinishBarriersFacts
<1>2. Outstanding(p) <= Outstanding(o)
    BY <1>1, Sizes
<1>3. QED BY <1>1, <1>2 DEF Applies, SameWork

LEMMA CompleteFacts ==
    ASSUME NEW r, NEW o \in Good(r), NEW c \in Ended, Elsewhere(o, r, c.job),
           NEW z, z = Complete(o, c)
    PROVE  z \in Good(r) /\ Applies(o, z)
<1> DEFINE j == c.job
           m == o.jobs[j]
<1>1. PICK p : p = [o EXCEPT !.submitted = @ \ {j}]
    OBVIOUS
<1>2. /\ p \in Good(r) /\ Applies(o, p) /\ p.jobs = o.jobs /\ p.cancelled = o.cancelled
      /\ \A F : Owes(o, F) => Owes(p, F)
    BY <1>1, FreeFacts
<1>3. PICK q : q = RetireJob(p, j)
    OBVIOUS
<1> DEFINE answer == IF c.result = "ok" /\ j \notin o.cancelled /\ Current(o, m)
                     THEN "result" ELSE "error"
           publishes == /\ c.result = "ok"
                        /\ j \notin o.cancelled
                        /\ o.gen[m.key] = m.stamp
<1>4. z = FinishBarriers(
            CASE j \notin DOMAIN o.jobs -> p
              [] j \in DOMAIN o.jobs /\ m.kind = "request" ->
                   Reply(FinishRequest(q, m.id, j), m.id, answer)
              [] OTHER -> IF publishes THEN Publish(q, m) ELSE q)
    BY <1>1, <1>3 DEF Complete
<1>5. answer \in {"result", "null", "error"}
    OBVIOUS
<1> HIDE DEF answer, publishes, j, m
<1>6. CASE j \notin DOMAIN o.jobs
  <2>1. z = FinishBarriers(p)
      BY <1>4, <1>6
  <2>2. z \in Good(r) /\ Applies(p, z)
      BY <2>1, <1>2, BarriersApply
  <2>3. QED BY <2>2, <1>2, AppliesOn
<1>7. CASE j \in DOMAIN o.jobs /\ m.kind = "request"
  <2>1. m \in Metas
      BY <1>7, JobMeta DEF m, Good
  <2>2. m.id \in Ids
      BY <2>1, <1>7 DEF Metas, RequestMeta, DiagnosticsMeta
  <2>3. PICK id \in Ids : id = m.id
      BY <2>2
  <2>4. PICK t : t = FinishRequest(RetireJob(p, j), id, j)
      OBVIOUS
  <2>5. PICK y : y = Reply(t, id, answer)
      OBVIOUS
  <2>6. z = FinishBarriers(y)
      BY <1>3, <1>4, <1>7, <2>3, <2>4, <2>5
  <2>7. t \in Good(r) /\ Drops(p, t, {j})
      BY <2>4, <1>2, RetireRequest
  <2>8. /\ y \in Good(r) /\ SameWork(t, y) /\ Outstanding(y) = Outstanding(t)
        /\ Owes(t, {} \union {id}) => Owes(y, ({} \union {id}) \ {id})
      BY <2>5, <2>7, <1>5, ReplyFacts
  <2>9. ASSUME Owes(p, {}) PROVE Owes(y, {})
    <3>1. j \in DOMAIN p.jobs /\ p.jobs[j].kind = "request" /\ p.jobs[j].id = id
        BY <1>2, <1>7, <2>3 DEF m
    <3>2. Owes(t, {} \union {id})
        BY <3>1, <2>4, <2>9, <1>2, RetireRequestOwes
    <3>3. ({} \union {id}) \ {id} = {}
        OBVIOUS
    <3>4. QED BY <3>2, <3>3, <2>8
  <2>10. Applies(p, y)
      BY <2>7, <2>8, <2>9 DEF Applies, Drops, SameWork
  <2>11. z \in Good(r) /\ Applies(y, z)
      BY <2>6, <2>8, BarriersApply
  <2>12. QED BY <2>8, <2>10, <2>11, <1>2, AppliesOn
<1>8. CASE j \in DOMAIN o.jobs /\ m.kind # "request"
  <2>1. m \in Metas /\ \A d \in Docs : m.snapshot[d] <= o.rev
      BY <1>8, JobMeta DEF m, Good, Numbered
  <2>2. m \in DiagnosticsMeta /\ m.kind = "diagnostics"
      BY <2>1, <1>8 DEF Metas, RequestMeta, DiagnosticsMeta
  <2> DEFINE J == {j}
  <2> HIDE DEF J
  <2>3. q = RetireAll(p, J)
      BY <1>3 DEF RetireJob, J
  <2>4. q \in Good(r) /\ Drops(p, q, J)
      BY <2>3, <1>2, RetireAllFacts
  <2>5. \A i \in DOMAIN p.jobs : i \in J => p.jobs[i].kind = "diagnostics"
      BY <2>2, <1>2 DEF J, m
  <2>6. Owes(p, {}) => Owes(q, {})
      BY <2>3, <2>5, <1>2, RetireDiagnostics
  <2>7. Applies(p, q)
      BY <2>4, <2>6 DEF Applies, Drops
  <2>8. p.rev = o.rev /\ q.rev = p.rev
    <3>1. o \in Owners
        BY DEF Good
    <3>2. QED BY <3>1, <1>1, <2>4 DEF Owners, Drops, SameStore
  <2>9. PICK y : y = IF publishes THEN Publish(q, m) ELSE q
      OBVIOUS
  <2>10. y \in Good(r) /\ Applies(p, y)
    <3>1. CASE publishes
      <4>1. y \in Good(r) /\ Applies(q, y)
          BY <3>1, <2>1, <2>2, <2>4, <2>8, <2>9, PublishFacts
      <4>2. QED BY <4>1, <2>4, <2>7, <1>2, AppliesOn
    <3>2. CASE ~publishes
        BY <3>2, <2>4, <2>7, <2>9
    <3>3. QED BY <3>1, <3>2
  <2>11. z = FinishBarriers(y)
      BY <1>4, <1>8, <2>9
  <2>12. z \in Good(r) /\ Applies(y, z)
      BY <2>10, <2>11, BarriersApply
  <2>13. QED BY <2>10, <2>12, <1>2, AppliesOn
<1>9. QED BY <1>6, <1>7, <1>8

NextComplete(x, o, c) == Complete(o, c)
Completing == INSTANCE FoldFacts WITH Step <- NextComplete

\* Every deferred result applies, in the order they were taken off the channel.
LEMMA CompleteAllFacts ==
    ASSUME NEW r, NEW o \in Good(r), NEW z, z = CompleteAll(o)
    PROVE  /\ z \in Good(r) /\ z.deferred = <<>> /\ Outstanding(z) <= Outstanding(o)
           /\ Owes(o, {}) => Owes(z, {})
<1> DEFINE b == [o EXCEPT !.deferred = <<>>]
           n == Len(o.deferred)
           G == [i \in 0 .. n |-> {p \in Good(r) : Applies(b, p)}]
<1>1. o \in Owners /\ o.deferred \in Seq(Ended) /\ n \in Nat /\ DOMAIN o.deferred = 1 .. n
    BY DEF Good, Owners, Channels
<1>2. z = Completing!Folded({}, b, o.deferred)
    BY Zenon DEF CompleteAll, Completing!Folded, Completing!Table, FoldLeft, MapThenFoldSet, Max,
                 Completing!Greatest, NextComplete
<1>3. /\ b \in Owners /\ SameStore(o, b) /\ SameDebts(o, b) /\ b.nextJob = o.nextJob
      /\ b.jobs = o.jobs /\ b.deferred = <<>> /\ b.completed = o.completed
      /\ b.submitted = o.submitted /\ b.queue = o.queue /\ b.pending = o.pending
      /\ b.tokens = o.tokens /\ b.unfinished = o.unfinished /\ b.cancelled = o.cancelled
  <2>1. <<>> \in Channels
      BY DEF Channels
  <2>2. QED BY <1>1, <2>1 DEF Owners, SameStore, SameDebts
<1> HIDE DEF b, n
<1>4. b \in Good(r) /\ Outstanding(b) = Outstanding(o)
  <2>1. Over(<<>>) = {}
      BY DEF Over, Range
  <2>2. Numbered(b)
      BY <1>3, <2>1 DEF Good, Numbered, Given, SameStore, SameDebts
  <2>3. Waiting(b) /\ Finished(b) /\ Queued(b) /\ Executed(b, r)
      BY <1>3, <2>1 DEF Good, Waiting, Finished, Queued, Executed
  <2>4. QED BY <1>3, <2>2, <2>3 DEF Good, Outstanding
<1>5. Owes(o, {}) => Owes(b, {})
    BY <1>3, SameOwes
<1>6. b \in G[0]
  <2>1. Applies(b, b)
      BY <1>4, Sizes DEF Applies
  <2>2. QED BY <2>1, <1>1, <1>4
<1>7. ASSUME NEW i \in 1 .. n, NEW p \in G[i - 1] PROVE NextComplete({}, p, o.deferred[i]) \in G[i]
  <2>1. i \in 0 .. n /\ i - 1 \in 0 .. n /\ i \in DOMAIN o.deferred
      BY <1>1
  <2>2. p \in Good(r) /\ Applies(b, p)
      BY <2>1
  <2>3. PICK c \in Ended : c = o.deferred[i]
      BY <1>1, <2>1
  <2>4. c.job \in Over(o.deferred)
      BY <2>1, <2>3 DEF Over, Range
  <2>5. c.job \notin p.submitted /\ c.job # 0
    <3>1. c.job \notin o.submitted /\ c.job \in Given(o)
        BY <2>4 DEF Good, Waiting, Numbered
    <3>2. 0 \notin Given(o)
        BY DEF Given
    <3>3. QED BY <3>1, <3>2, <2>2, <1>3 DEF Applies
  <2>6. Elsewhere(p, r, c.job)
      BY <2>2, <2>5 DEF Elsewhere, Good, Finished, Queued, Executed
  <2>7. PICK q : q = Complete(p, c)
      OBVIOUS
  <2>8. q \in Good(r) /\ Applies(p, q)
      BY <2>2, <2>6, <2>7, CompleteFacts
  <2>9. Applies(b, q)
      BY <2>2, <2>8, <1>4, AppliesOn
  <2>10. QED BY <2>1, <2>3, <2>7, <2>8, <2>9 DEF NextComplete
<1> HIDE DEF G
<1>8. z \in G[n]
    BY <1>1, <1>2, <1>6, <1>7, Completing!FoldLeads DEF n
<1>9. z \in Good(r) /\ Applies(b, z)
    BY <1>8, <1>1 DEF G
<1>10. QED BY <1>3, <1>4, <1>5, <1>9 DEF Applies

-----------------------------------------------------------------------------
(* Dispatching, refreshing and shutting down.                              *)

NextOffer(x, o, j) == Offer(o, j)
Offering == INSTANCE FoldFacts WITH Step <- NextOffer

\* The owner's record between two steps, whatever the workers run.
Sound(o, r) ==
    o \in Good(r) /\ Outstanding(o) <= OutstandingCap /\ (StrictClient => Owes(o, {}))

LEMMA DispatchFacts ==
    ASSUME NEW r, NEW o \in Good(r), o.deferred = <<>>,
           NEW z, z = FoldLeft(Offer, [o EXCEPT !.pending = <<>>], o.pending)
    PROVE  /\ z \in Good(r) /\ z.deferred = <<>> /\ Outstanding(z) = Outstanding(o)
           /\ Owes(o, {}) => Owes(z, {})
<1> DEFINE b == [o EXCEPT !.pending = <<>>]
           n == Len(o.pending)
           First(i) == {o.pending[k] : k \in 1 .. i}
           Upto(i, p) == /\ SameStore(o, p) /\ SameDebts(o, p) /\ p.jobs = o.jobs
                         /\ p.deferred = <<>> /\ Range(p.pending) \subseteq First(i)
                         /\ p.submitted \subseteq o.submitted \union First(i)
                         /\ Outstanding(p) = Cardinality(o.submitted) + i
           G == [i \in 0 .. n |-> {p \in Good(r) : Upto(i, p)}]
<1>1. /\ o \in Owners /\ o.pending \in Seq(Nat) /\ n \in Nat /\ DOMAIN o.pending = 1 .. n
      /\ Cardinality(o.submitted) \in Nat
    BY Sizes
<1>2. z = Offering!Folded({}, b, o.pending)
    BY Zenon DEF Offering!Folded, Offering!Table, FoldLeft, MapThenFoldSet, Max,
                 Offering!Greatest, NextOffer
<1>3. /\ b \in Owners /\ SameStore(o, b) /\ SameDebts(o, b) /\ b.nextJob = o.nextJob
      /\ b.jobs = o.jobs /\ b.deferred = <<>> /\ b.completed = o.completed
      /\ b.submitted = o.submitted /\ b.queue = o.queue /\ b.pending = <<>>
      /\ b.tokens = o.tokens /\ b.unfinished = o.unfinished /\ b.cancelled = o.cancelled
  <2>1. <<>> \in Lists
      BY DEF Lists
  <2>2. QED BY <1>1, <2>1 DEF Owners, SameStore, SameDebts
<1>4. Outstanding(o) = Cardinality(o.submitted) + n
    BY DEF Outstanding
<1> HIDE DEF b, n
<1>5. b \in G[0]
  <2>1. Range(<<>>) = {} /\ Distinct(<<>>) /\ Len(<<>>) = 0
      BY DEF Range, Distinct
  <2>2. Numbered(b)
      BY <1>3, <2>1 DEF Good, Numbered, Given, SameStore, SameDebts
  <2>3. Waiting(b) /\ Finished(b) /\ Queued(b) /\ Executed(b, r)
      BY <1>3, <2>1 DEF Good, Waiting, Finished, Queued, Executed
  <2>4. Outstanding(b) = Cardinality(o.submitted) + 0
      BY <1>1, <1>3, <2>1 DEF Outstanding
  <2>5. Upto(0, b)
      BY <1>3, <2>1, <2>4
  <2>6. 0 \in 0 .. n /\ b \in Good(r)
      BY <1>1, <1>3, <2>2, <2>3 DEF Good
  <2> HIDE DEF Upto
  <2>7. QED BY <2>5, <2>6
<1>6. ASSUME NEW i \in 1 .. n, NEW p \in G[i - 1] PROVE NextOffer({}, p, o.pending[i]) \in G[i]
  <2>1. i \in 0 .. n /\ i - 1 \in 0 .. n /\ i \in DOMAIN o.pending /\ i \in Int
      BY <1>1
  <2>2. p \in Good(r) /\ Upto(i - 1, p)
      BY <2>1
  <2> DEFINE B == First(i - 1)
  <2>3. PICK j \in Nat : j = o.pending[i]
      BY <1>1, <2>1, SMTT(30)
  <2>4. First(i) = B \union {j}
    <3>1. 1 .. i = (1 .. (i - 1)) \union {i}
        BY <2>1
    <3>2. QED BY <3>1, <2>3
  <2>5. j \notin B
    <3>1. \A k \in 1 .. (i - 1) : k \in DOMAIN o.pending /\ k # i
        BY <1>1, <2>1
    <3>2. Distinct(o.pending)
        BY DEF Good, Waiting
    <3>3. QED BY <3>1, <3>2, <2>1, <2>3 DEF Distinct
  <2>6. j \in Range(o.pending) /\ j \in DOMAIN o.jobs /\ j \notin o.submitted
    <3>1. j \in Range(o.pending)
        BY <2>1, <2>3 DEF Range
    <3>2. QED BY <3>1 DEF Good, Numbered, Waiting
  <2> HIDE DEF B
  <2>7. Homeless(p, j)
    <3>1. Over(<<>>) = {}
        BY DEF Over, Range
    <3>2. QED BY <3>1, <2>2, <2>5, <2>6 DEF Homeless, B
  <2>8. p.jobs[j].route \in Workers
    <3>1. p.jobs[j] \in Metas
        BY <2>2, <2>6, JobMeta DEF Good
    <3>2. QED BY <3>1 DEF Metas, RequestMeta, DiagnosticsMeta
  <2>9. PICK q : q = Offer(p, j)
      OBVIOUS
  <2>10. q \in Good(r) /\ Places(p, q, j)
    <3>1. PICK w \in Workers : w = p.jobs[j].route
        BY <2>8
    <3>2. q = IF Fits(p, w) THEN Submit(p, j, w) ELSE Wait(p, j)
        BY <2>9, <3>1 DEF Offer
    <3>3. CASE Fits(p, w)
        BY <3>2, <3>3, <2>2, <2>7, SubmitFacts
    <3>4. CASE ~Fits(p, w)
        BY <3>2, <3>4, <2>2, <2>7, WaitFacts
    <3>5. QED BY <3>3, <3>4
  <2>11. Upto(i, q)
    <3>1. Outstanding(q) = Cardinality(o.submitted) + i
      <4>1. Outstanding(p) = Cardinality(o.submitted) + (i - 1) /\ Outstanding(q) = Outstanding(p) + 1
          BY <2>2, <2>10 DEF Places
      <4>2. QED BY <4>1, <1>1, <2>1
    <3>2. SameStore(o, q) /\ SameDebts(o, q)
        BY <2>2, <2>10 DEF Places, SameStore, SameDebts
    <3>3. /\ q.jobs = o.jobs /\ q.deferred = <<>> /\ Range(q.pending) \subseteq First(i)
          /\ q.submitted \subseteq o.submitted \union First(i)
        BY <2>2, <2>4, <2>10 DEF Places, B
    <3>4. QED BY <3>1, <3>2, <3>3
  <2> HIDE DEF Upto
  <2>12. QED BY <2>1, <2>3, <2>9, <2>10, <2>11 DEF NextOffer
<1> HIDE DEF G
<1>7. z \in G[n]
    BY <1>1, <1>2, <1>5, <1>6, Offering!FoldLeads DEF n
<1>8. n \in 0 .. n
    BY <1>1
<1> HIDE DEF Upto
<1>9. z \in Good(r) /\ Upto(n, z)
    BY <1>7, <1>8 DEF G
<1>10. QED BY <1>4, <1>9, SameOwes DEF Upto

NextRefresh(x, o, d) == RefreshFirst(o, d)
Refreshing == INSTANCE FoldFacts WITH Step <- NextRefresh

LEMMA ScheduledIsSound ==
    ASSUME NEW r, NEW o, Sound(o, r), NEW d \in Docs PROVE Sound(ScheduleDiagnostics(o, d), r)
BY ScheduleDiagnosticsFacts DEF Sound

LEMMA RefreshFacts ==
    ASSUME NEW r, NEW o, Sound(o, r),
           NEW z, z = FoldLeft(RefreshFirst, o, [d \in Docs |-> d])
    PROVE  Sound(z, r)
<1> DEFINE ds == [d \in Docs |-> d]
           G == [i \in 0 .. NumDocs |-> {p \in Good(r) : Sound(p, r)}]
<1>1. ds \in Seq(Docs) /\ Len(ds) = NumDocs /\ NumDocs \in Nat /\ \A i \in 1 .. NumDocs : ds[i] \in Docs
    BY Layout DEF Docs
<1>2. z = Refreshing!Folded({}, o, ds)
    BY Zenon DEF Refreshing!Folded, Refreshing!Table, FoldLeft, MapThenFoldSet, Max,
                 Refreshing!Greatest, NextRefresh
<1> HIDE DEF ds
<1>3. o \in G[0]
    BY <1>1 DEF Sound
<1>4. ASSUME NEW i \in 1 .. NumDocs, NEW p \in G[i - 1] PROVE NextRefresh({}, p, ds[i]) \in G[i]
  <2>1. i \in 0 .. NumDocs /\ i - 1 \in 0 .. NumDocs
      BY <1>1
  <2>2. Sound(p, r)
      BY <2>1
  <2>3. PICK q : q = NextRefresh({}, p, ds[i])
      OBVIOUS
  <2>4. q = p \/ q = ScheduleDiagnostics(p, ds[i])
      BY <2>3 DEF NextRefresh, RefreshFirst
  <2>5. Sound(q, r)
      BY <1>1, <2>2, <2>4, ScheduledIsSound
  <2>6. q \in Good(r)
      BY <2>5 DEF Sound
  <2>7. QED BY <2>1, <2>3, <2>5, <2>6
<1> HIDE DEF G
<1>5. z \in G[NumDocs]
    BY <1>1, <1>2, <1>3, <1>4, Refreshing!FoldLeads
<1>6. QED BY <1>1, <1>5 DEF G

-----------------------------------------------------------------------------
(* Handlers of client messages.                                            *)

\* An id is asked about when it is owed nothing or has a request to replace.
LEMMA AskedFacts ==
    ASSUME NEW r, NEW o, Sound(o, r), NEW id \in Ids,
           StrictClient => (o.reply[id] = "owed" => o.requests[id] # 0), NEW p, p = Ask(o, id)
    PROVE  /\ p \in Good(r) /\ SameStore(o, p) /\ Outstanding(p) <= OutstandingCap
           /\ p.nextJob = o.nextJob /\ p.requests = o.requests
           /\ StrictClient => Asked(p, id)
<1>1. o \in Good(r) /\ Outstanding(o) <= OutstandingCap /\ (StrictClient => Owes(o, {}))
    BY DEF Sound
<1>2. /\ p \in Good(r) /\ SameWork(o, p) /\ SameStore(o, p) /\ p.requests = o.requests
      /\ Owes(o, {}) /\ o.reply[id] = "owed" => Owes(p, {})
      /\ Owes(o, {}) /\ o.reply[id] # "owed" => Owes(p, {id})
    BY <1>1, AskFacts
<1>3. Outstanding(p) = Outstanding(o) /\ p.nextJob = o.nextJob
    BY <1>2 DEF SameWork, Outstanding
<1>4. ASSUME StrictClient PROVE Asked(p, id)
  <2>1. o.reply[id] # "owed" => o.requests[id] = 0
      BY <1>1, <1>4 DEF Owes
  <2>2. QED BY <1>1, <1>2, <1>4, <2>1 DEF Asked
<1>5. QED BY <1>1, <1>2, <1>3, <1>4

\* What is refused is answered at once, and nothing else changes.
LEMMA RefuseFacts ==
    ASSUME NEW r, NEW o, Sound(o, r), NEW id \in Ids, StrictClient => o.reply[id] # "owed",
           NEW z, z = Reply(Ask(o, id), id, "error")
    PROVE  Sound(z, r)
<1>1. PICK p : p = Ask(o, id)
    OBVIOUS
<1>2. /\ p \in Good(r) /\ Outstanding(p) <= OutstandingCap /\ (StrictClient => Owes(p, {id}))
  <2>1. o \in Good(r) /\ Outstanding(o) <= OutstandingCap /\ (StrictClient => Owes(o, {}))
      BY DEF Sound
  <2>2. /\ p \in Good(r) /\ SameWork(o, p)
        /\ Owes(o, {}) /\ o.reply[id] # "owed" => Owes(p, {id})
      BY <1>1, <2>1, AskFacts
  <2>3. Outstanding(p) = Outstanding(o)
      BY <2>2 DEF SameWork, Outstanding
  <2>4. QED BY <2>1, <2>2, <2>3
<1>3. /\ z \in Good(r) /\ Outstanding(z) = Outstanding(p)
      /\ Owes(p, {id}) => Owes(z, {id} \ {id})
    BY <1>1, <1>2, ReplyFacts
<1>4. {id} \ {id} = {}
    OBVIOUS
<1>5. QED BY <1>2, <1>3, <1>4 DEF Sound

\* A barrier stands for the answer it owes until the jobs before it are over.
LEMMA BarrierFacts ==
    ASSUME NEW r, NEW o, Sound(o, r), NEW id \in Ids, StrictClient => o.reply[id] # "owed",
           NEW b, b = [id |-> id, through |-> o.nextJob - 1],
           NEW z, z = FinishBarriers([Ask(o, id) EXCEPT !.barriers = @ \union {b}])
    PROVE  Sound(z, r)
<1>1. PICK p : p = Ask(o, id)
    OBVIOUS
<1>2. /\ p \in Good(r) /\ Outstanding(p) <= OutstandingCap /\ (StrictClient => Owes(p, {id}))
  <2>1. o \in Good(r) /\ Outstanding(o) <= OutstandingCap /\ (StrictClient => Owes(o, {}))
      BY DEF Sound
  <2>2. /\ p \in Good(r) /\ SameWork(o, p)
        /\ Owes(o, {}) /\ o.reply[id] # "owed" => Owes(p, {id})
      BY <1>1, <2>1, AskFacts
  <2>3. Outstanding(p) = Outstanding(o)
      BY <2>2 DEF SameWork, Outstanding
  <2>4. QED BY <2>1, <2>2, <2>3
<1>3. b \in Promise
  <2>1. o.nextJob \in Nat /\ o.nextJob > 0
      BY DEF Sound, Good, Owners, Numbered
  <2>2. QED BY <2>1 DEF Promise
<1>4. b.id = id
    OBVIOUS
<1> HIDE DEF Promise
<1>5. PICK q : q = [p EXCEPT !.barriers = @ \union {b}]
    OBVIOUS
<1>6. /\ q \in Owners /\ SameWork(p, q) /\ SameStore(p, q) /\ q.requests = p.requests
      /\ q.tokens = p.tokens /\ q.unfinished = p.unfinished /\ q.cancelled = p.cancelled
      /\ q.reply = p.reply /\ q.barriers = p.barriers \union {b}
    BY <1>2, <1>3, <1>5 DEF Good, Owners, SameWork, SameStore
<1>7. q \in Good(r) /\ Outstanding(q) = Outstanding(p)
    BY <1>2, <1>6, SameWorkIsGood DEF Good, Numbered
<1>8. ASSUME Owes(p, {id}) PROVE Owes(q, {})
  <2>1. /\ \A i \in Ids : p.reply[i] = "owed" <=>
              i = id \/ p.requests[i] # 0 \/ \E c \in p.barriers : c.id = i
        /\ \A c \in p.barriers : c.id # id
      BY <1>8 DEF Owes
  <2>2. \A i \in Ids : q.reply[i] = "owed" <=>
              i \in {} \/ q.requests[i] # 0 \/ \E c \in q.barriers : c.id = i
      BY <2>1, <1>4, <1>6
  <2>3. \A c, e \in q.barriers : c.id = e.id => c = e
      BY <2>1, <1>4, <1>6, <1>8 DEF Owes
  <2>4. QED BY <2>2, <2>3, <1>4, <1>6, <1>8 DEF Owes, SameWork, SameStore
<1>9. z = FinishBarriers(q)
    BY <1>1, <1>5
<1>10. /\ z \in Good(r) /\ Outstanding(z) = Outstanding(q)
       /\ Owes(q, {}) => Owes(z, {})
    BY <1>7, <1>9, FinishBarriersFacts
<1>11. QED BY <1>2, <1>7, <1>8, <1>10 DEF Sound

\* The request of an id goes away, and what is owed for it is answered.
LEMMA AnswerFacts ==
    ASSUME NEW r, NEW o \in Good(r), Outstanding(o) <= OutstandingCap, NEW id \in Ids,
           NEW a \in {"result", "null", "error"}, NEW z, z = Reply(RetireDuplicate(o, id), id, a)
    PROVE  /\ z \in Good(r) /\ Outstanding(z) <= OutstandingCap
           /\ Asked(o, id) => Owes(z, {})
<1>1. PICK p : p = RetireDuplicate(o, id)
    OBVIOUS
<1>2. /\ p \in Good(r) /\ Outstanding(p) <= Outstanding(o)
      /\ o.requests[id] = 0 => p = o
      /\ Owes(o, {}) /\ o.requests[id] # 0 => Owes(p, {id})
    BY <1>1, RetireDuplicateFacts
<1>3. Asked(o, id) => Owes(p, {id})
    BY <1>2 DEF Asked
<1>4. /\ z \in Good(r) /\ Outstanding(z) = Outstanding(p)
      /\ Owes(p, {id}) => Owes(z, {id} \ {id})
    BY <1>1, <1>2, ReplyFacts
<1>5. {id} \ {id} = {}
    OBVIOUS
<1>6. Outstanding(p) \in Nat /\ Outstanding(o) \in Nat /\ OutstandingCap \in Nat
    BY <1>2, Sizes, CapIsNatural
<1>7. QED BY <1>2, <1>3, <1>4, <1>5, <1>6

LEMMA BarriersAreSound ==
    ASSUME NEW r, NEW o, Sound(o, r) PROVE Sound(FinishBarriers(o), r)
BY FinishBarriersFacts DEF Sound

\* Shutting down: no request stays, and each that was live has its answer.
Halt(o) ==
    [o EXCEPT !.phase = "shuttingDown",
              !.requests = [i \in Ids |-> 0],
              !.reply = [i \in Ids |-> IF i \in Live(o) THEN Told(@[i], "error") ELSE @[i]]]

LEMMA HaltFacts ==
    ASSUME NEW r, NEW o \in Good(r), NEW p, p = Halt(o)
    PROVE  /\ p \in Good(r) /\ SameWork(o, p) /\ Outstanding(p) = Outstanding(o)
           /\ p.phase = "shuttingDown" /\ p.barriers = o.barriers /\ p.tokens = o.tokens
           /\ p.requests = [i \in Ids |-> 0]
           /\ p.reply = [i \in Ids |-> IF i \in Live(o) THEN Told(o.reply[i], "error") ELSE o.reply[i]]
<1> DEFINE none == [i \in Ids |-> 0]
           told == [i \in Ids |-> IF i \in Live(o) THEN Told(o.reply[i], "error") ELSE o.reply[i]]
<1>1. none \in [Ids -> Nat] /\ told \in [Ids -> Answers]
    BY DEF Good, Owners, Told, Answers
<1>2. p = [o EXCEPT !.phase = "shuttingDown", !.requests = none, !.reply = told]
    BY DEF Halt, Good, Owners
<1>3. \A i \in Ids : none[i] = 0
    OBVIOUS
<1> HIDE DEF none, told
<1>4. /\ p \in Owners /\ SameWork(o, p) /\ p.phase = "shuttingDown" /\ p.barriers = o.barriers
      /\ p.tokens = o.tokens /\ p.requests = none /\ p.reply = told /\ p.docs = o.docs
      /\ p.rev = o.rev /\ p.shown = o.shown /\ p.unfinished = o.unfinished
      /\ p.cancelled = o.cancelled
    BY <1>1, <1>2, ZenonT(60) DEF Good, Owners, SameWork, Phases
<1>5. Numbered(p)
    BY <1>3, <1>4 DEF Good, Numbered, SameWork, Given
<1>6. Waiting(p) /\ Finished(p) /\ Queued(p) /\ Executed(p, r)
    BY <1>4 DEF Good, SameWork, Waiting, Finished, Queued, Executed
<1>7. QED BY <1>4, <1>5, <1>6 DEF Good, SameWork, Outstanding, none, told

LEMMA StopFacts ==
    ASSUME NEW r, NEW o \in Good(r), Outstanding(o) <= OutstandingCap,
           NEW J, J = {o.requests[i] : i \in Live(o)}, NEW p, p = Halt(o),
           NEW z, z = RetireAll(p, J)
    PROVE  /\ z \in Good(r) /\ Outstanding(z) <= OutstandingCap /\ z.nextJob = o.nextJob
           /\ Owes(o, {}) => Owes(z, {})
<1>1. /\ p \in Good(r) /\ SameWork(o, p) /\ Outstanding(p) = Outstanding(o)
      /\ p.phase = "shuttingDown" /\ p.barriers = o.barriers
      /\ p.requests = [i \in Ids |-> 0]
      /\ p.reply = [i \in Ids |-> IF i \in Live(o) THEN Told(o.reply[i], "error") ELSE o.reply[i]]
    BY HaltFacts
<1>2. z \in Good(r) /\ Drops(p, z, J) /\ SameDebts(p, z)
    BY <1>1, RetireAllFacts
<1>3. /\ z.requests = [i \in Ids |-> 0] /\ z.barriers = o.barriers
      /\ z.reply = [i \in Ids |-> IF i \in Live(o) THEN Told(o.reply[i], "error") ELSE o.reply[i]]
    BY <1>1, <1>2 DEF SameDebts
<1>4. z.jobs = Cut(o.jobs, J) /\ z.phase = "shuttingDown" /\ z.nextJob = o.nextJob
    BY <1>1, <1>2 DEF Drops, SameStore, SameWork
<1>5. Outstanding(z) <= OutstandingCap
  <2>1. Outstanding(z) \in Nat /\ Outstanding(p) \in Nat /\ OutstandingCap \in Nat
      BY <1>1, <1>2, Sizes, CapIsNatural
  <2>2. QED BY <2>1, <1>1, <1>2 DEF Drops
<1>6. ASSUME Owes(o, {}) PROVE Owes(z, {})
  <2>1. \A j \in DOMAIN z.jobs : z.jobs[j].kind # "request"
    <3> SUFFICES ASSUME NEW j \in DOMAIN o.jobs, o.jobs[j].kind = "request" PROVE j \in J
        BY <1>4 DEF Cut
    <3>1. o \in Owners /\ j # 0
        BY DEF Good, Numbered, Given
    <3>2. o.jobs[j] \in RequestMeta
        BY <3>1, JobMeta DEF Metas, DiagnosticsMeta
    <3>3. o.jobs[j].id \in Ids /\ o.requests[o.jobs[j].id] = j
        BY <3>2, <1>6 DEF RequestMeta, Owes
    <3>4. QED BY <3>1, <3>3 DEF Live
  <2>2. \A i \in Ids : z.requests[i] = 0
      BY <1>3
  <2>3. o.barriers \subseteq Promise
      BY DEF Good, Owners
  <2>4. \A b \in o.barriers : b.id \in Ids /\ b.id \notin Live(o)
      BY <2>3, <1>6 DEF Owes, Live, Promise
  <2>5. \A i \in Ids : z.reply[i] = IF i \in Live(o) THEN "error" ELSE o.reply[i]
      BY <1>3, <1>6 DEF Told, Owes, Live
  <2>6. \A i \in Ids : z.reply[i] = "owed" <=>
           i \in {} \/ z.requests[i] # 0 \/ \E b \in z.barriers : b.id = i
    <3> SUFFICES ASSUME NEW i \in Ids
                 PROVE  z.reply[i] = "owed" <=> \E b \in o.barriers : b.id = i
        BY <1>3, <2>2
    <3>1. CASE i \in Live(o)
        BY <3>1, <2>4, <2>5
    <3>2. CASE i \notin Live(o)
        BY <3>2, <2>5, <1>6 DEF Owes, Live
    <3>3. QED BY <3>1, <3>2
  <2>7. \A i \in Ids : z.reply[i] # "twice"
      BY <2>5, <1>6 DEF Owes
  <2>8. \A b \in z.barriers : b.id \notin {} /\ z.requests[b.id] = 0
      BY <1>3, <2>2, <2>4
  <2>9. \A b, c \in z.barriers : b.id = c.id => b = c
      BY <1>3, <1>6 DEF Owes
  <2>10. QED BY <2>1, <2>2, <2>6, <2>7, <2>8, <2>9 DEF Owes
<1>7. QED BY <1>2, <1>4, <1>5, <1>6

LEMMA ShutdownFacts ==
    ASSUME NEW r, Sound(s, r), NEW id \in Ids, MayAsk(id), NEW z, z = BeginShutdown(id)
    PROVE  Sound(z, r)
<1>1. PICK a : a = Ask(s, id)
    OBVIOUS
<1>2. a \in Good(r) /\ Outstanding(a) <= OutstandingCap /\ (StrictClient => Asked(a, id))
    BY <1>1, AskedFacts DEF MayAsk
<1>3. PICK o : o = Reply(RetireDuplicate(a, id), id, "null")
    OBVIOUS
<1>4. o \in Good(r) /\ Outstanding(o) <= OutstandingCap /\ (StrictClient => Owes(o, {}))
    BY <1>2, <1>3, AnswerFacts
<1> DEFINE live == {o.requests[i] : i \in Live(o)}
           tracked == {o.tokens[k] : k \in Keys} \ {0}
<1>5. PICK p : p = RetireAll(Halt(o), live)
    OBVIOUS
<1>6. PICK q : q = Cancel(p, live \union tracked)
    OBVIOUS
<1>7. z = IF live = {} THEN q ELSE FinishBarriers(q)
    BY Zenon, <1>1, <1>3, <1>5, <1>6 DEF BeginShutdown, Halt
<1>8. live \union tracked \subseteq Given(o)
    BY <1>4 DEF Good, Numbered, Live
<1> HIDE DEF live, tracked
<1>9. /\ p \in Good(r) /\ Outstanding(p) <= OutstandingCap /\ p.nextJob = o.nextJob
      /\ Owes(o, {}) => Owes(p, {})
    BY <1>4, <1>5, StopFacts DEF live
<1>10. live \union tracked \in SUBSET Given(p)
    BY <1>8, <1>9 DEF Given
<1>11. /\ q \in Good(r) /\ Outstanding(q) = Outstanding(p)
       /\ Owes(p, {}) => Owes(q, {})
    BY <1>6, <1>9, <1>10, CancelFacts
<1>12. Sound(q, r)
    BY <1>4, <1>9, <1>11 DEF Sound
<1>13. QED BY <1>7, <1>12, BarriersAreSound

-----------------------------------------------------------------------------
(* The steps of the owner and of the workers.                              *)

LEMMA SoundMoves ==
    ASSUME NEW r, NEW o, Sound(o, r), NEW p \in Owners, SameWork(o, p), SameDebts(o, p),
           p.phase = o.phase, p.unfinished = o.unfinished, p.cancelled = o.cancelled,
           p.tokens = o.tokens, o.rev <= p.rev,
           \A d \in Docs : p.docs[d] <= p.rev /\ p.shown[d] <= p.rev
    PROVE  Sound(p, r)
<1>1. /\ p \in Good(r) /\ Outstanding(p) = Outstanding(o)
      /\ \A F : Owes(o, F) => Owes(p, F)
    BY StoreMoves DEF Sound
<1>2. QED BY <1>1 DEF Sound

\* A document changes with the revision of the store, or only the latter does.
LEMMA EditFacts ==
    ASSUME NEW r, NEW o, Sound(o, r), NEW d \in Docs,
           NEW p, \/ p = [o EXCEPT !.rev = @ + 1, !.docs[d] = o.rev + 1]
                  \/ p = [o EXCEPT !.rev = @ + 1, !.docs[d] = 0]
                  \/ p = [o EXCEPT !.rev = @ + 1]
    PROVE  Sound(p, r)
<1>1. o \in Owners /\ Numbered(o)
    BY DEF Sound, Good
<1>2. PICK docs : /\ docs \in {o.docs, [o.docs EXCEPT ![d] = o.rev + 1], [o.docs EXCEPT ![d] = 0]}
                  /\ p = [o EXCEPT !.rev = @ + 1, !.docs = docs]
    BY <1>1 DEF Owners
<1>3. /\ o.rev \in Nat /\ o.docs \in [Docs -> Nat] /\ o.shown \in [Docs -> Nat]
      /\ \A x \in Docs : o.docs[x] <= o.rev /\ o.shown[x] <= o.rev
    BY <1>1 DEF Owners, Numbered
<1>4. docs \in [Docs -> Nat] /\ \A x \in Docs : docs[x] <= o.rev + 1 /\ o.shown[x] <= o.rev + 1
  <2>1. \A x \in Docs : o.docs[x] <= o.rev + 1 /\ o.shown[x] <= o.rev + 1
      BY <1>3
  <2>2. QED BY <2>1, <1>2, <1>3
<1>5. /\ p \in Owners /\ p.rev = o.rev + 1 /\ p.docs = docs /\ p.shown = o.shown
      /\ SameWork(o, p) /\ SameDebts(o, p) /\ p.phase = o.phase
      /\ p.unfinished = o.unfinished /\ p.cancelled = o.cancelled /\ p.tokens = o.tokens
  <2>1. PICK n \in Nat : n = o.rev + 1
      BY <1>3
  <2>2. p = [o EXCEPT !.rev = n, !.docs = docs] /\ docs \in [Docs -> Nat]
      BY <1>2, <1>4, <2>1
  <2>3. QED BY <1>1, <2>1, <2>2 DEF Owners, SameWork, SameDebts
<1>6. o.rev <= p.rev
    BY <1>3, <1>5
<1>7. QED BY <1>4, <1>5, <1>6, SoundMoves

LEMMA CloseFacts ==
    ASSUME NEW r, NEW o, Sound(o, r), NEW d \in Docs,
           NEW z, z = [Supersede(o, Key[d]) EXCEPT !.shown[d] = 0]
    PROVE  Sound(z, r)
<1>1. Key[d] \in Keys
    BY DEF Keys
<1>2. PICK p : p = Supersede(o, Key[d])
    OBVIOUS
<1>3. Sound(p, r)
  <2>1. o \in Good(r) /\ Outstanding(o) <= OutstandingCap /\ (StrictClient => Owes(o, {}))
      BY DEF Sound
  <2>2. /\ p \in Good(r) /\ Outstanding(p) <= Outstanding(o)
        /\ \A F : Owes(o, F) => Owes(p, F)
      BY <1>1, <1>2, <2>1, SupersedeFacts
  <2>3. Outstanding(p) \in Nat /\ Outstanding(o) \in Nat /\ OutstandingCap \in Nat
      BY <2>1, <2>2, Sizes, CapIsNatural
  <2>4. QED BY <2>1, <2>2, <2>3 DEF Sound
<1>4. p \in Owners /\ Numbered(p)
    BY <1>3 DEF Sound, Good
<1>5. PICK shown : shown = [p.shown EXCEPT ![d] = 0]
    OBVIOUS
<1>6. /\ shown \in [Docs -> Nat] /\ p.rev \in Nat /\ p.rev <= p.rev
      /\ \A x \in Docs : p.docs[x] <= p.rev /\ shown[x] <= p.rev
    BY <1>4, <1>5 DEF Owners, Numbered
<1>7. z = [p EXCEPT !.shown = shown]
    BY <1>2, <1>4, <1>5 DEF Owners
<1>8. /\ z \in Owners /\ z.rev = p.rev /\ z.docs = p.docs /\ z.shown = shown
      /\ SameWork(p, z) /\ SameDebts(p, z) /\ z.phase = p.phase
      /\ z.unfinished = p.unfinished /\ z.cancelled = p.cancelled /\ z.tokens = p.tokens
    BY <1>4, <1>6, <1>7, ZenonT(60) DEF Owners, SameWork, SameDebts
<1>9. QED BY <1>3, <1>6, <1>8, SoundMoves

\* The result at the head of the channel applies.
LEMMA HeadFacts ==
    ASSUME NEW r, NEW o, Sound(o, r), o.completed # <<>>,
           NEW z, z = Complete([o EXCEPT !.completed = Tail(@)], Head(o.completed))
    PROVE  Sound(z, r) /\ z.deferred = o.deferred
<1>1. o \in Good(r) /\ o \in Owners /\ o.completed \in Seq(Ended)
    BY DEF Sound, Good, Owners, Channels
<1>2. PICK c : c = Head(o.completed)
    OBVIOUS
<1>3. PICK rest : rest = Tail(o.completed)
    OBVIOUS
<1>4. /\ rest \in Seq(Ended) /\ c \in Ended /\ c \in Range(o.completed)
      /\ Range(rest) \subseteq Range(o.completed)
      /\ \A i \in DOMAIN rest : i + 1 \in DOMAIN o.completed /\ rest[i] = o.completed[i + 1]
      /\ c = o.completed[1] /\ 1 \in DOMAIN o.completed
    BY <1>1, <1>2, <1>3, RangeTail
<1>5. DOMAIN rest \subseteq Nat \ {0}
    BY <1>4
<1>6. OneEach(rest) /\ c.job \notin Over(rest)
  <2>1. OneEach(o.completed)
      BY <1>1 DEF Good, Finished
  <2>2. \A i \in DOMAIN rest : rest[i].job # c.job
    <3>1. \A i \in DOMAIN rest : i + 1 # 1
        BY <1>5
    <3>2. QED BY <3>1, <2>1, <1>4 DEF OneEach
  <2>3. \A i, j \in DOMAIN rest : i + 1 = j + 1 => i = j
      BY <1>5
  <2>4. QED BY <2>1, <2>2, <2>3, <1>4 DEF OneEach, Over, Range
<1>7. PICK p : p = [o EXCEPT !.completed = rest]
    OBVIOUS
<1>8. /\ p \in Owners /\ p.completed = rest /\ SameStore(o, p) /\ SameDebts(o, p)
      /\ p.nextJob = o.nextJob /\ p.jobs = o.jobs /\ p.pending = o.pending
      /\ p.submitted = o.submitted /\ p.queue = o.queue /\ p.deferred = o.deferred
      /\ p.tokens = o.tokens /\ p.unfinished = o.unfinished /\ p.cancelled = o.cancelled
    BY <1>1, <1>4, <1>7 DEF Owners, Channels, SameStore, SameDebts
<1>9. Over(rest) \subseteq Over(o.completed) /\ c.job \in Over(o.completed)
    BY <1>4 DEF Over
<1>10. Numbered(p) /\ Waiting(p)
    BY <1>1, <1>8 DEF Good, Numbered, Waiting, Given, SameStore, SameDebts
<1>11. Finished(p) /\ Queued(p) /\ Executed(p, r)
    BY <1>1, <1>6, <1>8, <1>9 DEF Good, Finished, Queued, Executed
<1>12. p \in Good(r) /\ Outstanding(p) = Outstanding(o)
    BY <1>8, <1>10, <1>11 DEF Good, Outstanding
<1>13. Elsewhere(p, r, c.job)
  <2>1. c.job # 0
      BY <1>1, <1>9 DEF Good, Numbered, Finished, Given
  <2>2. \A w \in Workers : c.job \notin Range(o.queue[w]) /\ (r[w] # 0 => r[w] # c.job)
      BY <1>1, <1>9 DEF Good, Queued, Executed
  <2>3. QED BY <2>1, <2>2, <1>6, <1>8 DEF Elsewhere
<1>14. z = Complete(p, c)
    BY <1>2, <1>3, <1>7
<1>15. z \in Good(r) /\ Applies(p, z)
    BY <1>4, <1>12, <1>13, <1>14, CompleteFacts
<1>16. Owes(o, {}) => Owes(p, {})
    BY <1>8, SameOwes
<1>17. Outstanding(z) <= OutstandingCap
  <2>1. Outstanding(z) \in Nat /\ Outstanding(p) \in Nat /\ OutstandingCap \in Nat
      BY <1>12, <1>15, Sizes, CapIsNatural
  <2>2. QED BY <2>1, <1>12, <1>15 DEF Sound, Applies
<1>18. QED BY <1>8, <1>15, <1>16, <1>17 DEF Sound, Applies

\* After a batch every result that came in is applied.
LEMMA BatchFacts ==
    ASSUME NEW r, NEW o, Sound(o, r), NEW z, z = CompleteAll(Drain(o))
    PROVE  Sound(z, r) /\ z.deferred = <<>>
<1>1. o \in Good(r) /\ Outstanding(o) <= OutstandingCap /\ (StrictClient => Owes(o, {}))
    BY DEF Sound
<1>2. PICK p : p = Drain(o)
    OBVIOUS
<1>3. p \in Good(r) /\ Drains(o, p)
    BY <1>1, <1>2, DrainFacts
<1>4. SameStore(o, p) /\ SameDebts(o, p) /\ p.jobs = o.jobs /\ Outstanding(p) <= Outstanding(o)
    BY <1>3 DEF Drains
<1>5. Owes(o, {}) => Owes(p, {})
    BY <1>4, SameOwes
<1>6. /\ z \in Good(r) /\ z.deferred = <<>> /\ Outstanding(z) <= Outstanding(p)
      /\ Owes(p, {}) => Owes(z, {})
    BY <1>2, <1>3, CompleteAllFacts
<1>7. /\ Outstanding(z) \in Nat /\ Outstanding(p) \in Nat /\ Outstanding(o) \in Nat
      /\ OutstandingCap \in Nat
    BY <1>1, <1>3, <1>6, Sizes, CapIsNatural
<1>8. QED BY <1>1, <1>4, <1>5, <1>6, <1>7 DEF Sound

LEMMA ExitFacts ==
    ASSUME NEW r, NEW o, Sound(o, r), o.deferred = <<>>,
           NEW z, z = Cancel([o EXCEPT !.pending = <<>>], DOMAIN o.jobs)
    PROVE  Sound(z, r) /\ z.deferred = <<>>
<1>1. o \in Good(r) /\ Outstanding(o) <= OutstandingCap /\ (StrictClient => Owes(o, {}))
    BY DEF Sound
<1>2. PICK p : p = [o EXCEPT !.pending = <<>>]
    OBVIOUS
<1>3. /\ p \in Owners /\ SameStore(o, p) /\ SameDebts(o, p) /\ p.nextJob = o.nextJob
      /\ p.jobs = o.jobs /\ p.deferred = <<>> /\ p.completed = o.completed
      /\ p.submitted = o.submitted /\ p.queue = o.queue /\ p.pending = <<>>
      /\ p.tokens = o.tokens /\ p.unfinished = o.unfinished /\ p.cancelled = o.cancelled
  <2>1. <<>> \in Lists
      BY DEF Lists
  <2>2. QED BY <1>1, <1>2, <2>1 DEF Good, Owners, SameStore, SameDebts
<1>4. p \in Good(r) /\ Outstanding(p) <= Outstanding(o)
  <2>1. Range(<<>>) = {} /\ Distinct(<<>>) /\ Len(<<>>) = 0
      BY DEF Range, Distinct
  <2>2. Numbered(p)
      BY <1>1, <1>3, <2>1 DEF Good, Numbered, Given, SameStore, SameDebts
  <2>3. Waiting(p) /\ Finished(p) /\ Queued(p) /\ Executed(p, r)
      BY <1>1, <1>3, <2>1 DEF Good, Waiting, Finished, Queued, Executed
  <2>4. Outstanding(p) <= Outstanding(o)
    <3>1. Len(p.pending) <= Len(o.pending) /\ p.submitted \subseteq o.submitted
        BY <1>1, <1>3, <2>1, Sizes
    <3>2. QED BY <3>1, <1>1, <1>3, Load DEF Good
  <2>5. QED BY <1>3, <2>2, <2>3, <2>4 DEF Good
<1>5. Owes(o, {}) => Owes(p, {})
    BY <1>3, SameOwes
<1>6. PICK J : J = DOMAIN o.jobs
    OBVIOUS
<1>7. J \in SUBSET Given(p)
    BY <1>1, <1>3, <1>6 DEF Good, Numbered, Given
<1>8. /\ z \in Good(r) /\ SameWork(p, z) /\ Outstanding(z) = Outstanding(p)
      /\ \A F : Owes(p, F) => Owes(z, F)
    BY <1>2, <1>4, <1>6, <1>7, CancelFacts
<1>9. Outstanding(p) \in Nat /\ Outstanding(o) \in Nat /\ OutstandingCap \in Nat
    BY <1>1, <1>4, Sizes, CapIsNatural
<1>10. QED BY <1>1, <1>3, <1>4, <1>5, <1>8, <1>9 DEF Sound, SameWork

\* The owner's record when a worker takes the job at the head of its queue, and
\* when its result goes on the channel.
Taken(o, w) == [o EXCEPT !.queue[w] = Tail(@)]
Posted(o, j, x) == [o EXCEPT !.completed = Append(@, [job |-> j, result |-> x])]
With(r, w, j) == [r EXCEPT ![w] = j]

LEMMA TakeFacts ==
    ASSUME NEW r \in [Workers -> Nat], NEW o, Sound(o, r), NEW w \in Workers, r[w] = 0,
           o.queue[w] # <<>>, NEW p, p = Taken(o, w), NEW t, t = With(r, w, Head(o.queue[w]))
    PROVE  t \in [Workers -> Nat] /\ Sound(p, t) /\ p.deferred = o.deferred
<1>1. o \in Good(r) /\ o \in Owners /\ o.queue \in [Workers -> Lists] /\ o.queue[w] \in Seq(Nat)
    BY DEF Sound, Good, Owners, Lists
<1>2. PICK j : j = Head(o.queue[w])
    OBVIOUS
<1>3. PICK q : q = [o.queue EXCEPT ![w] = Tail(o.queue[w])]
    OBVIOUS
<1>4. /\ Tail(o.queue[w]) \in Seq(Nat) /\ j \in Nat /\ j \in Range(o.queue[w])
      /\ Range(Tail(o.queue[w])) \subseteq Range(o.queue[w])
      /\ Distinct(o.queue[w]) =>
            Distinct(Tail(o.queue[w])) /\ j \notin Range(Tail(o.queue[w]))
    BY <1>1, <1>2, RangeTail
<1>5. /\ q[w] = Tail(o.queue[w]) /\ \A v \in Workers \ {w} : q[v] = o.queue[v]
      /\ t[w] = j /\ \A v \in Workers \ {w} : t[v] = r[v]
    BY <1>1, <1>2, <1>3 DEF With
<1>6. q \in [Workers -> Lists] /\ t \in [Workers -> Nat]
  <2>1. Tail(o.queue[w]) \in Lists
      BY <1>4 DEF Lists
  <2>2. QED BY <2>1, <1>1, <1>2, <1>3, <1>4 DEF With
<1>7. p = [o EXCEPT !.queue = q]
    BY <1>1, <1>3 DEF Owners, Taken
<1>8. /\ p \in Owners /\ p.queue = q /\ SameStore(o, p) /\ SameDebts(o, p)
      /\ p.nextJob = o.nextJob /\ p.jobs = o.jobs /\ p.pending = o.pending
      /\ p.submitted = o.submitted /\ p.completed = o.completed /\ p.deferred = o.deferred
      /\ p.tokens = o.tokens /\ p.unfinished = o.unfinished /\ p.cancelled = o.cancelled
    BY <1>1, <1>6, <1>7 DEF Owners, SameStore, SameDebts
<1>9. Numbered(p) /\ Waiting(p) /\ Finished(p)
    BY <1>1, <1>8 DEF Good, Numbered, Waiting, Finished, Given, SameStore, SameDebts
<1>10. Queued(o) /\ Executed(o, r)
    BY <1>1 DEF Good
<1>11. /\ Distinct(q[w]) /\ j \notin Range(q[w]) /\ Range(q[w]) \subseteq Range(o.queue[w])
       /\ j \in o.submitted \ Over(o.completed)
       /\ \A v \in Workers \ {w} : j \notin Range(q[v])
    BY <1>4, <1>5, <1>10 DEF Queued
<1>12. \A v \in Workers : Distinct(q[v]) /\ Range(q[v]) \subseteq Range(o.queue[v])
    BY <1>5, <1>10, <1>11 DEF Queued
<1>13. Queued(p)
    BY <1>8, <1>10, <1>12 DEF Queued
<1>14. \A v \in Workers \ {w} : r[v] # j
  <2>1. \A v \in Workers : r[v] # 0 => r[v] \notin Range(o.queue[w])
      BY <1>10 DEF Executed
  <2>2. j # 0
      BY <1>1, <1>11 DEF Good, Numbered, Given
  <2>3. QED BY <2>1, <2>2, <1>4
<1>15. Executed(p, t)
  <2> SUFFICES ASSUME NEW x \in Workers, t[x] # 0
               PROVE  /\ t[x] \in o.submitted \ Over(o.completed)
                      /\ \A v \in Workers : t[x] \notin Range(q[v])
                      /\ \A v \in Workers \ {x} : t[v] # t[x]
      BY <1>8 DEF Executed
  <2>1. CASE x = w
      BY <2>1, <1>5, <1>11, <1>14
  <2>2. CASE x # w
    <3>1. t[x] = r[x] /\ r[x] # 0
        BY <2>2, <1>5
    <3>2. /\ r[x] \in o.submitted \ Over(o.completed)
          /\ \A v \in Workers : r[x] \notin Range(o.queue[v])
          /\ \A v \in Workers \ {x} : r[v] # r[x]
        BY <3>1, <1>10 DEF Executed
    <3>3. \A v \in Workers \ {x} : t[v] # r[x]
        BY <3>2, <2>2, <1>5, <1>14
    <3>4. QED BY <3>1, <3>2, <3>3, <1>12
  <2>3. QED BY <2>1, <2>2
<1>16. p \in Good(t) /\ Outstanding(p) = Outstanding(o)
    BY <1>8, <1>9, <1>13, <1>15 DEF Good, Outstanding
<1>17. Owes(o, {}) => Owes(p, {})
    BY <1>8, SameOwes
<1>18. QED BY <1>6, <1>8, <1>16, <1>17 DEF Sound

LEMMA ResultFacts ==
    ASSUME NEW r \in [Workers -> Nat], NEW o, Sound(o, r), NEW w \in Workers, r[w] # 0,
           NEW x \in {"ok", "cancelled", "failed"},
           NEW p, p = Posted(o, r[w], x), NEW t, t = With(r, w, 0)
    PROVE  t \in [Workers -> Nat] /\ Sound(p, t) /\ p.deferred = o.deferred
<1>1. o \in Good(r) /\ o \in Owners /\ o.completed \in Seq(Ended)
    BY DEF Sound, Good, Owners, Channels
<1>2. PICK c : c = [job |-> r[w], result |-> x]
    OBVIOUS
<1>3. c \in Ended /\ c.job = r[w]
    BY <1>2 DEF Ended
<1>4. PICK q : q = Append(o.completed, c)
    OBVIOUS
<1>5. q \in Seq(Ended) /\ Range(q) = Range(o.completed) \union {c}
    BY <1>1, <1>3, <1>4, RangeAppend
<1>6. /\ p \in Owners /\ p.completed = q /\ SameStore(o, p) /\ SameDebts(o, p)
      /\ p.nextJob = o.nextJob /\ p.jobs = o.jobs /\ p.pending = o.pending
      /\ p.submitted = o.submitted /\ p.queue = o.queue /\ p.deferred = o.deferred
      /\ p.tokens = o.tokens /\ p.unfinished = o.unfinished /\ p.cancelled = o.cancelled
  <2>1. p = [o EXCEPT !.completed = q]
      BY <1>1, <1>2, <1>4 DEF Owners, Posted
  <2>2. QED BY <2>1, <1>1, <1>5 DEF Owners, Channels, SameStore, SameDebts
<1>7. Over(q) = Over(o.completed) \union {r[w]}
    BY <1>3, <1>5 DEF Over
<1>8. Numbered(p) /\ Waiting(p)
    BY <1>1, <1>6 DEF Good, Numbered, Waiting, Given, SameStore, SameDebts
<1>9. /\ r[w] \in o.submitted \ Over(o.completed)
      /\ \A v \in Workers : r[w] \notin Range(o.queue[v])
      /\ \A v \in Workers \ {w} : r[v] # r[w]
    BY <1>1 DEF Good, Executed
<1>10. OneEach(q)
  <2> DEFINE n == Len(o.completed)
  <2>1. /\ n \in Nat /\ DOMAIN o.completed = 1 .. n /\ DOMAIN q = 1 .. n + 1
        /\ \A i \in 1 .. n : q[i] = o.completed[i]
        /\ q[n + 1] = c
      BY <1>1, <1>3, <1>4
  <2> HIDE DEF n
  <2>2. \A i \in DOMAIN q : \/ /\ i \in DOMAIN o.completed /\ q[i] = o.completed[i]
                               /\ o.completed[i].job # r[w]
                            \/ i = n + 1 /\ q[i].job = r[w]
    <3>1. \A i \in DOMAIN q : i \in DOMAIN o.completed \/ i = n + 1
        BY <2>1
    <3>2. \A i \in DOMAIN o.completed : q[i] = o.completed[i] /\ o.completed[i].job # r[w]
        BY <2>1, <1>9 DEF Over, Range
    <3>3. QED BY <3>1, <3>2, <2>1, <1>3
  <2>3. OneEach(o.completed)
      BY <1>1 DEF Good, Finished
  <2>4. QED BY <2>2, <2>3 DEF OneEach
<1>11. Finished(p)
    BY <1>1, <1>6, <1>7, <1>9, <1>10 DEF Good, Finished
<1>12. Queued(p)
  <2>1. Queued(o)
      BY <1>1 DEF Good
  <2>2. \A v \in Workers : Range(o.queue[v]) \subseteq o.submitted \ Over(q)
      BY <2>1, <1>7, <1>9 DEF Queued
  <2>3. QED BY <2>1, <2>2, <1>6 DEF Queued
<1>13. t \in [Workers -> Nat] /\ t[w] = 0 /\ \A v \in Workers \ {w} : t[v] = r[v]
    BY DEF With
<1>14. Executed(p, t)
  <2> SUFFICES ASSUME NEW y \in Workers, t[y] # 0
               PROVE  /\ t[y] \in o.submitted \ Over(q)
                      /\ \A v \in Workers : t[y] \notin Range(o.queue[v])
                      /\ \A v \in Workers \ {y} : t[v] # t[y]
      BY <1>6 DEF Executed
  <2>1. y # w /\ t[y] = r[y] /\ Executed(o, r)
      BY <1>1, <1>13 DEF Good
  <2>2. QED BY <2>1, <1>7, <1>9, <1>13 DEF Executed
<1>15. p \in Good(t) /\ Outstanding(p) = Outstanding(o)
    BY <1>6, <1>8, <1>11, <1>12, <1>14 DEF Good, Outstanding
<1>16. Owes(o, {}) => Owes(p, {})
    BY <1>6, SameOwes
<1>17. QED BY <1>6, <1>13, <1>15, <1>16 DEF Sound

-----------------------------------------------------------------------------
(* The completion channel holds results of submitted jobs only, and a job  *)
(* that still runs is one more of those.                                   *)

LEMMA RoomFacts ==
    ASSUME NEW r, NEW o, Sound(o, r), NEW w \in Workers, r[w] # 0
    PROVE  Len(o.completed) < OutstandingCap
<1> DEFINE n == Len(o.completed)
           rest == o.submitted \ {r[w]}
           f == [i \in 1 .. n |-> o.completed[i].job]
<1>1. o \in Good(r) /\ o.completed \in Seq(Ended) /\ Outstanding(o) <= OutstandingCap
    BY DEF Sound, Good, Owners, Channels
<1>2. n \in Nat /\ DOMAIN o.completed = 1 .. n
    BY <1>1
<1>3. r[w] \in o.submitted /\ r[w] \notin Over(o.completed)
    BY <1>1 DEF Good, Executed
<1>4. f \in Injection(1 .. n, rest)
  <2>1. \A i \in 1 .. n : f[i] \in Over(o.completed)
      BY <1>2 DEF Over, Range
  <2>2. Over(o.completed) \subseteq rest
      BY <1>1, <1>3 DEF Good, Finished
  <2>3. \A i, j \in 1 .. n : f[i] = f[j] => i = j
      BY <1>1, <1>2 DEF Good, Finished, OneEach
  <2>4. f \in [1 .. n -> rest]
      BY <2>1, <2>2
  <2>5. QED BY <2>3, <2>4 DEF Injection, IsInjective
<1>5. IsFiniteSet(o.submitted) /\ Cardinality(o.submitted) \in Nat /\ Len(o.pending) \in Nat
    BY <1>1, Sizes
<1>6. IsFiniteSet(rest) /\ Cardinality(rest) = Cardinality(o.submitted) - 1
    BY <1>3, <1>5, FS_RemoveElement
<1> HIDE DEF f, rest, n
<1>7. Cardinality(1 .. n) <= Cardinality(rest)
    BY <1>4, <1>6, FS_Injection
<1>8. Cardinality(1 .. n) = n
    BY <1>2, FS_Interval
<1>9. QED BY <1>1, <1>2, <1>5, <1>6, <1>7, <1>8, CapIsNatural DEF Outstanding, n

-----------------------------------------------------------------------------
(* The invariant and the theorems.                                         *)

Steps == {"dispatch", "select", "batch", "tail", "joining", "stopped"}

\* Between two steps the owner's record is sound, and results are deferred only
\* in the middle of a batch.
ServerInv ==
    /\ pc \in Steps
    /\ msgs \in 0 .. MaxMsgs
    /\ running \in [Workers -> Nat]
    /\ Sound(s, running)
    /\ pc # "batch" => s.deferred = <<>>

LEMMA InitHolds == Init => ServerInv
<1> SUFFICES ASSUME Init PROVE ServerInv
    OBVIOUS
<1>1. /\ s.phase = "running" /\ s.docs = [d \in Docs |-> 0] /\ s.rev = 0
      /\ s.nextJob = 1 /\ s.jobs = <<>> /\ s.unfinished = {} /\ s.pending = <<>>
      /\ s.submitted = {} /\ s.queue = [w \in Workers |-> <<>>] /\ s.completed = <<>>
      /\ s.deferred = <<>> /\ s.barriers = {} /\ s.requests = [id \in Ids |-> 0]
      /\ s.tokens = [k \in Keys |-> 0] /\ s.cancelled = {}
      /\ s.reply = [id \in Ids |-> "none"] /\ s.shown = [d \in Docs |-> 0]
    BY DEF Init
<1>2. /\ <<>> \in Lists /\ <<>> \in Channels /\ Range(<<>>) = {} /\ DOMAIN <<>> = {}
      /\ Len(<<>>) = 0
    BY DEF Lists, Channels, Range
<1>3. s \in Owners
  <2>1. <<>> \in JobTables
    <3>1. <<>> \in [{} -> Metas] /\ {} \in SUBSET Nat
        OBVIOUS
    <3>2. QED BY <3>1 DEF JobTables
  <2>2. /\ "running" \in Phases /\ [id \in Ids |-> "none"] \in [Ids -> Answers]
        /\ [w \in Workers |-> <<>>] \in [Workers -> Lists]
      BY <1>2 DEF Phases, Answers
  <2>3. QED BY <1>2, <2>1, <2>2 DEF Init, Owners
<1>4. Distinct(<<>>) /\ OneEach(<<>>) /\ Over(<<>>) = {}
    BY <1>2 DEF Distinct, OneEach, Over
<1>5. Numbered(s)
    BY <1>1, <1>2, <1>4 DEF Numbered, Given
<1>6. Waiting(s) /\ Finished(s) /\ Queued(s) /\ Executed(s, running)
  <2>1. \A w \in Workers : running[w] = 0
      BY DEF Init
  <2>2. QED BY <2>1, <1>1, <1>2, <1>4 DEF Waiting, Finished, Queued, Executed
<1>7. Owes(s, {})
    BY <1>1, <1>2 DEF Owes
<1>8. Outstanding(s) <= OutstandingCap
  <2>1. Outstanding(s) = 0
      BY <1>1, <1>2, FS_EmptySet DEF Outstanding
  <2>2. QED BY <2>1, CapIsNatural
<1>9. pc \in Steps /\ msgs \in 0 .. MaxMsgs /\ running \in [Workers -> Nat]
    BY Capacities DEF Init, Steps
<1>10. QED BY <1>1, <1>3, <1>5, <1>6, <1>7, <1>8, <1>9 DEF ServerInv, Sound, Good

\* A client message handled: what it leaves to show is the record.
LEMMA ReceiveStep ==
    ASSUME ServerInv, NEW kind, Receive(kind), Sound(s', running)
    PROVE  ServerInv'
<1>1. pc' = "batch" /\ msgs' \in 0 .. MaxMsgs /\ running' = running
    BY Capacities DEF ServerInv, Receive
<1>2. QED BY <1>1 DEF ServerInv, Steps

LEMMA RequestStep ==
    ASSUME ServerInv, NEW id \in Ids, NEW target \in Docs \union {Workspace}, Request(id, target)
    PROVE  ServerInv'
<1>1. Receive("request") /\ MayAsk(id) /\ Sound(s, running)
    BY DEF Request, ServerInv
<1>2. CASE Running
  <2>1. PICK a : a = Ask(s, id)
      OBVIOUS
  <2>2. /\ a \in Good(running) /\ SameStore(s, a) /\ Outstanding(a) <= OutstandingCap
        /\ StrictClient => Asked(a, id)
      BY <1>1, <2>1, AskedFacts DEF MayAsk
  <2>3. a.phase = "running"
      BY <1>2, <2>2 DEF SameStore, Running
  <2>4. s' = ScheduleRequest(a, id, target)
      BY <1>2, <2>1 DEF Request
  <2>5. /\ s' \in Good(running) /\ Outstanding(s') <= OutstandingCap
        /\ Asked(a, id) => Owes(s', {})
      BY <2>2, <2>3, <2>4, ScheduleRequestFacts
  <2>6. Sound(s', running)
      BY <2>2, <2>5 DEF Sound
  <2>7. QED BY <2>6, <1>1, ReceiveStep
<1>3. CASE ~Running
  <2>1. StrictClient => s.reply[id] # "owed"
      BY <1>1, <1>3 DEF Sound, Owes, MayAsk, Running
  <2>2. s' = Reply(Ask(s, id), id, "error")
      BY <1>3 DEF Request, Refuse
  <2>3. Sound(s', running)
      BY <2>1, <2>2, <1>1, RefuseFacts
  <2>4. QED BY <2>3, <1>1, ReceiveStep
<1>4. QED BY <1>2, <1>3

LEMMA MalformedStep ==
    ASSUME ServerInv, NEW id \in Ids, Malformed(id) PROVE ServerInv'
<1>1. /\ Receive("malformed") /\ Sound(s, running) /\ (StrictClient => s.reply[id] # "owed")
      /\ s' = Reply(Ask(s, id), id, "error")
    BY DEF Malformed, Refuse, ServerInv
<1>2. Sound(s', running)
    BY <1>1, RefuseFacts
<1>3. QED BY <1>1, <1>2, ReceiveStep

LEMMA BarrierStep ==
    ASSUME ServerInv, NEW id \in Ids, Barrier(id) PROVE ServerInv'
<1>1. Receive("barrier") /\ Sound(s, running) /\ s.reply[id] # "owed"
    BY DEF Barrier, ServerInv
<1>2. PICK b : b = [id |-> id, through |-> s.nextJob - 1]
    OBVIOUS
<1>3. CASE Running
  <2>1. s' = FinishBarriers([Ask(s, id) EXCEPT !.barriers = @ \union {b}])
      BY <1>2, <1>3 DEF Barrier
  <2>2. Sound(s', running)
      BY <2>1, <1>1, <1>2, BarrierFacts
  <2>3. QED BY <2>2, <1>1, ReceiveStep
<1>4. CASE ~Running
  <2>1. s' = Reply(Ask(s, id), id, "error")
      BY <1>4 DEF Barrier, Refuse
  <2>2. Sound(s', running)
      BY <2>1, <1>1, RefuseFacts
  <2>3. QED BY <2>2, <1>1, ReceiveStep
<1>5. QED BY <1>3, <1>4

LEMMA CancelStep ==
    ASSUME ServerInv, NEW id \in Ids, CancelRequest(id) PROVE ServerInv'
<1>1. Receive("cancel") /\ Sound(s, running)
    BY DEF CancelRequest, ServerInv
<1>2. CASE s.requests[id] = 0
  <2>1. s' = s
      BY <1>2 DEF CancelRequest
  <2>2. QED BY <2>1, <1>1, ReceiveStep
<1>3. CASE s.requests[id] # 0
  <2>1. PICK p : p = Reply(RetireDuplicate(s, id), id, "error")
      OBVIOUS
  <2>2. s \in Good(running) /\ Outstanding(s) <= OutstandingCap /\ (StrictClient => Asked(s, id))
      BY <1>1, <1>3 DEF Sound, Asked
  <2>3. Sound(p, running)
      BY <2>1, <2>2, AnswerFacts DEF Sound
  <2>4. s' = FinishBarriers(p)
      BY <1>3, <2>1 DEF CancelRequest
  <2>5. Sound(s', running)
      BY <2>3, <2>4, BarriersAreSound
  <2>6. QED BY <2>5, <1>1, ReceiveStep
<1>4. QED BY <1>2, <1>3

LEMMA ShutdownStep ==
    ASSUME ServerInv, NEW id \in Ids, Shutdown(id) PROVE ServerInv'
<1>1. Receive("shutdown") /\ MayAsk(id) /\ Sound(s, running)
    BY DEF Shutdown, ServerInv
<1>2. CASE Running
  <2>1. s' = BeginShutdown(id)
      BY <1>2 DEF Shutdown
  <2>2. Sound(s', running)
      BY <2>1, <1>1, ShutdownFacts
  <2>3. QED BY <2>2, <1>1, ReceiveStep
<1>3. CASE ~Running
  <2>1. StrictClient => s.reply[id] # "owed"
      BY <1>1, <1>3 DEF Sound, Owes, MayAsk, Running
  <2>2. s' = Reply(Ask(s, id), id, "error")
      BY <1>3 DEF Shutdown, Refuse
  <2>3. Sound(s', running)
      BY <2>1, <2>2, <1>1, RefuseFacts
  <2>4. QED BY <2>3, <1>1, ReceiveStep
<1>4. QED BY <1>2, <1>3

LEMMA DocumentStep ==
    ASSUME ServerInv, NEW d \in Docs, Edit(d) \/ Close(d) \/ Watch(d) PROVE ServerInv'
<1>1. Sound(s, running)
    BY DEF ServerInv
<1>2. CASE Edit(d)
  <2>1. PICK p : p = [s EXCEPT !.rev = @ + 1, !.docs[d] = s.rev + 1]
      OBVIOUS
  <2>2. Sound(p, running)
      BY <1>1, <2>1, EditFacts
  <2>3. Receive("edit") /\ s' = ScheduleDiagnostics(p, d)
      BY <1>2, <2>1 DEF Edit
  <2>4. QED BY <2>2, <2>3, ScheduledIsSound, ReceiveStep
<1>3. CASE Close(d)
  <2>1. PICK p : p = [s EXCEPT !.rev = @ + 1, !.docs[d] = 0]
      OBVIOUS
  <2>2. Sound(p, running)
      BY <1>1, <2>1, EditFacts
  <2>3. /\ Receive("close")
        /\ \/ s' = ScheduleDiagnostics(p, d)
           \/ s' = [Supersede(p, Key[d]) EXCEPT !.shown[d] = 0]
      BY <1>3, <2>1 DEF Close
  <2>4. Sound(s', running)
      BY <2>2, <2>3, ScheduledIsSound, CloseFacts
  <2>5. QED BY <2>3, <2>4, ReceiveStep
<1>4. CASE Watch(d)
  <2>1. PICK p : p = [s EXCEPT !.rev = @ + 1]
      OBVIOUS
  <2>2. Sound(p, running)
      BY <1>1, <2>1, EditFacts
  <2>3. Receive("watch") /\ s' = ScheduleDiagnostics(p, d)
      BY <1>4, <2>1 DEF Watch
  <2>4. QED BY <2>2, <2>3, ScheduledIsSound, ReceiveStep
<1>5. QED BY <1>2, <1>3, <1>4

LEMMA ConfigureStep == ASSUME ServerInv, Configure PROVE ServerInv'
<1>1. PICK p : p = [s EXCEPT !.rev = @ + 1]
    OBVIOUS
<1>2. Sound(p, running)
  <2>1. Sound(s, running)
      BY DEF ServerInv
  <2>2. CASE Docs = {}
    <3>1. s \in Owners /\ s.rev \in Nat
        BY <2>1 DEF Sound, Good, Owners
    <3>2. PICK n \in Nat : n = s.rev + 1
        BY <3>1
    <3>3. p = [s EXCEPT !.rev = n]
        BY <1>1, <3>2
    <3>4. /\ p \in Owners /\ SameWork(s, p) /\ SameDebts(s, p) /\ p.phase = s.phase
          /\ p.unfinished = s.unfinished /\ p.cancelled = s.cancelled /\ p.tokens = s.tokens
          /\ s.rev <= p.rev
        BY <3>1, <3>2, <3>3 DEF Owners, SameWork, SameDebts
    <3>5. QED BY <2>1, <2>2, <3>4, SoundMoves
  <2>3. CASE Docs # {}
    <3>1. PICK d \in Docs : TRUE
        BY <2>3
    <3>2. QED BY <1>1, <2>1, <3>1, EditFacts
  <2>4. QED BY <2>2, <2>3
<1>3. Receive("configure") /\ s' = FoldLeft(RefreshFirst, p, [d \in Docs |-> d])
    BY <1>1 DEF Configure
<1>4. Sound(s', running)
    BY <1>2, <1>3, RefreshFacts
<1>5. QED BY <1>3, <1>4, ReceiveStep

LEMMA OwnerStep == ASSUME ServerInv, Exit \/ Owner PROVE ServerInv'
<1>1. Sound(s, running) /\ (pc # "batch" => s.deferred = <<>>)
    BY DEF ServerInv
<1>2. (UNCHANGED <<running, msgs>>) /\ pc' \in Steps
    BY DEF Exit, Owner, DispatchPending, EndBatch, AfterBatch, Completion, Join, Steps
<1>3. SUFFICES Sound(s', running) /\ s'.deferred = <<>>
    BY <1>2 DEF ServerInv
<1>4. CASE DispatchPending
  <2>1. PICK p : p = FoldLeft(Offer, [s EXCEPT !.pending = <<>>], s.pending)
      OBVIOUS
  <2>2. s' = FinishBarriers(p) /\ s.deferred = <<>>
      BY <1>1, <1>4, <2>1 DEF DispatchPending
  <2>3. /\ p \in Good(running) /\ p.deferred = <<>> /\ Outstanding(p) = Outstanding(s)
        /\ Owes(s, {}) => Owes(p, {})
      BY <1>1, <2>1, <2>2, DispatchFacts DEF Sound
  <2>4. Sound(p, running)
      BY <1>1, <2>3 DEF Sound
  <2>5. SameWork(p, s')
      BY <2>2, <2>3, FinishBarriersFacts
  <2>6. QED BY <2>2, <2>3, <2>4, <2>5, BarriersAreSound DEF SameWork
<1>5. CASE EndBatch
    BY <1>1, <1>5, BatchFacts DEF EndBatch
<1>6. CASE AfterBatch \/ Completion
  <2>1. s.deferred = <<>>
      BY <1>1, <1>6 DEF AfterBatch, Completion
  <2>2. CASE s' = s
      BY <1>1, <2>1, <2>2
  <2>3. CASE s.completed # <<>> /\ CompleteHead
      BY <1>1, <2>1, <2>3, HeadFacts DEF CompleteHead
  <2>4. QED BY <1>6, <2>2, <2>3 DEF AfterBatch, Completion
<1>7. CASE Exit
  <2>1. PICK p : p = CompleteAll(Drain(s))
      OBVIOUS
  <2>2. Sound(p, running) /\ p.deferred = <<>>
      BY <1>1, <2>1, BatchFacts
  <2>3. s' = Cancel([p EXCEPT !.pending = <<>>], DOMAIN p.jobs)
      BY <1>7, <2>1 DEF Exit
  <2>4. QED BY <2>2, <2>3, ExitFacts
<1>8. CASE Join
    BY <1>1, <1>8 DEF Join
<1>9. QED BY <1>4, <1>5, <1>6, <1>7, <1>8 DEF Owner

LEMMA WorkerStep == ASSUME ServerInv, NEW w \in Workers, Worker(w) PROVE ServerInv'
<1>1. /\ running \in [Workers -> Nat] /\ Sound(s, running) /\ (pc # "batch" => s.deferred = <<>>)
      /\ pc \in Steps /\ msgs \in 0 .. MaxMsgs
    BY DEF ServerInv
<1>2. CASE Take(w)
  <2>1. /\ running[w] = 0 /\ s.queue[w] # <<>> /\ s' = Taken(s, w)
        /\ running' = With(running, w, Head(s.queue[w]))
      BY <1>2 DEF Take, Taken, With
  <2>2. running' \in [Workers -> Nat] /\ Sound(s', running') /\ s'.deferred = s.deferred
      BY <1>1, <2>1, TakeFacts
  <2>3. pc' = pc /\ msgs' = msgs
      BY <1>2 DEF Take
  <2>4. QED BY <1>1, <2>2, <2>3 DEF ServerInv
<1>3. CASE Finish(w)
  <2>1. /\ running[w] # 0 /\ running' = With(running, w, 0)
        /\ \E x \in {"ok", "cancelled", "failed"} : s' = Posted(s, running[w], x)
      BY <1>3 DEF Finish, Results, Posted, With
  <2>2. running' \in [Workers -> Nat] /\ Sound(s', running') /\ s'.deferred = s.deferred
      BY <1>1, <2>1, ResultFacts
  <2>3. pc' = pc /\ msgs' = msgs
      BY <1>3 DEF Finish
  <2>4. QED BY <1>1, <2>2, <2>3 DEF ServerInv
<1>4. QED BY <1>2, <1>3 DEF Worker

LEMMA InductiveInvariant == Spec => []ServerInv
<1>1. ASSUME ServerInv, [Next]_vars PROVE ServerInv'
  <2>1. CASE Message
      BY <1>1, <2>1, RequestStep, MalformedStep, BarrierStep, CancelStep, ShutdownStep,
         DocumentStep, ConfigureStep DEF Message
  <2>2. CASE Exit \/ Owner
      BY <1>1, <2>2, OwnerStep
  <2>3. CASE \E w \in Workers : Worker(w)
      BY <1>1, <2>3, WorkerStep
  <2>4. CASE UNCHANGED vars
      BY <1>1, <2>4 DEF vars, ServerInv
  <2>5. QED BY <1>1, <2>1, <2>2, <2>3, <2>4 DEF Next, Stopped
<1>2. QED BY <1>1, InitHolds, PTL DEF Spec



LEMMA WithinRange ==
    ASSUME NEW S, NEW T, NEW seq \in Seq(S), Range(seq) \subseteq T PROVE seq \in Seq(T)
<1>1. \A i \in 1 .. Len(seq) : seq[i] \in T
    BY DEF Range
<1>2. seq = [i \in 1 .. Len(seq) |-> seq[i]] /\ Len(seq) \in Nat
    OBVIOUS
<1>3. QED BY <1>1, <1>2

LEMMA EndedJobs ==
    ASSUME NEW seq \in Channels, Over(seq) \subseteq Jobs PROVE seq \in Seq(Completed)
<1>1. seq \in Seq(Ended)
    BY DEF Channels
<1>2. Range(seq) \subseteq Ended
    BY <1>1 DEF Range
<1>3. Range(seq) \subseteq Completed
  <2> SUFFICES ASSUME NEW c \in Range(seq) PROVE c \in Completed
      OBVIOUS
  <2>1. c.job \in Jobs
      BY DEF Over
  <2>2. QED BY <2>1, <1>2 DEF Ended, Completed
<1>4. QED BY <1>1, <1>3, WithinRange

LEMMA Typed == ServerInv => TypeOK
<1> SUFFICES ASSUME ServerInv PROVE TypeOK
    OBVIOUS
<1>1. s \in Owners /\ Numbered(s) /\ Waiting(s) /\ Finished(s) /\ Queued(s) /\ Executed(s, running)
    BY DEF ServerInv, Sound, Good
<1>2. Jobs = Given(s) /\ Given(s) \subseteq Nat
    BY <1>1 DEF Jobs, Given, Owners
<1>3. /\ s.phase \in Phases /\ s.docs \in [Docs -> Nat] /\ s.shown \in [Docs -> Nat]
      /\ s.rev \in Nat /\ s.nextJob \in Nat /\ s.gen \in [Keys -> Nat]
      /\ s.tokens \in [Keys -> Nat] /\ s.pending \in Seq(Nat) /\ s.queue \in [Workers -> Lists]
      /\ s.completed \in Channels /\ s.deferred \in Channels /\ s.barriers \subseteq Promise
      /\ s.requests \in [Ids -> Nat] /\ s.reply \in [Ids -> Answers]
    BY <1>1 DEF Owners, Lists
<1>4. pc \in Steps /\ msgs \in 0 .. MaxMsgs /\ running \in [Workers -> Nat]
    BY DEF ServerInv
<1>5. running \in [Workers -> Jobs \union {0}]
  <2>1. \A w \in Workers : running[w] # 0 => running[w] \in Given(s)
      BY <1>1 DEF Executed, Numbered
  <2>2. QED BY <2>1, <1>2, <1>4
<1>6. s.docs \in [Docs -> 0 .. s.rev] /\ s.shown \in [Docs -> 0 .. s.rev]
  <2>1. \A d \in Docs : s.docs[d] <= s.rev /\ s.shown[d] <= s.rev
      BY <1>1 DEF Numbered
  <2>2. \A d \in Docs : s.docs[d] \in 0 .. s.rev /\ s.shown[d] \in 0 .. s.rev
      BY <2>1, <1>3
  <2>3. QED BY <2>2, <1>3
<1>7. s.tokens \in [Keys -> Jobs \union {0}] /\ s.requests \in [Ids -> Jobs \union {0}]
    BY <1>1, <1>2, <1>3 DEF Numbered
<1>8. \A j \in DOMAIN s.jobs : s.jobs[j] \in RequestMeta \union DiagnosticsMeta
    BY <1>1, JobMeta DEF Metas
<1>9. s.pending \in Seq(Jobs)
    BY <1>1, <1>2, <1>3, WithinRange DEF Numbered
<1>10. s.queue \in [Workers -> Seq(Jobs)]
  <2> SUFFICES ASSUME NEW w \in Workers PROVE s.queue[w] \in Seq(Jobs)
      BY <1>3
  <2>1. s.queue[w] \in Seq(Nat)
      BY <1>3 DEF Lists
  <2>2. Range(s.queue[w]) \subseteq Jobs
      BY <1>1, <1>2 DEF Queued, Numbered
  <2>3. QED BY <2>1, <2>2, WithinRange
<1>11. s.completed \in Seq(Completed) /\ s.deferred \in Seq(Completed)
  <2>1. Over(s.completed) \subseteq Jobs /\ Over(s.deferred) \subseteq Jobs
      BY <1>1, <1>2 DEF Finished, Numbered
  <2>2. QED BY <2>1, <1>3, EndedJobs
<1>12. /\ s.nextJob \in Nat \ {0} /\ DOMAIN s.jobs \subseteq Jobs /\ s.unfinished \subseteq Jobs
       /\ s.submitted \subseteq Jobs /\ s.cancelled \subseteq Jobs
    BY <1>1, <1>2, <1>3 DEF Numbered
<1>13. QED BY <1>3, <1>4, <1>5, <1>6, <1>7, <1>8, <1>9, <1>10, <1>11, <1>12
           DEF TypeOK, Steps, Phases, Answers, Promise

LEMMA Tracked == ASSUME ServerInv, StrictClient PROVE NeverAnsweredTwice /\ EveryDebtIsTracked
<1>1. Owes(s, {}) /\ Numbered(s)
    BY DEF ServerInv, Sound, Good
<1>2. NeverAnsweredTwice
    BY <1>1 DEF Owes, NeverAnsweredTwice
<1>3. ASSUME NEW id \in Ids
      PROVE  s.requests[id] # 0 <=> /\ s.requests[id] \in DOMAIN s.jobs
                                    /\ s.jobs[s.requests[id]].kind = "request"
                                    /\ s.jobs[s.requests[id]].id = id
  <2>1. 0 \notin DOMAIN s.jobs
      BY <1>1 DEF Numbered, Given
  <2>2. QED BY <1>1, <2>1 DEF Owes
<1>4. EveryDebtIsTracked
    BY <1>1, <1>3 DEF Owes, EveryDebtIsTracked
<1>5. QED BY <1>2, <1>4

LEMMA Room == ServerInv => NoWorkerBlocks
BY RoomFacts DEF ServerInv, NoWorkerBlocks

\* Whatever order messages, results and workers' steps come in, the owner's
\* tables, queues and trackers keep their types: no job number is used that
\* StartJob did not give out.
THEOREM TypeCorrect == Spec => []TypeOK
BY InductiveInvariant, Typed, PTL

\* A client that keeps to the protocol is answered at most once per request,
\* whichever of completion, cancellation, eviction, replacement and shutdown
\* comes first.
THEOREM AnsweredOnce == ASSUME StrictClient PROVE Spec => []NeverAnsweredTwice
<1>1. ServerInv => NeverAnsweredTwice
    BY Tracked
<1>2. QED BY <1>1, InductiveInvariant, PTL

\* As long as the owner runs, every answer it owes has a live job or a barrier
\* that stands for it, at any limit of the queues.
THEOREM DebtsTracked == ASSUME StrictClient PROVE Spec => []EveryDebtIsTracked
<1>1. ServerInv => EveryDebtIsTracked
    BY Tracked
<1>2. QED BY <1>1, InductiveInvariant, PTL

\* OUTSTANDING_WORK_CAPACITY is enough for the completion channel: a worker
\* that ends a job never waits for the owner to read a result.
THEOREM NeverBlocked == Spec => []NoWorkerBlocks
BY InductiveInvariant, Room, PTL

=============================================================================
