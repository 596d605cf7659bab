--------------------------- MODULE MatchPatterns ---------------------------
(***************************************************************************)
(* The exhaustiveness and reachability check of a match expression         *)
(* (nymph-sema/src/exhaustive.rs), beside what its patterns match when     *)
(* they run (the readings of infer_pattern.rs, stable_lowering.rs, emit.rs).*)
(*                                                                         *)
(* The check walks the arms once.  A scrutinee with a finite signature     *)
(* keeps a matrix of the unguarded arms and asks whether a row is useful   *)
(* against it; an int or uint keeps the intervals covered; every other     *)
(* type wants a catch-all.  A program is one scrutinee type and arms       *)
(* drawn from PatternsOf, all well typed: an ill-typed arm is an error of  *)
(* inference whatever this check says.  A grouped pattern is its inside.   *)
(***************************************************************************)
EXTENDS Integers, Sequences, SequencesExt, FiniteSets, FiniteSetsExt

CONSTANTS
    TypeOf,         \* type name -> [kind, ctors: sequence of [name, fields]]
    Scrutinees,     \* the types a match may be over
    PatternsOf,     \* scrutinee -> the patterns an arm may hold
    Lowest,         \* scalar kind -> least value of the line ("int", "uint")
    Highest,        \* scalar kind -> greatest value of the line
    Texts,          \* the strings there are, more than the patterns name
    MaxArms         \* bound: arms of a match

VARIABLES
    scrutinee,      \* the type matched over
    arms,           \* the arms read so far: [pattern, guarded]
    matrix,         \* rows of the unguarded arms
    ranges,         \* intervals the unguarded arms cover
    hasCatchAll,    \* an unguarded irrefutable arm was seen
    unreachable,    \* indices of the arms warned about
    verdict,        \* "checking", "exhaustive" or "refused"
    witness         \* at most one witness vector of the missing case

vars == <<scrutinee, arms, matrix, ranges, hasCatchAll, unreachable, verdict, witness>>

Kind(t) == TypeOf[t].kind
Structural == {"bool", "tuple", "struct", "enum"}
Numeric == {"int", "uint"}

Wild == [k |-> "wild"]
Bare(name) == [k |-> "bind", name |-> name, inner |-> Wild]

----------------------------------------------------------------------------
(* Types and their constructors.  A constructor is <<name>>, or for a      *)
(* scalar pattern a longer tuple that is its rendering.                    *)

TypeSignature(t) == [i \in DOMAIN TypeOf[t].ctors |-> <<TypeOf[t].ctors[i].name>>]

CtorFields(c, t) ==
    LET known == SelectSeq(TypeOf[t].ctors, LAMBDA d : <<d.name>> = c)
    IN IF known = <<>> THEN <<>> ELSE known[1].fields

CtorArity(c, t) == Len(CtorFields(c, t))
CtorSubTypes(c, t) == [i \in DOMAIN CtorFields(c, t) |-> CtorFields(c, t)[i].type]
CtorFieldNames(c, t) == [i \in DOMAIN CtorFields(c, t) |-> CtorFields(c, t)[i].name]

VariantIndex(t, name) == Kind(t) = "enum" /\ <<name>> \in ToSet(TypeSignature(t))

Wilds(n) == [i \in 1..n |-> Wild]

----------------------------------------------------------------------------
(* How the check reads a pattern.                                          *)

HWild == [h |-> "wild"]
HCon(c) == [h |-> "con", c |-> c]

RECURSIVE HeadCtor(_, _)
HeadCtor(p, t) ==
    CASE p.k = "wild" -> HWild
      [] p.k = "bind" /\ p.inner # Wild -> HeadCtor(p.inner, t)
      [] p.k = "bind" /\ p.inner = Wild ->
            IF VariantIndex(t, p.name) THEN HCon(<<p.name>>) ELSE HWild
      [] p.k = "or" -> [h |-> "or", a |-> p.a, b |-> p.b]
      [] p.k = "bool" -> HCon(<<p.b>>)
      [] p.k = "tuple" -> HCon(<<"single">>)
      [] p.k = "struct" -> IF Kind(t) = "struct" THEN HCon(<<"single">>)
                           ELSE IF VariantIndex(t, p.path) THEN HCon(<<p.path>>) ELSE HWild
      [] p.k = "lit" -> HCon(<<"lit", p.n>>)
      [] p.k = "range" -> HCon(<<"range", p.form, p.lo, p.hi>>)
      [] p.k = "text" -> HCon(<<"string">>)

FieldSubpattern(fields, name) ==
    LET own == SelectSeq(fields, LAMBDA f : f.f \in {"value", "named"} /\ f.name = name)
    IN IF own # <<>> /\ own[1].f = "value" THEN own[1].p ELSE Wild

\* The pattern under groupings and named bindings.
RECURSIVE Core(_)
Core(p) == IF p.k = "bind" /\ p.inner # Wild THEN Core(p.inner) ELSE p

\* A mutant: the columns a rest stands for come last.
CtorSubpatternsRestLast(pattern, c, t) ==
    LET p == Core(pattern)
        names == CtorFieldNames(c, t)
    IN CASE p.k = "tuple" ->
              p.front \o p.back \o Wilds(CtorArity(c, t) - Len(p.front) - Len(p.back))
         [] p.k = "struct" -> [i \in DOMAIN names |-> FieldSubpattern(p.fields, names[i])]
         [] OTHER -> Wilds(CtorArity(c, t))

CtorSubpatterns(pattern, c, t) ==
    LET p == Core(pattern)
        positional == IF p.k = "struct" THEN SelectSeq(p.fields, LAMBDA f : f.f = "positional")
                      ELSE <<>>
        names == CtorFieldNames(c, t)
    IN CASE p.k = "tuple" ->
              p.front \o Wilds(CtorArity(c, t) - Len(p.front) - Len(p.back)) \o p.back
         [] p.k = "struct" ->
              IF Len(names) = 1 /\ positional # <<>> THEN <<positional[1].p>>
              ELSE [i \in DOMAIN names |-> FieldSubpattern(p.fields, names[i])]
         [] OTHER -> Wilds(CtorArity(c, t))

RECURSIVE SpecializeRow(_, _, _)
\* A mutant: of two alternatives only the first is kept.
SpecializeRowFirst(row, c, t) ==
    LET head == HeadCtor(Head(row), t)
    IN CASE head.h = "or" -> SpecializeRow(<<head.a>> \o Tail(row), c, t)
         [] head.h = "wild" -> {Wilds(CtorArity(c, t)) \o Tail(row)}
         [] head.h = "con" -> IF head.c # c THEN {}
                              ELSE {CtorSubpatterns(Head(row), c, t) \o Tail(row)}

SpecializeRow(row, c, t) ==
    LET head == HeadCtor(Head(row), t)
    IN CASE head.h = "or" -> SpecializeRow(<<head.a>> \o Tail(row), c, t)
                               \cup SpecializeRow(<<head.b>> \o Tail(row), c, t)
         [] head.h = "wild" -> {Wilds(CtorArity(c, t)) \o Tail(row)}
         [] head.h = "con" -> IF head.c # c THEN {}
                              ELSE {CtorSubpatterns(Head(row), c, t) \o Tail(row)}

RECURSIVE DefaultRow(_, _)
DefaultRow(row, t) ==
    LET head == HeadCtor(Head(row), t)
    IN CASE head.h = "wild" -> {Tail(row)}
         [] head.h = "or" -> DefaultRow(<<head.a>> \o Tail(row), t)
                               \cup DefaultRow(<<head.b>> \o Tail(row), t)
         [] head.h = "con" -> {}

DefaultMatrix(m, t) == UNION {DefaultRow(row, t) : row \in m}

RECURSIVE HeadCtors(_, _)
HeadCtors(p, t) ==
    LET head == HeadCtor(p, t)
    IN CASE head.h = "con" -> {head.c}
         [] head.h = "or" -> HeadCtors(head.a, t) \cup HeadCtors(head.b, t)
         [] head.h = "wild" -> {}

ColumnCtors(m, t) == UNION {HeadCtors(Head(row), t) : row \in m}

\* A witness of a value: a constructor over witnesses, or anything.
AnyValue == [c |-> <<"_">>, sub |-> <<>>]
Applied(c, subs) == [c |-> c, sub |-> subs]

\* The witness for the column whose constructors the matrix does not exhaust.
HeadWitness(t, present) ==
    LET absent == SelectSeq(TypeSignature(t), LAMBDA c : c \notin present)
    IN IF absent = <<>> THEN AnyValue
       ELSE Applied(absent[1], [i \in 1..CtorArity(absent[1], t) |-> AnyValue])

\* The empty set, or the one witness vector of a value query matches and m does not.
RECURSIVE Useful(_, _, _), UsefulCtor(_, _, _, _)
Useful(m, query, types) ==
    IF query = <<>> THEN (IF m = {} THEN {<<>>} ELSE {})
    ELSE
    LET t == Head(types)
        head == HeadCtor(Head(query), t)
        present == ColumnCtors(m, t)
        complete == Kind(t) \in Structural /\ ToSet(TypeSignature(t)) \subseteq present
    IN CASE head.h = "or" ->
              LET left == Useful(m, <<head.a>> \o Tail(query), types)
              IN IF left # {} THEN left ELSE Useful(m, <<head.b>> \o Tail(query), types)
         [] head.h = "con" -> UsefulCtor(m, query, head.c, types)
         [] head.h = "wild" /\ complete ->
              LET tried == [i \in DOMAIN TypeSignature(t) |->
                              UsefulCtor(m, query, TypeSignature(t)[i], types)]
                  hits == SelectSeq(tried, LAMBDA w : w # {})
              IN IF hits = <<>> THEN {} ELSE hits[1]
         [] head.h = "wild" /\ ~complete ->
              {<<HeadWitness(t, present)>> \o w :
                  w \in Useful(DefaultMatrix(m, t), Tail(query), Tail(types))}

UsefulCtor(m, query, c, types) ==
    LET t == Head(types)
        arity == CtorArity(c, t)
        special == UNION {SpecializeRow(row, c, t) : row \in m}
    IN {<<Applied(c, SubSeq(w, 1, arity))>> \o SubSeq(w, arity + 1, Len(w)) :
          w \in UNION {Useful(special, q, CtorSubTypes(c, t) \o Tail(types)) :
                         q \in SpecializeRow(query, c, t)}}

----------------------------------------------------------------------------
(* The intervals of an int or uint arm.                                    *)

\* The bound below an exclusive one: saturating for int, none below 0 for uint.
Below(n, t) ==
    IF n > Lowest[Kind(t)] THEN {n - 1} ELSE IF Kind(t) = "int" THEN {n} ELSE {}

RangeBounds(p, t) ==
    LET low == Lowest[Kind(t)]
        high == Highest[Kind(t)]
    IN CASE p.form = "from" -> {<<p.lo, high>>}
         [] p.form = "to" -> {<<low, h>> : h \in Below(p.hi, t)}
         [] p.form = "toInclusive" -> {<<low, p.hi>>}
         [] p.form = "exclusive" -> {<<p.lo, h>> : h \in Below(p.hi, t)}
         [] p.form = "inclusive" -> {<<p.lo, p.hi>>}

RECURSIVE IsIrrefutable(_), CoversAll(_), Cover(_, _)
\* Covering everything by shape, the one pattern check_catch_all accepts.
IsIrrefutable(p) == p.k = "wild" \/ (p.k = "bind" /\ IsIrrefutable(p.inner))
CoversAll(p) ==
    \/ IsIrrefutable(p)
    \/ Core(p).k = "or" /\ (CoversAll(Core(p).a) \/ CoversAll(Core(p).b))
Cover(pattern, t) ==
    LET p == Core(pattern)
    IN CASE p.k = "or" -> Cover(p.a, t) \cup Cover(p.b, t)
         [] p.k = "lit" -> {<<p.n, p.n>>}
         [] p.k = "range" -> {r \in RangeBounds(p, t) : r[1] <= r[2]}
         [] OTHER -> {}

\* Sweep the intervals in order of their low ends, without a gap.
CoversLine(rs, t) ==
    LET high == Highest[Kind(t)]
        sweep(reach, r) == IF reach = high \/ r[1] > reach + 1 \/ r[2] < reach THEN reach ELSE r[2]
        inOrder == SetToSortSeq(rs, LAMBDA a, b : a[1] < b[1])
    IN FoldLeft(sweep, Lowest[Kind(t)] - 1, inOrder) = high

----------------------------------------------------------------------------
(* What a pattern matches when it runs.                                    *)

RECURSIVE Values(_)
Values(t) ==
    CASE Kind(t) \in Numeric ->
           {[c |-> <<"lit", n>>, sub |-> <<>>] : n \in Lowest[Kind(t)]..Highest[Kind(t)]}
      [] Kind(t) = "text" -> {[c |-> <<"text", s>>, sub |-> <<>>] : s \in Texts}
      [] OTHER ->
           UNION {LET types == CtorSubTypes(c, t)
                      all == UNION {Values(types[i]) : i \in DOMAIN types}
                  IN {[c |-> c, sub |-> subs] :
                        subs \in {s \in [DOMAIN types -> all] :
                                    \A i \in DOMAIN types : s[i] \in Values(types[i])}}
                  : c \in ToSet(TypeSignature(t))}

ValuesOf == [t \in Scrutinees |-> Values(t)]

\* A bare name is a constructor only when it names a variant without fields.
NullaryVariant(name, t) == VariantIndex(t, name) /\ CtorArity(<<name>>, t) = 0

CtorOf(p) == IF p.k = "struct" THEN <<p.path>> ELSE <<"single">>

\* A bare name among the fields of a constructor of one field, none of whose
\* fields it names, is a pattern of its own against that field.
PositionalName(f, c, t) == f.f = "named" /\ f.name \notin ToSet(CtorFieldNames(c, t))

\* Where the sub-patterns of a tuple or struct pattern apply: <<column, pattern>>.
Placed(p, t) ==
    IF p.k = "tuple"
    THEN {<<i, p.front[i]>> : i \in DOMAIN p.front}
           \cup {<<CtorArity(CtorOf(p), t) - Len(p.back) + j, p.back[j]>> : j \in DOMAIN p.back}
    ELSE {CASE f.f = "positional" -> <<1, f.p>>
            [] PositionalName(f, CtorOf(p), t) -> <<1, Bare(f.name)>>
            [] f.f = "value" -> <<SelectInSeq(CtorFieldNames(CtorOf(p), t),
                                              LAMBDA n : n = f.name), f.p>>
            [] f.f = "named" -> <<SelectInSeq(CtorFieldNames(CtorOf(p), t),
                                              LAMBDA n : n = f.name), Wild>>
          : f \in {g \in ToSet(p.fields) : g.f # "rest"}}

InRange(n, p) ==
    CASE p.form = "from" -> n >= p.lo
      [] p.form = "to" -> n < p.hi
      [] p.form = "toInclusive" -> n <= p.hi
      [] p.form = "exclusive" -> p.lo <= n /\ n < p.hi
      [] p.form = "inclusive" -> p.lo <= n /\ n <= p.hi

RECURSIVE Matches(_, _, _)
Matches(p, t, v) ==
    CASE p.k = "wild" -> TRUE
      [] p.k = "bind" /\ p.inner # Wild -> Matches(p.inner, t, v)
      [] p.k = "bind" /\ p.inner = Wild -> NullaryVariant(p.name, t) => v.c = <<p.name>>
      [] p.k = "or" -> Matches(p.a, t, v) \/ Matches(p.b, t, v)
      [] p.k = "bool" -> v.c = <<p.b>>
      [] p.k = "lit" -> v.c[2] = p.n
      [] p.k = "range" -> InRange(v.c[2], p)
      [] p.k = "text" -> v.c[2] = p.s
      [] p.k \in {"tuple", "struct"} ->
            /\ v.c = CtorOf(p)
            /\ \A x \in Placed(p, t) : Matches(x[2], CtorSubTypes(v.c, t)[x[1]], v.sub[x[1]])

\* The arm the emitted code runs for v when the guards in passing hold, or 0.  The
\* last arm is emitted without its test when it has no guard: the check answers for it.
Selected(program, v, passing) ==
    LET last == Len(program)
        taken(i) == /\ program[i].guarded => i \in passing
                    /\ \/ i = last /\ ~program[i].guarded
                       \/ Matches(program[i].pattern, scrutinee, v)
        hits == {i \in 1..last : taken(i)}
    IN IF hits = {} THEN 0 ELSE Min(hits)

----------------------------------------------------------------------------
(* The check: one step per arm, and one at the end of the arms.            *)

Checked(p, guarded) == arms' = Append(arms, [pattern |-> p, guarded |-> guarded])

Init ==
    /\ scrutinee \in Scrutinees
    /\ arms = <<>> /\ matrix = {} /\ ranges = {} /\ hasCatchAll = FALSE
    /\ unreachable = {} /\ verdict = "checking" /\ witness = {}

NextArm(kinds) == verdict = "checking" /\ Kind(scrutinee) \in kinds /\ Len(arms) < MaxArms
EndOfArms(kinds) == verdict = "checking" /\ Kind(scrutinee) \in kinds

\* A mutant: a guarded arm counts as if its guard held.
UsefulnessArmIgnoringGuard(p, guarded) ==
    /\ NextArm(Structural)
    /\ Checked(p, guarded)
    /\ unreachable' = IF Useful(matrix, <<p>>, <<scrutinee>>) = {}
                      THEN unreachable \cup {Len(arms) + 1} ELSE unreachable
    /\ matrix' = matrix \cup {<<p>>}
    /\ UNCHANGED <<scrutinee, ranges, hasCatchAll, verdict, witness>>

\* usefulness_check: warn of a useless arm, keep an unguarded one.
UsefulnessArm(p, guarded) ==
    /\ NextArm(Structural)
    /\ Checked(p, guarded)
    /\ unreachable' = IF Useful(matrix, <<p>>, <<scrutinee>>) = {}
                      THEN unreachable \cup {Len(arms) + 1} ELSE unreachable
    /\ matrix' = IF guarded THEN matrix ELSE matrix \cup {<<p>>}
    /\ UNCHANGED <<scrutinee, ranges, hasCatchAll, verdict, witness>>

UsefulnessEnd ==
    /\ EndOfArms(Structural)
    /\ witness' = Useful(matrix, <<Wild>>, <<scrutinee>>)
    /\ verdict' = IF witness' = {} THEN "exhaustive" ELSE "refused"
    /\ UNCHANGED <<scrutinee, arms, matrix, ranges, hasCatchAll, unreachable>>

\* check_int_match, check_uint_match: an unguarded catch-all ends the check.
IntervalArm(p, guarded) ==
    /\ NextArm(Numeric)
    /\ Checked(p, guarded)
    /\ verdict' = IF ~guarded /\ CoversAll(p) THEN "exhaustive" ELSE verdict
    /\ ranges' = IF guarded THEN ranges ELSE ranges \cup Cover(p, scrutinee)
    /\ UNCHANGED <<scrutinee, matrix, hasCatchAll, unreachable, witness>>

IntervalEnd ==
    /\ EndOfArms(Numeric)
    /\ verdict' = IF CoversLine(ranges, scrutinee) THEN "exhaustive" ELSE "refused"
    /\ UNCHANGED <<scrutinee, arms, matrix, ranges, hasCatchAll, unreachable, witness>>

\* check_catch_all: a second catch-all is the one arm it calls unreachable.
CatchAllArm(p, guarded) ==
    /\ NextArm({"text"})
    /\ Checked(p, guarded)
    /\ LET catches == ~guarded /\ IsIrrefutable(p)
       IN /\ unreachable' = IF catches /\ hasCatchAll
                            THEN unreachable \cup {Len(arms) + 1} ELSE unreachable
          /\ hasCatchAll' = (hasCatchAll \/ catches)
    /\ UNCHANGED <<scrutinee, matrix, ranges, verdict, witness>>

CatchAllEnd ==
    /\ EndOfArms({"text"})
    /\ verdict' = IF hasCatchAll THEN "exhaustive" ELSE "refused"
    /\ UNCHANGED <<scrutinee, arms, matrix, ranges, hasCatchAll, unreachable, witness>>

Next ==
    \/ \E p \in PatternsOf[scrutinee], guarded \in BOOLEAN :
          UsefulnessArm(p, guarded) \/ IntervalArm(p, guarded) \/ CatchAllArm(p, guarded)
    \/ UsefulnessEnd
    \/ IntervalEnd
    \/ CatchAllEnd

Spec == Init /\ [][Next]_vars

----------------------------------------------------------------------------
(* Properties.                                                             *)

\* Every variable keeps its type.
TypeOK ==
    /\ scrutinee \in Scrutinees
    /\ Len(arms) <= MaxArms
    /\ \A i \in DOMAIN arms : arms[i].pattern \in PatternsOf[scrutinee]
    /\ matrix \subseteq {<<p>> : p \in PatternsOf[scrutinee]}
    /\ ranges \subseteq {<<lo, hi>> : lo, hi \in -8..8}
    /\ hasCatchAll \in BOOLEAN /\ unreachable \subseteq DOMAIN arms
    /\ verdict \in {"checking", "exhaustive", "refused"}
    /\ Cardinality(witness) <= 1

\* A pattern and all the patterns in it: <<pattern, its type, is it nested>>.
RECURSIVE Parts(_, _, _)
Parts(p, t, nested) ==
    {<<p, t, nested>>} \cup
    CASE p.k = "bind" -> Parts(p.inner, t, nested)
      [] p.k = "or" -> Parts(p.a, t, nested) \cup Parts(p.b, t, nested)
      [] p.k \in {"tuple", "struct"} ->
            UNION {Parts(x[2], CtorSubTypes(CtorOf(p), t)[x[1]], TRUE) : x \in Placed(p, t)}
      [] OTHER -> {}

AllParts == UNION {Parts(arms[i].pattern, scrutinee, FALSE) : i \in DOMAIN arms}

\* The check takes `Some(None)` for `Some(_)`: a nullary variant as the sole field.
NamesInsideVariants ==
    \E x \in AllParts :
        x[1].k = "struct" /\ \E f \in ToSet(x[1].fields) :
            /\ PositionalName(f, CtorOf(x[1]), x[2])
            /\ NullaryVariant(f.name, CtorSubTypes(CtorOf(x[1]), x[2])[1])

\* The check takes the empty int range that ends before the least int for that int.
EmptyRangeAtMinimum ==
    \E x \in AllParts : /\ Kind(x[2]) = "int" /\ x[1].k = "range"
                        /\ x[1].form \in {"to", "exclusive"} /\ x[1].hi = Lowest["int"]

\* The check takes the bare name of a variant with fields, a binding, for that variant.
NameOfPayloadVariant ==
    \E x \in AllParts : /\ x[1].k = "bind" /\ x[1].inner = Wild
                        /\ VariantIndex(x[2], x[1].name) /\ ~NullaryVariant(x[1].name, x[2])

\* Inside another pattern a range or a string is one opaque constructor.
OpaqueInside == \E x \in AllParts : x[3] /\ x[1].k \in {"range", "text"}

Unguarded(n) == {i \in 1..n : ~arms[i].guarded}

\* Where a type wants a catch-all, an alternative with a wildcard is not taken for one.
CatchAllInAlternative ==
    Kind(scrutinee) = "text" /\ \E i \in Unguarded(Len(arms)) :
        CoversAll(arms[i].pattern) /\ ~IsIrrefutable(arms[i].pattern)

MatchedBy(is) == {v \in ValuesOf[scrutinee] :
                    \E i \in is : Matches(arms[i].pattern, scrutinee, v)}
Missing == ValuesOf[scrutinee] \ MatchedBy(Unguarded(Len(arms)))

\* Whatever its guards say, an accepted match runs an arm that matches its value, though
\* its last arm is emitted without a test; the two misreadings that cover too much
\* apart: Some(None) taken for Some(_), and an int range ending before the least int.
RunsAMatchingArm ==
    verdict = "exhaustive" /\ ~NamesInsideVariants /\ ~EmptyRangeAtMinimum =>
    \A v \in ValuesOf[scrutinee], passing \in SUBSET DOMAIN arms :
        LET i == Selected(arms, v, passing)
        IN i # 0 /\ Matches(arms[i].pattern, scrutinee, v)

RECURSIVE Denotes(_, _)
Denotes(w, v) ==
    w.c = <<"_">> \/ (w.c = v.c /\ \A i \in DOMAIN w.sub : Denotes(w.sub[i], v.sub[i]))

\* A match, of whatever type, is refused only when a value is missing, and the witness
\* the error names denotes one; but for three misreadings that cover too little: the
\* bare name of a payload variant taken for the variant, a range or a string inside
\* another pattern, and an alternative with a wildcard over a string.
RefusalNamesMissing ==
    verdict = "refused" /\ ~NameOfPayloadVariant /\ ~OpaqueInside /\ ~CatchAllInAlternative
    => /\ Missing # {}
       /\ \A w \in witness : \E v \in Missing : Denotes(w[1], v)

\* An arm is called unreachable exactly when the unguarded arms before it take every
\* value it matches (in the types with a signature; elsewhere only if they do).
UnreachableIsDead ==
    verdict # "checking" /\ ~NamesInsideVariants /\ ~NameOfPayloadVariant /\ ~OpaqueInside =>
    \A i \in DOMAIN arms :
        LET dead == MatchedBy({i}) \subseteq MatchedBy(Unguarded(i - 1))
        IN /\ i \in unreachable => dead
           /\ dead /\ Kind(scrutinee) \in Structural => i \in unreachable

\* The check "reasons about `Ok(Error(e))` versus `Ok(Ok(x))` rather than only the
\* outer variant": an accepted match of a type with a signature misses no value.
NestedVariantsAreRead ==
    verdict = "exhaustive" /\ Kind(scrutinee) \in Structural => Missing = {}
=============================================================================
