---------------------------- MODULE RangeAnalysis ----------------------------
(***************************************************************************)
(* The range analysis of the checker: it walks a function body once and    *)
(* decides of every arithmetic operation, conversion, index and slice      *)
(* whether it is safe (the generated code omits the runtime check),        *)
(* invalid (a compile error) or unknown (checked at run time).             *)
(*                                                                         *)
(* A behaviour unfolds a program one construct at a time. Beside the       *)
(* analyzer runs one execution of the same program on some arguments, so   *)
(* that a decision stands next to what the operation really does. An       *)
(* expression has one operator; longer ones are built with let. The value  *)
(* of a list is its length, that of a record what its length() returns.    *)
(***************************************************************************)
EXTENDS Integers, Sequences, FiniteSets

CONSTANTS
    Names, TypeOf,                 \* variables, each with a type
    IntMax,                        \* i64::MAX
    HostIndexMax, Width,           \* the longest collection, the bits of an integer
    ExponentMax,                   \* u32::MAX
    Arguments,                     \* what each name may be when the execution begins
    Targets, Binders,              \* names that a let or a binder introduces
    Singles, Doubles,              \* operands of unary and of binary constructs
    Operators, Conditions, Lengths,\* operators, conditions and list literals
    Shapes                         \* what kinds of construct a program is a sequence of

IntMin == -IntMax - 1
UintMax == 2 * IntMax + 1
WideMax == 2 * (IntMax + 1) * (IntMax + 1) - 1    \* i128::MAX
WideMin == -WideMax - 1

IntegerNames == {n \in Names : TypeOf[n] \in {"int", "uint"}}
Lists == {n \in Names : TypeOf[n] = "list"}
Records == {n \in Names : TypeOf[n] = "record"}

Bounds(type) ==
    CASE type = "int" -> <<IntMin, IntMax>>
      [] type = "uint" -> <<0, UintMax>>
      [] type = "list" -> <<0, HostIndexMax>>
      [] type = "record" -> <<IntMin, IntMax>>
In(x, interval) == interval[1] <= x /\ x <= interval[2]

\* What the constants may be. A length is an operand of conditions only, and
\* there only that of a list; a negation elsewhere is a let of its own.
IsOperand(a) ==
    /\ a.sign \in {1, -1} /\ a.kind \in {"literal", "name", "length"} /\ a.value \in IntMin .. UintMax
    /\ a.kind # "literal" => a.name \in Names
    /\ a.kind = "length" => a.name \in Lists
Plain(a) == IsOperand(a) /\ a.sign = 1
IsCondition(c) ==
    /\ Len(c) \in {1, 2} /\ DOMAIN c = 1 .. Len(c)
    /\ \A i \in DOMAIN c : /\ IsOperand(c[i].left) /\ IsOperand(c[i].right)
                           /\ c[i].op \in {"<", "<=", ">", ">=", "==", "!="}

ASSUME TypesAssumption ==
    /\ \A n \in Names : TypeOf[n] \in {"int", "uint", "list", "record"}
    /\ IntMax \in Nat \ {0} /\ HostIndexMax \in 0 .. UintMax /\ Width \in Nat \ {0} /\ ExponentMax \in Nat
ASSUME ProgramsAssumption ==
    /\ \A n \in Names : Arguments[n] \subseteq Bounds(TypeOf[n])[1] .. Bounds(TypeOf[n])[2]
    /\ Targets \subseteq Names /\ Binders \subseteq Names /\ Lengths \subseteq 0 .. HostIndexMax
    /\ Operators \subseteq {"+", "-", "*", "%", "^", "<<", ">>"}
    /\ \A a \in Singles : Plain(a)
    /\ \A p \in Doubles : Plain(p[1]) /\ Plain(p[2])
    /\ \A c \in Conditions : IsCondition(c)

VARIABLES
    known,             \* the value each name stands for: Analyzer::scopes
    pairs,             \* Analyzer::pair_bounds
    wiped,             \* lengths were dropped since the innermost frame opened
    env, reached,      \* the execution, and whether it is at this point of the program
    halted,            \* it panicked
    frames,            \* open branches, loops and binders, and what they restore
    proof,             \* the last proof and what the execution did there
    confused,          \* the analyzer was misled (see the end of the module)
    shape              \* what is left of the program

analyzer == <<known, pairs, wiped>>
execution == <<env, reached, halted>>
vars == <<analyzer, execution, frames, proof, confused, shape>>

-----------------------------------------------------------------------------
(* Values and operands.                                                    *)

None == <<>>
Value(interval, length, nonzero, symbol) ==
    [interval |-> interval, length |-> length, nonzero |-> nonzero, symbol |-> symbol]
Unknown == Value(None, None, FALSE, None)
Interval(min, max) == Value(<<min, max>>, None, min > 0 \/ max < 0, None)
Symbol(n) == <<n>>
LengthSymbol(n) == <<"length", n>>

\* What a free name is when it is first met, and a name the analyzer has not met.
Declared(n) ==
    LET value == IF n \in IntegerNames THEN Interval(Bounds(TypeOf[n])[1], Bounds(TypeOf[n])[2])
                 ELSE Unknown
    IN  [value EXCEPT !.symbol = Symbol(n)]

\* An operand is a literal, a name or the length of a name, perhaps negated.
Literal(k) == [sign |-> 1, kind |-> "literal", value |-> k, name |-> ""]
Name(n) == [sign |-> 1, kind |-> "name", value |-> 0, name |-> n]
Length(n) == [sign |-> 1, kind |-> "length", value |-> 0, name |-> n]
HasType(a, type) ==
    /\ type \in {"int", "uint"}
    /\ IF a.kind = "literal" THEN In(a.value, Bounds(type)) ELSE TypeOf[a.name] = type

Integer(a) == HasType(a, "int") \/ HasType(a, "uint")

\* An integer of an interval that grew beyond 128 bits, in a build that does not
\* check for overflow.
Wide == WideMin .. WideMax
Wrapped(x) == IF x \in Wide THEN x ELSE ((x - WideMin) % (2 * WideMax + 2)) + WideMin

Negation(v) ==
    IF v.interval = None THEN Unknown ELSE Interval(Wrapped(-v.interval[2]), Wrapped(-v.interval[1]))

LengthOf(k, n) ==
    IF k[n].length # None THEN Interval(k[n].length[1], k[n].length[1])
    ELSE [Interval(0, HostIndexMax) EXCEPT !.symbol = LengthSymbol(n)]

Eval(k, a) ==
    LET v == CASE a.kind = "literal" -> Interval(a.value, a.value)
               [] a.kind = "name" -> k[a.name]
               [] a.kind = "length" -> LengthOf(k, a.name)
    IN  IF a.sign = 1 THEN v ELSE Negation(v)

\* A call drops the exact lengths of everything in scope.
Calls(a) == a.kind = "length"
Wipe(k) == [n \in Names |-> [k[n] EXCEPT !.length = None]]
After(k, operands) == IF \E a \in operands : Calls(a) THEN Wipe(k) ELSE k

Concrete(e, a) == a.sign * (IF a.kind = "literal" THEN a.value ELSE e[a.name])

SymbolOf(a) ==
    CASE a.kind = "literal" -> None
      [] a.kind = "name" -> Symbol(a.name)
      [] a.kind = "length" -> LengthSymbol(a.name)

Exact(v) == v.interval # None /\ v.interval[1] = v.interval[2]

-----------------------------------------------------------------------------
(* Arithmetic. Intervals are of 128 bits, and most operations saturate.      *)

Least(S) == CHOOSE x \in S : \A y \in S : x <= y
Greatest(S) == CHOOSE x \in S : \A y \in S : y <= x
Power(x, n) == LET power[k \in Nat] == IF k = 0 THEN 1 ELSE x * power[k - 1] IN power[n]

Saturated(x) == IF x < WideMin THEN WideMin ELSE IF x > WideMax THEN WideMax ELSE x
Between(min, max) == Interval(Saturated(min), Saturated(max))
Hull(S) == Between(Least(S), Greatest(S))

\* A shift to the left drops the bits that leave the interval. A count is negative
\* when nothing is possible of it (see Vacuous): then the left shift saturates, the
\* right shift takes it modulo the bits of an interval.
ShiftLeft(x, n) ==
    IF n >= 0 THEN Wrapped(x * Power(2, n)) ELSE IF x < 0 THEN WideMin ELSE WideMax
ShiftRight(x, n) == x \div Power(2, IF n >= 0 THEN n ELSE n % (2 * Width))

ArithmeticInterval(op, left, right) ==
    LET a == left.interval
        b == right.interval
    IN  IF a = None \/ b = None THEN Unknown
        ELSE CASE op = "+" -> Between(a[1] + b[1], a[2] + b[2])
               [] op = "-" -> Between(a[1] - b[2], a[2] - b[1])
               [] op = "*" -> Hull({a[1] * b[1], a[1] * b[2], a[2] * b[1], a[2] * b[2]})
               [] op \in {"/", "%"} -> Interval(a[1], a[2])
               [] op = "^" /\ b[1] = b[2] /\ b[1] \in 0 .. ExponentMax ->
                    Hull({Power(a[1], b[1]), Power(a[2], b[1]), Power(0, b[1])})
               [] op = "<<" /\ b[1] >= 0 /\ b[2] < Width -> Interval(ShiftLeft(a[1], b[2]), ShiftLeft(a[2], b[2]))
               [] op = ">>" /\ b[1] >= 0 /\ b[2] < Width ->
                    Interval(ShiftRight(a[1], b[2]), ShiftRight(a[2], b[1]))
               [] OTHER -> Unknown

\* A mutant: touching the end of the range is being outside of it.
FitTouching(interval, target) ==
    IF interval = None \/ target = None THEN "Unknown"
    ELSE IF interval[1] >= target[1] /\ interval[2] <= target[2] THEN "Safe"
    ELSE IF interval[2] <= target[1] \/ interval[1] >= target[2] THEN "Invalid"
    ELSE "Unknown"

Fit(interval, target) ==
    IF interval = None \/ target = None THEN "Unknown"
    ELSE IF interval[1] >= target[1] /\ interval[2] <= target[2] THEN "Safe"
    ELSE IF interval[2] < target[1] \/ interval[1] > target[2] THEN "Invalid"
    ELSE "Unknown"

Classify(op, right, result, target) ==
    LET b == right.interval
        fit == Fit(result.interval, target)
    IN  CASE op \in {"/", "%"} ->
               IF b = <<0, 0>> THEN "Invalid" ELSE IF ~right.nonzero THEN "Unknown" ELSE fit
          [] op \in {"<<", ">>"} ->
               IF b = None THEN "Unknown"
               ELSE IF b[1] >= 0 /\ b[2] < Width THEN fit
               ELSE IF b[2] < 0 \/ b[1] >= Width THEN "Invalid" ELSE "Unknown"
          [] op = "^" ->
               IF b = None THEN "Unknown"
               ELSE IF b[2] < 0 THEN "Invalid" ELSE IF b[1] < 0 THEN "Unknown" ELSE fit
          [] OTHER -> fit

Combine(S) ==
    IF "Invalid" \in S THEN "Invalid" ELSE IF "Unknown" \in S THEN "Unknown" ELSE "Safe"

Join(v, w) ==
    [interval |-> IF v.interval = None \/ w.interval = None THEN None
                  ELSE <<Least({v.interval[1], w.interval[1]}), Greatest({v.interval[2], w.interval[2]})>>,
     length |-> IF v.length = w.length THEN v.length ELSE None,
     nonzero |-> v.nonzero /\ w.nonzero,
     symbol |-> None]

-----------------------------------------------------------------------------
(* What a condition teaches.                                               *)

\* A mutant: the else branch learns what the then branch does.
HoldingEither(op, truth) == op

\* The comparison that holds when `op` has this truth.
Holding(op, truth) ==
    IF truth THEN op
    ELSE CASE op = "<" -> ">=" [] op = ">=" -> "<" [] op = "<=" -> ">" [] op = ">" -> "<="
           [] op = "==" -> "!=" [] op = "!=" -> "=="

Narrow(v, op, x) ==
    LET min == v.interval[1]
        max == v.interval[2]
    IN  CASE op = "<" -> [v EXCEPT !.interval = <<min, Least({max, Wrapped(x - 1)})>>]
          [] op = "<=" -> [v EXCEPT !.interval = <<min, Least({max, x})>>]
          [] op = ">" -> [v EXCEPT !.interval = <<Greatest({min, Wrapped(x + 1)}), max>>]
          [] op = ">=" -> [v EXCEPT !.interval = <<Greatest({min, x}), max>>]
          [] op = "!=" /\ x = 0 -> [v EXCEPT !.nonzero = TRUE]
          [] OTHER -> v

\* leftSign * left + rightSign * right <= upper
PairBound(c, op) ==
    LET bound(left, right, upper) ==
            {[left |-> SymbolOf(c.left), leftSign |-> left * c.left.sign,
              right |-> SymbolOf(c.right), rightSign |-> right * c.right.sign, upper |-> upper]}
    IN  CASE op = "<" -> bound(1, -1, -1)
          [] op = "<=" -> bound(1, -1, 0)
          [] op = ">" -> bound(-1, 1, -1)
          [] op = ">=" -> bound(-1, 1, 0)
          [] OTHER -> {}

Related(c) == SymbolOf(c.left) # None /\ SymbolOf(c.right) # None

Refine(view, c, truth) ==
    LET op == Holding(c.op, truth)
        right == Eval(view.known, c.right)
        known1 == After(view.known, {c.right})
        n == c.left.name
    IN  IF Related(c) THEN [known |-> known1, pairs |-> view.pairs \cup PairBound(c, op)]
        ELSE IF /\ c.left.kind = "name" /\ c.left.sign = 1
                /\ Exact(right) /\ known1[n].interval # None
             THEN [known |-> [known1 EXCEPT ![n] = Narrow(@, op, right.interval[1])],
                   pairs |-> view.pairs]
             ELSE [known |-> known1, pairs |-> view.pairs]

\* A condition is one comparison, or two joined by `&&`: only the truth of a
\* conjunction teaches anything.
RefineAll(view, condition, truth) ==
    IF Len(condition) = 1 THEN Refine(view, condition[1], truth)
    ELSE IF truth THEN Refine(Refine(view, condition[1], TRUE), condition[2], TRUE)
    ELSE [view EXCEPT !.known = After(@, {condition[2].left, condition[2].right})]

OperandsOf(condition) ==
    {condition[i].left : i \in DOMAIN condition} \cup {condition[i].right : i \in DOMAIN condition}

Compare(x, op, y) ==
    CASE op = "<" -> x < y [] op = "<=" -> x <= y [] op = ">" -> x > y [] op = ">=" -> x >= y
      [] op = "==" -> x = y [] op = "!=" -> x # y

Holds(e, condition) ==
    \A i \in DOMAIN condition :
        Compare(Concrete(e, condition[i].left), condition[i].op, Concrete(e, condition[i].right))

-----------------------------------------------------------------------------
(* Collections.                                                            *)

HasPair(v, sign, collection, upper) ==
    \E p \in pairs :
        /\ p.left = v.symbol /\ p.leftSign = sign
        /\ p.right = LengthSymbol(collection.symbol[1]) /\ p.rightSign = -1
        /\ p.upper <= upper

\* A symbol of a name; a length has one too, but no collection does.
Symbolic(v, collection) ==
    v.symbol # None /\ v.interval # None /\ collection.symbol # None

ClassifyIndex(v, collection) ==
    LET a == v.interval
        length == collection.length
    IN  IF length # None THEN Fit(a, <<-length[1], length[1] - 1>>)
        ELSE IF /\ Symbolic(v, collection)
                /\ \/ a[1] >= 0 /\ HasPair(v, 1, collection, -1)
                   \/ a[2] <= -1 /\ HasPair(v, -1, collection, 0)
             THEN "Safe" ELSE "Unknown"

LastIndex(length, inclusive) == IF inclusive THEN length - 1 ELSE length

ClassifyBound(v, collection, inclusive) ==
    LET a == v.interval
        length == collection.length
        top == IF inclusive THEN -1 ELSE 0
    IN  IF length # None THEN Fit(a, <<-length[1], LastIndex(length[1], inclusive)>>)
        ELSE IF /\ Symbolic(v, collection)
                /\ a[1] >= 0 \/ HasPair(v, -1, collection, 0)
                /\ a[2] < 0 \/ HasPair(v, 1, collection, top)
             THEN "Safe" ELSE "Unknown"

-----------------------------------------------------------------------------
(* Proofs. The evidence is what RangeProof::audit replays, in its order.   *)

Shown(interval) == IF interval = None THEN <<>> ELSE <<interval>>

Evidence(operation, decision, intervals, target) ==
    [operation |-> operation, decision |-> decision,
     intervals |-> intervals, target |-> target,
     excluded |-> FALSE, length |-> None, pairs |-> {}, bounds |-> {}]

OperationOf(op) ==
    CASE op \in {"+", "-", "*"} -> "Arithmetic" [] op = "/" -> "Division" [] op = "%" -> "Remainder"
      [] op = "^" -> "Power" [] op \in {"<<", ">>"} -> "Shift"

At(s, i) == IF i \in DOMAIN s THEN s[i] ELSE None
Final(s) == At(s, Len(s))

Replay(p) ==
    LET second == At(p.intervals, 2)
        last == Fit(Final(p.intervals), p.target)
        first == At(p.intervals, 1)
    IN  CASE p.operation = "Arithmetic" -> last
          [] p.operation = "Conversion" -> Fit(first, p.target)
          [] p.operation \in {"Division", "Remainder"} ->
               IF second = <<0, 0>> THEN "Invalid" ELSE IF p.excluded THEN "Safe" ELSE "Unknown"
          [] p.operation = "Shift" ->
               IF second = None THEN "Unknown"
               ELSE IF second[2] < 0 \/ second[1] >= Width THEN "Invalid"
               ELSE IF second[1] >= 0 /\ second[2] < Width THEN last ELSE "Unknown"
          [] p.operation = "Power" ->
               IF second = None THEN "Unknown"
               ELSE IF second[2] < 0 THEN "Invalid" ELSE IF second[1] >= 0 THEN last ELSE "Unknown"
          [] p.operation = "Index" ->
               LET byLength == IF p.length = None THEN "Unknown"
                               ELSE Fit(first, <<-p.length[1], p.length[1] - 1>>)
               IN  IF first = None THEN "Unknown"
                   ELSE IF \E b \in p.pairs : IF b.leftSign = 1 THEN first[1] >= 0 ELSE first[2] <= -1
                        THEN "Safe" ELSE byLength
          [] p.operation = "Slice" ->
               IF p.bounds = {} THEN "Unknown"
               ELSE Combine({IF p.length # None
                                THEN Fit(b.interval, <<-p.length[1], LastIndex(p.length[1], b.inclusive)>>)
                             ELSE IF (b.interval[1] >= 0 \/ b.lower) /\ (b.interval[2] < 0 \/ b.upper)
                                THEN "Safe" ELSE "Unknown" : b \in p.bounds})

Audit(p) == p.decision = "Unknown" \/ Replay(p) = p.decision

\* What the execution does at an operation: nothing where it does not come by.
Outcome(fails) == IF ~reached THEN "absent" ELSE IF fails THEN "fails" ELSE "succeeds"
NoProof == [decision |-> "Unknown", audit |-> TRUE, vacuous |-> FALSE, outcome |-> "absent"]

\* Refinements that contradict each other, or lost bits, leave an interval with nothing in it.
Vacuous(intervals) == \E i \in DOMAIN intervals : intervals[i][1] > intervals[i][2]

-----------------------------------------------------------------------------
(* The execution.                                                          *)

Quotient(x, y) ==
    LET q == (IF x < 0 THEN -x ELSE x) \div (IF y < 0 THEN -y ELSE y)
    IN  IF (x < 0) = (y < 0) THEN q ELSE -q

Apply(op, x, y) ==
    CASE op = "+" -> x + y [] op = "-" -> x - y [] op = "*" -> x * y
      [] op = "%" -> x - y * Quotient(x, y) [] op = "/" -> Quotient(x, y)
      [] op = "^" -> Power(x, y) [] op = "<<" -> x * Power(2, y) [] op = ">>" -> x \div Power(2, y)

Fails(op, x, y, target) ==
    \/ op \in {"/", "%"} /\ y = 0
    \/ op \in {"<<", ">>"} /\ y \notin 0 .. Width - 1
    \/ op = "^" /\ y < 0
    \/ op # "/" /\ ~In(Apply(op, x, y), target)

\* Let n be a value: the execution computes x or panics.
Bind(n, value, k, x, fails) ==
    /\ known' = [k EXCEPT ![n] = value]
    /\ env' = IF fails THEN env ELSE [env EXCEPT ![n] = x]
    /\ reached' = (reached /\ ~fails)
    /\ halted' = (reached /\ fails)

-----------------------------------------------------------------------------
(* Where the analyzer is misled. A name that stands for another variable   *)
(* than the one its symbol was recorded for:                               *)

SymbolsOf(n) == {Symbol(n), LengthSymbol(n)}
Borne(k, n) == \E m \in Names : k[m].symbol \in SymbolsOf(n)
Bounded(p, n) == \E b \in p : b.left \in SymbolsOf(n) \/ b.right \in SymbolsOf(n)
Misnamed(k, n) == k[n].symbol # Symbol(n) /\ Borne(k, n)

\* a new variable of a name that more is known of than its type:
Shadows(n) ==
    \/ known[n] # Declared(n)
    \/ \E m \in Names \ {n} : known[m].symbol \in SymbolsOf(n)
    \/ Bounded(pairs, n)

\* an interval that does not hold the result:
Miscomputed(op, left, right) ==
    LET a == left.interval
        b == right.interval
    IN  /\ a # None
        /\ \/ op = "%" /\ ~In(0, a)
           \/ op = "<<" /\ ~Exact(right) /\ (a[1] > 0 \/ a[2] < 0)
           \/ op = ">>" /\ ~Exact(right) /\ a[1] < 0
           \* bits are lost, which checked_shl does not look at
           \/ /\ op = "<<" /\ b # None /\ b[1] >= 0 /\ b[2] \in 0 .. Width - 1
              /\ \E end \in {1, 2} : a[end] * Power(2, b[2]) \notin Wide
\* i128::MIN has no negation
Unnegatable(v) == v.interval # None /\ \E end \in {1, 2} : -v.interval[end] \notin Wide

-----------------------------------------------------------------------------
Init ==
    /\ known = [n \in Names |-> Declared(n)] /\ pairs = {} /\ wiped = FALSE
    /\ env \in {e \in [Names -> UNION {Arguments[n] : n \in Names}] : \A n \in Names : e[n] \in Arguments[n]}
    /\ reached = TRUE /\ halted = FALSE
    /\ frames = <<>> /\ proof = NoProof /\ confused = FALSE /\ shape \in Shapes

\* A panic ends the execution.
Step(kind) == ~halted /\ shape # <<>> /\ Head(shape) = kind /\ shape' = Tail(shape)
Record(evidence, fails) ==
    proof' = [decision |-> evidence.decision, audit |-> Audit(evidence),
              vacuous |-> Vacuous(evidence.intervals), outcome |-> Outcome(fails)]

\* let n = a op b
Compute(n, op, a, b) ==
    LET left == Eval(known, a)
        right == Eval(known, b)
        result == ArithmeticInterval(op, left, right)
        target == Bounds(TypeOf[n])
        fails == Fails(op, Concrete(env, a), Concrete(env, b), target)
    IN  /\ Step("let") /\ HasType(a, TypeOf[n]) /\ HasType(b, TypeOf[n])
        /\ Bind(n, result, known, Apply(op, Concrete(env, a), Concrete(env, b)), fails)
        /\ Record([Evidence(OperationOf(op), Classify(op, right, result, target),
                            Shown(left.interval) \o Shown(right.interval) \o Shown(result.interval), target)
                   EXCEPT !.excluded = right.nonzero], fails)
        /\ confused' = (confused \/ Miscomputed(op, left, right))
        /\ UNCHANGED <<pairs, wiped, frames>>

\* a / b: the quotient is a float. The interval of `a` is held against the range
\* of int all the same, which refuses a uint above it.
Divide(a, b) ==
    LET left == Eval(known, a)
        right == Eval(known, b)
        result == ArithmeticInterval("/", left, right)
        target == <<IntMin, IntMax>>
        decision == Classify("/", right, result, target)
        fails == Concrete(env, b) = 0
    IN  /\ Step("use") /\ Integer(a) /\ Integer(b)
        /\ Record([Evidence("Division", decision,
                            Shown(left.interval) \o Shown(right.interval) \o Shown(result.interval), target)
                   EXCEPT !.excluded = right.nonzero], fails)
        /\ confused' = (confused \/ (decision = "Invalid" /\ right.interval # <<0, 0>>))
        /\ reached' = (reached /\ ~fails) /\ halted' = (reached /\ fails)
        /\ UNCHANGED <<analyzer, env, frames>>

\* let n = a as T
Convert(n, a) ==
    LET value == Eval(known, a)
        target == Bounds(TypeOf[n])
        fails == ~In(Concrete(env, a), target)
    IN  /\ Step("let") /\ n \in IntegerNames /\ Integer(a)
        /\ Bind(n, value, known, Concrete(env, a), fails)
        /\ Record(Evidence("Conversion", Fit(value.interval, target), Shown(value.interval), target), fails)
        /\ UNCHANGED <<pairs, wiped, frames, confused>>

\* let n = m, of the same type
Copy(n, m) ==
    /\ Step("let") /\ TypeOf[m] = TypeOf[n]
    /\ Bind(n, known[m], known, env[m], FALSE)
    /\ UNCHANGED <<pairs, wiped, frames, proof, confused>>

\* let n = -a
Negate(n, a) ==
    /\ Step("let") /\ HasType(a, TypeOf[n])
    /\ Bind(n, Negation(Eval(known, a)), known, -Concrete(env, a), ~In(-Concrete(env, a), Bounds(TypeOf[n])))
    /\ confused' = (confused \/ Unnegatable(Eval(known, a)))
    /\ UNCHANGED <<pairs, wiped, frames, proof>>

\* let n = #[...]
Build(n, length) ==
    /\ Step("let") /\ n \in Lists
    /\ Bind(n, Value(None, <<length>>, FALSE, None), known, length, FALSE)
    /\ UNCHANGED <<pairs, wiped, frames, proof, confused>>

\* let n = m.length()
Measure(n, m) ==
    /\ Step("let") /\ m \in Lists \cup Records
    /\ TypeOf[n] = IF m \in Lists THEN "uint" ELSE "int"
    /\ Bind(n, LengthOf(known, m), Wipe(known), env[m], FALSE)
    /\ wiped' = TRUE
    /\ confused' = \/ confused
                   \/ m \in Records
                   \/ /\ known[m].length = None /\ known[m].symbol # Symbol(m)
                      /\ Borne(known, m) \/ Bounded(pairs, m)
    /\ UNCHANGED <<pairs, frames, proof>>

\* let n = if (condition) a else b
Select(n, condition, a, b) ==
    LET view == [known |-> After(known, OperandsOf(condition)), pairs |-> pairs]
        left == Eval(RefineAll(view, condition, TRUE).known, a)
        right == Eval(RefineAll(view, condition, FALSE).known, b)
    IN  /\ Step("let") /\ HasType(a, TypeOf[n]) /\ HasType(b, TypeOf[n])
        /\ Bind(n, Join(left, right), view.known,
                IF Holds(env, condition) THEN Concrete(env, a) ELSE Concrete(env, b), FALSE)
        /\ wiped' = (wiped \/ \E o \in OperandsOf(condition) : Calls(o))
        /\ UNCHANGED <<pairs, frames, proof, confused>>

\* m[a]
Index(m, a) ==
    LET value == Eval(known, a)
        supporting == {b \in pairs :
            /\ known[m].symbol # None /\ b.left = value.symbol
            /\ b.right = LengthSymbol(known[m].symbol[1])
            /\ b.rightSign = -1 /\ b.upper <= (IF b.leftSign = 1 THEN -1 ELSE 0)}
        fails == ~In(Concrete(env, a), <<-env[m], env[m] - 1>>)
    IN  /\ Step("use") /\ Integer(a)
        /\ Record([Evidence("Index", ClassifyIndex(value, known[m]), Shown(value.interval), None)
                   EXCEPT !.length = known[m].length, !.pairs = supporting], fails)
        /\ reached' = (reached /\ ~fails) /\ halted' = (reached /\ fails)
        /\ UNCHANGED <<analyzer, env, frames, confused>>

\* The ends of a range that has one or two, and whether each of them is inclusive.
OneEnd(a, inclusive) == {<<a, inclusive>>}
TwoEnds(a, b, inclusive) == {<<a, FALSE>>, <<b, inclusive>>}

\* m[a ..], m[.. b], m[..= b], m[a .. b] or m[a ..= b]: each end by itself.
Slice(m, ends) ==
    LET collection == known[m]
        bound(v, last) ==
            IF v.interval = None \/ (collection.length = None /\ ~Symbolic(v, collection)) THEN {}
            ELSE {[interval |-> v.interval, inclusive |-> last,
                   lower |-> collection.length = None /\ HasPair(v, -1, collection, 0),
                   upper |-> collection.length = None /\ HasPair(v, 1, collection, IF last THEN -1 ELSE 0)]}
        decision == Combine({ClassifyBound(Eval(known, e[1]), collection, e[2]) : e \in ends})
        fails == \E e \in ends : ~In(Concrete(env, e[1]), <<-env[m], LastIndex(env[m], e[2])>>)
    IN  /\ Step("use") /\ \A e \in ends : Integer(e[1])
        /\ Record([Evidence("Slice", decision, <<>>, None)
                   EXCEPT !.length = collection.length,
                          !.bounds = UNION {bound(Eval(known, e[1]), e[2]) : e \in ends}], fails)
        /\ reached' = (reached /\ ~fails) /\ halted' = (reached /\ fails)
        /\ UNCHANGED <<analyzer, env, frames, confused>>

-----------------------------------------------------------------------------
(* Branches, loops and binders.                                            *)

Frame(kind, condition, k) ==
    [kind |-> kind, condition |-> condition, known |-> k, pairs |-> pairs, wiped |-> wiped,
     env |-> env, reached |-> reached]
Top == frames[Len(frames)]
Below == SubSeq(frames, 1, Len(frames) - 1)
Within(k) == Len(frames) > 0 /\ Top.kind = k

Learn(view, condition, truth) ==
    LET refined == RefineAll(view, condition, truth) IN
    /\ known' = refined.known
    /\ pairs' = refined.pairs
    /\ confused' = \/ confused
                   \/ \E i \in DOMAIN condition :
                        /\ Related(condition[i])
                        /\ \E o \in {condition[i].left, condition[i].right} :
                              Misnamed(view.known, o.name)

\* if (condition) {
Branch(condition) ==
    LET k == After(known, OperandsOf(condition)) IN
    /\ Step("if")
    /\ frames' = Append(frames, [Frame("then", condition, k) EXCEPT
                        !.wiped = @ \/ \E o \in OperandsOf(condition) : Calls(o)])
    /\ Learn([known |-> k, pairs |-> pairs], condition, TRUE)
    /\ reached' = (reached /\ Holds(env, condition))
    /\ wiped' = FALSE
    /\ UNCHANGED <<env, halted, proof>>

\* A mutant: the other branch too is refined by the condition, not by its negation.
OtherwiseUnnegated ==
    /\ Step("else") /\ Within("then")
    /\ frames' = Append(Below, [Top EXCEPT !.kind = "else"])
    /\ env' = Top.env
    /\ Learn([known |-> Top.known, pairs |-> Top.pairs], Top.condition, TRUE)
    /\ wiped' = FALSE
    /\ reached' = (Top.reached /\ ~Holds(Top.env, Top.condition))
    /\ UNCHANGED <<halted, proof>>

\* } else {
Otherwise ==
    /\ Step("else") /\ Within("then")
    /\ frames' = Append(Below, [Top EXCEPT !.kind = "else"])
    /\ env' = Top.env
    /\ Learn([known |-> Top.known, pairs |-> Top.pairs], Top.condition, FALSE)
    /\ wiped' = FALSE
    /\ reached' = (Top.reached /\ ~Holds(Top.env, Top.condition))
    /\ UNCHANGED <<halted, proof>>

\* }: both branches start from what was known before, and so does what follows.
EndIf ==
    /\ Step("end") /\ (Within("then") \/ Within("else"))
    /\ frames' = Below
    /\ known' = Top.known /\ pairs' = Top.pairs /\ wiped' = Top.wiped
    /\ env' = Top.env /\ reached' = Top.reached
    /\ UNCHANGED <<halted, proof, confused>>

Open(kind) ==
    /\ Step("open")
    /\ frames' = Append(frames, Frame(kind, <<>>, known))
    /\ wiped' = FALSE
    /\ UNCHANGED <<pairs, halted, proof>>

\* The last integer of a range.
LastOf(end, inclusive) == IF inclusive THEN end ELSE end - 1

\* for (n in a .. b) { or for (n in a ..= b) {: one of its iterations, if there is one.
For(n, a, b, inclusive) ==
    LET left == Eval(known, a)
        right == Eval(known, b)
        last == LastOf(right.interval[1], inclusive)
        some == Exact(left) /\ Exact(right) /\ left.interval[1] <= last
    IN  /\ Open("block") /\ HasType(a, TypeOf[n]) /\ HasType(b, TypeOf[n])
        /\ known' = IF some THEN [known EXCEPT ![n] = Interval(left.interval[1], last)] ELSE known
        /\ confused' = (confused \/ (~some /\ Shadows(n)))
        /\ \/ \E x \in Concrete(env, a) .. LastOf(Concrete(env, b), inclusive) :
                 env' = [env EXCEPT ![n] = x] /\ reached' = reached
           \/ env' = env /\ reached' = FALSE

\* A closure's parameter, a pattern or the binding of a state loop: the
\* analyzer has no scope for it.
Binder(n, x) ==
    /\ Open("block")
    /\ env' = [env EXCEPT ![n] = x]
    /\ confused' = (confused \/ Shadows(n))
    /\ UNCHANGED <<known, reached>>

\* }: lengths dropped inside stay dropped.
EndBlock ==
    /\ Step("end") /\ Within("block")
    /\ frames' = Below
    /\ known' = IF wiped THEN Wipe(Top.known) ELSE Top.known
    /\ wiped' = (wiped \/ Top.wiped)
    /\ pairs' = Top.pairs
    /\ env' = Top.env /\ reached' = Top.reached
    /\ UNCHANGED <<halted, proof, confused>>

Next ==
    \/ \E n \in Targets :
        \/ \E op \in Operators, p \in Doubles : Compute(n, op, p[1], p[2])
        \/ \E a \in Singles : Convert(n, a) \/ Negate(n, a)
        \/ \E m \in Names : Copy(n, m) \/ Measure(n, m)
        \/ \E length \in Lengths : Build(n, length)
        \/ \E condition \in Conditions, p \in Doubles : Select(n, condition, p[1], p[2])
    \/ \E p \in Doubles : Divide(p[1], p[2])
    \/ \E m \in Lists, inclusive \in BOOLEAN :
        \/ \E a \in Singles : Slice(m, OneEnd(a, inclusive))
        \/ \E p \in Doubles : Slice(m, TwoEnds(p[1], p[2], inclusive))
    \/ \E m \in Lists, a \in Singles : Index(m, a)
    \/ \E condition \in Conditions : Branch(condition)
    \/ Otherwise
    \/ EndIf
    \/ \E n \in Binders, p \in Doubles, inclusive \in BOOLEAN : For(n, p[1], p[2], inclusive)
    \/ \E n \in Binders : \E x \in Arguments[n] : Binder(n, x)
    \/ EndBlock

Spec == Init /\ [][Next]_vars

-----------------------------------------------------------------------------
(* Properties.                                                             *)

TypeOK ==
    /\ \A n \in Names : In(env[n], Bounds(TypeOf[n]))
    /\ \A n \in Lists : known[n].interval = None
    /\ \A n \in IntegerNames : known[n].length = None

\* "Proven-safe operations omit runtime checks": such an operation never fails.
\* The proof is consumed when its audit agrees.
SafeNeverFails ==
    proof.decision = "Safe" /\ proof.audit => proof.outcome # "fails"

\* The operators and binders above aside, that is so for every program.
SafeUnlessConfused == confused \/ SafeNeverFails

\* "Proven overflow, division by zero, or invalid shifts are compile errors":
\* no program that runs through is refused.
InvalidNeverSucceeds ==
    confused \/ (proof.decision = "Invalid" => proof.outcome # "succeeds")

\* The second opinion agrees with every decision to omit a check, unless an
\* operand is known to be nothing at all: of a shift by such a count one may say
\* that it is safe and the other that it is invalid.
SafeIsAuditable == proof.decision = "Safe" => proof.audit \/ proof.vacuous

\* What the analyzer believes of every variable is true of the execution: two
\* values with one symbol are one value, and a pair bound relates what has its
\* symbols.
Describes(v, x) ==
    /\ v.interval # None => In(x, v.interval)
    /\ v.length # None => x = v.length[1]
    /\ v.nonzero => x # 0

Bears(k, n, symbol) ==
    \/ k[n].symbol = symbol
    \/ n \in Lists /\ k[n].symbol # None /\ symbol = LengthSymbol(k[n].symbol[1])

Believable(k, p, e) ==
    /\ \A n \in Names : Describes(k[n], e[n])
    /\ \A m, n \in Names : k[m].symbol # None /\ Bears(k, n, k[m].symbol) => e[m] = e[n]
    /\ \A b \in p, m, n \in Names :
          Bears(k, m, b.left) /\ Bears(k, n, b.right) => b.leftSign * e[m] + b.rightSign * e[n] <= b.upper

BeliefsAreTrue ==
    ~confused =>
        /\ reached => Believable(known, pairs, env)
        /\ \A i \in DOMAIN frames : frames[i].reached => Believable(frames[i].known, frames[i].pairs, frames[i].env)
=============================================================================
