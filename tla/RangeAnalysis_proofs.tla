------------------------ MODULE RangeAnalysis_proofs ------------------------
(***************************************************************************)
(* Soundness of the range analysis, for every program built of the         *)
(* constructs of RangeAnalysis and every integer width: what the analyzer  *)
(* believes is true of the execution, a check that is omitted would not    *)
(* fail, and a refused operation does not succeed, unless it was confused. *)
(***************************************************************************)
EXTENDS RangeAnalysis, SequenceTheorems, WellFoundedInduction, TLAPS

-----------------------------------------------------------------------------
(* Arithmetic: the interval computed for an operation holds its result,    *)
(* for every integer and operator, the cases excepted that Miscomputed     *)
(* names.                                                                  *)

\* A set of naturals has a least element.
LEMMA LeastNatural ==
    ASSUME NEW S \in SUBSET Nat, S # {}
    PROVE  \E m \in S : \A k \in S : m <= k
<1> DEFINE Before == OpToRel(<, Nat)
<1>1. PICK m \in S : \A k \in S : ~(<<k, m>> \in Before)
    BY NatLessThanWellFounded, WFMin
<1> HIDE DEF Before
<1>2. Before = {p \in Nat \X Nat : p[1] < p[2]}
    BY Zenon DEF Before, OpToRel
<1>3. \A k, n \in Nat : k < n => <<k, n>> \in Before
    BY <1>2
<1>4. \A k \in S : ~(k < m)
    BY <1>1, <1>3
<1> QED
    BY <1>4

-----------------------------------------------------------------------------
(* Powers.  The recursive function exists, whatever the base.              *)

\* f is the table of the powers of x up to n.
Table(x, n, f) ==
    /\ f \in [0 .. n -> Int]
    /\ \A k \in 0 .. n : f[k] = IF k = 0 THEN 1 ELSE x * f[k - 1]

LEMMA OneTable ==
    ASSUME NEW x \in Int, NEW n \in Nat, NEW m \in Nat, NEW f, NEW g,
           Table(x, n, f), Table(x, m, g)
    PROVE  \A k \in Nat : k <= n /\ k <= m => f[k] = g[k]
<1> DEFINE Differ == {k \in Nat : k <= n /\ k <= m /\ f[k] # g[k]}
<1>1. SUFFICES ASSUME Differ # {} PROVE FALSE
    OBVIOUS
<1>2. PICK k \in Differ : \A j \in Differ : k <= j
    BY <1>1, LeastNatural
<1>3. CASE k = 0
    BY <1>3 DEF Table
<1>4. CASE k # 0
    <2>1. k - 1 \in Nat /\ k - 1 \notin Differ
        BY <1>2, <1>4
    <2>2. f[k - 1] = g[k - 1]
        BY <2>1
    <2>3. f[k] = x * f[k - 1] /\ g[k] = x * g[k - 1]
        BY <1>4 DEF Table
    <2> QED
        BY <2>2, <2>3
<1> QED
    BY <1>3, <1>4

LEMMA SomeTable ==
    ASSUME NEW x \in Int PROVE \A n \in Nat : \E f : Table(x, n, f)
<1> DEFINE Without == {n \in Nat : ~ \E f : Table(x, n, f)}
<1>1. SUFFICES ASSUME Without # {} PROVE FALSE
    OBVIOUS
<1>2. PICK n \in Without : \A m \in Without : n <= m
    BY <1>1, LeastNatural
<1>3. n # 0
    <2>1. Table(x, 0, [k \in 0 .. 0 |-> 1])
        BY DEF Table
    <2> QED
        BY <2>1
<1>4. n - 1 \in Nat /\ n - 1 \notin Without
    BY <1>2, <1>3
<1>5. PICK f : Table(x, n - 1, f)
    BY <1>4
<1>6. Table(x, n, [k \in 0 .. n |-> IF k = n THEN x * f[n - 1] ELSE f[k]])
    BY <1>3, <1>4, <1>5, SMTT(30) DEF Table
<1> QED
    BY <1>6

LEMMA PowerIsRecursive ==
    ASSUME NEW x \in Int
    PROVE  /\ Power(x, 0) = 1
           /\ \A n \in Nat : Power(x, n) \in Int /\ Power(x, n + 1) = x * Power(x, n)
<1> DEFINE Row(n) == CHOOSE f : Table(x, n, f)
           All == [n \in Nat |-> Row(n)[n]]
           IsPower(p) == p = [k \in Nat |-> IF k = 0 THEN 1 ELSE x * p[k - 1]]
<1>1. \A n \in Nat : Table(x, n, Row(n))
    BY SomeTable
<1> HIDE DEF Row
<1>2. All[0] = 1
    BY <1>1 DEF Table
<1>3. ASSUME NEW n \in Nat PROVE All[n] \in Int /\ All[n + 1] = x * All[n]
    <2>1. Table(x, n, Row(n)) /\ Table(x, n + 1, Row(n + 1))
        BY <1>1
    <2>2. Row(n)[n] = Row(n + 1)[n]
        BY <2>1, OneTable
    <2>3. Row(n + 1)[n + 1] = x * Row(n + 1)[n] /\ Row(n)[n] \in Int
        BY <2>1 DEF Table
    <2> QED
        BY <2>2, <2>3
<1>4. All = [k \in Nat |-> IF k = 0 THEN 1 ELSE x * All[k - 1]]
    <2>1. \A k \in Nat : All[k] = IF k = 0 THEN 1 ELSE x * All[k - 1]
        <3>1. ASSUME NEW k \in Nat, k # 0 PROVE All[k] = x * All[k - 1]
            <4>1. k - 1 \in Nat /\ (k - 1) + 1 = k
                BY <3>1
            <4> QED
                BY <4>1, <1>3
        <3> QED
            BY <3>1, <1>2
    <2>2. All \in [Nat -> {All[k] : k \in Nat}]
        OBVIOUS
    <2> HIDE DEF All
    <2> QED
        BY <2>1, <2>2
<1> DEFINE power == CHOOSE p : IsPower(p)
<1>5. IsPower(power)
    <2>1. IsPower(All)
        BY <1>4
    <2> HIDE DEF All, IsPower
    <2> QED
        BY <2>1
<1>6. \A n : Power(x, n) = power[n]
    BY DEF Power
<1> HIDE DEF power
<1>7. power[0] = 1 /\ \A n \in Nat : power[n + 1] = x * power[n]
    <2>1. \A k \in Nat : power[k] = IF k = 0 THEN 1 ELSE x * power[k - 1]
        BY <1>5
    <2>2. ASSUME NEW n \in Nat PROVE power[n + 1] = x * power[n]
        <3>1. n + 1 \in Nat /\ n + 1 # 0 /\ (n + 1) - 1 = n
            OBVIOUS
        <3> QED
            BY <2>1, <3>1
    <2> QED
        BY <2>1, <2>2
<1>8. \A n \in Nat : power[n] \in Int
    <2> DEFINE Bad == {n \in Nat : power[n] \notin Int}
    <2>1. SUFFICES ASSUME Bad # {} PROVE FALSE
        OBVIOUS
    <2>2. PICK n \in Bad : \A m \in Bad : n <= m
        BY <2>1, LeastNatural
    <2>3. n # 0
        BY <1>7
    <2>4. n - 1 \in Nat /\ n - 1 \notin Bad
        BY <2>2, <2>3
    <2>5. power[n] = x * power[n - 1]
        BY <1>7, <2>4
    <2> QED
        BY <2>4, <2>5
<1> QED
    BY <1>6, <1>7, <1>8

-----------------------------------------------------------------------------
(* Products, powers and shifts of bounded operands.                        *)

LEMMA ProductGrows ==
    ASSUME NEW x \in Int, NEW y \in Int, NEW k \in Int, x <= y
    PROVE  (0 <= k => x * k <= y * k) /\ (k <= 0 => y * k <= x * k)
OBVIOUS

\* A product lies between two products of the ends.
LEMMA ProductBetween ==
    ASSUME NEW a \in Int, NEW b \in Int, NEW c \in Int, NEW d \in Int,
           NEW x \in a .. b, NEW y \in c .. d
    PROVE  LET corners == {a * c, a * d, b * c, b * d}
           IN  \E p, q \in corners : p <= x * y /\ x * y <= q
<1>1. (0 <= y => a * y <= x * y /\ x * y <= b * y) /\ (y <= 0 => b * y <= x * y /\ x * y <= a * y)
    BY ProductGrows
<1>2. \A e \in {a, b} : (0 <= e => c * e <= y * e /\ y * e <= d * e) /\ (e <= 0 => d * e <= y * e /\ y * e <= c * e)
    BY ProductGrows
<1>3. \A e \in {a, b} : e * y = y * e /\ e * c = c * e /\ e * d = d * e /\ e * c \in Int /\ e * d \in Int /\ e * y \in Int
    OBVIOUS
<1>4. \A e \in {a, b} : (e * c <= e * y \/ e * d <= e * y) /\ (e * y <= e * c \/ e * y <= e * d)
    BY <1>2, <1>3
<1>5. \E e \in {a, b} : e * y <= x * y
    BY <1>1
<1>6. \E e \in {a, b} : x * y <= e * y
    BY <1>1
<1>7. x * y \in Int
    OBVIOUS
<1>8. \E p \in {a * c, a * d, b * c, b * d} : p <= x * y
    BY <1>3, <1>4, <1>5, <1>7
<1>9. \E q \in {a * c, a * d, b * c, b * d} : x * y <= q
    BY <1>3, <1>4, <1>6, <1>7
<1> QED
    BY <1>8, <1>9

LEMMA PowerIsInt ==
    ASSUME NEW x \in Int, NEW n \in Nat PROVE Power(x, n) \in Int
BY PowerIsRecursive

\* The power of a negative base alternates in sign and grows with the base.
LEMMA PowerOfNegative ==
    ASSUME NEW a \in Int, NEW x \in Int, a <= x, x <= 0
    PROVE  \A n \in Nat : \/ 0 <= Power(x, n) /\ Power(x, n) <= Power(a, n)
                          \/ Power(a, n) <= Power(x, n) /\ Power(x, n) <= 0
<1> DEFINE Bad == {n \in Nat : ~ \/ 0 <= Power(x, n) /\ Power(x, n) <= Power(a, n)
                                 \/ Power(a, n) <= Power(x, n) /\ Power(x, n) <= 0}
<1>1. SUFFICES ASSUME Bad # {} PROVE FALSE
    OBVIOUS
<1>2. PICK n \in Bad : \A m \in Bad : n <= m
    BY <1>1, LeastNatural
<1>3. n # 0
    <2>1. Power(x, 0) = 1 /\ Power(a, 0) = 1
        BY PowerIsRecursive
    <2> QED
        BY <2>1
<1>4. n - 1 \in Nat /\ n - 1 \notin Bad /\ (n - 1) + 1 = n
    BY <1>2, <1>3
<1>5. PICK p \in Int, q \in Int : p = Power(x, n - 1) /\ q = Power(a, n - 1)
    BY <1>4, PowerIsInt
<1>6. Power(x, n) = x * p /\ Power(a, n) = a * q
    BY <1>4, <1>5, PowerIsRecursive
<1>7. CASE 0 <= p /\ p <= q
    <2>1. a * q <= x * p /\ x * p <= 0
        BY <1>7
    <2> QED
        BY <1>6, <2>1
<1>8. CASE q <= p /\ p <= 0
    <2>1. x * p <= a * q /\ 0 <= x * p
        BY <1>8
    <2> QED
        BY <1>6, <2>1
<1> QED
    BY <1>4, <1>5, <1>7, <1>8

LEMMA PowerOfNonnegative ==
    ASSUME NEW x \in Int, NEW b \in Int, 0 <= x, x <= b
    PROVE  \A n \in Nat : 0 <= Power(x, n) /\ Power(x, n) <= Power(b, n)
<1> DEFINE Bad == {n \in Nat : ~ (0 <= Power(x, n) /\ Power(x, n) <= Power(b, n))}
<1>1. SUFFICES ASSUME Bad # {} PROVE FALSE
    OBVIOUS
<1>2. PICK n \in Bad : \A m \in Bad : n <= m
    BY <1>1, LeastNatural
<1>3. n # 0
    BY PowerIsRecursive
<1>4. n - 1 \in Nat /\ n - 1 \notin Bad /\ (n - 1) + 1 = n
    BY <1>2, <1>3
<1>5. PICK p \in Int, q \in Int : p = Power(x, n - 1) /\ q = Power(b, n - 1)
    BY <1>4, PowerIsInt
<1>6. Power(x, n) = x * p /\ Power(b, n) = b * q /\ 0 <= p /\ p <= q
    BY <1>4, <1>5, PowerIsRecursive
<1>7. 0 <= x * p /\ x * p <= b * q
    BY <1>6
<1> QED
    BY <1>6, <1>7

LEMMA PowerOfZero ==
    ASSUME NEW n \in Nat PROVE n # 0 => Power(0, n) = 0
<1>1. ASSUME n # 0 PROVE Power(0, n) = 0
    <2>1. n - 1 \in Nat /\ (n - 1) + 1 = n
        BY <1>1
    <2>2. Power(0, n) = 0 * Power(0, n - 1) /\ Power(0, n - 1) \in Int
        BY <2>1, PowerIsRecursive
    <2> QED
        BY <2>2
<1> QED
    BY <1>1

\* A power lies between two of those of the ends and of zero.
LEMMA PowerBetween ==
    ASSUME NEW a \in Int, NEW b \in Int, NEW x \in a .. b, NEW n \in Nat
    PROVE  \E p, q \in {Power(a, n), Power(b, n), Power(0, n)} : p <= Power(x, n) /\ Power(x, n) <= q
<1>1. CASE n = 0
    <2>1. Power(a, 0) = 1 /\ Power(x, 0) = 1
        BY PowerIsRecursive
    <2> QED
        BY <1>1, <2>1
<1>2. CASE n # 0 /\ 0 <= x
    BY <1>2, PowerOfNonnegative, PowerOfZero
<1>3. CASE n # 0 /\ x <= 0
    BY <1>3, PowerOfNegative, PowerOfZero
<1> QED
    BY <1>1, <1>2, <1>3

LEMMA PowersOfTwo ==
    ASSUME NEW m \in Nat, NEW n \in Nat, m <= n
    PROVE  0 < Power(2, m) /\ Power(2, m) <= Power(2, n)
<1> DEFINE Bad == {k \in Nat : m <= k /\ ~(0 < Power(2, m) /\ Power(2, m) <= Power(2, k))}
<1>1. \A k \in Nat : 0 < Power(2, k)
    <2> DEFINE Low == {k \in Nat : ~(0 < Power(2, k))}
    <2>1. SUFFICES ASSUME Low # {} PROVE FALSE
        OBVIOUS
    <2>2. PICK k \in Low : \A j \in Low : k <= j
        BY <2>1, LeastNatural
    <2>3. k # 0
        BY PowerIsRecursive
    <2>4. k - 1 \in Nat /\ k - 1 \notin Low /\ (k - 1) + 1 = k
        BY <2>2, <2>3
    <2>5. Power(2, k) = 2 * Power(2, k - 1) /\ Power(2, k - 1) \in Int
        BY <2>4, PowerIsRecursive
    <2> QED
        BY <2>4, <2>5
<1>2. SUFFICES ASSUME Bad # {} PROVE FALSE
    BY <1>1
<1>3. PICK k \in Bad : \A j \in Bad : k <= j
    BY <1>2, LeastNatural
<1>4. k # m
    BY <1>1, PowerIsInt
<1>5. k - 1 \in Nat /\ k - 1 \notin Bad /\ (k - 1) + 1 = k /\ m <= k - 1
    BY <1>3, <1>4
<1>6. Power(2, k) = 2 * Power(2, k - 1) /\ Power(2, k - 1) \in Int /\ Power(2, m) \in Int
    BY <1>5, PowerIsRecursive
<1> QED
    BY <1>1, <1>5, <1>6

\* A shift to the left moves away from zero.
LEMMA ShiftLeftBetween ==
    ASSUME NEW a \in Int, NEW b \in Int, NEW x \in a .. b, NEW m \in Nat, NEW n \in Nat, m <= n,
           m = n \/ (a <= 0 /\ 0 <= b)
    PROVE  a * Power(2, n) <= x * Power(2, m) /\ x * Power(2, m) <= b * Power(2, n)
<1>1. PICK p \in Int, q \in Int : p = Power(2, m) /\ q = Power(2, n) /\ 0 < p /\ p <= q
    <2>1. Power(2, m) \in Int /\ Power(2, n) \in Int
        BY PowerIsInt
    <2>2. 0 < Power(2, m) /\ Power(2, m) <= Power(2, n)
        BY PowersOfTwo
    <2> QED
        BY <2>1, <2>2
<1>2. a * p <= x * p /\ x * p <= b * p
    BY <1>1, ProductGrows
<1>3. m = n \/ (a * q <= a * p /\ b * p <= b * q)
    BY <1>1
<1>4. a * p \in Int /\ x * p \in Int /\ b * p \in Int /\ a * q \in Int /\ b * q \in Int
    BY <1>1
<1> QED
    BY <1>1, <1>2, <1>3, <1>4

-----------------------------------------------------------------------------
(* The 128 bits of an interval.                                            *)

LEMMA WideFacts ==
    /\ WideMax \in Nat /\ WideMin \in Int /\ WideMin = -WideMax - 1
    /\ WideMin < IntMin /\ IntMin < 0 /\ UintMax < WideMax /\ IntMax < UintMax /\ WideMin < -UintMax
    /\ IntMin \in Int /\ UintMax \in Nat
<1>1. PICK n \in Nat : n = IntMax + 1 /\ n >= 2
    BY TypesAssumption
<1>2. n * n >= 2 * n /\ n * n \in Nat
    BY <1>1
<1>3. WideMax = 2 * (n * n) - 1
    BY <1>1, <1>2 DEF WideMax
<1> QED
    BY <1>1, <1>2, <1>3, TypesAssumption DEF WideMin, IntMin, UintMax

LEMMA WrappedFacts ==
    ASSUME NEW x \in Int
    PROVE  Wrapped(x) \in Int /\ (x \in Wide => Wrapped(x) = x)
<1>1. PICK w \in Nat : w = WideMax /\ WideMin = -w - 1
    BY WideFacts
<1>2. ((x - WideMin) % (2 * WideMax + 2)) \in Int
    <2>1. x - WideMin \in Int /\ 2 * WideMax + 2 \in Int /\ 0 < 2 * WideMax + 2
        BY <1>1
    <2> QED
        BY <2>1
<1> QED
    BY <1>1, <1>2 DEF Wrapped

LEMMA SaturatedFacts ==
    ASSUME NEW x \in Int
    PROVE  /\ Saturated(x) \in Wide /\ Saturated(x) \in Int
           /\ x \in Wide => Saturated(x) = x
           /\ \A y \in Int : x <= y => Saturated(x) <= Saturated(y)
BY WideFacts DEF Saturated, Wide

\* What is in the range of a type is not changed by saturation, and nothing comes into it.
LEMMA SaturatedIn ==
    ASSUME NEW x \in Int, NEW target \in Int \X Int, IntMin <= target[1], target[2] <= UintMax
    PROVE  /\ In(Saturated(x), target) <=> In(x, target)
           /\ In(x, target) => x \in Wide /\ Saturated(x) = x
<1>1. PICK c \in Int, d \in Int : target[1] = c /\ target[2] = d
    OBVIOUS
<1> QED
    BY <1>1, WideFacts DEF Saturated, In, Wide

LEMMA QuotientOf ==
    ASSUME NEW x \in Int, NEW d \in Int, 0 < d
    PROVE  x \div d \in Int /\ d * (x \div d) <= x /\ x < d * (x \div d) + d
OBVIOUS

LEMMA DivisionGrows ==
    ASSUME NEW x \in Int, NEW y \in Int, NEW d \in Int, 0 < d, x <= y
    PROVE  x \div d <= y \div d
<1>1. PICK p \in Int, q \in Int : p = x \div d /\ q = y \div d
    BY QuotientOf
<1>2. d * p <= x /\ y < d * q + d
    BY <1>1, QuotientOf
<1>3. ASSUME q < p PROVE FALSE
    <2>1. d * (q + 1) <= d * p
        BY <1>3
    <2> QED
        BY <1>2, <2>1
<1> QED
    BY <1>1, <1>3

LEMMA DivisionShrinks ==
    ASSUME NEW x \in Int, NEW c \in Int, NEW d \in Int, 0 < c, c <= d, 0 <= x
    PROVE  x \div d <= x \div c
<1>1. PICK p \in Int, q \in Int : p = x \div d /\ q = x \div c
    BY QuotientOf
<1>2. d * p <= x /\ x < c * q + c /\ x < d * p + d
    BY <1>1, QuotientOf
<1>3. 0 <= p
    <2>1. ASSUME p <= -1 PROVE FALSE
        <3>1. d * p <= d * (-1)
            BY <2>1
        <3> QED
            BY <1>2, <3>1
    <2> QED
        BY <2>1
<1>4. c * p <= d * p
    BY <1>3
<1>5. ASSUME q < p PROVE FALSE
    <2>1. c * (q + 1) <= c * p
        BY <1>5
    <2> QED
        BY <1>2, <1>4, <2>1
<1> QED
    BY <1>1, <1>5

\* A shift to the right moves towards zero, or towards minus one.
LEMMA ShiftRightBetween ==
    ASSUME NEW a \in Int, NEW b \in Int, NEW x \in a .. b,
           NEW l \in Nat, NEW m \in Nat, NEW n \in Nat, l <= m, m <= n,
           l = n \/ 0 <= a
    PROVE  a \div Power(2, n) <= x \div Power(2, m) /\ x \div Power(2, m) <= b \div Power(2, l)
<1>1. PICK o \in Int, p \in Int, q \in Int :
          o = Power(2, l) /\ p = Power(2, m) /\ q = Power(2, n) /\ 0 < o /\ o <= p /\ p <= q
    <2>1. Power(2, l) \in Int /\ Power(2, m) \in Int /\ Power(2, n) \in Int
        BY PowerIsInt
    <2>2. 0 < Power(2, l) /\ Power(2, l) <= Power(2, m) /\ Power(2, m) <= Power(2, n)
        BY PowersOfTwo
    <2> QED
        BY <2>1, <2>2
<1>2. a \div p <= x \div p /\ x \div p <= b \div p
    BY <1>1, DivisionGrows
<1>3. l = n \/ (a \div q <= a \div p /\ b \div p <= b \div o)
    BY <1>1, DivisionShrinks
<1>4. a \div p \in Int /\ x \div p \in Int /\ b \div p \in Int /\ a \div q \in Int /\ b \div o \in Int
    BY <1>1, QuotientOf
<1>5. l = n => l = m
    OBVIOUS
<1> QED
    BY <1>1, <1>2, <1>3, <1>4, <1>5

LEMMA ScaledIsInt ==
    ASSUME NEW x \in Int, NEW n \in Nat
    PROVE  x * Power(2, n) \in Int /\ x \div Power(2, n) \in Int
<1>1. Power(2, n) \in Int /\ 0 < Power(2, n)
    BY PowerIsInt, PowersOfTwo
<1> QED
    BY <1>1, QuotientOf

LEMMA ShiftsAreInt ==
    ASSUME NEW x \in Int, NEW n \in Int
    PROVE  ShiftLeft(x, n) \in Int /\ ShiftRight(x, n) \in Int
<1> DEFINE c == IF n >= 0 THEN n ELSE n % (2 * Width)
<1>1. c \in Nat
    <2>1. 2 * Width \in Int /\ 0 < 2 * Width
        BY TypesAssumption
    <2> QED
        BY <2>1
<1> HIDE DEF c
<1>2. ShiftRight(x, n) \in Int
    BY <1>1, ScaledIsInt DEF ShiftRight, c
<1>3. ShiftLeft(x, n) \in Int
    BY ScaledIsInt, WideFacts, WrappedFacts DEF ShiftLeft
<1> QED
    BY <1>2, <1>3

\* A remainder has the sign of the dividend and is no larger.
LEMMA RemainderBetween ==
    ASSUME NEW x \in Int, NEW y \in Int, y # 0
    PROVE  LET r == x - y * Quotient(x, y)
           IN  r \in Int /\ (0 <= x => 0 <= r /\ r <= x) /\ (x <= 0 => x <= r /\ r <= 0)
<1> DEFINE X == IF x < 0 THEN -x ELSE x
           Y == IF y < 0 THEN -y ELSE y
<1>1. PICK q \in Int : q = X \div Y
    BY QuotientOf
<1>2. Y * q <= X /\ X < Y * q + Y
    BY <1>1, QuotientOf
<1>3. 0 <= q
    <2>1. ASSUME q <= -1 PROVE FALSE
        <3>1. Y * q <= Y * (-1)
            BY <2>1
        <3> QED
            BY <1>2, <3>1
    <2> QED
        BY <2>1
<1>4. 0 <= Y * q
    BY <1>3
<1>5. Quotient(x, y) = IF (x < 0) = (y < 0) THEN q ELSE -q
    BY <1>1 DEF Quotient
<1>6. y * Quotient(x, y) = IF x < 0 THEN -(Y * q) ELSE Y * q
    BY <1>5
<1> QED
    BY <1>2, <1>4, <1>6

-----------------------------------------------------------------------------
(* Intervals.                                                              *)

Symbols == {None} \cup {Symbol(n) : n \in Names} \cup {LengthSymbol(n) : n \in Names}
Values == [interval : {None} \cup (Int \X Int), length : {None} \cup {<<k>> : k \in Int},
           nonzero : BOOLEAN, symbol : Symbols]

\* A value the analyzer has computed stands for no name.
Anonymous == {v \in Values : v.symbol = None /\ v.length = None}

LEMMA Corners ==
    ASSUME NEW a \in Int, NEW b \in Int, NEW c \in Int, NEW d \in Int
    PROVE  LET S == {a, b, c, d}
           IN  /\ Least(S) \in S /\ \A x \in S : Least(S) <= x
               /\ Greatest(S) \in S /\ \A x \in S : x <= Greatest(S)
<1> DEFINE S == {a, b, c, d}
<1>1. (\E x \in S : \A y \in S : x <= y) /\ (\E x \in S : \A y \in S : y <= x)
    OBVIOUS
<1> HIDE DEF S
<1>2. Least(S) \in S /\ \A x \in S : Least(S) <= x
    BY <1>1 DEF Least
<1>3. Greatest(S) \in S /\ \A x \in S : x <= Greatest(S)
    BY <1>1 DEF Greatest
<1> QED
    BY <1>2, <1>3 DEF S

LEMMA EitherEnd ==
    ASSUME NEW a \in Int, NEW b \in Int
    PROVE  /\ Least({a, b}) = IF a <= b THEN a ELSE b
           /\ Greatest({a, b}) = IF a <= b THEN b ELSE a
<1>1. {a, b} = {a, b, b, b}
    OBVIOUS
<1>2. /\ Least({a, b}) \in {a, b} /\ \A x \in {a, b} : Least({a, b}) <= x
      /\ Greatest({a, b}) \in {a, b} /\ \A x \in {a, b} : x <= Greatest({a, b})
    BY <1>1, Corners
<1> QED
    BY <1>2

LEMMA IntervalIsAnonymous ==
    ASSUME NEW a \in Int, NEW b \in Int
    PROVE  /\ Interval(a, b) \in Anonymous /\ Interval(a, b).interval = <<a, b>>
           /\ \A x \in a .. b : Describes(Interval(a, b), x)
<1> DEFINE Away == a > 0 \/ b < 0
<1>1. Interval(a, b) = [interval |-> <<a, b>>, length |-> None, nonzero |-> Away, symbol |-> None]
    BY DEF Interval, Value
<1>2. None \in Symbols /\ Away \in BOOLEAN
    BY DEF Symbols
<1>3. Interval(a, b) \in Anonymous
    BY <1>1, <1>2 DEF Anonymous, Values
<1>4. ASSUME NEW x \in a .. b PROVE Describes(Interval(a, b), x)
    <2> DEFINE v == Interval(a, b)
    <2> HIDE DEF Away
    <2>1. v.interval = <<a, b>> /\ v.length = None /\ v.nonzero = Away
        BY <1>1
    <2> HIDE DEF v
    <2>2. v.nonzero => Away
        BY <2>1
    <2> USE DEF Away
    <2>3. Describes(v, x)
        BY <2>1, <2>2, <1>4 DEF Describes, In, None
    <2> QED
        BY <2>3 DEF v
<1> QED
    BY <1>1, <1>3, <1>4

LEMMA UnknownIsAnonymous ==
    Unknown \in Anonymous /\ Unknown.interval = None /\ \A x : Describes(Unknown, x)
BY DEF Unknown, Value, Anonymous, Values, Symbols, Describes, None

LEMMA BetweenDescribes ==
    ASSUME NEW a \in Int, NEW b \in Int
    PROVE  /\ Between(a, b) \in Anonymous /\ Between(a, b).interval # None
           /\ \A x \in a .. b : Describes(Between(a, b), Saturated(x))
<1>1. Saturated(a) \in Int /\ Saturated(b) \in Int
    BY SaturatedFacts
<1>2. \A x \in a .. b : Saturated(x) \in Saturated(a) .. Saturated(b)
    BY SaturatedFacts
<1> QED
    BY <1>1, <1>2, IntervalIsAnonymous, SMTT(30) DEF Between, None

\* The hull of some numbers describes what lies between two of them.
LEMMA HullDescribes ==
    ASSUME NEW a \in Int, NEW b \in Int, NEW c \in Int, NEW d \in Int
    PROVE  LET S == {a, b, c, d}
           IN  /\ Hull(S) \in Anonymous /\ Hull(S).interval # None
               /\ \A x \in Int : (\E p, q \in S : p <= x /\ x <= q) => Describes(Hull(S), Saturated(x))
<1> DEFINE S == {a, b, c, d}
<1>1. /\ Least(S) \in S /\ \A x \in S : Least(S) <= x
      /\ Greatest(S) \in S /\ \A x \in S : x <= Greatest(S)
    BY Corners
<1>2. S \subseteq Int
    OBVIOUS
<1> HIDE DEF S
<1>3. PICK l \in Int, g \in Int : l = Least(S) /\ g = Greatest(S)
    BY <1>1, <1>2
<1>4. ASSUME NEW x \in Int, NEW p \in S, NEW q \in S, p <= x, x <= q PROVE x \in l .. g
    <2>1. p \in Int /\ q \in Int /\ l <= p /\ q <= g
        BY <1>1, <1>2, <1>3
    <2> QED
        BY <1>4, <2>1
<1>5. Hull(S) = Between(l, g)
    BY <1>3 DEF Hull
<1>6. Hull(S) \in Anonymous /\ Hull(S).interval # None /\ \A x \in l .. g : Describes(Hull(S), Saturated(x))
    BY <1>5, BetweenDescribes
<1> QED
    BY <1>4, <1>6 DEF S

\* The operators of Compute, and that of Divide.
Operations == {"+", "-", "*", "%", "^", "<<", ">>"}

\* The operation is one the execution completes, but perhaps for its range.
Completes(op, y) ==
    /\ op = "%" => y # 0
    /\ op \in {"<<", ">>"} => y \in 0 .. Width - 1
    /\ op = "^" => y >= 0

LEMMA AppliesToInt ==
    ASSUME NEW op \in Operations, NEW x \in Int, NEW y \in Int, Completes(op, y)
    PROVE  Apply(op, x, y) \in Int
<1>1. CASE op \in {"+", "-", "*"}
    BY <1>1 DEF Apply
<1>2. CASE op = "%"
    BY <1>2, RemainderBetween DEF Apply, Completes
<1>3. CASE op = "^"
    BY <1>3, PowerIsInt DEF Apply, Completes
<1>4. CASE op \in {"<<", ">>"}
    <2>1. y \in Nat
        BY <1>4, TypesAssumption DEF Completes
    <2>2. Apply(op, x, y) = IF op = "<<" THEN x * Power(2, y) ELSE x \div Power(2, y)
        BY <1>4 DEF Apply
    <2>3. x * Power(2, y) \in Int /\ x \div Power(2, y) \in Int
        BY <2>1, ScaledIsInt
    <2> QED
        BY <2>2, <2>3
<1> QED
    BY <1>1, <1>2, <1>3, <1>4 DEF Operations

\* The interval of an operation that completes holds its result, saturated
\* where it leaves the 128 bits, and nothing is concluded from it that is false.
LEMMA ArithmeticDescribes ==
    ASSUME NEW op \in Operations, NEW left \in Values, NEW right \in Values, NEW x \in Int, NEW y \in Int,
           Describes(left, x), Describes(right, y), Completes(op, y), ~Miscomputed(op, left, right)
    PROVE  LET result == ArithmeticInterval(op, left, right)
               z == Apply(op, x, y)
           IN  result \in Anonymous /\ (Describes(result, z) \/ Describes(result, Saturated(z)))
<1> DEFINE result == ArithmeticInterval(op, left, right)
<1>1. CASE left.interval = None \/ right.interval = None
    BY <1>1, UnknownIsAnonymous DEF ArithmeticInterval
<1>2. CASE left.interval # None /\ right.interval # None
    <2>1. PICK a \in Int, b \in Int, c \in Int, d \in Int : left.interval = <<a, b>> /\ right.interval = <<c, d>>
        BY <1>2 DEF Values
    <2>2. x \in a .. b /\ y \in c .. d
        BY <1>2, <2>1 DEF Describes, In
    <2>3. CASE op = "+"
        <3>1. result = Between(a + c, b + d) /\ Apply(op, x, y) = x + y
            BY <1>2, <2>1, <2>3 DEF ArithmeticInterval, Apply
        <3>2. x + y \in a + c .. b + d /\ a + c \in Int /\ b + d \in Int
            BY <2>2
        <3> QED
            BY <3>1, <3>2, BetweenDescribes
    <2>4. CASE op = "-"
        <3>1. result = Between(a - d, b - c) /\ Apply(op, x, y) = x - y
            BY <1>2, <2>1, <2>4 DEF ArithmeticInterval, Apply
        <3>2. x - y \in a - d .. b - c /\ a - d \in Int /\ b - c \in Int
            BY <2>2
        <3> QED
            BY <3>1, <3>2, BetweenDescribes
    <2>5. CASE op = "*"
        <3>1. result = Hull({a * c, a * d, b * c, b * d}) /\ Apply(op, x, y) = x * y
            BY <1>2, <2>1, <2>5 DEF ArithmeticInterval, Apply
        <3>2. a * c \in Int /\ a * d \in Int /\ b * c \in Int /\ b * d \in Int /\ x * y \in Int
            OBVIOUS
        <3>3. \E p, q \in {a * c, a * d, b * c, b * d} : p <= x * y /\ x * y <= q
            BY <2>2, ProductBetween
        <3> QED
            BY <3>1, <3>2, <3>3, HullDescribes, SMTT(30)
    <2>6. CASE op = "%"
        <3>1. result = Interval(a, b) /\ a <= 0 /\ 0 <= b
            BY <1>2, <2>1, <2>6 DEF ArithmeticInterval, Miscomputed, In
        <3>2. Apply(op, x, y) \in a .. b
            BY <2>2, <2>6, <3>1, RemainderBetween DEF Apply, Completes
        <3> QED
            BY <3>1, <3>2, IntervalIsAnonymous
    <2>7. CASE op = "^"
        <3>1. CASE c = d /\ c \in 0 .. ExponentMax
            <4>1. y = c /\ c \in Nat
                BY <2>2, <3>1
            <4>2. result = Hull({Power(a, c), Power(b, c), Power(0, c)}) /\ Apply(op, x, y) = Power(x, c)
                BY <1>2, <2>1, <2>7, <3>1, <4>1 DEF ArithmeticInterval, Apply
            <4>3. Power(a, c) \in Int /\ Power(b, c) \in Int /\ Power(0, c) \in Int /\ Power(x, c) \in Int
                BY <4>1, PowerIsInt
            <4>4. {Power(a, c), Power(b, c), Power(0, c)} = {Power(a, c), Power(b, c), Power(0, c), Power(0, c)}
                OBVIOUS
            <4>5. \E p, q \in {Power(a, c), Power(b, c), Power(0, c)} : p <= Power(x, c) /\ Power(x, c) <= q
                BY <2>2, <4>1, PowerBetween
            <4> QED
                BY <4>2, <4>3, <4>4, <4>5, HullDescribes
        <3>2. CASE ~(c = d /\ c \in 0 .. ExponentMax)
            <4>1. result = Unknown
                BY <1>2, <2>1, <2>7, <3>2 DEF ArithmeticInterval
            <4> QED
                BY <4>1, UnknownIsAnonymous
        <3> QED
            BY <3>1, <3>2
    <2>8. CASE op \in {"<<", ">>"} /\ c >= 0 /\ d < Width
        <3>1. y \in Nat /\ c \in Nat /\ d \in Nat /\ c <= y /\ y <= d
            BY <2>2, <2>8
        <3>2. c = d => y = d
            BY <3>1
        <3>3. CASE op = "<<"
            <4>1. result = Interval(ShiftLeft(a, d), ShiftLeft(b, d)) /\ Apply(op, x, y) = x * Power(2, y)
                BY <1>2, <2>1, <2>8, <3>3 DEF ArithmeticInterval, Apply
            <4>2. y = d \/ (a <= 0 /\ 0 <= b)
                BY <1>2, <2>1, <3>2, <3>3 DEF Miscomputed, Exact
            <4>3. a * Power(2, d) <= x * Power(2, y) /\ x * Power(2, y) <= b * Power(2, d)
                BY <2>2, <3>1, <4>2, ShiftLeftBetween
            <4>4. a * Power(2, d) \in Int /\ x * Power(2, y) \in Int /\ b * Power(2, d) \in Int
                BY <3>1, ScaledIsInt
            <4>5. a * Power(2, d) \in Wide /\ b * Power(2, d) \in Wide
                <5>1. d \in 0 .. Width - 1
                    BY <2>8, <3>1, TypesAssumption
                <5>2. \A end \in {1, 2} : left.interval[end] * Power(2, right.interval[2]) \in Wide
                    BY <1>2, <2>1, <2>8, <3>3, <5>1 DEF Miscomputed
                <5>3. left.interval[1] = a /\ left.interval[2] = b /\ right.interval[2] = d
                    BY <2>1
                <5> QED
                    BY <5>2, <5>3
            <4>6. ShiftLeft(a, d) = a * Power(2, d) /\ ShiftLeft(b, d) = b * Power(2, d)
                BY <3>1, <4>4, <4>5, WrappedFacts DEF ShiftLeft
            <4> QED
                BY <4>1, <4>3, <4>4, <4>6, IntervalIsAnonymous
        <3>4. CASE op = ">>"
            <4>1. result = Interval(ShiftRight(a, d), ShiftRight(b, c)) /\ Apply(op, x, y) = x \div Power(2, y)
                BY <1>2, <2>1, <2>8, <3>4 DEF ArithmeticInterval, Apply
            <4>2. c = d \/ 0 <= a
                BY <1>2, <2>1, <3>4 DEF Miscomputed, Exact
            <4>3. a \div Power(2, d) <= x \div Power(2, y) /\ x \div Power(2, y) <= b \div Power(2, c)
                BY <2>2, <3>1, <4>2, ShiftRightBetween
            <4>4. a \div Power(2, d) \in Int /\ x \div Power(2, y) \in Int /\ b \div Power(2, c) \in Int
                BY <3>1, ScaledIsInt
            <4>5. ShiftRight(a, d) = a \div Power(2, d) /\ ShiftRight(b, c) = b \div Power(2, c)
                BY <3>1 DEF ShiftRight
            <4> QED
                BY <4>1, <4>3, <4>4, <4>5, IntervalIsAnonymous
        <3> QED
            BY <2>8, <3>3, <3>4
    <2>9. CASE op \in {"<<", ">>"} /\ ~(c >= 0 /\ d < Width)
        <3>1. result = Unknown
            BY <1>2, <2>1, <2>9 DEF ArithmeticInterval
        <3> QED
            BY <3>1, UnknownIsAnonymous
    <2> QED
        BY <2>3, <2>4, <2>5, <2>6, <2>7, <2>8, <2>9 DEF Operations
<1> QED
    BY <1>1, <1>2

\* The interval of any operation is one of integers, also where nothing is
\* possible of its operands.
LEMMA ArithmeticIsAnonymous ==
    ASSUME NEW op \in Operations, NEW left \in Values, NEW right \in Values
    PROVE  ArithmeticInterval(op, left, right) \in Anonymous
<1> DEFINE result == ArithmeticInterval(op, left, right)
<1>1. CASE left.interval = None \/ right.interval = None
    BY <1>1, UnknownIsAnonymous DEF ArithmeticInterval
<1>2. CASE left.interval # None /\ right.interval # None
    <2>1. PICK a \in Int, b \in Int, c \in Int, d \in Int : left.interval = <<a, b>> /\ right.interval = <<c, d>>
        BY <1>2 DEF Values
    <2>2. CASE op \in {"+", "-", "%"}
        <3>1. /\ a + c \in Int /\ b + d \in Int /\ a - d \in Int /\ b - c \in Int
              /\ \/ result = Between(a + c, b + d)
                 \/ result = Between(a - d, b - c)
                 \/ result = Interval(a, b)
            BY <1>2, <2>1, <2>2 DEF ArithmeticInterval
        <3> QED
            BY <3>1, IntervalIsAnonymous, BetweenDescribes
    <2>3. CASE op = "*"
        <3>1. result = Hull({a * c, a * d, b * c, b * d})
            BY <1>2, <2>1, <2>3 DEF ArithmeticInterval
        <3>2. a * c \in Int /\ a * d \in Int /\ b * c \in Int /\ b * d \in Int
            OBVIOUS
        <3> QED
            BY <3>1, <3>2, HullDescribes
    <2>4. CASE op = "^" /\ c = d /\ c \in 0 .. ExponentMax
        <3>1. result = Hull({Power(a, c), Power(b, c), Power(0, c)})
            BY <1>2, <2>1, <2>4 DEF ArithmeticInterval
        <3>2. Power(a, c) \in Int /\ Power(b, c) \in Int /\ Power(0, c) \in Int
            BY <2>4, PowerIsInt
        <3>3. {Power(a, c), Power(b, c), Power(0, c)} = {Power(a, c), Power(b, c), Power(0, c), Power(0, c)}
            OBVIOUS
        <3> QED
            BY <3>1, <3>2, <3>3, HullDescribes
    <2>5. CASE op \in {"<<", ">>"} /\ c >= 0 /\ d < Width
        <3>1. \/ result = Interval(ShiftLeft(a, d), ShiftLeft(b, d))
              \/ result = Interval(ShiftRight(a, d), ShiftRight(b, c))
            BY <1>2, <2>1, <2>5 DEF ArithmeticInterval
        <3> QED
            BY <3>1, ShiftsAreInt, IntervalIsAnonymous
    <2>6. CASE (op = "^" /\ ~(c = d /\ c \in 0 .. ExponentMax)) \/ (op \in {"<<", ">>"} /\ ~(c >= 0 /\ d < Width))
        <3>1. result = Unknown
            BY <1>2, <2>1, <2>6 DEF ArithmeticInterval
        <3> QED
            BY <3>1, UnknownIsAnonymous
    <2> QED
        BY <2>2, <2>3, <2>4, <2>5, <2>6 DEF Operations
<1> QED
    BY <1>1, <1>2

-----------------------------------------------------------------------------
(* What is known of a program's values, and that it is true.               *)

Real == Symbols \ {None}
PairBounds == [left : Real, leftSign : {1, -1}, right : Real, rightSign : {1, -1}, upper : Int]

\* The symbol of a list is that of a name, never of a length.
ListsNamed(k) == \A n \in Lists : k[n].symbol \in {None} \cup {Symbol(y) : y \in Names}

\* Names with one symbol have one value; a list bears the symbol of its length.
Agree(k, e) == \A s \in Real : \A m, n \in Names : Bears(k, m, s) /\ Bears(k, n, s) => e[m] = e[n]

PairsHold(k, p, e) ==
    \A b \in p : \A m, n \in Names :
        Bears(k, m, b.left) /\ Bears(k, n, b.right) => b.leftSign * e[m] + b.rightSign * e[n] <= b.upper

\* What is known is well formed and true of the execution e.
Knows(k, e) ==
    /\ k \in [Names -> Values] /\ ListsNamed(k)
    /\ \A n \in Names : Describes(k[n], e[n])
    /\ Agree(k, e)
Sound(k, p, e) == Knows(k, e) /\ p \in SUBSET PairBounds /\ PairsHold(k, p, e)

EnvOK(e) == e \in [Names -> Int] /\ \A n \in Names : In(e[n], Bounds(TypeOf[n]))

-----------------------------------------------------------------------------
(* Symbols.                                                                *)

LEMMA SymbolFacts ==
    /\ \A m, n : Symbol(m) = Symbol(n) => m = n
    /\ \A m, n : LengthSymbol(m) = LengthSymbol(n) => m = n
    /\ \A m, n : Symbol(m) # LengthSymbol(n)
    /\ \A n : Symbol(n) # None /\ LengthSymbol(n) # None /\ Symbol(n)[1] = n
    /\ \A n \in Names : Symbol(n) \in Real /\ LengthSymbol(n) \in Real
<1>1. /\ \A m, n : Symbol(m) = Symbol(n) => m = n
      /\ \A m, n : LengthSymbol(m) = LengthSymbol(n) => m = n
      /\ \A m, n : Symbol(m) # LengthSymbol(n)
      /\ \A n : Symbol(n) # None /\ LengthSymbol(n) # None /\ Symbol(n)[1] = n
    BY DEF Symbol, LengthSymbol, None
<1> QED
    BY <1>1 DEF Real, Symbols

\* What a name bears: its symbol, and when it is a list also that of its length.
LEMMA BearsOf ==
    ASSUME NEW k, NEW n \in Names, NEW s \in Real, ListsNamed(k)
    PROVE  Bears(k, n, s) <=> \/ k[n].symbol = s
                              \/ n \in Lists /\ \E y \in Names : k[n].symbol = Symbol(y) /\ s = LengthSymbol(y)
BY SymbolFacts DEF Bears, ListsNamed

LEMMA SoundIsBelievable ==
    ASSUME NEW k, NEW p, NEW e, Sound(k, p, e) PROVE Believable(k, p, e)
<1>1. \A m, n \in Names : k[m].symbol # None /\ Bears(k, n, k[m].symbol) => e[m] = e[n]
    <2>1. ASSUME NEW m \in Names, NEW n \in Names, k[m].symbol # None, Bears(k, n, k[m].symbol)
          PROVE  e[m] = e[n]
        <3>1. k[m].symbol \in Real /\ Bears(k, m, k[m].symbol)
            BY <2>1 DEF Sound, Knows, Values, Real, Bears
        <3> QED
            BY <2>1, <3>1 DEF Sound, Knows, Agree
    <2> QED
        BY <2>1
<1> QED
    BY <1>1 DEF Sound, Knows, PairsHold, Believable

\* Giving values new knowledge under the same symbols.
SameSymbols(k, l) == \A n \in Names : l[n].symbol = k[n].symbol

LEMMA BearsSame ==
    ASSUME NEW k, NEW l, SameSymbols(k, l)
    PROVE  \A n \in Names : \A s : Bears(l, n, s) <=> Bears(k, n, s)
BY DEF SameSymbols, Bears

LEMMA LearntIsKnown ==
    ASSUME NEW k, NEW e, Knows(k, e), NEW l \in [Names -> Values], SameSymbols(k, l),
           \A n \in Names : Describes(l[n], e[n])
    PROVE  Knows(l, e)
<1>1. Agree(l, e)
    BY BearsSame DEF Knows, Agree
<1>2. ListsNamed(l)
    BY DEF Knows, ListsNamed, SameSymbols, Lists
<1> QED
    BY <1>1, <1>2 DEF Knows

LEMMA LearntIsSound ==
    ASSUME NEW k, NEW p, NEW e, Sound(k, p, e), NEW l, Knows(l, e), SameSymbols(k, l)
    PROVE  Sound(l, p, e)
BY BearsSame DEF Sound, PairsHold

-----------------------------------------------------------------------------
(* A name that stands for another value.                                   *)

\* s is borne by some name with the value x, or by none but n and in no pair.
Placed(k, p, e, n, x, s) ==
    \/ \E m \in Names : Bears(k, m, s) /\ e[m] = x
    \/ /\ \A m \in Names \ {n} : ~Bears(k, m, s)
       /\ \A b \in p : b.left # s /\ b.right # s

LEMMA Rebind ==
    ASSUME NEW k, NEW p, NEW e \in [Names -> Int], Sound(k, p, e), NEW n \in Names, NEW v \in Values, NEW x \in Int,
           Describes(v, x),
           n \in Lists => v.symbol \in {None} \cup {Symbol(y) : y \in Names},
           \A s \in Real : Bears([k EXCEPT ![n] = v], n, s) => Placed(k, p, e, n, x, s)
    PROVE  Sound([k EXCEPT ![n] = v], p, [e EXCEPT ![n] = x])
<1> DEFINE l == [k EXCEPT ![n] = v]
           f == [e EXCEPT ![n] = x]
<1>1. /\ k \in [Names -> Values] /\ l \in [Names -> Values] /\ l[n] = v /\ f[n] = x
      /\ \A m \in Names \ {n} : l[m] = k[m] /\ f[m] = e[m]
    BY DEF Sound, Knows
<1>2. ListsNamed(l) /\ \A m \in Names : Describes(l[m], f[m])
    BY <1>1 DEF Sound, Knows, ListsNamed
<1>3. \A m \in Names \ {n} : \A s : Bears(l, m, s) <=> Bears(k, m, s)
    BY <1>1 DEF Bears
<1>4. p \in SUBSET PairBounds /\ Agree(k, e) /\ PairsHold(k, p, e)
    BY DEF Sound, Knows
<1>5. \A s \in Real : Bears(l, n, s) => Placed(k, p, e, n, x, s)
    OBVIOUS
<1> HIDE DEF l, f
\* Whoever bears a symbol now has the value of one that bore it, or bears it alone.
<1>6. ASSUME NEW s \in Real, NEW m \in Names, Bears(l, m, s)
      PROVE  \/ \E o \in Names : Bears(k, o, s) /\ e[o] = f[m]
             \/ /\ m = n /\ \A o \in Names : Bears(l, o, s) => o = n
                /\ \A b \in p : b.left # s /\ b.right # s
    BY <1>1, <1>3, <1>5, <1>6 DEF Placed
<1>7. Agree(l, f)
    <2>1. ASSUME NEW s \in Real, NEW m \in Names, NEW o \in Names, Bears(l, m, s), Bears(l, o, s)
          PROVE  f[m] = f[o]
        BY <1>4, <1>6, <2>1 DEF Agree
    <2> QED
        BY <2>1 DEF Agree
<1>8. PairsHold(l, p, f)
    <2>1. ASSUME NEW b \in p, NEW m \in Names, NEW o \in Names, Bears(l, m, b.left), Bears(l, o, b.right)
          PROVE  b.leftSign * f[m] + b.rightSign * f[o] <= b.upper
        <3>1. b.left \in Real /\ b.right \in Real
            BY <1>4 DEF PairBounds
        <3>2. PICK q \in Names : Bears(k, q, b.left) /\ e[q] = f[m]
            BY <1>6, <2>1, <3>1
        <3>3. PICK r \in Names : Bears(k, r, b.right) /\ e[r] = f[o]
            BY <1>6, <2>1, <3>1
        <3>4. b.leftSign * e[q] + b.rightSign * e[r] <= b.upper
            BY <1>4, <3>2, <3>3 DEF PairsHold
        <3> QED
            BY <3>2, <3>3, <3>4
    <2> QED
        BY <2>1 DEF PairsHold
<1> QED
    BY <1>1, <1>2, <1>4, <1>7, <1>8 DEF Sound, Knows, l, f

\* A computed value has no symbol.
LEMMA RebindAnonymous ==
    ASSUME NEW k, NEW p, NEW e \in [Names -> Int], Sound(k, p, e), NEW n \in Names, NEW v \in Values, NEW x \in Int,
           Describes(v, x), v.symbol = None
    PROVE  Sound([k EXCEPT ![n] = v], p, [e EXCEPT ![n] = x])
<1>1. \A s \in Real : ~Bears([k EXCEPT ![n] = v], n, s)
    BY DEF Bears, Real, Sound, Knows
<1> QED
    BY <1>1, Rebind

\* A copy bears what the original does.
LEMMA RebindCopy ==
    ASSUME NEW k, NEW p, NEW e \in [Names -> Int], Sound(k, p, e), NEW n \in Names, NEW m \in Names,
           n \in Lists => m \in Lists
    PROVE  Sound([k EXCEPT ![n] = k[m]], p, [e EXCEPT ![n] = e[m]])
<1>1. k \in [Names -> Values] /\ ListsNamed(k) /\ Describes(k[m], e[m]) /\ e[m] \in Int /\ k[m] \in Values
    BY DEF Sound, Knows
<1>2. \A s \in Real : Bears([k EXCEPT ![n] = k[m]], n, s) => Bears(k, m, s)
    BY <1>1 DEF Bears
<1>3. n \in Lists => k[m].symbol \in {None} \cup {Symbol(y) : y \in Names}
    BY <1>1 DEF ListsNamed
<1>4. \A s \in Real : Bears([k EXCEPT ![n] = k[m]], n, s) => Placed(k, p, e, n, e[m], s)
    BY <1>2 DEF Placed
<1> QED
    BY <1>1, <1>3, <1>4, Rebind

-----------------------------------------------------------------------------
(* Operands.                                                               *)

LEMMA NamesHaveTypes ==
    /\ \A n \in Lists : n \in Names /\ Bounds(TypeOf[n]) = <<0, HostIndexMax>>
    /\ \A n \in IntegerNames : n \in Names /\ n \notin Lists /\ n \notin Records
    /\ \A n \in Names : n \in IntegerNames \/ n \in Lists \/ n \in Records
    /\ \A n \in Names : /\ Bounds(TypeOf[n]) \in Int \X Int
                       /\ Bounds(TypeOf[n])[1] \in Int /\ Bounds(TypeOf[n])[2] \in Int
    /\ IntMin \in Int /\ UintMax \in Nat /\ IntMax \in Nat /\ HostIndexMax \in Nat /\ HostIndexMax <= UintMax
    /\ Width \in Nat
BY TypesAssumption DEF IntegerNames, Lists, Records, Bounds, IntMin, UintMax

LEMMA IntegerBounds ==
    ASSUME NEW n \in IntegerNames
    PROVE  /\ Bounds(TypeOf[n]) \in Int \X Int
           /\ IntMin <= Bounds(TypeOf[n])[1] /\ Bounds(TypeOf[n])[2] <= UintMax
BY WideFacts, TypesAssumption DEF IntegerNames, Bounds

LEMMA NegationDescribes ==
    ASSUME NEW v \in Values, NEW x \in Int, Describes(v, x), ~Unnegatable(v)
    PROVE  Negation(v) \in Anonymous /\ Describes(Negation(v), -x)
<1>1. CASE v.interval = None
    BY <1>1, UnknownIsAnonymous DEF Negation
<1>2. CASE v.interval # None
    <2>1. PICK a \in Int, b \in Int : v.interval = <<a, b>>
        BY <1>2 DEF Values
    <2>2. -x \in -b .. -a
        BY <1>2, <2>1 DEF Describes, In
    <2>3. Negation(v) = Interval(-b, -a)
        <3>1. \A end \in {1, 2} : -v.interval[end] \in Wide
            BY <1>2 DEF Unnegatable
        <3>2. -a \in Wide /\ -b \in Wide /\ -a \in Int /\ -b \in Int
            BY <2>1, <3>1
        <3>3. Negation(v) = Interval(Wrapped(-b), Wrapped(-a))
            BY <1>2, <2>1 DEF Negation
        <3> QED
            BY <3>2, <3>3, WrappedFacts
    <2> QED
        BY <2>2, <2>3, IntervalIsAnonymous
<1> QED
    BY <1>1, <1>2

LEMMA LengthDescribes ==
    ASSUME NEW k, NEW e, Knows(k, e), EnvOK(e), NEW n \in Lists
    PROVE  /\ LengthOf(k, n) \in Values /\ Describes(LengthOf(k, n), e[n]) /\ e[n] \in Int
           /\ LengthOf(k, n).length = None
           /\ LengthOf(k, n).symbol \in {None, LengthSymbol(n)}
<1>1. n \in Names /\ e[n] \in 0 .. HostIndexMax /\ k[n] \in Values /\ Describes(k[n], e[n])
    BY NamesHaveTypes DEF EnvOK, In, Knows
<1>2. CASE k[n].length # None
    <2>1. PICK m \in Int : k[n].length = <<m>>
        BY <1>1, <1>2 DEF Values
    <2>2. e[n] = m /\ LengthOf(k, n) = Interval(m, m)
        BY <1>1, <1>2, <2>1 DEF Describes, LengthOf
    <2>3. e[n] \in m .. m
        BY <1>1, <2>2
    <2> QED
        BY <2>1, <2>2, <2>3, IntervalIsAnonymous DEF Anonymous
<1>3. CASE k[n].length = None
    <2> DEFINE i == Interval(0, HostIndexMax)
    <2>1. i \in Anonymous /\ Describes(i, e[n])
        BY <1>1, NamesHaveTypes, IntervalIsAnonymous
    <2>2. LengthOf(k, n) = [i EXCEPT !.symbol = LengthSymbol(n)]
        BY <1>3 DEF LengthOf
    <2> HIDE DEF i
    <2>3. LengthSymbol(n) \in Symbols
        BY <1>1 DEF Symbols
    <2> QED
        BY <1>1, <2>1, <2>2, <2>3 DEF Anonymous, Values, Describes
<1> QED
    BY <1>2, <1>3

\* The value of an operand describes what it is.
LEMMA EvalDescribes ==
    ASSUME NEW k, NEW e, Knows(k, e), EnvOK(e), NEW a, IsOperand(a), a.sign = 1 \/ a.kind = "literal"
    PROVE  Eval(k, a) \in Values /\ Concrete(e, a) \in Int /\ Describes(Eval(k, a), Concrete(e, a))
<1> DEFINE v == CASE a.kind = "literal" -> Interval(a.value, a.value)
                  [] a.kind = "name" -> k[a.name]
                  [] a.kind = "length" -> LengthOf(k, a.name)
           x == IF a.kind = "literal" THEN a.value ELSE e[a.name]
<1>1. v \in Values /\ x \in Int /\ Describes(v, x)
    <2>1. CASE a.kind = "literal"
        <3>1. a.value \in Int /\ a.value \in a.value .. a.value
            BY DEF IsOperand
        <3> QED
            BY <2>1, <3>1, IntervalIsAnonymous DEF Anonymous
    <2>2. CASE a.kind = "name"
        BY <2>2 DEF IsOperand, Knows, EnvOK
    <2>3. CASE a.kind = "length"
        BY <2>3, LengthDescribes DEF IsOperand
    <2> QED
        BY <2>1, <2>2, <2>3 DEF IsOperand
<1>2. Eval(k, a) = (IF a.sign = 1 THEN v ELSE Negation(v)) /\ Concrete(e, a) = a.sign * x
    BY DEF Eval, Concrete
<1> HIDE DEF v, x
<1>3. CASE a.sign = 1
    BY <1>1, <1>2, <1>3
<1>4. CASE a.sign = -1
    <2>1. v.interval = <<a.value, a.value>> /\ a.value \in IntMin .. UintMax
        BY <1>4, IntervalIsAnonymous, WideFacts DEF v, IsOperand
    <2>2. ~Unnegatable(v)
        BY <2>1, WideFacts DEF Unnegatable, Wide
    <2>3. Negation(v) \in Anonymous /\ Describes(Negation(v), -x) /\ a.sign * x = -x
        BY <1>1, <1>4, <2>2, NegationDescribes
    <2> QED
        BY <1>1, <1>2, <1>4, <2>3 DEF Anonymous
<1> QED
    BY <1>3, <1>4 DEF IsOperand

LEMMA PlainDescribes ==
    ASSUME NEW k, NEW e, Knows(k, e), EnvOK(e), NEW a, Plain(a)
    PROVE  Eval(k, a) \in Values /\ Concrete(e, a) \in Int /\ Describes(Eval(k, a), Concrete(e, a))
BY EvalDescribes DEF Plain

\* Forgetting the lengths is always sound.
LEMMA WipeKnows ==
    ASSUME NEW k, NEW e, Knows(k, e)
    PROVE  Knows(Wipe(k), e) /\ SameSymbols(k, Wipe(k))
<1>1. k \in [Names -> Values] /\ \A n \in Names : k[n] \in Values /\ Describes(k[n], e[n])
    BY DEF Knows
<1>2. ASSUME NEW n \in Names
      PROVE  [k[n] EXCEPT !.length = None] \in Values /\ Describes([k[n] EXCEPT !.length = None], e[n])
    BY <1>1 DEF Values, Describes
<1>3. Wipe(k) \in [Names -> Values] /\ SameSymbols(k, Wipe(k)) /\ \A n \in Names : Describes(Wipe(k)[n], e[n])
    BY <1>1, <1>2 DEF Wipe, SameSymbols, Values
<1> QED
    BY <1>3, LearntIsKnown

LEMMA AfterKnows ==
    ASSUME NEW k, NEW e, Knows(k, e), NEW S
    PROVE  Knows(After(k, S), e) /\ SameSymbols(k, After(k, S))
BY WipeKnows DEF After, SameSymbols

-----------------------------------------------------------------------------
(* Conditions.                                                             *)

Comparators == {"<", "<=", ">", ">=", "==", "!="}

LEMMA NarrowDescribes ==
    ASSUME NEW v \in Values, v.interval # None, NEW x \in Int, NEW y \in Int, NEW op \in Comparators,
           Describes(v, x), Compare(x, op, y), -UintMax <= y, y <= UintMax
    PROVE  Narrow(v, op, y) \in Values /\ Describes(Narrow(v, op, y), x) /\ Narrow(v, op, y).symbol = v.symbol
<1>1. PICK a \in Int, b \in Int : v.interval = <<a, b>>
    BY DEF Values
<1>2. a <= x /\ x <= b
    BY <1>1 DEF Describes, In, None
<1>3. ASSUME NEW c \in Int, NEW d \in Int, c <= x, x <= d
      PROVE  LET w == [v EXCEPT !.interval = <<c, d>>]
             IN  w \in Values /\ Describes(w, x) /\ w.symbol = v.symbol
    BY <1>3 DEF Values, Describes, In, None
<1>0. y - 1 \in Int /\ y + 1 \in Int /\ Wrapped(y - 1) = y - 1 /\ Wrapped(y + 1) = y + 1
    <2>1. y - 1 \in Wide /\ y + 1 \in Wide
        BY WideFacts DEF Wide
    <2> QED
        BY <2>1, WrappedFacts
<1>4. CASE op = "<"
    <2>1. Narrow(v, op, y) = [v EXCEPT !.interval = <<a, Least({b, y - 1})>>]
        <3>1. Narrow(v, op, y) = [v EXCEPT !.interval = <<v.interval[1], Least({v.interval[2], Wrapped(y - 1)})>>]
            BY <1>4 DEF Narrow
        <3>2. Least({v.interval[2], Wrapped(y - 1)}) = Least({b, y - 1}) /\ v.interval[1] = a
            BY <1>0, <1>1
        <3> QED
            BY <3>1, <3>2
    <2>2. Least({b, y - 1}) \in Int /\ x <= Least({b, y - 1})
        BY <1>2, <1>4, EitherEnd DEF Compare
    <2> QED
        BY <1>2, <1>3, <2>1, <2>2
<1>5. CASE op = "<="
    <2>1. Narrow(v, op, y) = [v EXCEPT !.interval = <<a, Least({b, y})>>]
        BY <1>1, <1>5 DEF Narrow
    <2>2. Least({b, y}) \in Int /\ x <= Least({b, y})
        BY <1>2, <1>5, EitherEnd DEF Compare
    <2> QED
        BY <1>2, <1>3, <2>1, <2>2
<1>6. CASE op = ">"
    <2>1. Narrow(v, op, y) = [v EXCEPT !.interval = <<Greatest({a, y + 1}), b>>]
        BY <1>0, <1>1, <1>6 DEF Narrow
    <2>2. Greatest({a, y + 1}) \in Int /\ Greatest({a, y + 1}) <= x
        <3>1. y + 1 \in Int /\ y + 1 <= x
            BY <1>6 DEF Compare
        <3> QED
            BY <1>2, <3>1, EitherEnd
    <2> QED
        BY <1>2, <1>3, <2>1, <2>2
<1>7. CASE op = ">="
    <2>1. Narrow(v, op, y) = [v EXCEPT !.interval = <<Greatest({a, y}), b>>]
        BY <1>1, <1>7 DEF Narrow
    <2>2. Greatest({a, y}) \in Int /\ Greatest({a, y}) <= x
        BY <1>2, <1>7, EitherEnd DEF Compare
    <2> QED
        BY <1>2, <1>3, <2>1, <2>2
<1>8. CASE op = "!=" /\ y = 0
    <2>1. Narrow(v, op, y) = [v EXCEPT !.nonzero = TRUE] /\ x # 0
        BY <1>8 DEF Narrow, Compare
    <2> QED
        BY <2>1 DEF Values, Describes
<1>9. CASE op = "==" \/ (op = "!=" /\ y # 0)
    BY <1>9 DEF Narrow
<1> QED
    BY <1>4, <1>5, <1>6, <1>7, <1>8, <1>9 DEF Comparators

LEMMA CompareIs ==
    ASSUME NEW x \in Int, NEW y \in Int
    PROVE  /\ Compare(x, "<", y) <=> x < y
           /\ Compare(x, ">=", y) <=> ~(x < y)
           /\ Compare(x, "<=", y) <=> x <= y
           /\ Compare(x, ">", y) <=> ~(x <= y)
           /\ Compare(x, "==", y) <=> x = y
           /\ Compare(x, "!=", y) <=> x # y
<1>1. Compare(x, "<", y) <=> x < y
    BY DEF Compare
<1>2. Compare(x, ">=", y) <=> x >= y
    BY DEF Compare
<1>3. Compare(x, "<=", y) <=> x <= y
    BY DEF Compare
<1>4. Compare(x, ">", y) <=> x > y
    BY DEF Compare
<1>5. (Compare(x, "==", y) <=> x = y) /\ (Compare(x, "!=", y) <=> x # y)
    BY DEF Compare
<1> QED
    BY <1>1, <1>2, <1>3, <1>4, <1>5

LEMMA HoldingCompares ==
    ASSUME NEW op \in Comparators, NEW x \in Int, NEW y \in Int
    PROVE  /\ Holding(op, TRUE) \in Comparators /\ Holding(op, FALSE) \in Comparators
           /\ Compare(x, op, y) => Compare(x, Holding(op, TRUE), y)
           /\ ~Compare(x, op, y) => Compare(x, Holding(op, FALSE), y)
<1>1. CASE op = "<"
    <2>1. Holding(op, TRUE) = "<" /\ Holding(op, FALSE) = ">="
        BY <1>1 DEF Holding
    <2>2. /\ Compare(x, op, y) <=> Compare(x, "<", y)
          /\ Compare(x, Holding(op, TRUE), y) <=> Compare(x, "<", y)
          /\ Compare(x, Holding(op, FALSE), y) <=> Compare(x, ">=", y)
        BY <1>1, <2>1
    <2> QED
        BY <2>1, <2>2, CompareIs DEF Comparators
<1>2. CASE op = "<="
    <2>1. Holding(op, TRUE) = "<=" /\ Holding(op, FALSE) = ">"
        BY <1>2 DEF Holding
    <2>2. /\ Compare(x, op, y) <=> Compare(x, "<=", y)
          /\ Compare(x, Holding(op, TRUE), y) <=> Compare(x, "<=", y)
          /\ Compare(x, Holding(op, FALSE), y) <=> Compare(x, ">", y)
        BY <1>2, <2>1
    <2> QED
        BY <2>1, <2>2, CompareIs DEF Comparators
<1>3. CASE op = ">"
    <2>1. Holding(op, TRUE) = ">" /\ Holding(op, FALSE) = "<="
        BY <1>3 DEF Holding
    <2>2. /\ Compare(x, op, y) <=> Compare(x, ">", y)
          /\ Compare(x, Holding(op, TRUE), y) <=> Compare(x, ">", y)
          /\ Compare(x, Holding(op, FALSE), y) <=> Compare(x, "<=", y)
        BY <1>3, <2>1
    <2> QED
        BY <2>1, <2>2, CompareIs DEF Comparators
<1>4. CASE op = ">="
    <2>1. Holding(op, TRUE) = ">=" /\ Holding(op, FALSE) = "<"
        BY <1>4 DEF Holding
    <2>2. /\ Compare(x, op, y) <=> Compare(x, ">=", y)
          /\ Compare(x, Holding(op, TRUE), y) <=> Compare(x, ">=", y)
          /\ Compare(x, Holding(op, FALSE), y) <=> Compare(x, "<", y)
        BY <1>4, <2>1
    <2> QED
        BY <2>1, <2>2, CompareIs DEF Comparators
<1>5. CASE op = "=="
    <2>1. Holding(op, TRUE) = "==" /\ Holding(op, FALSE) = "!="
        BY <1>5 DEF Holding
    <2>2. /\ Compare(x, op, y) <=> Compare(x, "==", y)
          /\ Compare(x, Holding(op, TRUE), y) <=> Compare(x, "==", y)
          /\ Compare(x, Holding(op, FALSE), y) <=> Compare(x, "!=", y)
        BY <1>5, <2>1
    <2> QED
        BY <2>1, <2>2, CompareIs DEF Comparators
<1>6. CASE op = "!="
    <2>1. Holding(op, TRUE) = "!=" /\ Holding(op, FALSE) = "=="
        BY <1>6 DEF Holding
    <2>2. /\ Compare(x, op, y) <=> Compare(x, "!=", y)
          /\ Compare(x, Holding(op, TRUE), y) <=> Compare(x, "!=", y)
          /\ Compare(x, Holding(op, FALSE), y) <=> Compare(x, "==", y)
        BY <1>6, <2>1
    <2> QED
        BY <2>1, <2>2, CompareIs DEF Comparators
<1> QED
    BY <1>1, <1>2, <1>3, <1>4, <1>5, <1>6 DEF Comparators

\* Learning a comparison that holds.
LEMMA RefineKnows ==
    ASSUME NEW view, NEW e, Knows(view.known, e), EnvOK(e), NEW c, IsOperand(c.left), IsOperand(c.right),
           NEW truth \in BOOLEAN, Holding(c.op, truth) \in Comparators,
           Compare(Concrete(e, c.left), Holding(c.op, truth), Concrete(e, c.right))
    PROVE  LET k == Refine(view, c, truth).known IN Knows(k, e) /\ SameSymbols(view.known, k)
<1> DEFINE op == Holding(c.op, truth)
           right == Eval(view.known, c.right)
           known1 == After(view.known, {c.right})
           n == c.left.name
           y == right.interval[1]
           k == Refine(view, c, truth).known
<1>1. Knows(known1, e) /\ SameSymbols(view.known, known1)
    BY AfterKnows
<1>3. CASE k = known1
    BY <1>1, <1>3
<1>4. CASE /\ ~Related(c) /\ c.left.kind = "name" /\ c.left.sign = 1 /\ Exact(right) /\ known1[n].interval # None
           /\ k = [known1 EXCEPT ![n] = Narrow(@, op, y)]
    <2>0. right \in Values /\ Describes(right, Concrete(e, c.right)) /\ Concrete(e, c.right) \in Int
          /\ -UintMax <= Concrete(e, c.right) /\ Concrete(e, c.right) <= UintMax
        <3>1. c.right.kind = "literal"
            BY <1>4, SymbolFacts DEF Related, SymbolOf, IsOperand
        <3>2. /\ Concrete(e, c.right) = c.right.sign * c.right.value /\ c.right.sign \in {1, -1}
              /\ c.right.value \in Int /\ IntMin <= c.right.value /\ c.right.value <= UintMax
            BY <3>1, WideFacts DEF Concrete, IsOperand
        <3>3. /\ -UintMax <= c.right.sign * c.right.value
              /\ c.right.sign * c.right.value <= UintMax
            BY <3>2, WideFacts, TypesAssumption DEF IntMin, UintMax
        <3> QED
            BY <3>1, <3>2, <3>3, EvalDescribes
    <2>1. n \in Names /\ Concrete(e, c.left) = e[n] /\ e[n] \in Int
        BY <1>4 DEF IsOperand, Concrete, EnvOK
    <2>2. y \in Int /\ Concrete(e, c.right) = y /\ -UintMax <= y /\ y <= UintMax
        BY <2>0, <1>4 DEF Exact, Describes, In, Values
    <2>3. known1 \in [Names -> Values] /\ \A m \in Names : Describes(known1[m], e[m])
        BY <1>1 DEF Knows
    <2> DEFINE w == Narrow(known1[n], op, y)
    <2> HIDE DEF known1
    <2>4. w \in Values /\ Describes(w, e[n]) /\ w.symbol = known1[n].symbol
        <3>1. known1[n] \in Values /\ Describes(known1[n], e[n]) /\ Compare(e[n], op, y)
            BY <2>1, <2>2, <2>3
        <3> QED
            BY <1>4, <2>0, <2>1, <2>2, <3>1, NarrowDescribes
    <2> HIDE DEF w
    <2>5. k = [known1 EXCEPT ![n] = w]
        BY <1>4 DEF w
    <2>6. k \in [Names -> Values] /\ SameSymbols(known1, k) /\ \A m \in Names : Describes(k[m], e[m])
        BY <2>1, <2>3, <2>4, <2>5 DEF SameSymbols
    <2>7. Knows(k, e)
        BY <1>1, <2>6, LearntIsKnown
    <2> QED
        BY <1>1, <2>6, <2>7 DEF SameSymbols
<1> QED
    BY <1>3, <1>4 DEF Refine

\* Under a name that is not misnamed, its symbols are only borne by its equals.
LEMMA NamedBearers ==
    ASSUME NEW k, NEW e, Knows(k, e), NEW a, IsOperand(a), SymbolOf(a) # None, ~Misnamed(k, a.name),
           NEW m \in Names, Bears(k, m, SymbolOf(a))
    PROVE  e[m] = e[a.name]
<1> DEFINE n == a.name
<1>1. n \in Names /\ SymbolOf(a) \in {Symbol(n), LengthSymbol(n)} /\ SymbolOf(a) \in Real
    BY SymbolFacts DEF IsOperand, SymbolOf
<1>2. SymbolOf(a) = LengthSymbol(n) => n \in Lists
    BY SymbolFacts DEF IsOperand, SymbolOf
<1>3. ListsNamed(k)
    BY DEF Knows
<1>4. k[m].symbol \in {Symbol(n), LengthSymbol(n)}
    BY <1>1, <1>3, BearsOf, SymbolFacts
<1>5. k[n].symbol = Symbol(n)
    BY <1>4 DEF Misnamed, Borne, SymbolsOf
<1>6. Bears(k, n, SymbolOf(a))
    BY <1>1, <1>2, <1>3, <1>5, BearsOf
<1> QED
    BY <1>1, <1>6 DEF Knows, Agree

LEMMA PairBoundHolds ==
    ASSUME NEW k, NEW e, Knows(k, e), EnvOK(e), NEW c, IsOperand(c.left), IsOperand(c.right), Related(c),
           ~Misnamed(k, c.left.name), ~Misnamed(k, c.right.name),
           NEW op \in Comparators, Compare(Concrete(e, c.left), op, Concrete(e, c.right))
    PROVE  PairBound(c, op) \in SUBSET PairBounds /\ PairsHold(k, PairBound(c, op), e)
<1> DEFINE m == c.left.name
           n == c.right.name
<1>1. /\ m \in Names /\ n \in Names /\ e[m] \in Int /\ e[n] \in Int
      /\ SymbolOf(c.left) \in Real /\ SymbolOf(c.right) \in Real
      /\ c.left.sign \in {1, -1} /\ c.right.sign \in {1, -1}
      /\ Concrete(e, c.left) = c.left.sign * e[m] /\ Concrete(e, c.right) = c.right.sign * e[n]
    BY SymbolFacts DEF IsOperand, Related, SymbolOf, EnvOK, Concrete
<1>2. /\ \A o \in Names : Bears(k, o, SymbolOf(c.left)) => e[o] = e[m]
      /\ \A o \in Names : Bears(k, o, SymbolOf(c.right)) => e[o] = e[n]
    BY NamedBearers DEF Related
<1>3. ASSUME NEW b \in PairBound(c, op)
      PROVE  /\ b \in PairBounds /\ b.left = SymbolOf(c.left) /\ b.right = SymbolOf(c.right)
             /\ b.leftSign * e[m] + b.rightSign * e[n] <= b.upper
    <2>1. PICK l \in {1, -1}, r \in {1, -1}, u \in {0, -1} :
              /\ b = [left |-> SymbolOf(c.left), leftSign |-> l * c.left.sign,
                       right |-> SymbolOf(c.right), rightSign |-> r * c.right.sign, upper |-> u]
              /\ l * Concrete(e, c.left) + r * Concrete(e, c.right) <= u
        <3>1. CASE op = "<"
            BY <1>1, <1>3, <3>1 DEF PairBound, Compare
        <3>2. CASE op = "<="
            BY <1>1, <1>3, <3>2 DEF PairBound, Compare
        <3>3. CASE op = ">"
            BY <1>1, <1>3, <3>3 DEF PairBound, Compare
        <3>4. CASE op = ">="
            BY <1>1, <1>3, <3>4 DEF PairBound, Compare
        <3>5. CASE op \in {"==", "!="}
            BY <1>3, <3>5 DEF PairBound
        <3> QED
            BY <3>1, <3>2, <3>3, <3>4, <3>5 DEF Comparators
    <2>2. l * c.left.sign \in {1, -1} /\ r * c.right.sign \in {1, -1}
        BY <1>1
    <2>3. (l * c.left.sign) * e[m] + (r * c.right.sign) * e[n] <= u
        BY <1>1, <2>1
    <2> QED
        BY <1>1, <2>1, <2>2, <2>3 DEF PairBounds
<1> QED
    BY <1>2, <1>3 DEF PairsHold

LEMMA RefineSound ==
    ASSUME NEW view, NEW e, Sound(view.known, view.pairs, e), EnvOK(e), NEW c, IsOperand(c.left), IsOperand(c.right),
           NEW truth \in BOOLEAN, Holding(c.op, truth) \in Comparators,
           Compare(Concrete(e, c.left), Holding(c.op, truth), Concrete(e, c.right)),
           Related(c) => ~Misnamed(view.known, c.left.name) /\ ~Misnamed(view.known, c.right.name)
    PROVE  LET r == Refine(view, c, truth) IN Sound(r.known, r.pairs, e) /\ SameSymbols(view.known, r.known)
<1> DEFINE r == Refine(view, c, truth)
           op == Holding(c.op, truth)
<1>1. Knows(r.known, e) /\ SameSymbols(view.known, r.known)
    BY RefineKnows DEF Sound
<1>2. r.pairs = view.pairs \/ (Related(c) /\ r.pairs = view.pairs \cup PairBound(c, op))
    BY DEF Refine
<1>3. CASE Related(c) /\ r.pairs = view.pairs \cup PairBound(c, op)
    <2>1. PairBound(c, op) \in SUBSET PairBounds /\ PairsHold(view.known, PairBound(c, op), e)
        BY <1>3, PairBoundHolds DEF Sound
    <2>2. Sound(view.known, r.pairs, e)
        BY <1>3, <2>1 DEF Sound, PairsHold
    <2> QED
        BY <1>1, <2>2, LearntIsSound
<1>4. CASE r.pairs = view.pairs
    BY <1>1, <1>4, LearntIsSound
<1> QED
    BY <1>2, <1>3, <1>4

\* What a whole condition teaches.
LEMMA HoldsInParts ==
    ASSUME NEW e, EnvOK(e), NEW c, IsCondition(c)
    PROVE  /\ \A i \in DOMAIN c : /\ IsOperand(c[i].left) /\ IsOperand(c[i].right)
                                 /\ Concrete(e, c[i].left) \in Int /\ Concrete(e, c[i].right) \in Int
                                 /\ \A truth \in BOOLEAN : Holding(c[i].op, truth) \in Comparators
           /\ Holds(e, c) => \A i \in DOMAIN c :
                    Compare(Concrete(e, c[i].left), Holding(c[i].op, TRUE), Concrete(e, c[i].right))
           /\ Len(c) = 1 => (DOMAIN c = {1}
                             /\ (~Holds(e, c) => Compare(Concrete(e, c[1].left), Holding(c[1].op, FALSE),
                                                         Concrete(e, c[1].right))))
           /\ Len(c) # 1 => DOMAIN c = {1, 2}
<1>1. ASSUME NEW i \in DOMAIN c
      PROVE  /\ IsOperand(c[i].left) /\ IsOperand(c[i].right) /\ c[i].op \in Comparators
             /\ Concrete(e, c[i].left) \in Int /\ Concrete(e, c[i].right) \in Int
    BY DEF IsCondition, IsOperand, Concrete, EnvOK, Comparators
<1>2. ASSUME NEW i \in DOMAIN c
      PROVE  LET x == Concrete(e, c[i].left)
                 y == Concrete(e, c[i].right)
             IN  /\ \A truth \in BOOLEAN : Holding(c[i].op, truth) \in Comparators
                 /\ Compare(x, c[i].op, y) => Compare(x, Holding(c[i].op, TRUE), y)
                 /\ ~Compare(x, c[i].op, y) => Compare(x, Holding(c[i].op, FALSE), y)
    <2> DEFINE x == Concrete(e, c[i].left)
               y == Concrete(e, c[i].right)
    <2>1. x \in Int /\ y \in Int /\ c[i].op \in Comparators
        BY <1>1
    <2> HIDE DEF x, y
    <2>2. /\ Holding(c[i].op, TRUE) \in Comparators /\ Holding(c[i].op, FALSE) \in Comparators
          /\ Compare(x, c[i].op, y) => Compare(x, Holding(c[i].op, TRUE), y)
          /\ ~Compare(x, c[i].op, y) => Compare(x, Holding(c[i].op, FALSE), y)
        BY <2>1, HoldingCompares
    <2> QED
        BY <2>2 DEF x, y
<1>3. (Len(c) = 1 => DOMAIN c = {1}) /\ (Len(c) # 1 => DOMAIN c = {1, 2})
    BY DEF IsCondition
<1> QED
    BY <1>1, <1>2, <1>3 DEF Holds

LEMMA RefineAllKnows ==
    ASSUME NEW view, NEW e, Knows(view.known, e), EnvOK(e), NEW c, IsCondition(c), NEW truth \in BOOLEAN,
           truth = Holds(e, c)
    PROVE  LET k == RefineAll(view, c, truth).known IN Knows(k, e) /\ SameSymbols(view.known, k)
<1> USE HoldsInParts
<1>1. CASE Len(c) = 1
    <2>1. Compare(Concrete(e, c[1].left), Holding(c[1].op, truth), Concrete(e, c[1].right))
        BY <1>1
    <2>2. Knows(Refine(view, c[1], truth).known, e) /\ SameSymbols(view.known, Refine(view, c[1], truth).known)
        BY <1>1, <2>1, RefineKnows
    <2> QED
        BY <1>1, <2>2 DEF RefineAll
<1>2. CASE Len(c) # 1 /\ truth
    <2> DEFINE v1 == Refine(view, c[1], TRUE)
    <2>1. Knows(v1.known, e) /\ SameSymbols(view.known, v1.known)
        BY <1>2, RefineKnows
    <2> HIDE DEF v1
    <2>2. Knows(Refine(v1, c[2], TRUE).known, e) /\ SameSymbols(v1.known, Refine(v1, c[2], TRUE).known)
        BY <1>2, <2>1, RefineKnows
    <2> QED
        BY <1>2, <2>1, <2>2 DEF RefineAll, v1, SameSymbols
<1>3. CASE Len(c) # 1 /\ ~truth
    BY <1>3, AfterKnows DEF RefineAll
<1> QED
    BY <1>1, <1>2, <1>3

LEMMA MisnamedSame ==
    ASSUME NEW k, NEW l, SameSymbols(k, l), NEW n \in Names
    PROVE  Misnamed(l, n) <=> Misnamed(k, n)
BY DEF SameSymbols, Misnamed, Borne

\* No comparison of c is between names that stand for something else.
Straight(k, c) ==
    ~ \E i \in DOMAIN c : Related(c[i]) /\ \E o \in {c[i].left, c[i].right} : Misnamed(k, o.name)

LEMMA RefineAllSound ==
    ASSUME NEW view, NEW e, Sound(view.known, view.pairs, e), EnvOK(e), NEW c, IsCondition(c), NEW truth \in BOOLEAN,
           truth = Holds(e, c), Straight(view.known, c)
    PROVE  LET r == RefineAll(view, c, truth) IN Sound(r.known, r.pairs, e)
<1> USE HoldsInParts
<1>0. \A i \in DOMAIN c : Related(c[i]) =>
          /\ ~Misnamed(view.known, c[i].left.name) /\ ~Misnamed(view.known, c[i].right.name)
          /\ c[i].left.name \in Names /\ c[i].right.name \in Names
    BY DEF Straight, Related, SymbolOf, IsOperand
<1>1. CASE Len(c) = 1
    <2>1. Compare(Concrete(e, c[1].left), Holding(c[1].op, truth), Concrete(e, c[1].right))
        BY <1>1
    <2>2. Sound(Refine(view, c[1], truth).known, Refine(view, c[1], truth).pairs, e)
        BY <1>0, <1>1, <2>1, RefineSound
    <2> QED
        BY <1>1, <2>2 DEF RefineAll
<1>2. CASE Len(c) # 1 /\ truth
    <2> DEFINE v1 == Refine(view, c[1], TRUE)
               v2 == Refine(v1, c[2], TRUE)
    <2>1. Sound(v1.known, v1.pairs, e) /\ SameSymbols(view.known, v1.known)
        BY <1>0, <1>2, RefineSound
    <2> HIDE DEF v1
    <2>2. Related(c[2]) => ~Misnamed(v1.known, c[2].left.name) /\ ~Misnamed(v1.known, c[2].right.name)
        BY <1>0, <1>2, <2>1, MisnamedSame
    <2>3. Sound(v2.known, v2.pairs, e)
        BY <1>2, <2>1, <2>2, RefineSound
    <2> QED
        BY <1>2, <2>3 DEF RefineAll, v1
<1>3. CASE Len(c) # 1 /\ ~truth
    <2> DEFINE k == After(view.known, {c[2].left, c[2].right})
    <2>1. Sound(k, view.pairs, e)
        BY AfterKnows, LearntIsSound DEF Sound
    <2>2. RefineAll(view, c, truth) = [view EXCEPT !.known = k]
        BY <1>3 DEF RefineAll
    <2> QED
        BY <2>1, <2>2
<1> QED
    BY <1>1, <1>2, <1>3

-----------------------------------------------------------------------------
(* What holds of the variables also where the execution does not come by.  *)

\* A value is well formed also where the condition it was refined by is false.
Formed(k) == k \in [Names -> Values]

LEMMA NarrowIsValue ==
    ASSUME NEW v \in Values, v.interval # None, NEW y \in Int, NEW op
    PROVE  Narrow(v, op, y) \in Values
<1>1. PICK a \in Int, b \in Int : v.interval = <<a, b>>
    BY DEF Values
<1>2. /\ Least({b, Wrapped(y - 1)}) \in Int /\ Least({b, y}) \in Int
      /\ Greatest({a, Wrapped(y + 1)}) \in Int /\ Greatest({a, y}) \in Int
    <2>1. Wrapped(y - 1) \in Int /\ Wrapped(y + 1) \in Int
        BY WrappedFacts
    <2> QED
        BY <2>1, EitherEnd
<1>3. \A c, d \in Int : [v EXCEPT !.interval = <<c, d>>] \in Values
    BY DEF Values
<1>4. [v EXCEPT !.nonzero = TRUE] \in Values
    BY DEF Values
<1>5. v.interval[1] = a /\ v.interval[2] = b
    BY <1>1
<1> DEFINE w == Narrow(v, op, y)
<1>6. \/ w = [v EXCEPT !.interval = <<a, Least({b, Wrapped(y - 1)})>>]
      \/ w = [v EXCEPT !.interval = <<a, Least({b, y})>>]
      \/ w = [v EXCEPT !.interval = <<Greatest({a, Wrapped(y + 1)}), b>>]
      \/ w = [v EXCEPT !.interval = <<Greatest({a, y}), b>>]
      \/ w = [v EXCEPT !.nonzero = TRUE]
      \/ w = v
    BY <1>5 DEF Narrow
<1> HIDE DEF w
<1>7. w \in Values
    BY <1>2, <1>3, <1>4, <1>6
<1> QED
    BY <1>7 DEF w

LEMMA EvalIsValue ==
    ASSUME NEW k, Formed(k), NEW a, IsOperand(a)
    PROVE  Eval(k, a) \in Values
<1>1. \A c, d \in Int : Interval(c, d) \in Values
    BY IntervalIsAnonymous DEF Anonymous
<1>2. ASSUME NEW v \in Values PROVE Negation(v) \in Values
    <2>1. CASE v.interval = None
        BY <2>1, UnknownIsAnonymous DEF Negation, Anonymous
    <2>2. CASE v.interval # None
        <3>1. PICK c \in Int, d \in Int : v.interval = <<c, d>>
            BY <2>2 DEF Values
        <3>2. Negation(v) = Interval(Wrapped(-d), Wrapped(-c)) /\ Wrapped(-d) \in Int /\ Wrapped(-c) \in Int
            BY <2>2, <3>1, WrappedFacts DEF Negation
        <3> QED
            BY <1>1, <3>2
    <2> QED
        BY <2>1, <2>2
<1>3. ASSUME NEW n \in Lists PROVE LengthOf(k, n) \in Values
    <2>1. n \in Names /\ k[n] \in Values
        BY NamesHaveTypes DEF Formed
    <2>2. CASE k[n].length # None
        <3>1. PICK l \in Int : k[n].length = <<l>>
            BY <2>1, <2>2 DEF Values
        <3> QED
            BY <1>1, <2>2, <3>1 DEF LengthOf
    <2>3. CASE k[n].length = None
        <3> DEFINE i == Interval(0, HostIndexMax)
        <3>1. i \in Values /\ LengthSymbol(n) \in Symbols
            BY <1>1, <2>1, NamesHaveTypes DEF Symbols
        <3>2. LengthOf(k, n) = [i EXCEPT !.symbol = LengthSymbol(n)]
            BY <2>3 DEF LengthOf
        <3> HIDE DEF i
        <3> QED
            BY <3>1, <3>2 DEF Values
    <2> QED
        BY <2>2, <2>3
<1> DEFINE v == CASE a.kind = "literal" -> Interval(a.value, a.value)
                  [] a.kind = "name" -> k[a.name]
                  [] a.kind = "length" -> LengthOf(k, a.name)
<1>4. v \in Values
    <2>1. CASE a.kind = "literal"
        BY <1>1, <2>1 DEF IsOperand
    <2>2. CASE a.kind = "name"
        BY <2>2 DEF IsOperand, Formed
    <2>3. CASE a.kind = "length"
        BY <1>3, <2>3 DEF IsOperand
    <2> QED
        BY <2>1, <2>2, <2>3 DEF IsOperand
<1>5. Eval(k, a) = IF a.sign = 1 THEN v ELSE Negation(v)
    BY DEF Eval
<1> HIDE DEF v
<1> QED
    BY <1>2, <1>4, <1>5

Scalar(v) == v \in Values /\ v.length = None

\* A list has no interval, an integer no length.
Suits(n, v) ==
    /\ v \in Values
    /\ n \in Lists => v.interval = None
    /\ n \in IntegerNames => v.length = None

Typed(k) == Formed(k) /\ \A n \in Names : Suits(n, k[n])

LEMMA JoinIsValue ==
    ASSUME NEW v \in Values, NEW w \in Values
    PROVE  Join(v, w) \in Values /\ Join(v, w).symbol = None
<1> DEFINE i == Join(v, w).interval
           l == Join(v, w).length
           z == Join(v, w).nonzero
<1>1. i \in {None} \cup (Int \X Int)
    <2>1. CASE v.interval = None \/ w.interval = None
        BY <2>1 DEF Join
    <2>2. CASE v.interval # None /\ w.interval # None
        <3>1. PICK a \in Int, b \in Int, c \in Int, d \in Int : v.interval = <<a, b>> /\ w.interval = <<c, d>>
            BY <2>2 DEF Values
        <3>2. i = <<Least({a, c}), Greatest({b, d})>>
            BY <2>2, <3>1 DEF Join
        <3>3. PICK lo \in Int, hi \in Int : lo = Least({a, c}) /\ hi = Greatest({b, d})
            BY EitherEnd
        <3>4. i = <<lo, hi>>
            BY <3>2, <3>3
        <3> HIDE DEF i
        <3> QED
            BY <3>4
    <2> QED
        BY <2>1, <2>2
<1>2. l \in {None} \cup {<<n>> : n \in Int}
    BY DEF Join, Values
<1>3. z \in BOOLEAN
    BY DEF Join
<1>4. Join(v, w) = [interval |-> i, length |-> l, nonzero |-> z, symbol |-> None]
    BY DEF Join
<1>5. None \in Symbols
    BY DEF Symbols
<1> DEFINE j == Join(v, w)
<1> HIDE DEF i, l, z, j
<1>6. j = [interval |-> i, length |-> l, nonzero |-> z, symbol |-> None]
    BY <1>4 DEF j
<1>7. j \in Values /\ j.symbol = None
    BY <1>1, <1>2, <1>3, <1>5, <1>6 DEF Values
<1> QED
    BY <1>7 DEF j

LEMMA ScalarFacts ==
    /\ \A a, b \in Int : Scalar(Interval(a, b)) /\ Interval(a, b).symbol = None
    /\ Scalar(Unknown) /\ Unknown.symbol = None
    /\ \A v \in Values : Scalar(Negation(v)) /\ Negation(v).symbol = None
    /\ \A op \in Operations : \A v, w \in Values :
          Scalar(ArithmeticInterval(op, v, w)) /\ ArithmeticInterval(op, v, w).symbol = None
<1>1. \A a, b \in Int : Scalar(Interval(a, b)) /\ Interval(a, b).symbol = None
    BY IntervalIsAnonymous DEF Anonymous, Scalar
<1>2. Scalar(Unknown) /\ Unknown.symbol = None
    BY UnknownIsAnonymous DEF Anonymous, Scalar
<1>3. ASSUME NEW v \in Values PROVE Scalar(Negation(v)) /\ Negation(v).symbol = None
    <2>1. CASE v.interval = None
        BY <1>2, <2>1 DEF Negation
    <2>2. CASE v.interval # None
        <3>1. PICK c \in Int, d \in Int : v.interval = <<c, d>>
            BY <2>2 DEF Values
        <3>2. Negation(v) = Interval(Wrapped(-d), Wrapped(-c)) /\ Wrapped(-d) \in Int /\ Wrapped(-c) \in Int
            BY <2>2, <3>1, WrappedFacts DEF Negation
        <3> QED
            BY <1>1, <3>2
    <2> QED
        BY <2>1, <2>2
<1>4. \A op \in Operations : \A v, w \in Values :
          Scalar(ArithmeticInterval(op, v, w)) /\ ArithmeticInterval(op, v, w).symbol = None
    BY ArithmeticIsAnonymous DEF Anonymous, Scalar
<1> QED
    BY <1>1, <1>2, <1>3, <1>4

LEMMA LengthIsScalar ==
    ASSUME NEW k, Formed(k), NEW n \in Names
    PROVE  Scalar(LengthOf(k, n)) /\ (k[n].length # None => LengthOf(k, n).symbol = None)
<1>1. k[n] \in Values
    BY DEF Formed
<1>2. CASE k[n].length # None
    <2>1. PICK l \in Int : k[n].length = <<l>>
        BY <1>1, <1>2 DEF Values
    <2> QED
        BY <1>2, <2>1, ScalarFacts DEF LengthOf
<1>3. CASE k[n].length = None
    <2> DEFINE i == Interval(0, HostIndexMax)
    <2>1. Scalar(i) /\ LengthSymbol(n) \in Symbols
        BY ScalarFacts, NamesHaveTypes DEF Symbols
    <2>2. LengthOf(k, n) = [i EXCEPT !.symbol = LengthSymbol(n)]
        BY <1>3 DEF LengthOf
    <2> HIDE DEF i
    <2> QED
        BY <1>3, <2>1, <2>2 DEF Values, Scalar
<1> QED
    BY <1>2, <1>3

LEMMA TypedBind ==
    ASSUME NEW k, Typed(k), NEW n \in Names, NEW v, Suits(n, v)
    PROVE  Typed([k EXCEPT ![n] = v])
BY DEF Typed, Formed, Suits

LEMMA TypedAfter ==
    ASSUME NEW k, Typed(k)
    PROVE  Typed(Wipe(k)) /\ \A S : Typed(After(k, S))
<1>1. ASSUME NEW n \in Names PROVE Suits(n, [k[n] EXCEPT !.length = None])
    BY DEF Typed, Suits, Values
<1>2. Typed(Wipe(k))
    BY <1>1 DEF Typed, Formed, Suits, Wipe
<1> QED
    BY <1>2 DEF After

LEMMA TypedRefine ==
    ASSUME NEW view, Typed(view.known), NEW c, IsOperand(c.left), IsOperand(c.right), NEW truth
    PROVE  Typed(Refine(view, c, truth).known)
<1> DEFINE known1 == After(view.known, {c.right})
           right == Eval(view.known, c.right)
           op == Holding(c.op, truth)
           n == c.left.name
           y == right.interval[1]
           k == Refine(view, c, truth).known
<1>1. Typed(known1) /\ right \in Values
    BY TypedAfter, EvalIsValue DEF Typed
<1>2. CASE k = known1
    BY <1>1, <1>2
<1>3. CASE /\ c.left.kind = "name" /\ Exact(right) /\ known1[n].interval # None
           /\ k = [known1 EXCEPT ![n] = Narrow(@, op, y)]
    <2>1. n \in Names /\ y \in Int
        BY <1>1, <1>3 DEF IsOperand, Exact, Values
    <2> DEFINE w == Narrow(known1[n], op, y)
    <2>2. Suits(n, known1[n]) /\ n \notin Lists /\ w \in Values
        <3>1. Suits(n, known1[n]) /\ n \notin Lists /\ known1[n] \in Values
            BY <1>1, <1>3, <2>1 DEF Typed, Suits
        <3> QED
            BY <1>3, <2>1, <3>1, NarrowIsValue
    <2>3. w.length = known1[n].length
        <3>1. \/ w = known1[n]
              \/ w = [known1[n] EXCEPT !.nonzero = TRUE]
              \/ \E i : w = [known1[n] EXCEPT !.interval = i]
            BY DEF Narrow
        <3> QED
            BY <2>2, <3>1 DEF Suits, Values
    <2> HIDE DEF w, known1
    <2>4. Suits(n, w)
        BY <2>2, <2>3 DEF Suits
    <2>5. k = [known1 EXCEPT ![n] = w]
        BY <1>3 DEF w
    <2> QED
        BY <1>1, <2>1, <2>4, <2>5, TypedBind
<1> QED
    BY <1>2, <1>3 DEF Refine

LEMMA TypedRefineAll ==
    ASSUME NEW view, Typed(view.known), NEW c, IsCondition(c), NEW truth
    PROVE  Typed(RefineAll(view, c, truth).known)
<1>1. /\ Len(c) = 1 => IsOperand(c[1].left) /\ IsOperand(c[1].right)
      /\ Len(c) # 1 => /\ IsOperand(c[1].left) /\ IsOperand(c[1].right)
                       /\ IsOperand(c[2].left) /\ IsOperand(c[2].right)
    BY DEF IsCondition
<1>2. CASE Len(c) = 1
    BY <1>1, <1>2, TypedRefine DEF RefineAll
<1>3. CASE Len(c) # 1 /\ truth
    <2>1. Typed(Refine(view, c[1], TRUE).known)
        BY <1>1, <1>3, TypedRefine
    <2> QED
        BY <1>1, <1>3, <2>1, TypedRefine DEF RefineAll
<1>4. CASE Len(c) # 1 /\ ~truth
    <2> DEFINE k == After(view.known, {c[2].left, c[2].right})
    <2>1. RefineAll(view, c, truth).known = k
        BY <1>4 DEF RefineAll
    <2> QED
        BY <2>1, TypedAfter
<1> QED
    BY <1>2, <1>3, <1>4

-----------------------------------------------------------------------------
(* The invariant: what is believed is true here and in every open frame,   *)
(* where the execution came by and the analyzer was not confused.          *)

Framed(f, c) ==
    /\ f = [kind |-> f.kind, condition |-> f.condition, known |-> f.known, pairs |-> f.pairs,
            wiped |-> f.wiped, env |-> f.env, reached |-> f.reached]
    /\ Typed(f.known) /\ EnvOK(f.env)
    /\ f.kind = "then" => IsCondition(f.condition)
    /\ ~c /\ f.reached => Sound(f.known, f.pairs, f.env)

\* A sequence of frames, whatever is in them.
IsStack(s) == \E S : s \in Seq(S)
AllFramed(s, c) == IsStack(s) /\ \A i \in 1 .. Len(s) : Framed(s[i], c)

Here ==
    /\ Typed(known) /\ EnvOK(env)
    /\ ~confused /\ reached => Sound(known, pairs, env)

RangeInv == Here /\ AllFramed(frames, confused)

LEMMA StackFacts ==
    ASSUME NEW s, IsStack(s)
    PROVE  /\ Len(s) \in Nat /\ DOMAIN s = 1 .. Len(s)
           /\ \A f : /\ IsStack(Append(s, f)) /\ Len(Append(s, f)) = Len(s) + 1
                     /\ \A i \in 1 .. Len(s) : Append(s, f)[i] = s[i]
                     /\ Append(s, f)[Len(s) + 1] = f
           /\ Len(s) > 0 => /\ IsStack(SubSeq(s, 1, Len(s) - 1)) /\ Len(SubSeq(s, 1, Len(s) - 1)) = Len(s) - 1
                            /\ \A i \in 1 .. Len(s) - 1 : SubSeq(s, 1, Len(s) - 1)[i] = s[i]
<1>1. PICK S : s \in Seq(S)
    BY DEF IsStack
<1>2. ASSUME NEW f
      PROVE  /\ IsStack(Append(s, f)) /\ Len(Append(s, f)) = Len(s) + 1
             /\ \A i \in 1 .. Len(s) : Append(s, f)[i] = s[i]
             /\ Append(s, f)[Len(s) + 1] = f
    <2>1. s \in Seq(S \cup {f}) /\ f \in S \cup {f}
        BY <1>1
    <2>2. Append(s, f) \in Seq(S \cup {f})
        BY <2>1
    <2> QED
        BY <2>1, <2>2, AppendProperties DEF IsStack
<1>3. ASSUME Len(s) > 0
      PROVE  /\ IsStack(SubSeq(s, 1, Len(s) - 1)) /\ Len(SubSeq(s, 1, Len(s) - 1)) = Len(s) - 1
             /\ \A i \in 1 .. Len(s) - 1 : SubSeq(s, 1, Len(s) - 1)[i] = s[i]
    <2> DEFINE m == Len(s) - 1
               t == SubSeq(s, 1, m)
    <2>1. m \in Nat /\ \A i \in 1 .. m : s[i] \in S
        BY <1>1, <1>3
    <2>2. t \in Seq(S) /\ Len(t) = (IF 1 <= m THEN m - 1 + 1 ELSE 0) /\ \A i \in 1 .. m - 1 + 1 : t[i] = s[1 + i - 1]
        BY <2>1, SubSeqProperties
    <2> HIDE DEF m, t
    <2>3. Len(t) = m
        <3>1. CASE 1 <= m
            BY <2>1, <2>2, <3>1
        <3>2. CASE m = 0
            BY <2>2, <3>2
        <3> QED
            BY <2>1, <3>1, <3>2
    <2>4. ASSUME NEW i \in 1 .. m PROVE t[i] = s[i]
        <3>1. i \in 1 .. m - 1 + 1 /\ 1 + i - 1 = i
            BY <2>1
        <3>2. t[i] = s[1 + i - 1]
            BY <2>2, <3>1
        <3> QED
            BY <3>1, <3>2
    <2>5. IsStack(t) /\ Len(t) = m /\ \A i \in 1 .. m : t[i] = s[i]
        BY <2>2, <2>3, <2>4 DEF IsStack
    <2> QED
        BY <2>5 DEF m, t
<1> QED
    BY <1>1, <1>2, <1>3

LEMMA FramedStays ==
    ASSUME NEW s, NEW c, NEW d, AllFramed(s, c), c => d PROVE AllFramed(s, d)
BY DEF AllFramed, Framed

LEMMA Pushed ==
    ASSUME NEW s, NEW c, NEW f, AllFramed(s, c), Framed(f, c) PROVE AllFramed(Append(s, f), c)
BY StackFacts DEF AllFramed

LEMMA Popped ==
    ASSUME NEW c, AllFramed(frames, c), Len(frames) > 0 PROVE AllFramed(Below, c) /\ Framed(Top, c)
BY StackFacts DEF AllFramed, Below, Top

-----------------------------------------------------------------------------
(* Lets.                                                                   *)

LEMMA PlainOperands ==
    ASSUME NEW e, EnvOK(e), NEW k, Typed(k), NEW a, Plain(a)
    PROVE  /\ IsOperand(a) /\ Concrete(e, a) \in Int
           /\ \A n \in Names : HasType(a, TypeOf[n]) => n \in IntegerNames /\ In(Concrete(e, a), Bounds(TypeOf[n]))
           /\ Integer(a) => Scalar(Eval(k, a)) /\ a.kind \in {"literal", "name"}
           /\ \A n \in Names : HasType(a, TypeOf[n]) => Integer(a)
<1>1. IsOperand(a) /\ a.sign = 1 /\ Concrete(e, a) \in Int
    BY DEF Plain, IsOperand, Concrete, EnvOK
<1>2. ASSUME NEW n \in Names, HasType(a, TypeOf[n])
      PROVE  n \in IntegerNames /\ In(Concrete(e, a), Bounds(TypeOf[n])) /\ Integer(a)
    <2>1. n \in IntegerNames /\ Integer(a)
        BY <1>2 DEF HasType, IntegerNames, Integer
    <2>2. CASE a.kind = "literal"
        <3>1. Concrete(e, a) = a.value /\ a.value \in Int
            BY <1>1, <2>2 DEF Concrete, IsOperand
        <3>2. In(a.value, Bounds(TypeOf[n]))
            BY <1>2, <2>2 DEF HasType
        <3> QED
            BY <2>1, <3>1, <3>2
    <2>3. CASE a.kind # "literal"
        <3>1. a.name \in Names /\ TypeOf[a.name] = TypeOf[n] /\ Concrete(e, a) = e[a.name] /\ e[a.name] \in Int
            BY <1>1, <1>2, <2>3 DEF HasType, Concrete, IsOperand, EnvOK
        <3> QED
            BY <2>1, <3>1 DEF EnvOK
    <2> QED
        BY <2>1, <2>2, <2>3
<1>3. ASSUME Integer(a) PROVE Scalar(Eval(k, a)) /\ a.kind \in {"literal", "name"}
    <2>1. CASE a.kind = "literal"
        <3>1. Eval(k, a) = Interval(a.value, a.value) /\ a.value \in Int
            BY <1>1, <2>1 DEF Eval, IsOperand
        <3> QED
            BY <2>1, <3>1, ScalarFacts
    <2>2. CASE a.kind # "literal"
        <3>1. a.name \in IntegerNames /\ a.kind = "name"
            BY <1>1, <1>3, <2>2 DEF Integer, HasType, IntegerNames, IsOperand, Lists
        <3>2. Eval(k, a) = k[a.name]
            BY <1>1, <3>1 DEF Eval
        <3>3. Suits(a.name, k[a.name])
            BY <3>1 DEF Typed, IntegerNames
        <3> QED
            BY <3>1, <3>2, <3>3 DEF Suits, Scalar
    <2> QED
        BY <2>1, <2>2
<1> QED
    BY <1>1, <1>2, <1>3

LEMMA BindStep ==
    ASSUME RangeInv, NEW n \in Names, NEW value, NEW k, NEW x, NEW fails,
           Bind(n, value, k, x, fails), UNCHANGED <<pairs, frames>>, confused => confused',
           Typed(k), Suits(n, value), ~fails => x \in Int /\ In(x, Bounds(TypeOf[n])),
           ~confused /\ ~confused' /\ reached /\ ~fails => Sound([k EXCEPT ![n] = value], pairs, [env EXCEPT ![n] = x])
    PROVE  RangeInv'
<1>1. Typed(known')
    BY TypedBind DEF Bind
<1>2. EnvOK(env')
    BY DEF Bind, RangeInv, Here, EnvOK
<1>3. ASSUME ~confused', reached' PROVE Sound(known', pairs', env')
    BY <1>3 DEF Bind
<1>4. AllFramed(frames', confused')
    BY FramedStays DEF RangeInv
<1> QED
    BY <1>1, <1>2, <1>3, <1>4 DEF RangeInv, Here

LEMMA FailsUnless ==
    ASSUME NEW op \in Operations, NEW x, NEW y \in Int, NEW target
    PROVE  ~Fails(op, x, y, target) <=> (Completes(op, y) /\ In(Apply(op, x, y), target))
<1> DEFINE fits == In(Apply(op, x, y), target)
<1>1. /\ op # "/" /\ (op \in {"/", "%"} <=> op = "%")
      /\ y < 0 <=> ~(y >= 0)
    BY DEF Operations
<1> QED
    BY <1>1 DEF Fails, Completes

LEMMA ComputeStep ==
    ASSUME RangeInv, NEW n \in Targets, NEW op \in Operators, NEW p \in Doubles, Compute(n, op, p[1], p[2])
    PROVE  RangeInv'
<1> DEFINE left == Eval(known, p[1])
           right == Eval(known, p[2])
           x == Concrete(env, p[1])
           y == Concrete(env, p[2])
           result == ArithmeticInterval(op, left, right)
           target == Bounds(TypeOf[n])
           fails == Fails(op, x, y, target)
<1>1. n \in IntegerNames /\ n \in Names /\ op \in Operations /\ Plain(p[1]) /\ Plain(p[2])
    BY ProgramsAssumption DEF Compute, HasType, IntegerNames, Operations
<1>2. /\ Bind(n, result, known, Apply(op, x, y), fails)
      /\ confused' = (confused \/ Miscomputed(op, left, right))
      /\ UNCHANGED <<pairs, frames>>
    BY DEF Compute
<1>3. EnvOK(env) /\ Typed(known)
    BY DEF RangeInv, Here
<1>4. x \in Int /\ y \in Int /\ IsOperand(p[1]) /\ IsOperand(p[2])
    BY <1>1, <1>3, PlainOperands
<1>5. Scalar(result) /\ result.symbol = None
    <2>1. left \in Values /\ right \in Values
        BY <1>3, <1>4, EvalIsValue DEF Typed
    <2> QED
        BY <1>1, <2>1, ScalarFacts
<1>6. Suits(n, result)
    <2>1. n \in Lists => FALSE
        BY DEF Compute, HasType, Lists
    <2> QED
        BY <1>5, <2>1 DEF Suits, Scalar
<1>7. ASSUME ~fails PROVE Completes(op, y) /\ Apply(op, x, y) \in Int /\ In(Apply(op, x, y), target)
    BY <1>1, <1>4, <1>7, FailsUnless, AppliesToInt
<1>8. ASSUME ~confused, ~confused', reached, ~fails
      PROVE  Sound([known EXCEPT ![n] = result], pairs, [env EXCEPT ![n] = Apply(op, x, y)])
    <2>1. Sound(known, pairs, env) /\ env \in [Names -> Int]
        BY <1>3, <1>8 DEF RangeInv, Here, EnvOK
    <2>2. left \in Values /\ right \in Values /\ Describes(left, x) /\ Describes(right, y)
        BY <1>1, <1>3, <1>4, <2>1, PlainDescribes DEF Sound
    <2>3. ~Miscomputed(op, left, right)
        BY <1>2, <1>8
    <2> HIDE DEF left, right, x, y
    <2>4. result \in Anonymous /\ Describes(result, Apply(op, x, y))
        <3>1. Apply(op, x, y) \in Int /\ Completes(op, y)
            BY <1>7, <1>8
        <3>2. result \in Anonymous /\ (Describes(result, Apply(op, x, y)) \/ Describes(result, Saturated(Apply(op, x, y))))
            BY <1>1, <1>4, <2>2, <2>3, <3>1, ArithmeticDescribes
        <3>3. Saturated(Apply(op, x, y)) = Apply(op, x, y)
            BY <1>1, <1>7, <1>8, <3>1, SaturatedIn, IntegerBounds
        <3> QED
            BY <3>2, <3>3
    <2> QED
        BY <1>1, <1>7, <1>8, <2>1, <2>4, RebindAnonymous DEF Anonymous
<1> HIDE DEF left, right, x, y, result, fails
<1> QED
    BY <1>1, <1>2, <1>3, <1>6, <1>7, <1>8, BindStep

LEMMA ConvertStep ==
    ASSUME RangeInv, NEW n \in Targets, NEW a \in Singles, Convert(n, a)
    PROVE  RangeInv'
<1> DEFINE value == Eval(known, a)
           x == Concrete(env, a)
           fails == ~In(x, Bounds(TypeOf[n]))
<1>1. n \in Names /\ n \in IntegerNames /\ Plain(a) /\ Integer(a)
    BY ProgramsAssumption DEF Convert
<1>2. Bind(n, value, known, x, fails) /\ UNCHANGED <<pairs, frames, confused>>
    BY DEF Convert
<1>3. EnvOK(env) /\ Typed(known) /\ env \in [Names -> Int]
    BY DEF RangeInv, Here, EnvOK
<1>4. x \in Int /\ IsOperand(a) /\ Scalar(value) /\ a.kind \in {"literal", "name"} /\ a.sign = 1
    BY <1>1, <1>3, PlainOperands DEF Plain
<1>5. Suits(n, value)
    BY <1>1, <1>4, NamesHaveTypes DEF Suits, Scalar
<1>6. ASSUME ~confused, reached
      PROVE  Sound([known EXCEPT ![n] = value], pairs, [env EXCEPT ![n] = x])
    <2>1. Sound(known, pairs, env)
        BY <1>6 DEF RangeInv, Here
    <2>2. CASE a.kind = "literal"
        <3>1. value \in Values /\ Describes(value, x)
            BY <1>3, <1>4, <2>1, EvalDescribes DEF Sound
        <3>2. value.symbol = None
            BY <1>4, <2>2, ScalarFacts DEF Eval, IsOperand
        <3> QED
            BY <1>1, <1>3, <1>4, <2>1, <3>1, <3>2, RebindAnonymous
    <2>3. CASE a.kind = "name"
        <3>1. value = known[a.name] /\ x = env[a.name] /\ a.name \in Names
            BY <1>3, <1>4, <2>3 DEF Eval, Concrete, IsOperand, EnvOK
        <3> QED
            BY <1>1, <1>3, <2>1, <3>1, RebindCopy, NamesHaveTypes
    <2> QED
        BY <1>4, <2>2, <2>3
<1> HIDE DEF value, x
<1> QED
    BY <1>1, <1>2, <1>3, <1>4, <1>5, <1>6, BindStep

LEMMA CopyStep ==
    ASSUME RangeInv, NEW n \in Targets, NEW m \in Names, Copy(n, m)
    PROVE  RangeInv'
<1>1. n \in Names /\ TypeOf[m] = TypeOf[n] /\ (n \in Lists => m \in Lists)
    BY ProgramsAssumption DEF Copy, Lists
<1>2. Bind(n, known[m], known, env[m], FALSE) /\ UNCHANGED <<pairs, frames, confused>>
    BY DEF Copy
<1>3. EnvOK(env) /\ Typed(known) /\ env \in [Names -> Int]
    BY DEF RangeInv, Here, EnvOK
<1>4. Suits(n, known[m])
    BY <1>1, <1>3 DEF Typed, Suits, Lists, IntegerNames
<1>5. env[m] \in Int /\ In(env[m], Bounds(TypeOf[n]))
    BY <1>1, <1>3 DEF EnvOK
<1>6. ASSUME ~confused, reached
      PROVE  Sound([known EXCEPT ![n] = known[m]], pairs, [env EXCEPT ![n] = env[m]])
    BY <1>1, <1>3, <1>6, RebindCopy DEF RangeInv, Here
<1> DEFINE v == known[m]
           x == env[m]
<1> HIDE DEF v, x
<1>7. Bind(n, v, known, x, FALSE) /\ Suits(n, v) /\ x \in Int /\ In(x, Bounds(TypeOf[n]))
    BY <1>2, <1>4, <1>5 DEF v, x
<1>8. ~confused /\ reached => Sound([known EXCEPT ![n] = v], pairs, [env EXCEPT ![n] = x])
    BY <1>6 DEF v, x
<1> QED
    BY <1>1, <1>2, <1>3, <1>7, <1>8, BindStep

LEMMA NegateStep ==
    ASSUME RangeInv, NEW n \in Targets, NEW a \in Singles, Negate(n, a)
    PROVE  RangeInv'
<1> DEFINE value == Eval(known, a)
           x == -Concrete(env, a)
           fails == ~In(x, Bounds(TypeOf[n]))
<1>1. n \in Names /\ n \in IntegerNames /\ Plain(a)
    BY ProgramsAssumption DEF Negate, HasType, IntegerNames
<1>2. /\ Bind(n, Negation(value), known, x, fails) /\ UNCHANGED <<pairs, frames>>
      /\ confused' = (confused \/ Unnegatable(value))
    BY DEF Negate
<1>3. EnvOK(env) /\ Typed(known) /\ env \in [Names -> Int]
    BY DEF RangeInv, Here, EnvOK
<1>4. x \in Int /\ IsOperand(a)
    BY <1>1, <1>3, PlainOperands
<1>5. Suits(n, Negation(value))
    <2>1. value \in Values
        BY <1>3, <1>4, EvalIsValue DEF Typed
    <2> QED
        BY <1>1, <2>1, ScalarFacts, NamesHaveTypes DEF Suits, Scalar
<1>6. ASSUME ~confused, ~confused', reached
      PROVE  Sound([known EXCEPT ![n] = Negation(value)], pairs, [env EXCEPT ![n] = x])
    <2>1. Sound(known, pairs, env)
        BY <1>6 DEF RangeInv, Here
    <2>2. value \in Values /\ Concrete(env, a) \in Int /\ Describes(value, Concrete(env, a))
        BY <1>1, <1>3, <1>4, <2>1, PlainDescribes DEF Sound
    <2>3. Negation(value) \in Anonymous /\ Describes(Negation(value), x)
        BY <1>2, <1>6, <2>2, NegationDescribes
    <2> QED
        BY <1>1, <1>3, <1>4, <2>1, <2>3, RebindAnonymous DEF Anonymous
<1> HIDE DEF value, x
<1> QED
    BY <1>1, <1>2, <1>3, <1>4, <1>5, <1>6, BindStep

LEMMA BuildStep ==
    ASSUME RangeInv, NEW n \in Targets, NEW length \in Lengths, Build(n, length)
    PROVE  RangeInv'
<1> DEFINE v == Value(None, <<length>>, FALSE, None)
<1>1. n \in Names /\ n \in Lists /\ length \in Int /\ In(length, Bounds(TypeOf[n]))
    BY ProgramsAssumption, NamesHaveTypes DEF Build, In
<1>2. Bind(n, v, known, length, FALSE) /\ UNCHANGED <<pairs, frames, confused>>
    BY DEF Build
<1>3. EnvOK(env) /\ Typed(known) /\ env \in [Names -> Int]
    BY DEF RangeInv, Here, EnvOK
<1>4. v = [interval |-> None, length |-> <<length>>, nonzero |-> FALSE, symbol |-> None]
    BY DEF Value
<1>5. v \in Values /\ Describes(v, length) /\ v.symbol = None
    <2>1. v \in Values
        BY <1>1 DEF Value, Values, Symbols
    <2>2. v.interval = None /\ v.length[1] = length /\ v.nonzero = FALSE /\ v.symbol = None
        BY DEF Value
    <2> HIDE DEF v
    <2> QED
        BY <2>1, <2>2 DEF Describes
<1>6. Suits(n, v)
    <2>1. v.interval = None
        BY DEF Value
    <2> QED
        BY <1>1, <1>5, <2>1, NamesHaveTypes DEF Suits
<1> HIDE DEF v
<1>7. ASSUME ~confused, reached
      PROVE  Sound([known EXCEPT ![n] = v], pairs, [env EXCEPT ![n] = length])
    BY <1>1, <1>3, <1>5, <1>7, RebindAnonymous DEF RangeInv, Here
<1> QED
    BY <1>1, <1>2, <1>3, <1>6, <1>7, BindStep

\* A length is counted when nothing else is known by its name.
LEMMA MeasureStep ==
    ASSUME RangeInv, NEW n \in Targets, NEW m \in Names, Measure(n, m)
    PROVE  RangeInv'
<1> DEFINE v == LengthOf(known, m)
           x == env[m]
           k == Wipe(known)
<1>1. n \in Names /\ n \in IntegerNames /\ m \in Lists \cup Records
    BY ProgramsAssumption DEF Measure, IntegerNames
<1>2. /\ Bind(n, v, k, x, FALSE) /\ UNCHANGED <<pairs, frames>>
      /\ confused => confused'
    BY DEF Measure
<1>3. EnvOK(env) /\ Typed(known) /\ env \in [Names -> Int]
    BY DEF RangeInv, Here, EnvOK
<1>4. Suits(n, v) /\ Typed(k)
    <2>1. Scalar(v)
        BY <1>3, LengthIsScalar DEF Typed
    <2> QED
        BY <1>1, <1>3, <2>1, NamesHaveTypes, TypedAfter DEF Suits, Scalar
<1>5. x \in Int /\ In(x, Bounds(TypeOf[n]))
    <2>1. x \in Int /\ In(x, Bounds(TypeOf[m]))
        BY <1>3 DEF EnvOK
    <2>2. CASE m \in Lists
        <3>1. Bounds(TypeOf[m]) = <<0, HostIndexMax>> /\ Bounds(TypeOf[n]) = <<0, UintMax>>
            BY <2>2 DEF Measure, Lists, Bounds
        <3> QED
            BY <2>1, <3>1, NamesHaveTypes DEF In
    <2>3. CASE m \notin Lists
        <3>1. Bounds(TypeOf[m]) = Bounds(TypeOf[n])
            BY <1>1, <2>3 DEF Measure, Records, Bounds
        <3> QED
            BY <2>1, <3>1
    <2> QED
        BY <2>2, <2>3
<1>6. ASSUME ~confused', reached
      PROVE  Sound([k EXCEPT ![n] = v], pairs, [env EXCEPT ![n] = x])
    <2>1. /\ m \in Lists /\ ~confused
          /\ \/ known[m].length # None
             \/ known[m].symbol = Symbol(m)
             \/ ~Borne(known, m) /\ ~Bounded(pairs, m)
        BY <1>1, <1>6 DEF Measure
    <2>2. Sound(known, pairs, env) /\ Knows(known, env)
        BY <1>6, <2>1 DEF RangeInv, Here, Sound
    <2>3. Knows(k, env) /\ SameSymbols(known, k) /\ Sound(k, pairs, env)
        BY <2>2, WipeKnows, LearntIsSound
    <2>4. v \in Values /\ Describes(v, x) /\ v.symbol \in {None, LengthSymbol(m)}
        BY <1>3, <2>1, <2>2, LengthDescribes
    <2>5. CASE v.symbol = None
        BY <1>1, <1>3, <1>5, <2>3, <2>4, <2>5, RebindAnonymous
    <2>6. CASE v.symbol # None
        <3>1. v.symbol = LengthSymbol(m) /\ LengthSymbol(m) \in Real /\ known[m].length = None
            <4>1. known[m].length # None => v.symbol = None
                BY <1>3, LengthIsScalar DEF Typed
            <4> QED
                BY <2>4, <2>6, <4>1, SymbolFacts
        <3>2. ListsNamed(k) /\ k \in [Names -> Values] /\ n \notin Lists /\ m \in Names
            BY <1>1, <2>3, NamesHaveTypes DEF Knows
        <3>3. \A s \in Real : Bears([k EXCEPT ![n] = v], n, s) => s = LengthSymbol(m)
            <4>1. [k EXCEPT ![n] = v][n] = v
                BY <1>1, <3>2
            <4> HIDE DEF v, k
            <4> QED
                BY <3>1, <3>2, <4>1 DEF Bears
        <3>4. CASE known[m].symbol = Symbol(m)
            <4>1. k[m].symbol = Symbol(m)
                BY <2>3, <3>2, <3>4 DEF SameSymbols
            <4>2. Bears(k, m, LengthSymbol(m))
                BY <2>1, <3>1, <3>2, <4>1, BearsOf
            <4>3. Placed(k, pairs, env, n, x, LengthSymbol(m))
                BY <3>2, <4>2 DEF Placed
            <4> HIDE DEF v, k, x
            <4> QED
                BY <1>1, <1>3, <1>5, <2>3, <2>4, <3>2, <3>3, <4>3, Rebind
        <3>5. CASE ~Borne(known, m) /\ ~Bounded(pairs, m)
            <4>1. \A o \in Names : k[o].symbol # Symbol(m) /\ k[o].symbol # LengthSymbol(m)
                BY <2>3, <3>5 DEF Borne, SymbolsOf, SameSymbols
            <4>2. \A o \in Names : ~Bears(k, o, LengthSymbol(m))
                BY <3>1, <3>2, <4>1, BearsOf, SymbolFacts
            <4>3. \A b \in pairs : b.left # LengthSymbol(m) /\ b.right # LengthSymbol(m)
                BY <3>5 DEF Bounded, SymbolsOf
            <4>4. Placed(k, pairs, env, n, x, LengthSymbol(m))
                BY <4>2, <4>3 DEF Placed
            <4> HIDE DEF v, k, x
            <4> QED
                BY <1>1, <1>3, <1>5, <2>3, <2>4, <3>2, <3>3, <4>4, Rebind
        <3> QED
            BY <2>1, <3>1, <3>4, <3>5
    <2> QED
        BY <2>5, <2>6
<1> HIDE DEF v, x, k
<1> QED
    BY <1>1, <1>2, <1>3, <1>4, <1>5, <1>6, BindStep

\* What is known after a branch is true of the value that either side gives.
LEMMA JoinDescribes ==
    ASSUME NEW v \in Values, NEW w \in Values, NEW x \in Int, Describes(v, x) \/ Describes(w, x)
    PROVE  Describes(Join(v, w), x)
<1> DEFINE i == Join(v, w).interval
           l == Join(v, w).length
           z == Join(v, w).nonzero
<1>1. i # None => In(x, i)
    <2>1. CASE v.interval = None \/ w.interval = None
        BY <2>1 DEF Join
    <2>2. CASE v.interval # None /\ w.interval # None
        <3>1. PICK a \in Int, b \in Int, c \in Int, d \in Int : v.interval = <<a, b>> /\ w.interval = <<c, d>>
            BY <2>2 DEF Values
        <3>2. i = <<Least({a, c}), Greatest({b, d})>>
            BY <2>2, <3>1 DEF Join
        <3>3. (a <= x /\ x <= b) \/ (c <= x /\ x <= d)
            BY <2>2, <3>1 DEF Describes, In
        <3>4. PICK lo \in Int, hi \in Int : /\ lo = Least({a, c}) /\ lo <= a /\ lo <= c
                                          /\ hi = Greatest({b, d}) /\ b <= hi /\ d <= hi
            BY EitherEnd
        <3>5. i = <<lo, hi>> /\ lo <= x /\ x <= hi
            BY <3>2, <3>3, <3>4
        <3> HIDE DEF i
        <3> QED
            BY <3>5 DEF In
    <2> QED
        BY <2>1, <2>2
<1>2. l # None => x = l[1]
    BY DEF Join, Describes
<1>3. z => x # 0
    <2>1. z = (v.nonzero /\ w.nonzero) /\ v.nonzero \in BOOLEAN /\ w.nonzero \in BOOLEAN
        BY DEF Join, Values
    <2> QED
        BY <2>1 DEF Describes
<1> DEFINE j == Join(v, w)
<1>4. j.interval = i /\ j.length = l /\ j.nonzero = z
    OBVIOUS
<1> HIDE DEF i, l, z, j
<1>5. Describes(j, x)
    BY <1>1, <1>2, <1>3, <1>4 DEF Describes
<1> QED
    BY <1>5 DEF j

LEMMA SelectStep ==
    ASSUME RangeInv, NEW n \in Targets, NEW c \in Conditions, NEW p \in Doubles, Select(n, c, p[1], p[2])
    PROVE  RangeInv'
<1> DEFINE k == After(known, OperandsOf(c))
           view == [known |-> k, pairs |-> pairs]
           yes == RefineAll(view, c, TRUE).known
           no == RefineAll(view, c, FALSE).known
           left == Eval(yes, p[1])
           right == Eval(no, p[2])
           x == IF Holds(env, c) THEN Concrete(env, p[1]) ELSE Concrete(env, p[2])
<1>1. n \in Names /\ n \in IntegerNames /\ IsCondition(c) /\ Plain(p[1]) /\ Plain(p[2])
    BY ProgramsAssumption DEF Select, HasType, IntegerNames
<1>2. /\ Bind(n, Join(left, right), k, x, FALSE)
      /\ UNCHANGED <<pairs, frames, confused>>
    BY DEF Select
<1>3. EnvOK(env) /\ Typed(known) /\ env \in [Names -> Int]
    BY DEF RangeInv, Here, EnvOK
<1>4. /\ Typed(k) /\ Typed(yes) /\ Typed(no)
      /\ IsOperand(p[1]) /\ IsOperand(p[2]) /\ left \in Values /\ right \in Values
    <2>1. Typed(k) /\ view.known = k
        BY <1>3, TypedAfter
    <2>2. Typed(yes) /\ Typed(no) /\ IsOperand(p[1]) /\ IsOperand(p[2])
        BY <1>1, <1>3, <2>1, TypedRefineAll, PlainOperands
    <2> QED
        BY <2>1, <2>2, EvalIsValue DEF Typed
<1>5. /\ Integer(p[1]) /\ Integer(p[2]) /\ Concrete(env, p[1]) \in Int /\ Concrete(env, p[2]) \in Int
      /\ In(Concrete(env, p[1]), Bounds(TypeOf[n])) /\ In(Concrete(env, p[2]), Bounds(TypeOf[n]))
    BY <1>1, <1>3, PlainOperands DEF Select
<1>6. Scalar(left) /\ Scalar(right)
    BY <1>1, <1>3, <1>4, <1>5, PlainOperands
<1>7. Suits(n, Join(left, right))
    <2>1. Join(left, right).length = None
        BY <1>6 DEF Scalar, Join
    <2> QED
        BY <1>1, <1>4, <2>1, JoinIsValue, NamesHaveTypes DEF Suits
<1>8. x \in Int /\ In(x, Bounds(TypeOf[n]))
    BY <1>5
<1>9. ASSUME ~confused, reached
      PROVE  Sound([k EXCEPT ![n] = Join(left, right)], pairs, [env EXCEPT ![n] = x])
    <2>1. Sound(known, pairs, env) /\ Knows(known, env)
        BY <1>9 DEF RangeInv, Here, Sound
    <2>2. Knows(k, env) /\ Sound(k, pairs, env) /\ view.known = k
        BY <2>1, AfterKnows, LearntIsSound
    <2> HIDE DEF k, view
    <2>3. Describes(left, x) \/ Describes(right, x)
        <3>1. CASE Holds(env, c)
            <4>1. TRUE = Holds(env, c)
                BY <3>1 DEF Holds
            <4>2. Knows(yes, env)
                BY <1>1, <1>3, <2>2, <4>1, RefineAllKnows
            <4> HIDE DEF yes
            <4> QED
                BY <1>1, <1>3, <1>4, <3>1, <4>2, PlainDescribes
        <3>2. CASE ~Holds(env, c)
            <4>1. FALSE = Holds(env, c)
                BY <3>2 DEF Holds
            <4>2. Knows(no, env)
                BY <1>1, <1>3, <2>2, <4>1, RefineAllKnows
            <4> HIDE DEF no
            <4> QED
                BY <1>1, <1>3, <1>4, <3>2, <4>2, PlainDescribes
        <3> QED
            BY <3>1, <3>2
    <2> HIDE DEF left, right, x
    <2>4. Join(left, right) \in Values /\ Describes(Join(left, right), x) /\ Join(left, right).symbol = None
        BY <1>4, <1>8, <2>3, JoinDescribes, JoinIsValue
    <2> QED
        BY <1>1, <1>3, <1>8, <2>2, <2>4, RebindAnonymous
<1> HIDE DEF k, left, right, x
<1> QED
    BY <1>1, <1>2, <1>3, <1>4, <1>7, <1>8, <1>9, BindStep

-----------------------------------------------------------------------------
(* Branches, loops and binders.                                            *)

LEMMA FrameIsFramed ==
    ASSUME NEW kind, NEW condition, NEW k, NEW w, NEW c, Typed(k), EnvOK(env), kind = "then" => IsCondition(condition),
           ~c /\ reached => Sound(k, pairs, env)
    PROVE  Framed([Frame(kind, condition, k) EXCEPT !.wiped = w], c) /\ Framed(Frame(kind, condition, k), c)
<1> DEFINE f == Frame(kind, condition, k)
           g == [f EXCEPT !.wiped = w]
<1>1. f = [kind |-> kind, condition |-> condition, known |-> k, pairs |-> pairs, wiped |-> wiped,
           env |-> env, reached |-> reached]
    BY DEF Frame
<1>2. g = [kind |-> kind, condition |-> condition, known |-> k, pairs |-> pairs, wiped |-> w,
           env |-> env, reached |-> reached]
    BY <1>1
<1> HIDE DEF f, g
<1>3. f.reached = reached /\ g.reached = reached
    BY <1>1, <1>2
<1>4. Framed(f, c)
    BY <1>1, <1>3 DEF Framed
<1>5. Framed(g, c)
    BY <1>2, <1>3 DEF Framed
<1> QED
    BY <1>4, <1>5 DEF f, g

\* One side of a branch learns from what was known before it.
LEMMA LearnSound ==
    ASSUME NEW k, NEW p, Typed(k), NEW e, EnvOK(e), NEW c, IsCondition(c), NEW truth \in BOOLEAN,
           Learn([known |-> k, pairs |-> p], c, truth)
    PROVE  /\ Typed(known') /\ (confused => confused')
           /\ ~confused' /\ Sound(k, p, e) /\ truth = Holds(e, c) => Sound(known', pairs', e)
<1> DEFINE view == [known |-> k, pairs |-> p]
<1>1. view.known = k /\ view.pairs = p
    OBVIOUS
<1>2. /\ known' = RefineAll(view, c, truth).known /\ pairs' = RefineAll(view, c, truth).pairs
      /\ (confused => confused') /\ (~confused' => Straight(view.known, c))
    BY DEF Learn, Straight
<1> HIDE DEF view
<1>3. Typed(known')
    BY <1>1, <1>2, TypedRefineAll
<1>4. ASSUME ~confused', Sound(k, p, e), truth = Holds(e, c) PROVE Sound(known', pairs', e)
    BY <1>1, <1>2, <1>4, RefineAllSound
<1> QED
    BY <1>2, <1>3, <1>4

LEMMA BranchStep ==
    ASSUME RangeInv, NEW c \in Conditions, Branch(c)
    PROVE  RangeInv'
<1> DEFINE k == After(known, OperandsOf(c))
           w == wiped \/ \E o \in OperandsOf(c) : Calls(o)
           f == [Frame("then", c, k) EXCEPT !.wiped = w]
<1>1. IsCondition(c) /\ EnvOK(env) /\ Typed(known) /\ Typed(k)
    BY ProgramsAssumption, TypedAfter DEF RangeInv, Here
<1>2. /\ Learn([known |-> k, pairs |-> pairs], c, TRUE)
      /\ reached' = (reached /\ Holds(env, c)) /\ env' = env
    BY DEF Branch
<1>3. ~confused /\ reached => Sound(k, pairs, env)
    <2>1. ASSUME ~confused, reached PROVE Sound(k, pairs, env)
        <3>1. Sound(known, pairs, env) /\ Knows(known, env)
            BY <2>1 DEF RangeInv, Here, Sound
        <3> QED
            BY <3>1, AfterKnows, LearntIsSound
    <2> QED
        BY <2>1
<1>4. frames' = Append(frames, f)
    <2>1. Frame("then", c, k).wiped = wiped
        BY DEF Frame
    <2> QED
        BY <2>1 DEF Branch
<1> HIDE DEF k, w
<1>5. Typed(known') /\ (confused => confused') /\ (~confused' /\ reached' => Sound(known', pairs', env))
    <2>1. /\ Typed(known') /\ (confused => confused')
          /\ ~confused' /\ Sound(k, pairs, env) /\ TRUE = Holds(env, c) => Sound(known', pairs', env)
        BY <1>1, <1>2, LearnSound
    <2>2. reached' => reached /\ TRUE = Holds(env, c)
        BY <1>2 DEF Holds
    <2> QED
        BY <1>3, <2>1, <2>2
<1>6. Framed(f, confused')
    BY <1>1, <1>3, <1>5, FrameIsFramed
<1>7. AllFramed(frames, confused')
    BY <1>5, FramedStays DEF RangeInv
<1> HIDE DEF f
<1>8. AllFramed(frames', confused')
    BY <1>4, <1>6, <1>7, Pushed
<1> QED
    BY <1>1, <1>2, <1>5, <1>8 DEF RangeInv, Here

LEMMA OtherwiseStep ==
    ASSUME RangeInv, Otherwise
    PROVE  RangeInv'
<1> DEFINE f == [Top EXCEPT !.kind = "else"]
           t == Top
<1>1. AllFramed(Below, confused) /\ Framed(t, confused) /\ t.kind = "then"
    BY Popped DEF RangeInv, Otherwise, Within
<1>2. /\ Learn([known |-> t.known, pairs |-> t.pairs], t.condition, FALSE)
      /\ reached' = (t.reached /\ ~Holds(t.env, t.condition)) /\ env' = t.env /\ frames' = Append(Below, f)
    BY DEF Otherwise
<1>3. f = [t EXCEPT !.kind = "else"]
    OBVIOUS
<1> HIDE DEF t, f
<1>4. IsCondition(t.condition) /\ EnvOK(t.env) /\ Typed(t.known)
      /\ (~confused /\ t.reached => Sound(t.known, t.pairs, t.env))
    BY <1>1 DEF Framed
<1>5. /\ Typed(known') /\ (confused => confused')
      /\ ~confused' /\ Sound(t.known, t.pairs, t.env) /\ FALSE = Holds(t.env, t.condition)
            => Sound(known', pairs', t.env)
    BY <1>2, <1>4, LearnSound
<1>6. ~confused' /\ reached' => Sound(known', pairs', env')
    <2>1. reached' => t.reached /\ FALSE = Holds(t.env, t.condition)
        BY <1>2 DEF Holds
    <2> QED
        BY <1>2, <1>4, <1>5, <2>1
<1>7. Framed(f, confused')
    <2>1. t = [kind |-> t.kind, condition |-> t.condition, known |-> t.known, pairs |-> t.pairs,
               wiped |-> t.wiped, env |-> t.env, reached |-> t.reached]
        BY <1>1 DEF Framed
    <2>2. f = [kind |-> "else", condition |-> t.condition, known |-> t.known, pairs |-> t.pairs,
               wiped |-> t.wiped, env |-> t.env, reached |-> t.reached]
        BY <1>3, <2>1
    <2>3. f.reached = t.reached /\ f.kind = "else" /\ f.known = t.known /\ f.pairs = t.pairs /\ f.env = t.env
        BY <2>2
    <2> QED
        BY <1>4, <1>5, <2>2, <2>3 DEF Framed
<1>8. AllFramed(frames', confused')
    <2>1. AllFramed(Below, confused')
        BY <1>1, <1>5, FramedStays
    <2> QED
        BY <1>2, <1>7, <2>1, Pushed
<1> QED
    BY <1>2, <1>4, <1>5, <1>6, <1>8 DEF RangeInv, Here

LEMMA EndStep ==
    ASSUME RangeInv, EndIf \/ EndBlock
    PROVE  RangeInv'
<1> DEFINE t == Top
<1>1. AllFramed(Below, confused) /\ Framed(t, confused)
    BY Popped DEF RangeInv, EndIf, EndBlock, Within
<1>2. /\ frames' = Below /\ pairs' = t.pairs /\ env' = t.env /\ reached' = t.reached /\ confused' = confused
      /\ known' = t.known \/ known' = Wipe(t.known)
    BY DEF EndIf, EndBlock
<1> HIDE DEF t
<1>3. Typed(t.known) /\ EnvOK(t.env) /\ (~confused /\ t.reached => Sound(t.known, t.pairs, t.env))
    BY <1>1 DEF Framed
<1>4. Typed(known')
    BY <1>2, <1>3, TypedAfter
<1>5. ASSUME Sound(t.known, t.pairs, t.env) PROVE Sound(known', t.pairs, t.env)
    BY <1>2, <1>5, WipeKnows, LearntIsSound DEF Sound
<1> QED
    BY <1>1, <1>2, <1>3, <1>4, <1>5 DEF RangeInv, Here

\* A new variable of a name that nothing is known of.
LEMMA FreshSound ==
    ASSUME NEW e, EnvOK(e), Sound(known, pairs, e), NEW n \in Names, ~Shadows(n), NEW x \in Int, In(x, Bounds(TypeOf[n]))
    PROVE  Sound(known, pairs, [e EXCEPT ![n] = x])
<1> DEFINE v == known[n]
<1>1. v = Declared(n) /\ v \in Values /\ known \in [Names -> Values] /\ ListsNamed(known)
    BY DEF Shadows, Sound, Knows
<1>2. Declared(n).symbol = Symbol(n)
    BY DEF Declared, Interval, Unknown, Value
<1>3. Describes(v, x)
    <2>1. CASE n \in IntegerNames
        <3> DEFINE i == Interval(Bounds(TypeOf[n])[1], Bounds(TypeOf[n])[2])
        <3>1. Describes(i, x)
            BY NamesHaveTypes, IntervalIsAnonymous DEF In
        <3>2. Declared(n) = [i EXCEPT !.symbol = Symbol(n)] /\ Scalar(i)
            BY <2>1, ScalarFacts, NamesHaveTypes DEF Declared
        <3> HIDE DEF i
        <3>3. Declared(n).interval = i.interval /\ Declared(n).length = i.length /\ Declared(n).nonzero = i.nonzero
            BY <3>2 DEF Scalar, Values
        <3> QED
            BY <1>1, <3>1, <3>3 DEF Describes
    <2>2. CASE n \notin IntegerNames
        <3>1. Declared(n) = [Unknown EXCEPT !.symbol = Symbol(n)]
            BY <2>2 DEF Declared
        <3>2. Declared(n).interval = None /\ Declared(n).length = None /\ Declared(n).nonzero = FALSE
            BY <3>1 DEF Unknown, Value
        <3> HIDE DEF v
        <3> QED
            BY <1>1, <3>2 DEF Describes
    <2> QED
        BY <2>1, <2>2
<1>4. known = [known EXCEPT ![n] = v]
    BY <1>1
<1>5. n \in Lists => v.symbol \in {None} \cup {Symbol(y) : y \in Names}
    BY <1>1 DEF ListsNamed
<1>6. \A s \in Real : Bears(known, n, s) => Placed(known, pairs, e, n, x, s)
    <2>1. ASSUME NEW s \in Real, Bears(known, n, s) PROVE Placed(known, pairs, e, n, x, s)
        <3>1. s \in {Symbol(n), LengthSymbol(n)}
            BY <1>1, <1>2, <2>1, SymbolFacts DEF Bears
        <3>2. \A m \in Names \ {n} : ~Bears(known, m, s)
            <4>1. ASSUME NEW m \in Names \ {n}, Bears(known, m, s) PROVE FALSE
                <5>1. known[m].symbol # Symbol(n) /\ known[m].symbol # LengthSymbol(n)
                    BY DEF Shadows, SymbolsOf
                <5> QED
                    BY <1>1, <2>1, <3>1, <4>1, <5>1, BearsOf, SymbolFacts
            <4> QED
                BY <4>1
        <3>3. \A b \in pairs : b.left # s /\ b.right # s
            BY <3>1 DEF Shadows, Bounded, SymbolsOf
        <3> QED
            BY <3>2, <3>3 DEF Placed
    <2> QED
        BY <2>1
<1>7. e \in [Names -> Int]
    BY DEF EnvOK
<1> HIDE DEF v
<1>8. v \in Values
    BY <1>1
<1>9. Sound([known EXCEPT ![n] = v], pairs, [e EXCEPT ![n] = x])
    <2>1. \A s \in Real : Bears([known EXCEPT ![n] = v], n, s) => Placed(known, pairs, e, n, x, s)
        BY <1>4, <1>6
    <2> QED
        BY <1>3, <1>5, <1>7, <1>8, <2>1, Rebind
<1> QED
    BY <1>4, <1>9

LEMMA OpenStep ==
    ASSUME RangeInv, Open("block"), Typed(known'), EnvOK(env'), confused => confused',
           ~confused' /\ reached' => Sound(known', pairs, env')
    PROVE  RangeInv'
<1>1. frames' = Append(frames, Frame("block", <<>>, known)) /\ pairs' = pairs
    BY DEF Open
<1>2. Framed(Frame("block", <<>>, known), confused')
    <2>1. /\ Typed(known) /\ EnvOK(env) /\ "block" # "then"
          /\ ~confused' /\ reached => Sound(known, pairs, env)
        BY DEF RangeInv, Here
    <2> QED
        BY <2>1, FrameIsFramed
<1>3. AllFramed(frames, confused')
    BY FramedStays DEF RangeInv
<1>4. AllFramed(frames', confused')
    BY <1>1, <1>2, <1>3, Pushed
<1> QED
    BY <1>1, <1>4 DEF RangeInv, Here

LEMMA ForStep ==
    ASSUME RangeInv, NEW n \in Binders, NEW p \in Doubles, NEW inclusive \in BOOLEAN,
           For(n, p[1], p[2], inclusive)
    PROVE  RangeInv'
<1> DEFINE left == Eval(known, p[1])
           right == Eval(known, p[2])
           a == Concrete(env, p[1])
           b == Concrete(env, p[2])
           last == LastOf(right.interval[1], inclusive)
           some == Exact(left) /\ Exact(right) /\ left.interval[1] <= last
           i == Interval(left.interval[1], last)
<1>1. n \in Names /\ n \in IntegerNames /\ Plain(p[1]) /\ Plain(p[2])
    BY ProgramsAssumption DEF For, HasType, IntegerNames
<1>2. /\ Open("block")
      /\ known' = IF some THEN [known EXCEPT ![n] = i] ELSE known
      /\ confused' = (confused \/ (~some /\ Shadows(n)))
      /\ \/ \E x \in a .. LastOf(b, inclusive) : env' = [env EXCEPT ![n] = x] /\ reached' = reached
         \/ env' = env /\ reached' = FALSE
    BY DEF For
<1>3. EnvOK(env) /\ Typed(known) /\ env \in [Names -> Int]
    BY DEF RangeInv, Here, EnvOK
<1>4. /\ a \in Int /\ b \in Int /\ IsOperand(p[1]) /\ IsOperand(p[2])
      /\ In(a, Bounds(TypeOf[n])) /\ In(b, Bounds(TypeOf[n]))
    BY <1>1, <1>3, PlainOperands DEF For
<1>5. Typed(known')
    <2>1. left \in Values /\ right \in Values
        BY <1>3, <1>4, EvalIsValue DEF Typed
    <2>2. some => left.interval[1] \in Int /\ last \in Int
        BY <2>1 DEF Exact, Values, LastOf
    <2>3. some => Suits(n, i)
        BY <1>1, <2>2, ScalarFacts, NamesHaveTypes DEF Suits, Scalar
    <2> HIDE DEF i, some, last
    <2> QED
        BY <1>1, <1>2, <1>3, <2>3, TypedBind
<1>6. ASSUME ~confused, reached
      PROVE  /\ Sound(known, pairs, env)
             /\ some => i = Interval(a, LastOf(b, inclusive)) /\ a \in Int /\ LastOf(b, inclusive) \in Int
    <2>1. Sound(known, pairs, env)
        BY <1>6 DEF RangeInv, Here
    <2>2. left \in Values /\ right \in Values /\ Describes(left, a) /\ Describes(right, b)
        BY <1>1, <1>3, <1>4, <2>1, PlainDescribes DEF Sound
    <2>3. \A v \in Values : \A x \in Int : Exact(v) /\ Describes(v, x) => v.interval[1] = x
        BY DEF Exact, Describes, In, Values
    <2> HIDE DEF left, right, a, b
    <2>4. some => left.interval[1] = a /\ right.interval[1] = b
        BY <1>4, <2>2, <2>3
    <2>5. LastOf(b, inclusive) \in Int
        BY <1>4 DEF LastOf
    <2> QED
        BY <1>4, <2>1, <2>4, <2>5
<1>9. LastOf(b, inclusive) \in Int /\ LastOf(b, inclusive) <= b
    BY <1>4 DEF LastOf
<1> HIDE DEF left, right, a, b, last, some, i
<1>7. ASSUME NEW x \in a .. LastOf(b, inclusive), env' = [env EXCEPT ![n] = x], reached' = reached
      PROVE  RangeInv'
    <2>1. x \in Int /\ In(x, Bounds(TypeOf[n]))
        BY <1>1, <1>4, <1>9, NamesHaveTypes DEF In
    <2>2. EnvOK(env')
        BY <1>3, <1>7, <2>1 DEF EnvOK
    <2>3. ASSUME ~confused', reached' PROVE Sound(known', pairs, env')
        <3>1. Sound(known, pairs, env) /\ ~confused
            BY <1>2, <1>6, <1>7, <2>3
        <3>2. CASE some
            <4>1. i \in Anonymous /\ Describes(i, x)
                BY <1>2, <1>6, <1>7, <2>3, <3>1, <3>2, IntervalIsAnonymous
            <4> QED
                BY <1>1, <1>2, <1>3, <1>7, <2>1, <3>1, <3>2, <4>1, RebindAnonymous DEF Anonymous
        <3>3. CASE ~some
            <4>1. ~Shadows(n)
                BY <1>2, <2>3, <3>3
            <4> QED
                BY <1>1, <1>2, <1>3, <1>7, <2>1, <3>1, <3>3, <4>1, FreshSound
        <3> QED
            BY <3>2, <3>3
    <2> QED
        BY <1>2, <1>5, <2>2, <2>3, OpenStep
<1>8. ASSUME env' = env, reached' = FALSE PROVE RangeInv'
    BY <1>2, <1>3, <1>5, <1>8, OpenStep
<1> QED
    BY <1>2, <1>7, <1>8

LEMMA BinderStep ==
    ASSUME RangeInv, NEW n \in Binders, NEW x \in Arguments[n], Binder(n, x)
    PROVE  RangeInv'
<1>1. n \in Names /\ x \in Int /\ In(x, Bounds(TypeOf[n]))
    BY ProgramsAssumption, NamesHaveTypes DEF In
<1>2. /\ Open("block") /\ env' = [env EXCEPT ![n] = x] /\ known' = known /\ reached' = reached
      /\ confused' = (confused \/ Shadows(n))
    BY DEF Binder
<1>3. EnvOK(env) /\ Typed(known)
    BY DEF RangeInv, Here
<1>4. EnvOK(env')
    BY <1>1, <1>2, <1>3 DEF EnvOK
<1>5. ASSUME ~confused', reached' PROVE Sound(known', pairs, env')
    BY <1>1, <1>2, <1>3, <1>5, FreshSound DEF RangeInv, Here
<1> QED
    BY <1>2, <1>3, <1>4, <1>5, OpenStep

-----------------------------------------------------------------------------
(* What is believed is true.                                               *)

LEMMA UseStep ==
    ASSUME RangeInv, UNCHANGED <<known, pairs, env, frames>>, confused => confused', reached' => reached
    PROVE  RangeInv'
<1>1. AllFramed(frames', confused')
    BY FramedStays DEF RangeInv
<1> QED
    BY <1>1 DEF RangeInv, Here

LEMMA UsesChangeLittle ==
    ASSUME NEW a, NEW b, NEW m, NEW ends, Divide(a, b) \/ Index(m, a) \/ Slice(m, ends)
    PROVE  UNCHANGED <<known, pairs, env, frames>> /\ (confused => confused') /\ (reached' => reached)
<1>1. CASE Divide(a, b)
    BY <1>1 DEF Divide, analyzer
<1>2. CASE Index(m, a)
    BY <1>2 DEF Index, analyzer
<1>3. CASE Slice(m, ends)
    BY <1>3 DEF Slice, analyzer
<1> QED
    BY <1>1, <1>2, <1>3

LEMMA DeclaredFacts ==
    ASSUME NEW n \in Names, NEW e \in Bounds(TypeOf[n])[1] .. Bounds(TypeOf[n])[2]
    PROVE  Declared(n) \in Values /\ Suits(n, Declared(n)) /\ Describes(Declared(n), e) /\ Declared(n).symbol = Symbol(n)
<1>1. Symbol(n) \in Symbols
    BY DEF Symbols
<1>2. CASE n \in IntegerNames
    <2> DEFINE i == Interval(Bounds(TypeOf[n])[1], Bounds(TypeOf[n])[2])
               d == Declared(n)
    <2>1. Describes(i, e) /\ i \in Anonymous
        BY NamesHaveTypes, IntervalIsAnonymous
    <2>2. d = [i EXCEPT !.symbol = Symbol(n)] /\ Scalar(i)
        BY <1>2, ScalarFacts, NamesHaveTypes DEF Declared
    <2> HIDE DEF i, d
    <2>3. d.interval = i.interval /\ d.length = i.length /\ d.nonzero = i.nonzero /\ d.symbol = Symbol(n)
        BY <2>2 DEF Scalar, Values
    <2>4. d \in Values
        BY <1>1, <2>1, <2>2 DEF Values, Anonymous
    <2>5. Suits(n, d)
        BY <1>2, <2>2, <2>3, <2>4, NamesHaveTypes DEF Suits, Scalar
    <2>6. Describes(d, e)
        BY <2>1, <2>3 DEF Describes
    <2> QED
        BY <2>3, <2>4, <2>5, <2>6 DEF d
<1>3. CASE n \notin IntegerNames
    <2> DEFINE d == Declared(n)
    <2>1. d = [Unknown EXCEPT !.symbol = Symbol(n)]
        BY <1>3 DEF Declared
    <2>2. d = [interval |-> None, length |-> None, nonzero |-> FALSE, symbol |-> Symbol(n)]
        BY <2>1 DEF Unknown, Value
    <2> HIDE DEF d
    <2>3. d.interval = None /\ d.length = None /\ d.nonzero = FALSE /\ d.symbol = Symbol(n)
        BY <2>2
    <2>4. d \in Values
        BY <1>1, <2>2 DEF Values
    <2>5. Suits(n, d)
        BY <2>3, <2>4 DEF Suits
    <2>6. Describes(d, e)
        BY <2>3 DEF Describes
    <2> QED
        BY <2>3, <2>4, <2>5, <2>6 DEF d
<1> QED
    BY <1>2, <1>3

LEMMA RangeInit == Init => RangeInv
<1> SUFFICES ASSUME Init PROVE RangeInv
    OBVIOUS
<1>1. \A n \in Names : env[n] \in Bounds(TypeOf[n])[1] .. Bounds(TypeOf[n])[2]
    BY ProgramsAssumption DEF Init
<1>2. EnvOK(env)
    <2>1. env \in [Names -> Int] /\ \A n \in Names : In(env[n], Bounds(TypeOf[n]))
        BY <1>1, NamesHaveTypes DEF Init, In
    <2> QED
        BY <2>1 DEF EnvOK
<1>3. known = [n \in Names |-> Declared(n)] /\ pairs = {} /\ frames = <<>>
    BY DEF Init
<1>4. \A n \in Names : /\ known[n] \in Values /\ Suits(n, known[n]) /\ Describes(known[n], env[n])
                       /\ known[n].symbol = Symbol(n)
    BY <1>1, <1>3, DeclaredFacts
<1>5. Typed(known)
    BY <1>3, <1>4 DEF Typed, Formed
<1>6. Sound(known, pairs, env)
    <2>1. known \in [Names -> Values] /\ ListsNamed(known)
        BY <1>3, <1>4 DEF ListsNamed, Lists
    <2>2. Agree(known, env)
        <3>1. ASSUME NEW s \in Real, NEW m \in Names, NEW n \in Names, Bears(known, m, s), Bears(known, n, s)
              PROVE  m = n
            <4>1. \A o \in Names : Bears(known, o, s) => s = Symbol(o) \/ s = LengthSymbol(o)
                BY <1>4, SymbolFacts DEF Bears
            <4> QED
                BY <3>1, <4>1, SymbolFacts
        <3> QED
            BY <3>1 DEF Agree
    <2>3. PairsHold(known, pairs, env)
        BY <1>3 DEF PairsHold
    <2> QED
        BY <1>3, <1>4, <2>1, <2>2, <2>3 DEF Sound, Knows
<1>7. AllFramed(frames, confused)
    BY <1>3 DEF AllFramed, IsStack
<1> QED
    BY <1>2, <1>5, <1>6, <1>7 DEF RangeInv, Here

LEMMA RangeStep == RangeInv /\ [Next]_vars => RangeInv'
<1> SUFFICES ASSUME RangeInv, [Next]_vars PROVE RangeInv'
    OBVIOUS
<1>1. CASE \E n \in Targets : \E op \in Operators, p \in Doubles : Compute(n, op, p[1], p[2])
    BY <1>1, ComputeStep
<1>2. CASE \E n \in Targets : \E a \in Singles : Convert(n, a) \/ Negate(n, a)
    BY <1>2, ConvertStep, NegateStep
<1>3. CASE \E n \in Targets : \E m \in Names : Copy(n, m) \/ Measure(n, m)
    BY <1>3, CopyStep, MeasureStep
<1>4. CASE \E n \in Targets : \E length \in Lengths : Build(n, length)
    BY <1>4, BuildStep
<1>5. CASE \E n \in Targets : \E condition \in Conditions, p \in Doubles : Select(n, condition, p[1], p[2])
    BY <1>5, SelectStep
<1>6. CASE \/ \E p \in Doubles : Divide(p[1], p[2])
           \/ \E m \in Lists, inclusive \in BOOLEAN :
                \/ \E a \in Singles : Slice(m, OneEnd(a, inclusive))
                \/ \E p \in Doubles : Slice(m, TwoEnds(p[1], p[2], inclusive))
           \/ \E m \in Lists, a \in Singles : Index(m, a)
    BY <1>6, UsesChangeLittle, UseStep
<1>7. CASE \E condition \in Conditions : Branch(condition)
    BY <1>7, BranchStep
<1>8. CASE Otherwise
    BY <1>8, OtherwiseStep
<1>9. CASE EndIf \/ EndBlock
    BY <1>9, EndStep
<1>10. CASE \E n \in Binders, p \in Doubles, inclusive \in BOOLEAN : For(n, p[1], p[2], inclusive)
    BY <1>10, ForStep
<1>11. CASE \E n \in Binders : \E x \in Arguments[n] : Binder(n, x)
    BY <1>11, BinderStep
<1>12. CASE UNCHANGED vars
    BY <1>12, UseStep DEF vars, analyzer, execution
<1> QED
    BY <1>1, <1>2, <1>3, <1>4, <1>5, <1>6, <1>7, <1>8, <1>9, <1>10, <1>11, <1>12 DEF Next

LEMMA Invariance == Spec => []RangeInv
<1> QED
    BY RangeInit, RangeStep, PTL DEF Spec

\* Every variable has a value of its type, a list has no interval and an
\* integer no length, in every program and for every width.
THEOREM TypeCorrect == Spec => []TypeOK
<1>1. RangeInv => TypeOK
    BY NamesHaveTypes DEF RangeInv, Here, EnvOK, Typed, Suits, TypeOK, Lists, IntegerNames
<1> QED
    BY <1>1, Invariance, PTL

\* Unless the analyzer was confused, what it believes of the variables is true
\* of the execution, here and in every branch, loop or binder that is open.
THEOREM BeliefsHold == Spec => []BeliefsAreTrue
<1>1. RangeInv => BeliefsAreTrue
    <2> SUFFICES ASSUME RangeInv, ~confused PROVE BeliefsAreTrue
        BY DEF BeliefsAreTrue
    <2>1. reached => Believable(known, pairs, env)
        BY SoundIsBelievable DEF RangeInv, Here
    <2>2. ASSUME NEW i \in DOMAIN frames, frames[i].reached
          PROVE  Believable(frames[i].known, frames[i].pairs, frames[i].env)
        <3>1. i \in 1 .. Len(frames)
            BY StackFacts DEF RangeInv, AllFramed
        <3>2. Framed(frames[i], confused)
            BY <3>1 DEF RangeInv, AllFramed
        <3> QED
            BY <2>2, <3>2, SoundIsBelievable DEF Framed
    <2> QED
        BY <2>1, <2>2 DEF BeliefsAreTrue
<1> QED
    BY <1>1, Invariance, PTL

-----------------------------------------------------------------------------
(* What a decision says is so. A recorded decision is a claim about the    *)
(* operation that the execution has just completed or failed at.           *)

VerdictInv == SafeUnlessConfused /\ InvalidNeverSucceeds /\ SafeIsAuditable

LEMMA VerdictStays ==
    ASSUME VerdictInv, proof' = proof, confused => confused' PROVE VerdictInv'
BY DEF VerdictInv, SafeUnlessConfused, SafeNeverFails, InvalidNeverSucceeds, SafeIsAuditable

LEMMA VerdictOf ==
    ASSUME NEW evidence, NEW fails, Record(evidence, fails),
           evidence.decision = "Safe" => Replay(evidence) = "Safe" \/ Vacuous(evidence.intervals),
           ~confused' /\ reached /\ evidence.decision = "Safe" => ~fails,
           ~confused' /\ reached /\ evidence.decision = "Invalid" => fails
    PROVE  VerdictInv'
<1> DEFINE q == [decision |-> evidence.decision, audit |-> Audit(evidence),
                 vacuous |-> Vacuous(evidence.intervals), outcome |-> Outcome(fails)]
           heard == Audit(evidence)
           empty == Vacuous(evidence.intervals)
<1>1. proof' = q
    BY DEF Record
<1>2. q.decision = evidence.decision /\ q.audit = heard /\ q.vacuous = empty /\ q.outcome = Outcome(fails)
    OBVIOUS
<1>3. evidence.decision = "Safe" => heard \/ empty
    BY DEF Audit
<1>4. /\ Outcome(fails) = "fails" => reached /\ fails
      /\ Outcome(fails) = "succeeds" => reached /\ ~fails
    BY DEF Outcome
<1> HIDE DEF q, heard, empty
<1>5. /\ proof'.decision = "Safe" => proof'.audit \/ proof'.vacuous
      /\ ~confused' /\ proof'.decision = "Safe" => proof'.outcome # "fails"
      /\ ~confused' /\ proof'.decision = "Invalid" => proof'.outcome # "succeeds"
    BY <1>1, <1>2, <1>3, <1>4
<1> QED
    BY <1>5 DEF VerdictInv, SafeUnlessConfused, SafeNeverFails, InvalidNeverSucceeds, SafeIsAuditable

LEMMA FitDecides ==
    ASSUME NEW i, NEW target \in Int \X Int, i = None \/ i \in Int \X Int
    PROVE  /\ Fit(i, target) \in {"Safe", "Invalid"} => i # None
           /\ \A x \in Int : In(x, i) /\ Fit(i, target) = "Safe" => In(x, target)
           /\ \A x \in Int : In(x, i) /\ Fit(i, target) = "Invalid" => ~In(x, target)
<1>1. CASE i = None
    BY <1>1 DEF Fit
<1>2. CASE i # None
    <2>1. PICK a \in Int, b \in Int, c \in Int, d \in Int : i = <<a, b>> /\ target = <<c, d>>
        BY <1>2
    <2>2. target # None
        BY <2>1 DEF None
    <2>3. Fit(i, target) = IF a >= c /\ b <= d THEN "Safe"
                           ELSE IF b < c \/ a > d THEN "Invalid" ELSE "Unknown"
        BY <1>2, <2>1, <2>2 DEF Fit
    <2>4. \A x \in Int : (In(x, i) <=> a <= x /\ x <= b) /\ (In(x, target) <=> c <= x /\ x <= d)
        BY <2>1 DEF In
    <2> QED
        BY <1>2, <2>3, <2>4
<1> QED
    BY <1>1, <1>2

\* A decision about an operator, but for the range of its result, is about the
\* right operand.
LEMMA ClassifyDecides ==
    ASSUME NEW op \in Operations, NEW right \in Values, NEW y \in Int, Describes(right, y), NEW result, NEW target
    PROVE  LET decision == Classify(op, right, result, target)
           IN  /\ decision = "Safe" => Completes(op, y) /\ Fit(result.interval, target) = "Safe"
               /\ decision = "Invalid" => ~Completes(op, y) \/ Fit(result.interval, target) = "Invalid"
<1> DEFINE fit == Fit(result.interval, target)
           b == right.interval
<1>1. Width \in Nat
    BY TypesAssumption
<1>2. b # None => b[1] \in Int /\ b[2] \in Int /\ b[1] <= y /\ y <= b[2]
    BY DEF Values, Describes, In
<1>3. CASE op \in {"+", "-", "*"}
    BY <1>3 DEF Classify, Completes
<1>4. CASE op = "%"
    <2>1. Classify(op, right, result, target) =
              IF b = <<0, 0>> THEN "Invalid" ELSE IF ~right.nonzero THEN "Unknown" ELSE fit
        BY <1>4 DEF Classify
    <2>2. b = <<0, 0>> => y = 0
        BY <1>2 DEF None
    <2>3. right.nonzero => y # 0
        BY DEF Describes
    <2> HIDE DEF fit
    <2>4. Completes(op, y) <=> y # 0
        BY <1>4 DEF Completes
    <2>5. fit = Fit(result.interval, target)
        BY DEF fit
    <2> QED
        BY <2>1, <2>2, <2>3, <2>4, <2>5
<1>5. CASE op \in {"<<", ">>"}
    <2>1. Classify(op, right, result, target) =
              IF b = None THEN "Unknown"
              ELSE IF b[1] >= 0 /\ b[2] < Width THEN fit
              ELSE IF b[2] < 0 \/ b[1] >= Width THEN "Invalid" ELSE "Unknown"
        BY <1>5 DEF Classify
    <2>2. Completes(op, y) <=> y \in 0 .. Width - 1
        BY <1>5 DEF Completes
    <2>3. b # None /\ b[1] >= 0 /\ b[2] < Width => y \in 0 .. Width - 1
        BY <1>1, <1>2
    <2>4. b # None /\ (b[2] < 0 \/ b[1] >= Width) => y \notin 0 .. Width - 1
        BY <1>1, <1>2
    <2>5. fit = Fit(result.interval, target)
        OBVIOUS
    <2> HIDE DEF fit, b
    <2> QED
        BY <2>1, <2>2, <2>3, <2>4, <2>5
<1>6. CASE op = "^"
    <2>1. Classify(op, right, result, target) =
              IF b = None THEN "Unknown"
              ELSE IF b[2] < 0 THEN "Invalid" ELSE IF b[1] < 0 THEN "Unknown" ELSE fit
        BY <1>6 DEF Classify
    <2>2. Completes(op, y) <=> y >= 0
        BY <1>6 DEF Completes
    <2>3. (b # None /\ ~(b[1] < 0) => y >= 0) /\ (b # None /\ b[2] < 0 => ~(y >= 0))
        BY <1>2
    <2>4. fit = Fit(result.interval, target)
        OBVIOUS
    <2> HIDE DEF fit, b
    <2> QED
        BY <2>1, <2>2, <2>3, <2>4
<1> QED
    BY <1>3, <1>4, <1>5, <1>6 DEF Operations

LEMMA ResultNeedsOperands ==
    ASSUME NEW op, NEW left, NEW right, ArithmeticInterval(op, left, right).interval # None
    PROVE  left.interval # None /\ right.interval # None
BY DEF ArithmeticInterval, Unknown, Value

\* The audit of an operator that was found safe.
LEMMA OperatorAudit ==
    ASSUME NEW op \in Operations \cup {"/"}, NEW left, NEW right, right.interval = None \/ right.interval \in Int \X Int,
           NEW target, Classify(op, right, ArithmeticInterval(op, left, right), target) = "Safe"
    PROVE  LET result == ArithmeticInterval(op, left, right)
               decision == Classify(op, right, result, target)
               s == Shown(left.interval) \o Shown(right.interval) \o Shown(result.interval)
           IN  \/ Replay([Evidence(OperationOf(op), decision, s, target) EXCEPT !.excluded = right.nonzero]) = "Safe"
               \/ Vacuous(s)
<1> DEFINE result == ArithmeticInterval(op, left, right)
           decision == Classify(op, right, result, target)
           s == Shown(left.interval) \o Shown(right.interval) \o Shown(result.interval)
           q == [Evidence(OperationOf(op), decision, s, target) EXCEPT !.excluded = right.nonzero]
           b == right.interval
           last == Fit(result.interval, target)
           ZeroOut == right.nonzero
<1>1. last = "Safe"
    BY DEF Classify, Operations
<1>2. left.interval # None /\ b # None /\ result.interval # None
    BY <1>1, ResultNeedsOperands DEF Fit
<1>3. Final(s) = result.interval /\ At(s, 2) = b /\ DOMAIN s = 1 .. 3 /\ s[2] = b
    <2> DEFINE l == left.interval
               t == result.interval
               S == {l, b, t}
    <2>1. s = <<l>> \o <<b>> \o <<t>>
        BY <1>2 DEF Shown
    <2>2. <<l>> \in Seq(S) /\ <<b>> \in Seq(S) /\ <<t>> \in Seq(S)
        OBVIOUS
    <2> HIDE DEF l, b, t, s, S
    <2>3. <<l>> \o <<b>> \in Seq(S) /\ Len(<<l>> \o <<b>>) = 2 /\ (<<l>> \o <<b>>)[2] = b
        BY <2>2, ConcatProperties
    <2>4. s \in Seq(S) /\ Len(s) = 3 /\ s[2] = b /\ s[3] = t
        BY <2>1, <2>2, <2>3, ConcatProperties
    <2>5. DOMAIN s = 1 .. 3 /\ Final(s) = t /\ At(s, 2) = b
        BY <2>4 DEF Final, At
    <2> QED
        BY <2>4, <2>5 DEF t
<1>4. q.operation = OperationOf(op) /\ q.intervals = s /\ q.target = target /\ q.excluded = ZeroOut
    BY DEF Evidence
<1>5. b[1] > b[2] => Vacuous(s)
    BY <1>3 DEF Vacuous
<1>6. b[1] \in Int /\ b[2] \in Int /\ Width \in Nat
    BY <1>2, TypesAssumption
<1>7. Fit(Final(q.intervals), q.target) = "Safe" /\ At(q.intervals, 2) = b
    BY <1>1, <1>3, <1>4
<1>8. CASE op \in {"+", "-", "*"}
    <2>1. q.operation = "Arithmetic"
        BY <1>4, <1>8 DEF OperationOf
    <2> HIDE DEF q
    <2>2. Replay(q) = Fit(Final(q.intervals), q.target)
        BY <2>1 DEF Replay
    <2> QED
        BY <1>7, <2>2 DEF q
<1>9. CASE op \in {"/", "%"}
    <2>1. q.operation \in {"Division", "Remainder"}
        BY <1>4, <1>9 DEF OperationOf
    <2>2. b # <<0, 0>> /\ ZeroOut
        BY <1>9 DEF Classify
    <2> HIDE DEF q
    <2>3. Replay(q) = IF At(q.intervals, 2) = <<0, 0>> THEN "Invalid" ELSE IF q.excluded THEN "Safe" ELSE "Unknown"
        BY <2>1 DEF Replay
    <2> HIDE DEF s, b, ZeroOut
    <2>4. Replay(q) = "Safe"
        BY <1>4, <1>7, <2>2, <2>3
    <2> QED
        BY <2>4 DEF q, s
<1>10. CASE op \in {"<<", ">>"}
    <2>1. q.operation = "Shift"
        BY <1>4, <1>10 DEF OperationOf
    <2>2. b[1] >= 0 /\ b[2] < Width
        BY <1>2, <1>10 DEF Classify
    <2> HIDE DEF q
    <2>3. Replay(q) = IF At(q.intervals, 2) = None THEN "Unknown"
                      ELSE IF At(q.intervals, 2)[2] < 0 \/ At(q.intervals, 2)[1] >= Width THEN "Invalid"
                      ELSE IF At(q.intervals, 2)[1] >= 0 /\ At(q.intervals, 2)[2] < Width
                           THEN Fit(Final(q.intervals), q.target) ELSE "Unknown"
        BY <2>1 DEF Replay
    <2> HIDE DEF s, b
    <2>4. Replay(q) = "Safe" \/ b[1] > b[2]
        BY <1>2, <1>6, <1>7, <2>2, <2>3
    <2> QED
        BY <1>5, <2>4 DEF q, s
<1>11. CASE op = "^"
    <2>1. q.operation = "Power"
        BY <1>4, <1>11 DEF OperationOf
    <2>2. ~(b[2] < 0) /\ ~(b[1] < 0)
        BY <1>2, <1>11 DEF Classify
    <2> HIDE DEF q
    <2>3. Replay(q) = IF At(q.intervals, 2) = None THEN "Unknown"
                      ELSE IF At(q.intervals, 2)[2] < 0 THEN "Invalid"
                      ELSE IF At(q.intervals, 2)[1] >= 0 THEN Fit(Final(q.intervals), q.target) ELSE "Unknown"
        BY <2>1 DEF Replay
    <2> HIDE DEF s, b
    <2>4. Replay(q) = "Safe"
        BY <1>2, <1>6, <1>7, <2>2, <2>3
    <2> QED
        BY <2>4 DEF q, s
<1> QED
    BY <1>8, <1>9, <1>10, <1>11 DEF Operations

LEMMA ComputeVerdict ==
    ASSUME RangeInv, NEW n \in Targets, NEW op \in Operators, NEW p \in Doubles, Compute(n, op, p[1], p[2])
    PROVE  VerdictInv'
<1> DEFINE left == Eval(known, p[1])
           right == Eval(known, p[2])
           x == Concrete(env, p[1])
           y == Concrete(env, p[2])
           result == ArithmeticInterval(op, left, right)
           target == Bounds(TypeOf[n])
           fails == Fails(op, x, y, target)
           decision == Classify(op, right, result, target)
           s == Shown(left.interval) \o Shown(right.interval) \o Shown(result.interval)
           evidence == [Evidence(OperationOf(op), decision, s, target) EXCEPT !.excluded = right.nonzero]
<1>1. /\ op \in Operations /\ Plain(p[1]) /\ Plain(p[2])
      /\ target \in Int \X Int /\ IntMin <= target[1] /\ target[2] <= UintMax
    <2>1. n \in IntegerNames
        BY ProgramsAssumption DEF Compute, HasType, IntegerNames
    <2> QED
        BY <2>1, ProgramsAssumption, IntegerBounds DEF Operations
<1>2. Record(evidence, fails) /\ confused' = (confused \/ Miscomputed(op, left, right))
    BY DEF Compute
<1>3. evidence.decision = decision /\ evidence.intervals = s
    BY DEF Evidence
<1>4. EnvOK(env) /\ Typed(known)
    BY DEF RangeInv, Here
<1>5. x \in Int /\ y \in Int /\ IsOperand(p[1]) /\ IsOperand(p[2])
    BY <1>1, <1>4, PlainOperands
<1>6. left \in Values /\ right \in Values
    BY <1>4, <1>5, EvalIsValue DEF Typed
<1>7. decision = "Safe" => Replay(evidence) = "Safe" \/ Vacuous(s)
    <2>1. right.interval = None \/ right.interval \in Int \X Int
        BY <1>6 DEF Values
    <2> QED
        BY <1>1, <2>1, OperatorAudit
<1>8. ASSUME ~confused', reached
      PROVE  (decision = "Safe" => ~fails) /\ (decision = "Invalid" => fails)
    <2>1. Sound(known, pairs, env)
        BY <1>2, <1>8 DEF RangeInv, Here
    <2>2. Describes(left, x) /\ Describes(right, y)
        BY <1>1, <1>4, <1>5, <2>1, PlainDescribes DEF Sound
    <2>3. ~Miscomputed(op, left, right)
        BY <1>2, <1>8
    <2> HIDE DEF left, right, x, y, target
    <2>4. /\ decision = "Safe" => Completes(op, y) /\ Fit(result.interval, target) = "Safe"
          /\ decision = "Invalid" => ~Completes(op, y) \/ Fit(result.interval, target) = "Invalid"
        BY <1>1, <1>5, <1>6, <2>2, ClassifyDecides
    <2>5. ~fails <=> (Completes(op, y) /\ In(Apply(op, x, y), target))
        BY <1>1, <1>5, FailsUnless
    <2>6. ASSUME Completes(op, y)
          PROVE  /\ Fit(result.interval, target) = "Safe" => In(Apply(op, x, y), target)
                 /\ Fit(result.interval, target) = "Invalid" => ~In(Apply(op, x, y), target)
        <3> DEFINE i == result.interval
                   z == Apply(op, x, y)
        <3>1. z \in Int /\ result \in Anonymous /\ (Describes(result, z) \/ Describes(result, Saturated(z)))
            BY <1>1, <1>5, <1>6, <2>2, <2>3, <2>6, ArithmeticDescribes, AppliesToInt
        <3>2. /\ i = None \/ i \in Int \X Int
              /\ z \in Int /\ Saturated(z) \in Int
              /\ i # None => In(z, i) \/ In(Saturated(z), i)
            BY <3>1, SaturatedFacts DEF Anonymous, Values, Describes
        <3> HIDE DEF i, z
        <3>3. (Fit(i, target) = "Safe" => In(z, target)) /\ (Fit(i, target) = "Invalid" => ~In(z, target))
            <4>1. In(Saturated(z), target) <=> In(z, target)
                BY <1>1, <3>2, SaturatedIn
            <4> QED
                BY <1>1, <3>2, <4>1, FitDecides
        <3> QED
            BY <3>3 DEF i, z
    <2> QED
        BY <2>4, <2>5, <2>6
<1> HIDE DEF evidence, decision, s, fails
<1> QED
    BY <1>2, <1>3, <1>7, <1>8, VerdictOf

LEMMA DivideVerdict ==
    ASSUME RangeInv, NEW p \in Doubles, Divide(p[1], p[2])
    PROVE  VerdictInv'
<1> DEFINE left == Eval(known, p[1])
           right == Eval(known, p[2])
           y == Concrete(env, p[2])
           result == ArithmeticInterval("/", left, right)
           target == <<IntMin, IntMax>>
           fails == y = 0
           decision == Classify("/", right, result, target)
           s == Shown(left.interval) \o Shown(right.interval) \o Shown(result.interval)
           evidence == [Evidence("Division", decision, s, target) EXCEPT !.excluded = right.nonzero]
<1>1. Plain(p[1]) /\ Plain(p[2])
    BY ProgramsAssumption
<1>2. /\ Record(evidence, fails)
      /\ confused' = (confused \/ (decision = "Invalid" /\ right.interval # <<0, 0>>))
    BY DEF Divide
<1>3. evidence.decision = decision /\ evidence.intervals = s
    BY DEF Evidence
<1>4. EnvOK(env) /\ Typed(known)
    BY DEF RangeInv, Here
<1>5. y \in Int /\ IsOperand(p[1]) /\ IsOperand(p[2])
    BY <1>1, <1>4, PlainOperands
<1>6. right \in Values
    BY <1>4, <1>5, EvalIsValue DEF Typed
<1>7. decision = "Safe" => Replay(evidence) = "Safe" \/ Vacuous(s)
    <2>1. right.interval = None \/ right.interval \in Int \X Int
        BY <1>6 DEF Values
    <2>2. "/" \in Operations \cup {"/"} /\ OperationOf("/") = "Division"
        BY DEF OperationOf
    <2> QED
        BY <2>1, <2>2, OperatorAudit
<1>8. ASSUME ~confused', reached
      PROVE  (decision = "Safe" => ~fails) /\ (decision = "Invalid" => fails)
    <2>1. Sound(known, pairs, env)
        BY <1>2, <1>8 DEF RangeInv, Here
    <2>2. Describes(right, y)
        BY <1>1, <1>4, <1>5, <2>1, PlainDescribes DEF Sound
    <2>3. decision = "Safe" => right.nonzero
        BY DEF Classify
    <2>4. decision = "Invalid" => right.interval = <<0, 0>>
        BY <1>2, <1>8
    <2> HIDE DEF decision, right, y
    <2>5. right.interval = <<0, 0>> => y = 0
        BY <1>5, <2>2 DEF Describes, In, None
    <2>6. right.nonzero => y # 0
        BY <2>2 DEF Describes
    <2> QED
        BY <2>3, <2>4, <2>5, <2>6
<1> HIDE DEF evidence, decision, s, fails
<1> QED
    BY <1>2, <1>3, <1>7, <1>8, VerdictOf

LEMMA ConvertVerdict ==
    ASSUME RangeInv, NEW n \in Targets, NEW a \in Singles, Convert(n, a)
    PROVE  VerdictInv'
<1> DEFINE value == Eval(known, a)
           x == Concrete(env, a)
           target == Bounds(TypeOf[n])
           fails == ~In(x, target)
           i == value.interval
           evidence == Evidence("Conversion", Fit(i, target), Shown(i), target)
<1>1. n \in Names /\ Plain(a) /\ target \in Int \X Int
    BY ProgramsAssumption, NamesHaveTypes
<1>2. Record(evidence, fails) /\ confused' = confused
    BY DEF Convert
<1>3. /\ evidence.decision = Fit(i, target) /\ evidence.operation = "Conversion"
      /\ evidence.intervals = Shown(i) /\ evidence.target = target
    BY DEF Evidence
<1>4. EnvOK(env) /\ Typed(known)
    BY DEF RangeInv, Here
<1>5. x \in Int /\ IsOperand(a)
    BY <1>1, <1>4, PlainOperands
<1>6. i = None \/ i \in Int \X Int
    BY <1>4, <1>5, EvalIsValue DEF Typed, Values
<1> HIDE DEF evidence
<1>7. Fit(i, target) = "Safe" => Replay(evidence) = "Safe"
    <2>1. ASSUME i # None PROVE At(Shown(i), 1) = i
        BY <2>1 DEF Shown, At
    <2>2. Replay(evidence) = Fit(At(evidence.intervals, 1), evidence.target)
        BY <1>3 DEF Replay
    <2>3. Fit(i, target) = "Safe" => i # None
        BY <1>1, <1>6, FitDecides
    <2> QED
        BY <1>3, <2>1, <2>2, <2>3
<1>8. ASSUME ~confused', reached
      PROVE  (Fit(i, target) = "Safe" => ~fails) /\ (Fit(i, target) = "Invalid" => fails)
    <2>1. Sound(known, pairs, env)
        BY <1>2, <1>8 DEF RangeInv, Here
    <2>2. i # None => In(x, i)
        BY <1>1, <1>4, <1>5, <2>1, PlainDescribes DEF Sound, Describes
    <2> HIDE DEF i, x, target
    <2> QED
        BY <1>1, <1>5, <1>6, <2>2, FitDecides
<1> HIDE DEF fails
<1> QED
    BY <1>2, <1>3, <1>7, <1>8, VerdictOf

\* A pair bound relates an index to the length of a list.
LEMMA PairBoundsIndex ==
    ASSUME Sound(known, pairs, env), EnvOK(env), NEW a, Plain(a), NEW v, v = Eval(known, a), NEW m \in Lists,
           Integer(a), Symbolic(v, known[m]), NEW sign \in {1, -1}, NEW upper \in Int, HasPair(v, sign, known[m], upper)
    PROVE  sign * Concrete(env, a) - env[m] <= upper
<1>1. IsOperand(a) /\ a.sign = 1 /\ m \in Names
    BY NamesHaveTypes DEF Plain
<1>2. a.kind = "name" /\ a.name \in Names /\ v = known[a.name] /\ Concrete(env, a) = env[a.name]
    <2>1. a.kind = "literal" => v.symbol = None
        BY <1>1, ScalarFacts DEF Eval, IsOperand
    <2>2. a.kind = "name"
        BY <1>1, <2>1 DEF Symbolic, IsOperand, Integer, HasType, Lists
    <2> QED
        BY <1>1, <2>2 DEF Eval, Concrete, IsOperand, EnvOK
<1>3. PICK b \in pairs : /\ b.left = v.symbol /\ b.leftSign = sign
                         /\ b.right = LengthSymbol(known[m].symbol[1]) /\ b.rightSign = -1
                         /\ b.upper <= upper
    BY DEF HasPair
<1>4. Bears(known, a.name, b.left) /\ Bears(known, m, b.right)
    BY <1>2, <1>3 DEF Bears, Symbolic
<1>5. b.leftSign * env[a.name] + b.rightSign * env[m] <= b.upper
    BY <1>1, <1>2, <1>4 DEF Sound, PairsHold
<1>6. b.upper \in Int /\ env[a.name] \in Int /\ env[m] \in Int
    BY <1>1, <1>2 DEF Sound, PairBounds, EnvOK
<1> QED
    BY <1>2, <1>3, <1>5, <1>6

\* A value that is fit for a list whose length is known or not.
LEMMA LengthKnown ==
    ASSUME Sound(known, pairs, env), EnvOK(env), NEW m \in Lists
    PROVE  /\ env[m] \in Nat
           /\ known[m].length = None \/ (known[m].length[1] = env[m] /\ known[m].length # None)
BY NamesHaveTypes DEF Sound, Knows, Describes, EnvOK, In

LEMMA IndexVerdict ==
    ASSUME RangeInv, NEW m \in Lists, NEW a \in Singles, Index(m, a)
    PROVE  VerdictInv'
<1> DEFINE v == Eval(known, a)
           x == Concrete(env, a)
           i == v.interval
           length == known[m].length
           supporting == {b \in pairs :
              /\ known[m].symbol # None /\ b.left = v.symbol
              /\ b.right = LengthSymbol(known[m].symbol[1])
              /\ b.rightSign = -1 /\ b.upper <= (IF b.leftSign = 1 THEN -1 ELSE 0)}
           fails == ~In(x, <<-env[m], env[m] - 1>>)
           decision == ClassifyIndex(v, known[m])
           evidence == [Evidence("Index", decision, Shown(i), None)
                        EXCEPT !.length = known[m].length, !.pairs = supporting]
<1>1. Plain(a) /\ m \in Names /\ Integer(a)
    BY ProgramsAssumption, NamesHaveTypes DEF Index
<1>2. Record(evidence, fails) /\ confused' = confused
    BY DEF Index
<1>3. /\ evidence.decision = decision /\ evidence.operation = "Index"
      /\ evidence.intervals = Shown(i) /\ evidence.length = length /\ evidence.pairs = supporting
    BY DEF Evidence
<1>4. EnvOK(env) /\ Typed(known)
    BY DEF RangeInv, Here
<1>5. x \in Int /\ IsOperand(a)
    BY <1>1, <1>4, PlainOperands
<1>6. (i = None \/ i \in Int \X Int) /\ (length = None \/ \E l \in Int : length = <<l>>)
    BY <1>1, <1>4, <1>5, EvalIsValue DEF Typed, Formed, Values
<1>7. /\ length # None => decision = Fit(i, <<-length[1], length[1] - 1>>)
      /\ length = None =>
            /\ decision # "Invalid"
            /\ decision = "Safe" =>
                  /\ Symbolic(v, known[m])
                  /\ \/ i[1] >= 0 /\ HasPair(v, 1, known[m], -1)
                     \/ i[2] <= -1 /\ HasPair(v, -1, known[m], 0)
    BY DEF ClassifyIndex
<1> HIDE DEF evidence, decision
<1>8. decision = "Safe" => Replay(evidence) = "Safe"
    <2> SUFFICES ASSUME decision = "Safe" PROVE Replay(evidence) = "Safe"
        OBVIOUS
    <2>1. i # None
        BY <1>7 DEF Fit, Symbolic
    <2>2. At(evidence.intervals, 1) = i
        BY <1>3, <2>1 DEF Shown, At
    <2>3. CASE length # None
        <3>1. Fit(At(evidence.intervals, 1), <<-evidence.length[1], evidence.length[1] - 1>>) = "Safe"
            BY <1>3, <1>7, <2>2, <2>3
        <3>2. evidence.length # None /\ At(evidence.intervals, 1) # None
            BY <1>3, <2>1, <2>2, <2>3
        <3> QED
            BY <1>3, <3>1, <3>2 DEF Replay
    <2>4. CASE length = None
        <3> HIDE DEF i, v, length
        <3>1. \E b \in supporting : IF b.leftSign = 1 THEN i[1] >= 0 ELSE i[2] <= -1
            <4>1. CASE i[1] >= 0 /\ HasPair(v, 1, known[m], -1)
                <5>1. PICK b \in pairs : /\ b.left = v.symbol /\ b.leftSign = 1
                                         /\ b.right = LengthSymbol(known[m].symbol[1]) /\ b.rightSign = -1
                                         /\ b.upper <= -1
                    BY <4>1 DEF HasPair
                <5>2. b \in supporting
                    BY <1>7, <2>4, <5>1 DEF Symbolic
                <5> QED
                    BY <4>1, <5>1, <5>2
            <4>2. CASE i[2] <= -1 /\ HasPair(v, -1, known[m], 0)
                <5>1. PICK b \in pairs : /\ b.left = v.symbol /\ b.leftSign = -1
                                         /\ b.right = LengthSymbol(known[m].symbol[1]) /\ b.rightSign = -1
                                         /\ b.upper <= 0
                    BY <4>2 DEF HasPair
                <5>2. b \in supporting
                    BY <1>7, <2>4, <5>1 DEF Symbolic
                <5> QED
                    BY <4>2, <5>1, <5>2
            <4> QED
                BY <1>7, <2>4, <4>1, <4>2
        <3> HIDE DEF supporting
        <3>2. \E b \in evidence.pairs : IF b.leftSign = 1 THEN At(evidence.intervals, 1)[1] >= 0
                                                         ELSE At(evidence.intervals, 1)[2] <= -1
            BY <1>3, <2>2, <3>1
        <3>3. At(evidence.intervals, 1) # None
            BY <2>1, <2>2
        <3> QED
            BY <1>3, <3>2, <3>3 DEF Replay
    <2> QED
        BY <2>3, <2>4
<1>9. ASSUME ~confused', reached
      PROVE  (decision = "Safe" => ~fails) /\ (decision = "Invalid" => fails)
    <2>1. Sound(known, pairs, env)
        BY <1>2, <1>9 DEF RangeInv, Here
    <2>2. i # None => In(x, i)
        BY <1>1, <1>4, <1>5, <2>1, PlainDescribes DEF Sound, Describes
    <2>3. env[m] \in Nat /\ (length # None => length[1] = env[m])
        BY <1>4, <2>1, LengthKnown
    <2>4. CASE length # None
        <3> DEFINE target == <<-env[m], env[m] - 1>>
        <3>1. target \in Int \X Int /\ decision = Fit(i, target)
            BY <1>7, <2>3, <2>4
        <3> HIDE DEF i, x, length, target
        <3>2. (decision = "Safe" => In(x, target)) /\ (decision = "Invalid" => ~In(x, target))
            BY <1>5, <1>6, <2>2, <3>1, FitDecides
        <3> QED
            BY <3>2 DEF target
    <2>5. CASE length = None
        <3>1. decision # "Invalid"
            BY <1>7, <2>5
        <3>2. ASSUME decision = "Safe" PROVE ~fails
            <4>1. Symbolic(v, known[m]) /\ i # None
                BY <1>7, <2>5, <3>2 DEF Symbolic
            <4>2. i[1] <= x /\ x <= i[2] /\ i[1] \in Int /\ i[2] \in Int
                BY <1>6, <2>2, <4>1 DEF In
            <4>3. HasPair(v, 1, known[m], -1) => 1 * x - env[m] <= -1
                BY <1>1, <1>4, <2>1, <4>1, PairBoundsIndex
            <4>4. HasPair(v, -1, known[m], 0) => (-1) * x - env[m] <= 0
                BY <1>1, <1>4, <2>1, <4>1, PairBoundsIndex
            <4> HIDE DEF i, v, x, length
            <4>5. -env[m] <= x /\ x <= env[m] - 1
                BY <1>5, <1>7, <2>3, <2>5, <3>2, <4>2, <4>3, <4>4
            <4> QED
                BY <4>5 DEF In
        <3> QED
            BY <3>1, <3>2
    <2> QED
        BY <2>4, <2>5
<1> HIDE DEF fails
<1> QED
    BY <1>2, <1>3, <1>8, <1>9, VerdictOf

\* What a bound of a slice shows of itself, and what the audit makes of that.
Bound(v, collection, last) ==
    IF v.interval = None \/ (collection.length = None /\ ~Symbolic(v, collection)) THEN {}
    ELSE {[interval |-> v.interval, inclusive |-> last,
           lower |-> collection.length = None /\ HasPair(v, -1, collection, 0),
           upper |-> collection.length = None /\ HasPair(v, 1, collection, IF last THEN -1 ELSE 0)]}
Reread(b, length) ==
    IF length # None THEN Fit(b.interval, <<-length[1], LastIndex(length[1], b.inclusive)>>)
    ELSE IF (b.interval[1] >= 0 \/ b.lower) /\ (b.interval[2] < 0 \/ b.upper) THEN "Safe" ELSE "Unknown"

LEMMA BoundAudit ==
    ASSUME NEW v, NEW collection, NEW last \in BOOLEAN, ClassifyBound(v, collection, last) = "Safe"
    PROVE  /\ Bound(v, collection, last) # {}
           /\ \A b \in Bound(v, collection, last) : Reread(b, collection.length) = "Safe"
<1> DEFINE a == v.interval
           length == collection.length
           low == length = None /\ HasPair(v, -1, collection, 0)
           high == length = None /\ HasPair(v, 1, collection, IF last THEN -1 ELSE 0)
           r == [interval |-> a, inclusive |-> last, lower |-> low, upper |-> high]
<1>1. /\ length # None => Fit(a, <<-length[1], LastIndex(length[1], last)>>) = "Safe"
      /\ length = None => /\ Symbolic(v, collection)
                          /\ a[1] >= 0 \/ HasPair(v, -1, collection, 0)
                          /\ a[2] < 0 \/ HasPair(v, 1, collection, IF last THEN -1 ELSE 0)
    BY DEF ClassifyBound
<1>2. a # None
    BY <1>1 DEF Fit, Symbolic
<1>3. Bound(v, collection, last) = {r}
    BY <1>1, <1>2 DEF Bound
<1>4. length = None => (a[1] >= 0 \/ low) /\ (a[2] < 0 \/ high)
    BY <1>1
<1> HIDE DEF a, length, low, high
<1>5. r.interval = a /\ r.inclusive = last /\ r.lower = low /\ r.upper = high
    OBVIOUS
<1>6. length # None => Fit(a, <<-length[1], LastIndex(length[1], last)>>) = "Safe"
    BY <1>1 DEF a, length
<1> HIDE DEF r
<1>7. Reread(r, length) = "Safe"
    BY <1>4, <1>5, <1>6 DEF Reread
<1> QED
    BY <1>3, <1>7 DEF length

LEMMA BoundDecides ==
    ASSUME Sound(known, pairs, env), EnvOK(env), Typed(known), NEW m \in Lists, NEW a, Plain(a), Integer(a),
           NEW last \in BOOLEAN
    PROVE  LET decision == ClassifyBound(Eval(known, a), known[m], last)
               fits == In(Concrete(env, a), <<-env[m], LastIndex(env[m], last)>>)
           IN  (decision = "Safe" => fits) /\ (decision = "Invalid" => ~fits)
<1> DEFINE v == Eval(known, a)
           x == Concrete(env, a)
           i == v.interval
           length == known[m].length
           top == IF last THEN -1 ELSE 0
           target == <<-env[m], LastIndex(env[m], last)>>
           decision == ClassifyBound(v, known[m], last)
<1>1. m \in Names /\ x \in Int /\ IsOperand(a)
    BY NamesHaveTypes, PlainOperands
<1>2. (i = None \/ i \in Int \X Int) /\ (length = None \/ \E l \in Int : length = <<l>>)
    BY <1>1, EvalIsValue DEF Typed, Formed, Values
<1>3. i # None => In(x, i)
    BY <1>1, PlainDescribes DEF Sound, Describes
<1>4. env[m] \in Nat /\ (length # None => length[1] = env[m])
    BY LengthKnown
<1>5. target \in Int \X Int /\ top \in Int
    BY <1>4 DEF LastIndex
<1>6. CASE length # None
    <2>1. decision = Fit(i, target)
        BY <1>4, <1>6 DEF ClassifyBound
    <2> HIDE DEF i, x, target
    <2>2. (decision = "Safe" => In(x, target)) /\ (decision = "Invalid" => ~In(x, target))
        BY <1>1, <1>2, <1>3, <1>5, <2>1, FitDecides
    <2> QED
        BY <2>2 DEF i, x, target
<1>7. CASE length = None
    <2>1. /\ decision # "Invalid"
          /\ decision = "Safe" => /\ Symbolic(v, known[m])
                                  /\ i[1] >= 0 \/ HasPair(v, -1, known[m], 0)
                                  /\ i[2] < 0 \/ HasPair(v, 1, known[m], top)
        BY <1>7 DEF ClassifyBound
    <2>2. ASSUME decision = "Safe" PROVE In(x, target)
        <3>1. Symbolic(v, known[m]) /\ i # None
            BY <2>1, <2>2 DEF Symbolic
        <3>2. i[1] <= x /\ x <= i[2] /\ i[1] \in Int /\ i[2] \in Int
            BY <1>2, <1>3, <3>1 DEF In
        <3> HIDE DEF top
        <3>3. HasPair(v, 1, known[m], top) => 1 * x - env[m] <= top
            BY <1>5, <3>1, PairBoundsIndex
        <3>4. HasPair(v, -1, known[m], 0) => (-1) * x - env[m] <= 0
            BY <3>1, PairBoundsIndex
        <3> HIDE DEF i, v, x, length
        <3>5. -env[m] <= x
            BY <1>1, <1>4, <2>1, <2>2, <3>2, <3>4
        <3>6. x - env[m] <= top \/ x <= -1
            BY <1>1, <1>4, <2>1, <2>2, <3>2, <3>3
        <3>7. x <= LastIndex(env[m], last)
            BY <1>1, <1>4, <3>6 DEF top, LastIndex
        <3> QED
            BY <3>5, <3>7 DEF In, target
    <2> QED
        BY <2>1, <2>2
<1> QED
    BY <1>6, <1>7

LEMMA EndsFacts ==
    ASSUME NEW a, Plain(a), NEW b, Plain(b), NEW inclusive \in BOOLEAN
    PROVE  /\ OneEnd(a, inclusive) # {} /\ TwoEnds(a, b, inclusive) # {}
           /\ \A e \in OneEnd(a, inclusive) \cup TwoEnds(a, b, inclusive) : Plain(e[1]) /\ e[2] \in BOOLEAN
<1>1. OneEnd(a, inclusive) # {} /\ TwoEnds(a, b, inclusive) # {}
    BY DEF OneEnd, TwoEnds
<1>2. ASSUME NEW e \in OneEnd(a, inclusive) \cup TwoEnds(a, b, inclusive)
      PROVE  Plain(e[1]) /\ e[2] \in BOOLEAN
    <2>1. e = <<a, inclusive>> \/ e = <<a, FALSE>> \/ e = <<b, inclusive>>
        BY <1>2 DEF OneEnd, TwoEnds
    <2>2. CASE e = <<a, inclusive>>
        <3>1. e[1] = a /\ e[2] = inclusive
            BY <2>2
        <3> QED
            BY <3>1
    <2>3. CASE e = <<a, FALSE>>
        <3>1. e[1] = a /\ e[2] = FALSE
            BY <2>3
        <3> QED
            BY <3>1
    <2>4. CASE e = <<b, inclusive>>
        <3>1. e[1] = b /\ e[2] = inclusive
            BY <2>4
        <3> QED
            BY <3>1
    <2> QED
        BY <2>1, <2>2, <2>3, <2>4
<1> QED
    BY <1>1, <1>2

LEMMA SliceVerdict ==
    ASSUME RangeInv, NEW m \in Lists, NEW ends, ends # {},
           \A e \in ends : Plain(e[1]) /\ e[2] \in BOOLEAN, Slice(m, ends)
    PROVE  VerdictInv'
<1> DEFINE length == known[m].length
           Judged(e) == ClassifyBound(Eval(known, e[1]), known[m], e[2])
           Fits(e) == In(Concrete(env, e[1]), <<-env[m], LastIndex(env[m], e[2])>>)
           Shows(e) == Bound(Eval(known, e[1]), known[m], e[2])
           decision == Combine({Judged(e) : e \in ends})
           shown == UNION {Shows(e) : e \in ends}
           fails == \E e \in ends : ~Fits(e)
           evidence == [Evidence("Slice", decision, <<>>, None) EXCEPT !.length = length, !.bounds = shown]
<1>1. ends # {} /\ \A e \in ends : Plain(e[1]) /\ Integer(e[1]) /\ e[2] \in BOOLEAN
    BY DEF Slice
<1>2. Record(evidence, fails) /\ confused' = confused
    BY DEF Slice, Bound
<1>3. evidence.decision = decision /\ evidence.operation = "Slice" /\ evidence.length = length /\ evidence.bounds = shown
    BY DEF Evidence
<1>4. EnvOK(env) /\ Typed(known)
    BY DEF RangeInv, Here
<1>5. /\ decision = "Safe" => \A e \in ends : Judged(e) = "Safe"
      /\ decision = "Invalid" => \E e \in ends : Judged(e) = "Invalid"
    <2>1. \A e \in ends : Judged(e) \in {"Safe", "Unknown", "Invalid"}
        BY DEF ClassifyBound, Fit
    <2> HIDE DEF Judged
    <2> QED
        BY <2>1 DEF Combine
<1> HIDE DEF evidence, decision
<1>6. decision = "Safe" => Replay(evidence) = "Safe"
    <2> SUFFICES ASSUME \A e \in ends : Judged(e) = "Safe" PROVE Replay(evidence) = "Safe"
        BY <1>5
    <2>1. \A e \in ends : Shows(e) # {} /\ \A b \in Shows(e) : Reread(b, length) = "Safe"
        BY <1>1, BoundAudit
    <2> HIDE DEF Shows, length
    <2>2. shown # {} /\ \A b \in shown : Reread(b, length) = "Safe"
        BY <1>1, <2>1
    <2> HIDE DEF shown
    <2>3. {Reread(b, length) : b \in shown} = {"Safe"}
        BY <2>2
    <2>4. Replay(evidence) = Combine({Reread(b, length) : b \in shown})
        BY <1>3, <2>2 DEF Replay, Reread
    <2> QED
        BY <2>3, <2>4 DEF Combine
<1>7. ASSUME ~confused', reached
      PROVE  (decision = "Safe" => ~fails) /\ (decision = "Invalid" => fails)
    <2>1. Sound(known, pairs, env)
        BY <1>2, <1>7 DEF RangeInv, Here
    <2>2. \A e \in ends : (Judged(e) = "Safe" => Fits(e)) /\ (Judged(e) = "Invalid" => ~Fits(e))
        BY <1>1, <1>4, <2>1, BoundDecides
    <2> HIDE DEF Judged, Fits
    <2> QED
        BY <1>5, <2>2
<1> HIDE DEF fails
<1> QED
    BY <1>2, <1>3, <1>6, <1>7, VerdictOf

-----------------------------------------------------------------------------
(* Every decision in every program.                                        *)

LEMMA VerdictInit == Init => VerdictInv
BY DEF Init, NoProof, VerdictInv, SafeUnlessConfused, SafeNeverFails, InvalidNeverSucceeds, SafeIsAuditable

LEMMA VerdictStep == RangeInv /\ VerdictInv /\ [Next]_vars => VerdictInv'
<1> SUFFICES ASSUME RangeInv, VerdictInv, [Next]_vars PROVE VerdictInv'
    OBVIOUS
<1>1. CASE \E n \in Targets : \E op \in Operators, p \in Doubles : Compute(n, op, p[1], p[2])
    BY <1>1, ComputeVerdict
<1>2. CASE \E n \in Targets : \E a \in Singles : Convert(n, a)
    BY <1>2, ConvertVerdict
<1>3. CASE \E p \in Doubles : Divide(p[1], p[2])
    BY <1>3, DivideVerdict
<1>4. CASE \E m \in Lists, a \in Singles : Index(m, a)
    BY <1>4, IndexVerdict
<1>5. CASE \E m \in Lists, inclusive \in BOOLEAN :
                \/ \E a \in Singles : Slice(m, OneEnd(a, inclusive))
                \/ \E p \in Doubles : Slice(m, TwoEnds(p[1], p[2], inclusive))
    <2>1. ASSUME NEW m \in Lists, NEW inclusive \in BOOLEAN, NEW a \in Singles, Slice(m, OneEnd(a, inclusive))
          PROVE  VerdictInv'
        <3>1. Plain(a)
            BY ProgramsAssumption
        <3>2. OneEnd(a, inclusive) # {} /\ \A e \in OneEnd(a, inclusive) : Plain(e[1]) /\ e[2] \in BOOLEAN
            BY <3>1, EndsFacts
        <3> QED
            BY <2>1, <3>2, SliceVerdict
    <2>2. ASSUME NEW m \in Lists, NEW inclusive \in BOOLEAN, NEW p \in Doubles,
                 Slice(m, TwoEnds(p[1], p[2], inclusive))
          PROVE  VerdictInv'
        <3>1. Plain(p[1]) /\ Plain(p[2])
            BY ProgramsAssumption
        <3> DEFINE ends == TwoEnds(p[1], p[2], inclusive)
        <3>2. ends # {} /\ \A e \in ends : Plain(e[1]) /\ e[2] \in BOOLEAN
            BY <3>1, EndsFacts
        <3> QED
            BY <2>2, <3>2, SliceVerdict
    <2> QED
        BY <1>5, <2>1, <2>2
\* The other constructs record nothing and confusion is never undone.
<1>6. CASE \E n \in Targets : \/ \E m \in Names : Copy(n, m)
                              \/ \E length \in Lengths : Build(n, length)
                              \/ \E condition \in Conditions, p \in Doubles : Select(n, condition, p[1], p[2])
    <2>1. proof' = proof /\ confused' = confused
        <3>1. \A n, m : Copy(n, m) => proof' = proof /\ confused' = confused
            BY DEF Copy
        <3>2. \A n, length : Build(n, length) => proof' = proof /\ confused' = confused
            BY DEF Build
        <3>3. \A n, condition, a, b : Select(n, condition, a, b) => proof' = proof /\ confused' = confused
            BY DEF Select
        <3> QED
            BY <1>6, <3>1, <3>2, <3>3
    <2> QED
        BY <2>1, VerdictStays
<1>7. CASE \E n \in Targets : (\E a \in Singles : Negate(n, a)) \/ \E m \in Names : Measure(n, m)
    BY <1>7, VerdictStays DEF Negate, Measure
<1>8. CASE (\E condition \in Conditions : Branch(condition)) \/ Otherwise
    <2>1. \A view, condition, truth : Learn(view, condition, truth) => (confused => confused')
        BY DEF Learn
    <2>2. \A condition : Branch(condition) => proof' = proof /\ (confused => confused')
        BY <2>1 DEF Branch
    <2>3. Otherwise => proof' = proof /\ (confused => confused')
        BY <2>1 DEF Otherwise
    <2> QED
        BY <1>8, <2>2, <2>3, VerdictStays
<1>9. CASE EndIf \/ EndBlock
    BY <1>9, VerdictStays DEF EndIf, EndBlock
<1>10. CASE \/ \E n \in Binders, p \in Doubles, inclusive \in BOOLEAN : For(n, p[1], p[2], inclusive)
            \/ \E n \in Binders : \E x \in Arguments[n] : Binder(n, x)
    BY <1>10, VerdictStays DEF For, Binder, Open
<1>11. CASE UNCHANGED vars
    BY <1>11, VerdictStays DEF vars
<1> QED
    BY <1>1, <1>2, <1>3, <1>4, <1>5, <1>6, <1>7, <1>8, <1>9, <1>10, <1>11 DEF Next

LEMMA VerdictsHold == Spec => []VerdictInv
<1> QED
    BY RangeInit, RangeStep, VerdictInit, VerdictStep, PTL DEF Spec

\* A check that is omitted would not have failed: an operation decided safe,
\* whose proof passes its audit, does not fail in any execution of any program,
\* for every integer width, unless the analyzer was confused before.
THEOREM SafeChecksHold == Spec => []SafeUnlessConfused
<1>1. VerdictInv => SafeUnlessConfused
    BY DEF VerdictInv
<1> QED
    BY <1>1, VerdictsHold, PTL

\* What is refused at compile time as an overflow, a division by zero or an
\* invalid shift, index or slice does fail when the execution comes by it.
THEOREM RefusedFails == Spec => []InvalidNeverSucceeds
<1>1. VerdictInv => InvalidNeverSucceeds
    BY DEF VerdictInv
<1> QED
    BY <1>1, VerdictsHold, PTL

\* The audit that replays the evidence of a safe decision comes to it too,
\* unless an operand has an interval with nothing in it.
THEOREM AuditsAgree == Spec => []SafeIsAuditable
<1>1. VerdictInv => SafeIsAuditable
    BY DEF VerdictInv
<1> QED
    BY <1>1, VerdictsHold, PTL
=============================================================================
