-------------------------- MODULE MCMatchPatterns --------------------------
(***************************************************************************)
(* A small instance of MatchPatterns: nullary, payload and two-field       *)
(* variants, a struct, a tuple with a rest, nested scalars and strings,    *)
(* and lines of four int and four uint values.                             *)
(***************************************************************************)
EXTENDS MatchPatterns

Field(name, type) == [name |-> name, type |-> type]
Ctor(name, fields) == [name |-> name, fields |-> fields]
Scalar(kind) == [kind |-> kind, ctors |-> <<>>]

MCTypeOf == [
    Int   |-> Scalar("int"),
    UInt  |-> Scalar("uint"),
    Str   |-> Scalar("text"),
    Bool  |-> [kind |-> "bool", ctors |-> <<Ctor("false", <<>>), Ctor("true", <<>>)>>],
    Color |-> [kind |-> "enum", ctors |-> <<Ctor("Red", <<>>), Ctor("Green", <<>>)>>],
    Opt   |-> [kind |-> "enum",
               ctors |-> <<Ctor("None", <<>>), Ctor("Some", <<Field("value", "Color")>>)>>],
    Tree  |-> [kind |-> "enum",
               ctors |-> <<Ctor("Leaf", <<>>),
                           Ctor("Node", <<Field("left", "Opt"), Field("flag", "Bool")>>)>>],
    Point |-> [kind |-> "struct",
               ctors |-> <<Ctor("single", <<Field("x", "Opt"), Field("y", "Bool")>>)>>],
    Trio  |-> [kind |-> "tuple",
               ctors |-> <<Ctor("single", <<Field("0", "Bool"), Field("1", "Color"),
                                            Field("2", "Bool")>>)>>],
    Boxed |-> [kind |-> "enum",
               ctors |-> <<Ctor("Nil", <<>>), Ctor("Box", <<Field("n", "Int")>>)>>],
    Label |-> [kind |-> "tuple",
               ctors |-> <<Ctor("single", <<Field("0", "Str"), Field("1", "Bool")>>)>>]]

MCLowest == [int |-> -2, uint |-> 0]
MCHighest == [int |-> 1, uint |-> 3]

At(name, inner) == [k |-> "bind", name |-> name, inner |-> inner]
Or(a, b) == [k |-> "or", a |-> a, b |-> b]
True == [k |-> "bool", b |-> "true"]
False == [k |-> "bool", b |-> "false"]
Lit(n) == [k |-> "lit", n |-> n]
Text(s) == [k |-> "text", s |-> s]
Range2(form, lo, hi) == [k |-> "range", form |-> form, lo |-> lo, hi |-> hi]
TuplePat(items) == [k |-> "tuple", front |-> items, back |-> <<>>]
WithRest(front, back) == [k |-> "tuple", front |-> front, back |-> back]
On(path, fields) == [k |-> "struct", path |-> path, fields |-> fields]
Pos(p) == [f |-> "positional", name |-> "", p |-> p]
Named(name) == [f |-> "named", name |-> name, p |-> Wild]
Value(name, p) == [f |-> "value", name |-> name, p |-> p]
Rest == [f |-> "rest", name |-> "", p |-> Wild]

Lines(lo, hi) ==
    {At("n", Or(Lit(lo), Wild)), Lit(hi), Or(Lit(lo + 1), Lit(hi)),
     Range2("from", lo + 1, hi), Range2("to", lo, hi), Range2("to", lo, lo),
     Range2("toInclusive", lo, lo + 1), Range2("exclusive", lo + 1, hi),
     Range2("inclusive", hi, lo)}

MCPatternsOf == [
    Int   |-> Lines(-2, 1),
    UInt  |-> Lines(0, 3),
    Str   |-> {Wild, Bare("s"), At("s", Text("a")), Text("a"), Or(Text("a"), Wild)},
    Bool  |-> {Wild, True, False, Or(True, False), At("b", True)},
    Color |-> {Bare("Red"), Bare("Green"), Bare("c"), Or(Bare("Red"), Bare("Green"))},
    Opt   |-> {Bare("None"), Bare("Some"), On("Some", <<Named("c")>>),
               On("Some", <<Named("value")>>), On("Some", <<Named("Red")>>),
               On("Some", <<Value("value", Bare("Red"))>>),
               On("Some", <<Pos(Or(Bare("Green"), Bare("Red")))>>),
               Or(Bare("None"), On("Some", <<Value("value", Bare("Green"))>>)),
               At("o", On("Some", <<Pos(Bare("Green"))>>))},
    Tree  |-> {Bare("t"),
               On("Node", <<Value("left", Bare("None")), Named("flag")>>),
               On("Node", <<Value("flag", True)>>),
               On("Node", <<Value("flag", False), Value("left", On("Some", <<Named("value")>>))>>),
               On("Node", <<Value("left", On("Some", <<Value("value", Bare("Red"))>>)), Rest>>),
               Or(Bare("Leaf"), On("Node", <<Value("flag", False)>>))},
    Point |-> {Wild,
               On("single", <<Value("x", Bare("None")), Rest>>),
               On("single", <<Value("y", True), Rest>>),
               On("single", <<Value("y", False), Value("x", On("Some", <<Pos(Bare("Red"))>>))>>),
               On("single", <<Value("x", On("Some", <<Pos(Wild)>>)), Value("y", False)>>)},
    Trio  |-> {TuplePat(<<True, Wild, Wild>>), TuplePat(<<False, Bare("Red"), Bare("b")>>),
               WithRest(<<>>, <<True>>), WithRest(<<False>>, <<False>>),
               WithRest(<<>>, <<Bare("Green"), True>>),
               Or(TuplePat(<<True, Wild, False>>), WithRest(<<False, Bare("Green")>>, <<>>))},
    Boxed |-> {Bare("Nil"), On("Box", <<Pos(Lit(0))>>), On("Box", <<Pos(Lit(1))>>),
               On("Box", <<Named("m")>>),
               On("Box", <<Pos(Range2("from", 0, 1))>>), On("Box", <<Pos(Range2("to", -2, 0))>>)},
    Label |-> {Wild, TuplePat(<<Text("a"), True>>), TuplePat(<<Text("b"), Wild>>),
               TuplePat(<<Wild, False>>), TuplePat(<<Bare("s"), True>>)}]

MCScrutinees == DOMAIN MCPatternsOf
=============================================================================
