--------------------------- MODULE MCRangeAnalysis ---------------------------
EXTENDS RangeAnalysis

MCTypeOf == [n \in Names |-> CASE n \in {"i", "j"} -> "int" [] n = "u" -> "uint"
                               [] n = "r" -> "record" [] OTHER -> "list"]
MCArguments == [n \in Names |-> CASE n = "i" -> {IntMin, -1, 0, 1, IntMax} [] n = "xs" -> 0 .. HostIndexMax
                                  [] n = "r" -> {-1} [] n = "u" -> {0} [] OTHER -> {1}]

MCSingles == {Name("i"), Name("j"), Name("u")}
MCDoubles == {<<Name("i"), Literal(1)>>, <<Name("j"), Name("i")>>, <<Literal(3), Literal(5)>>}

Comparison(left, op, right) == [left |-> left, op |-> op, right |-> right]

\* A variable against a literal, and within one end and within both ends of a list.
MCConditions ==
    {<<Comparison(Name("i"), op, Literal(0))>> : op \in {"<", "!="}}
        \cup {<<Comparison(Name("i"), ">=", Literal(0)), Comparison(Name("i"), "<", Length("xs"))>>,
              <<Comparison(Name("i"), ">=", [Length("xs") EXCEPT !.sign = -1]),
                Comparison(Name("i"), "<=", Literal(-1))>>}

\* Two lets, a branch and a use; both branches, and what follows; a loop or a
\* closure in a branch and after a let; a let in it and a use after it.
MCShapes ==
    {<<"let", "let", "if", "use">>, <<"if", "use", "else", "use", "end", "use">>,
     <<"if", "open", "use", "end", "use">>, <<"let", "open", "let", "end", "use">>}
=============================================================================
