SPECIFICATION Spec
CONSTANTS
    TypeOf <- MCTypeOf
    Scrutinees <- MCScrutinees
    PatternsOf <- MCPatternsOf
    Lowest <- MCLowest
    Highest <- MCHighest
    Texts = {"a", "b", "c"}
    MaxArms = 3
INVARIANT
    NestedVariantsAreRead
CHECK_DEADLOCK FALSE
