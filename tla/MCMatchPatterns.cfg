SPECIFICATION Spec
CONSTANTS
    TypeOf <- MCTypeOf
    Scrutinees <- MCScrutinees
    PatternsOf <- MCPatternsOf
    Lowest <- MCLowest
    Highest <- MCHighest
    Texts = {"a", "b", "c"}
    MaxArms = 3
INVARIANTS
    RunsAMatchingArm
    RefusalNamesMissing
    UnreachableIsDead
CHECK_DEADLOCK FALSE
