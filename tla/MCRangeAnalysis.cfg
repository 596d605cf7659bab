SPECIFICATION Spec
CONSTANTS
    Names = {"i", "j", "u", "r", "xs"}
    TypeOf <- MCTypeOf
    IntMax = 3
    HostIndexMax = 2
    Width = 3
    ExponentMax = 5
    Arguments <- MCArguments
    Targets = {"i", "j", "u", "xs"}
    Binders = {"i", "u"}
    Singles <- MCSingles
    Doubles <- MCDoubles
    Lengths = {2}
    Operators = {"+", "-", "*", "%", "^", "<<", ">>"}
    Conditions <- MCConditions
    Shapes <- MCShapes
INVARIANTS
    SafeUnlessConfused
    InvalidNeverSucceeds
    BeliefsAreTrue
CHECK_DEADLOCK FALSE
