SPECIFICATION LiveSpec
CONSTANTS
    MaxExec = 3
    MaxAwaits = 2
    MaxFaults = 2
PROPERTIES
    RootSettles
    HandlesSettle
    ImplementsTaskTree
