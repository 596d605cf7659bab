SPECIFICATION Spec
CONSTANTS
    MaxExec = 4
    MaxAwaits = 1
    MaxFaults = 1
INVARIANTS
    JoinedBeforeFailing
    CancellationDescends
    NoSilentDefect
    SiblingsCancelled
    NoCircularWait
    RaceOwnsItsRunners
PROPERTIES
    CloseAfterJoin
