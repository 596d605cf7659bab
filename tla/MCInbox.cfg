SPECIFICATION LiveSpec
CONSTANTS
    QueueCap = 1
    SourceCap = 2
    MaxMsgs = 7
    MayClose = TRUE
INVARIANTS
    NothingLostOrReordered
    BatchBounded
    FlushIsAnsweredOnce
PROPERTIES
    BatchCapturesWhileOpen
    EveryMessageHandled
    RelayIsJoined
