SPECIFICATION Spec
CONSTANTS
    Ids = {r1, r2}
    NumDocs = 1
    Key <- OneProject
    ProjectKeys = {project}
    Importers <- Independent
    Workers = {w1}
    Route <- OneWorker
    QueueCap = 1
    PendingCap = 1
    MaxMsgs = 4
    Sends = {"request", "barrier", "edit", "malformed", "cancel", "shutdown", "close", "watch", "configure"}
    MayFail = TRUE
    StrictClient = TRUE
    r1 = r1
    r2 = r2
    w1 = w1
    w2 = w2
    project = project
    loose = loose
INVARIANTS
    NeverAnsweredTwice
    EveryDebtIsTracked
    NoWorkerBlocks
PROPERTIES
    BarrierWaitsForEarlier
    NothingAfterShutdown
    ResultsAfterBatch
SYMMETRY Symmetry
