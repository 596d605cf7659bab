SPECIFICATION LiveSpec
CONSTANTS
    Ids = {r1, r2}
    NumDocs = 1
    Key <- OneProject
    ProjectKeys = {project}
    Importers <- Independent
    Workers = {w1}
    Route <- OneWorker
    QueueCap = 1
    PendingCap = 1
    MaxMsgs = 3
    Sends = {"request", "barrier", "edit"}
    MayFail = FALSE
    StrictClient = TRUE
    r1 = r1
    r2 = r2
    w1 = w1
    w2 = w2
    project = project
    loose = loose
PROPERTIES
    EveryRequestAnswered
    ExitCompletes
