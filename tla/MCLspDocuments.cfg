SPECIFICATION Spec
CONSTANTS
    Ids = {r1}
    NumDocs = 3
    Key <- ProjectAndLoose
    ProjectKeys = {project}
    Importers <- FirstImportsSecond
    Workers = {w1, w2}
    Route <- PerKey
    QueueCap = 1
    PendingCap = 1
    MaxMsgs = 4
    Sends = {"request", "edit", "close"}
    MayFail = FALSE
    StrictClient = TRUE
    r1 = r1
    r2 = r2
    w1 = w1
    w2 = w2
    project = project
    loose = loose
PROPERTIES
    ResultIsCurrent
    PublishedIsCurrent
    DiagnosticsOnlyLostForCause
