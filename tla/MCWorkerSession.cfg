SPECIFICATION Spec
CONSTANTS
    f = f
    g = g
    f1 = f1
    f2 = f2
    f3 = f3
    g1 = g1
    Uris = {f1, f2, g1}
    Files <- MCFiles
    FileOf <- MCFileOf
    Canonical <- MCCanonical
    Rank <- MCRank
    Versions = {1}
    MaxRevision = 4
    MaxDisk = 1
    MaxRequests = 1
    MaxJobs = 2
INVARIANTS
    AnswersFromSnapshot
    SessionMatchesRebuild
    LastUpdateSpeaks
CONSTRAINT Focus
CHECK_DEADLOCK FALSE
