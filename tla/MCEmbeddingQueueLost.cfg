SPECIFICATION FairSpec
CONSTANTS
    d1 = d1
    d2 = d2
    w1 = w1
    w2 = w2
    Docs <- OneDoc
    Versions <- TwoVersions
    Absent = Absent
    Refreshers = {1}
    Workers = {w1}
    WorkerId <- OneId
    Nobody = Nobody
    MaxAttempts = 2
    Batch = 2
    MaxIds = 1
INVARIANT EveryDocumentQueued
