SPECIFICATION FairSpec
CONSTANTS
    d1 = d1
    d2 = d2
    w1 = w1
    w2 = w2
    Docs <- TwoDocs
    Versions <- MixedVersions
    Absent = Absent
    Refreshers = {1}
    Workers = {w1}
    WorkerId <- OneId
    Nobody = Nobody
    MaxAttempts = 2
    Batch = 3
    MaxIds = 1
PROPERTY JobsEnd
