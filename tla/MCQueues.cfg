SPECIFICATION QueuesSpec
CONSTANTS
    d1 = d1
    d2 = d2
    w1 = w1
    w2 = w2
    Docs <- OneDoc
    Versions <- TwoVersions
    Absent = Absent
    Refreshers = {1}
    Workers = {w1, w2}
    WorkerId <- OwnIds
    Nobody = Nobody
    MaxAttempts = 2
    Batch = 1
    MaxIds = 2
    Sweeps = {p1, p2}
    Selected = {r1}
    Deliveries = {g1}
    MaxTries = 2
    MaxClaimed = 2
    Sources = {t1, t2}
    Requests = {p1, p2}
    MaxJobs = 3
    MaxFaults = 2
    MaxBatch = 2
    MaxChanges = 3
SYMMETRY Symmetry
INVARIANTS VectorMatchesHash DeadIsExhausted OneReconcile EditsKept RolledBackGone
PROPERTIES SettledStays
CHECK_DEADLOCK FALSE
