SPECIFICATION JobsSpec
CONSTANTS
    Selected = {r1, r2}
    Deliveries = {g1}
    Sweeps = {p1}
    MaxTries = 2
    MaxClaimed = 2
    MaxJobs = 3
    MaxFaults = 0
INVARIANTS RepositoriesLoaded
CHECK_DEADLOCK FALSE
