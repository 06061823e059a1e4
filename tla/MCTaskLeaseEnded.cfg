CONSTANTS
    r1 = r1
    r2 = r2
    t1 = t1
    Runs = {r1, r2}
    Tasks = {t1}
    TaskOf <- MCTaskOf
    Modifying = {r1}
    Leases = {l1, l2}
    Users = {u1, u2}
    Handlers = {h1, h2}
    Renewers = {w1}
    Paths <- MCPaths
    Under <- MCUnder
    Wild = {}
    Terms <- MixedTerms
    Ttls = {2}
    RenewDelay = 1
    MaxTime = 2
SPECIFICATION Spec
INVARIANT HolderIsRunning
CHECK_DEADLOCK FALSE
