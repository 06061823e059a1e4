SPECIFICATION AccessSpec
CONSTANTS
    r1 = r1
    r2 = r2
    t1 = t1
    Runs = {r1, r2}
    Tasks = {t1}
    TaskOf <- MCTaskOf
    Modifying = {r1, r2}
    Leases = {l1, l2}
    Users = {u1}
    Handlers = {h1, h2}
    Renewers = {w1}
    Paths <- MCPaths
    Under <- MCUnder
    Wild = {}
    Terms <- ExclusiveTerms
    Ttls = {2}
    RenewDelay = 1
    MaxTime = 2
    Emails = {a, b}
    AuthRequests = {l1, l2, h1, h2}
    MaxPassword = 3
    MaxAuthCrashes = 1
    People = {a, b, c}
    Editors = {h1, h2, e3}
    Founder = a
SYMMETRY Symmetry
INVARIANTS OneLeasePerRun ExclusiveWriters OldSessionsEnd OwnerKept
PROPERTIES LiveLeaseKept ReleaseIsFinal
CHECK_DEADLOCK FALSE
