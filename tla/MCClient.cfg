SPECIFICATION Spec
CONSTANTS
    g1 = g1
    g2 = g2
    g3 = g3
    o1 = o1
    o2 = o2
    Grants = {g1, g2, g3}
    Calls = {1, 2, 3}
    Connections = 2
    MaxCrashes = 1
    Origins = {o1, o2}
    OriginOf <- MCOriginOf
INVARIANTS StoredTokenLive OneLiveRefresh ReplayEndsFamily RevocationExplained RevokedGrantUnused
PROPERTIES CallsAnswered
CHECK_DEADLOCK FALSE
