CONSTANTS
    Clis = {c1}
    Batch = 2
    MaxLines = 4
    Outcomes = {"completed"}
    MaxLost = 1
SPECIFICATION FairSpec

PROPERTY SyncConverges
CHECK_DEADLOCK FALSE
