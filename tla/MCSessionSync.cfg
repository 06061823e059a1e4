CONSTANTS
    Clis = {c1, c2}
    Batch = 1
    MaxLines = 4
    Outcomes = {"completed"}
    MaxLost = 1
SPECIFICATION FairSpec
INVARIANTS ArchiveIsPrefix CursorCovered CompleteIsWhole
PROPERTIES OutcomesStay ConvergesUndisturbed
CHECK_DEADLOCK FALSE
