SPECIFICATION Spec
CONSTANTS
    Three = {x1, x2, x3}
    Two = {y1, y2}
    Nobody = Nobody
    Blockable = {x1, x2, x3}
    Adders = {y1, y2}
    MaxDepth = 2
    Relatives = {x1, x2, x3}
    Movers = {y1, y2}
    MaxAncestors = 3
    NoParent = Nobody
    Projects = {y1, y2}
    Keys = {x1, x2, x3}
    Tasks = {y1, y2}
    Namers = {y1, y2}
    MaxNumber = 2
    Unkeyed = Nobody
    Items = {y1, y2}
    States = {x1, x2, x3}
    Changers = {x1, x2, x3}
    Decisions <- Answers
    QuestionOf <- Questions
    Claims = {x1, x2, x3}
    Rulers = {y1, y2}
    Unset = Nobody
    Machines = {y1, y2}
    Commits = {1, 2}
    Follows <- InARow
    Patches = {x1, x2, x3}
    Clean = Nobody
    MaxRuns = 2
    MaxEdits = 1
    Contents = {y1, y2}
    UploadKeys = {y1, y2}
    Uploaders = {y1, y2}
    Unknown = Nobody
    MaxLosses = 1
    Dates = {y1, y2}
    Askers = {y1, y2}
    Nothing = Nobody
    MaxVersion = 4
SYMMETRY Symmetry
INVARIANTS NoShortCycle CyclesRaced IdentifierResolves  OneAnswer SuccessorStands EvidenceReadable AnswersMatch
PROPERTIES ContinuesFromSlice ServedInTurn
CHECK_DEADLOCK FALSE
