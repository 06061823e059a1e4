SPECIFICATION FairSpec
CONSTANTS
    t1 = t1
    t2 = t2
    t3 = t3
    k1 = k1
    k2 = k2
    b1 = b1
    NoTask = NoTask
    Backfill = Backfill
    Tasks <- MCTasks
    Keys <- MCKeys
    ServerKeys <- MCServerKeys
    Contents = {"open", "review"}
    Reviewable = {"review"}
    Commands <- MCCommands
    Legacy <- MCLegacy
    LegacyKey <- MCLegacyKey
    LegacyContent = "open"
    Requests = {1, 2}
    Pool = 2
PROPERTY CommandsAnswered
CHECK_DEADLOCK FALSE
