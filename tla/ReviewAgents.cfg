SPECIFICATION FairSpec
CONSTANTS
    a1 = a1
    a2 = a2
    Conflict = conflict
    Agents <- TwoAgents
    Issues = {i1}
    Models = 2
    PoolSize = 2
INVARIANTS
    TypeOK
    OnlyTimelyAnswers
    ThreadsServeTheWaiting
PROPERTIES
    ReviewEnds
CHECK_DEADLOCK FALSE
