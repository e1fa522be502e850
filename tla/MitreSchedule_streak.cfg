SPECIFICATION Spec
CONSTANTS
    Workers = {w1}
    NotifyAt = 2
    HealthWindow = 20
    UserRows = {}
    MaxSlot = 4
    MaxRuns = 4
    QueueBound = 2
INVARIANT
    LongStreakIsNoticed
