SPECIFICATION Spec
CONSTANTS
    Workers = {w1, w2}
    NotifyAt = 2
    HealthWindow = 20
    UserRows = {1}
    MaxSlot = 2
    MaxRuns = 2
    QueueBound = 2
INVARIANTS
    TypeOK
    SlotPulledOnce
PROPERTY
    SweepsKeepThePromise
SYMMETRY Symmetry
