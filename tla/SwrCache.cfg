SPECIFICATION FairSpec
CONSTANTS
    Callers = {c1, c2}
    Tasks = {t1}
    FreshTtl = 1
    HardTtl = 2
    LockTtl = 3
    PollInterval = 2
    MaxRun = 3
    None = None
INVARIANTS
    TypeOK
    SingleFlightUnlessOverrun
    LastResortIsLate
    ServedDataIsRecent
PROPERTY
    CallsReturn
