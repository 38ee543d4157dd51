SPECIFICATION Spec
CONSTANTS
    j1 = j1  j2 = j2  w1 = w1  w2 = w2  p1 = p1 p2 = p2
    q1 = q1  q2 = q2  k1 = k1
    None = None
    Jobs = {j1, j2}
    Workers = {w1, w2}
    Producers = {p1, p2}
    Queues = {q1, q2}
    Keys = {k1}
    Options <- MCOptions
    WorkerQueue <- MCWorkerQueue
    StaleAfter <- MCStaleAfter
    MaxBackoff = 1
    DefaultAttempts = 2
    I32Max = 2
    MaxAge = 3
    RunFloor = 1
    MaxLate = 1
    Skew = 1
SYMMETRY MCSymmetry
INVARIANTS
    TypeOK
    AttemptsHandedOutOnce
    LockNamesLatestClaim
    SingleHandlerUnlessSwept
    SweptOnlyWhenStale
    EnqueueIsIdempotent
PROPERTIES
    SettledStaysSettled
    ImplementsTickets
