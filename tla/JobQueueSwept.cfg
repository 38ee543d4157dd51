SPECIFICATION Spec
CONSTANTS
    j1 = j1  j2 = j2  w1 = w1  w2 = w2  p1 = p1  p2 = p2
    q1 = q1  q2 = q2  k1 = k1
    None = None
    Jobs = {j1}
    Workers = {w1, w2}
    Producers = {p1}
    Queues = {q1}
    Keys = {}
    Options <- MCPlainOptions
    WorkerQueue <- MCWorkerQueue
    StaleAfter <- MCShortLease
    MaxBackoff = 2
    DefaultAttempts = 2
    I32Max = 2
    MaxAge = 1
    RunFloor = 0
    MaxLate = 1
    Skew = 0
INVARIANTS
    SweptJobsAreClaimable
