\* Three overlapping requests for one application; the system stops when all are over.
SPECIFICATION FairSpec
CONSTANTS
    s1 = s1
    s2 = s2
    s3 = s3
    Sessions <- ThreeSessions
    MaxRuns = 4
    MaxRunAttempts = 2
    NoRow = NoRow
INVARIANTS
    NeverConcurrent
    NoLostAttempt
    AcceptedIsKept
PROPERTY
    EveryRequestEnds
CHECK_DEADLOCK FALSE
