\* Four overlapping requests on one challenge; the system stops when all are over.
SPECIFICATION FairSpec
CONSTANTS
    s1 = s1
    s2 = s2
    s3 = s3
    s4 = s4
    Sessions <- FourSessions
    MaxAttempts = 3
    Unwritten = Unwritten
INVARIANTS
    ResumedOnce
    ClosedInStep
PROPERTIES
    WorkflowFinal
    EveryRequestEnds
CHECK_DEADLOCK FALSE
