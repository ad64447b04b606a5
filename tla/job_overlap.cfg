\* Discovery runs and envelopes about three postings: three calls, two at a time.
CONSTANTS
    pA = pA
    pB = pB
    pC = pC
    rV = rV
    rP = rP
    rQ = rQ
    None = None
    Post <- MCPost
    Record <- MCRecord
    Workers = {1, 2, 3}
    Feed <- MCFeed
    SourceOrders <- MCOrders
    Envelopes <- MCEnvelopes
    MaxTime = 1
    MaxRunning = 2
SPECIFICATION FairJobSpec
INVARIANTS ReportsAreTrue FoundIsStored TwinsOverlapped
PROPERTIES EveryCallEnds
CHECK_DEADLOCK FALSE
