\* Two applications to one site share its challenges, which may be reported as settled.
SPECIFICATION AutoSpec
CONSTANTS
    p1 = p1
    c1 = c1
    c2 = c2
    a1 = a1
    a2 = a2
    r1 = r1
    r2 = r2
    NoRow = NoRow
    Providers <- OneProvider
    Ids <- TwoIds
    MaxAttempts = 1
    Reported <- Settled
    HandOffTypes <- Captcha
    TokenHolders <- NoIds
    Apps <- TwoApps
    Runs <- TwoRuns
    SiteOf <- OneSite
    MaxRunAttempts = 2
    StatusUpdates <- WithdrawOnly
    Decisions <- ApproveOrReject
SYMMETRY Symmetry
INVARIANTS
    OneLiveRun
    PausedRunHasChallenge
PROPERTIES
    NoBypass
    ApprovedAttempts
    ChallengesAsBefore
