\* Retry does not look at the application's status.
SPECIFICATION AutoSpec
CONSTANTS
    p1 = p1
    c1 = c1
    c2 = c2
    a1 = a1
    a2 = a2
    r1 = r1
    r2 = r2
    NoRow = NoRow
    Providers <- OneProvider
    Ids <- OneId
    MaxAttempts = 1
    Reported <- NoReports
    HandOffTypes <- Captcha
    TokenHolders <- NoIds
    Apps <- OneApp
    Runs <- TwoRuns
    SiteOf <- OneSite
    MaxRunAttempts = 2
    StatusUpdates <- WithdrawOnly
    Decisions <- DecisionTypes
SYMMETRY Symmetry
PROPERTY
    WithdrawnNotSubmitted
