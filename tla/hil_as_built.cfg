\* Two providers share the tables, every auth state is reported, one token is known.
SPECIFICATION Spec
CONSTANTS
    p1 = p1
    p2 = p2
    c1 = c1
    c2 = c2
    NoRow = NoRow
    Providers <- TwoProviders
    Ids <- TwoIds
    MaxAttempts = 2
    Reported <- AuthStates
    HandOffTypes <- CaptchaOnly
    TokenHolders <- SecondId
SYMMETRY Symmetry
INVARIANTS
    UniqueInFlight
    InStep
    ChallengeAccounted
    PausedWhileInFlight
PROPERTY
    ClosedIsFinal
