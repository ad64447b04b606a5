\* Two jobs, two applications, two profiles; one answer edited, one document renewed,
\* one piece of advice followed.
CONSTANTS
    k8s = k8s
    docker = docker
    java = java
    rust = rust
    go = go
    j1 = j1
    j2 = j2
    NoRow = NoRow
    Absent = Absent
    Skills <- MCSkills
    Words = {"engineer", "lead"}
    Industries = {"saas"}
    Related <- MCRelated
    Weights <- MCWeights
    Threshold = 700
    Jobs <- MCJobs
    Profiles <- MCProfiles
    a1 = a1
    a2 = a2
    Apps <- TwoApps
    Statuses = {"withdrawn"}
    Answerable = {"compensation"}
    Renewable = {"cover_letter"}
    MaxVersions = 2
    NotifyFrom = 9
    Watched <- MCWatched
    Aliased = {}
    GapLimit = 1
    MinSkills = 3
    Answered = {"no_responses"}
SYMMETRY Symmetry
SPECIFICATION AdvSpec
INVARIANTS PreparedWhole WriterGrounded BetterNeverHurts
PROPERTIES AdviceIsGivenOnce
CHECK_DEADLOCK FALSE
