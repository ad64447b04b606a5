\* Three overlapping requests of every kind, three versions, one skill.
CONSTANTS
    s1 = s1
    s2 = s2
    s3 = s3
    v1 = v1
    v2 = v2
    v3 = v3
    Sessions <- ThreeSessions
    Versions <- ThreeVersions
    Skills = {"go"}
    Kinds = {"upload", "delete", "restore", "parse", "apply"}
SYMMETRY Symmetry
SPECIFICATION Spec
INVARIANTS FilesFollowRows RepeatsOverlapped
CHECK_DEADLOCK FALSE
