\* Four overlapping requests of any kinds; at most three approvals of the target.
CONSTANTS
    Sessions = {s1, s2, s3, s4}
    Approvals = {a1, a2, a3}
    Kinds = {"request", "approved", "rejected", "cancelled", "snoozed"}
SPECIFICATION Spec
INVARIANTS DecisionsLogged SecondsOverlapped
SYMMETRY Symmetries
CHECK_DEADLOCK FALSE
