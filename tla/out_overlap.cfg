\* Three overlapping requests of every kind about one message.
CONSTANTS
    Sessions = {s1, s2, s3}
    Messages = {m1}
    Kinds = {"send", "retry", "edit", "cancel", "submit"}
    MaxRuns = 4
    DailyLimit = 1
SPECIFICATION FairSpec
INVARIANTS OneSenderPerMessage LastVersionIsText AcceptedIsDated
PROPERTIES EveryRequestEnds
CHECK_DEADLOCK FALSE
