\* One contact, two messages (an opening and a follow-up), three runs, one message a
\* day, two attempts.
CONSTANTS
    c1 = c1
    NoRow = NoRow
    Contacts = {c1}
    ProfileOf <- MCProfiles
    Listings <- MCListings
    Messages = {m1, m2}
    Runs = {r1, r2, r3}
    Channels = {"email"}
    MaxEdits = 2
    DailyLimit = 1
    MaxSendAttempts = 2
    ApprovalRequired = TRUE
SPECIFICATION OutSpec
INVARIANTS RunsAgree
PROPERTIES DeliveryHonoured SuppressionIsFinal
CHECK_DEADLOCK FALSE
