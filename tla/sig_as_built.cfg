\* Two people, one job, two reviews.
CONSTANTS
    c1 = c1
    c2 = c2
    NoRow = NoRow
    Contacts = {c1, c2}
    ProfileOf <- MCProfiles
    Listings <- MCListings
    Jobs = {j1}
    Reviews = {a1, a2}
    MovedTypes = {"outreach_candidate"}
SPECIFICATION SigSpec
INVARIANTS GeneratedPassesQuality PreparedWasReviewed
PROPERTIES SettledIsFinal
CHECK_DEADLOCK FALSE
