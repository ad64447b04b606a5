----------------------------- MODULE MCOutreach -----------------------------
EXTENDS Outreach, TLC

CONSTANTS c1

MCProfiles == c1 :> "linkedin"

Listing(onDomain, role, email) ==
    [onDomain |-> onDomain, role |-> role, email |-> email, named |-> TRUE]

\* A surfaced recruiter with an address and a person outside the company.
MCListings == {Listing(TRUE, "recruiter", "valid"), Listing(FALSE, "engineer", "none")}
=============================================================================
