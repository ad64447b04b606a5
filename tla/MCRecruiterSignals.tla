------------------------- MODULE MCRecruiterSignals -------------------------
EXTENDS RecruiterSignals, TLC

CONSTANTS c1, c2

\* A LinkedIn profile and another page.
MCProfiles == c1 :> "linkedin" @@ c2 :> "page"

Listing(onDomain, role, email, named) ==
    [onDomain |-> onDomain, role |-> role, email |-> email, named |-> named]

\* A surfaced recruiter, one whom only discovery recognises, a nameless one, and one
\* outside the company.
MCListings == {Listing(TRUE, "recruiter", "valid", TRUE), Listing(TRUE, "people", "malformed", TRUE),
               Listing(TRUE, "recruiter", "none", FALSE), Listing(FALSE, "engineer", "none", TRUE)}
=============================================================================
