-------------------------- MODULE RecruiterContacts --------------------------
(***************************************************************************)
(* Recruiter contacts: a discovery pass over a public directory scores     *)
(* each person's affiliation and stores it as a contact that is surfaced   *)
(* or suppressed.  A contact is known by its public profile URL and is     *)
(* stored once; suppression is also how a person opts out of outreach.     *)
(***************************************************************************)
EXTENDS Integers, FiniteSets

CONSTANTS
    Contacts,    \* the profile URLs the directory may list
    ProfileOf,   \* contact -> what kind of URL it is, "none" for the empty one
    Listings,    \* what the directory may say of a person
    NoRow        \* the absent row

\* Titles by who recognises them: "recruiter" discovery and generation, "people"
\* discovery only, "recruiting" generation only.
Roles == {"recruiter", "people", "recruiting", "engineer", "blank"}
Emails == {"none", "valid", "malformed"}
Evidence == [onDomain : BOOLEAN, role : Roles, email : Emails, named : BOOLEAN]
ContactRow == [verified : BOOLEAN, confident : BOOLEAN, suppressed : BOOLEAN,
               role : Roles, email : Emails, named : BOOLEAN]

ASSUME ContactConstantsOK ==
    /\ ProfileOf \in [Contacts -> {"none", "linkedin", "page"}]
    /\ \A c, d \in Contacts : ProfileOf[c] = "none" /\ ProfileOf[d] = "none" => c = d
    /\ Listings \subseteq Evidence
    /\ NoRow \notin Evidence \cup ContactRow

VARIABLES contact    \* contact -> recruiter_contacts row

-----------------------------------------------------------------------------
(* The affiliation score.                                                   *)

IsRecruitingRole(role) == role \in {"recruiter", "people"}
Points(condition, n) == IF condition THEN n ELSE 0
MinSurfaceConfidence == 70

Score(c, e) ==
    LET profile == ProfileOf[c] # "none"
    IN  Points(e.onDomain, 45) + Points(IsRecruitingRole(e.role), 20) + Points(profile, 20)
          + Points(e.role # "blank" /\ e.onDomain /\ profile, 10)
          + Points(e.email # "none", 5)

Verified(e) == e.onDomain /\ IsRecruitingRole(e.role)
Surfaced(c, e) == Verified(e) /\ Score(c, e) >= MinSurfaceConfidence

Persisted(c, e) ==
    [verified |-> Verified(e), confident |-> Score(c, e) >= MinSurfaceConfidence,
     suppressed |-> ~Surfaced(c, e), role |-> e.role, email |-> e.email, named |-> e.named]

-----------------------------------------------------------------------------
Known(c) == contact[c] # NoRow

\* _require_usable_contact, the same in the outreach engine and in the preparation.
Usable(c) ==
    /\ Known(c)
    /\ ~contact[c].suppressed /\ contact[c].verified /\ contact[c].confident

ContactInit == contact = [c \in Contacts |-> NoRow]

\* Mutated form of Discovered: a contact found again is stored as it is found.
DiscoveredAfresh(listed) ==
    [c \in Contacts |-> IF listed[c] # NoRow THEN Persisted(c, listed[c]) ELSE contact[c]]

\* A pass stores the people it does not know and skips the others.
Discovered(listed) ==
    [c \in Contacts |-> IF ~Known(c) /\ listed[c] # NoRow THEN Persisted(c, listed[c])
                        ELSE contact[c]]

\* discover_for_job; a pass that meets a unique violation is rolled back whole.
DiscoverForJob ==
    \E listed \in [Contacts -> Listings \cup {NoRow}] : contact' = Discovered(listed)

\* The outreach engine's mark_suppressed.
Suppress(c) == contact' = [contact EXCEPT ![c].suppressed = TRUE]

ContactTypeOK == contact \in [Contacts -> ContactRow \cup {NoRow}]

\* An opt-out is final: no later discovery pass or request makes the contact usable.
SuppressionIsFinal ==
    [][\A c \in Contacts : Known(c) /\ contact[c].suppressed
        => contact'[c] # NoRow /\ contact'[c].suppressed]_contact

\* "Every surfaced contact links to its public evidence via public_profile_url".
SurfacedHasProfile ==
    \A c \in Contacts : Known(c) /\ ~contact[c].suppressed => ProfileOf[c] # "none"
=============================================================================
