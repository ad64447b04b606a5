-------------------------- MODULE RecruiterSignals --------------------------
(***************************************************************************)
(* Recruiter signals: a generation pass turns surfaced contacts into       *)
(* signals about a job, a human reviews the outreach candidates, and an    *)
(* approved one may be prepared as a draft.  The review is an approval of  *)
(* its own, which the approvals API can also decide without the signal.    *)
(***************************************************************************)
EXTENDS RecruiterContacts

CONSTANTS
    Jobs,          \* the candidate's jobs
    Reviews,       \* identities of review approvals (bounds the table)
    MovedTypes     \* signal types whose status requests a run explores (bound)

SignalTypes == {"associated", "role_relevant", "contact_available", "outreach_candidate"}
SignalStatus == {"discovered", "evidence_pending", "ready_for_review",
                 "approved", "rejected", "expired"}
ReviewStatus == {"pending", "snoozed", "approved", "rejected", "cancelled"}
OpenReview == {"pending", "snoozed"}
Settled == {"approved", "rejected", "expired"}

\* Whom a signal names: a contact, or nobody in particular.
Nobody == "nobody"
SignalIds == [job : Jobs, type : SignalTypes, recruiter : Contacts \cup {Nobody}]

SignalRow == [status : SignalStatus, evidence : Contacts,
              methods : SUBSET {"email", "linkedin"}, email : Emails]
ReviewRow == [signal : SignalIds, status : ReviewStatus]

ASSUME SignalConstantsOK ==
    /\ IsFiniteSet(Reviews) /\ NoRow \notin Reviews /\ Nobody \notin Contacts
    /\ MovedTypes \subseteq SignalTypes
    /\ NoRow \notin SignalRow \cup ReviewRow

VARIABLES
    signal,     \* signal identity -> row, NoRow when there is none
    review,     \* review -> approvals row of a signal, NoRow when there is none
    prepared    \* what was prepared so far: signal, contact (history)

signals == <<contact, signal, review, prepared>>

-----------------------------------------------------------------------------
(* Evidence and the rules of one generation pass.                           *)

\* _extract_evidence; discovery always stores a source with a URL, so the strength
\* is SUPPORTED.
NamesRecruiter(c) == contact[c].role \in {"recruiter", "recruiting"}
ContactMethods(c) ==
    {method \in {"email", "linkedin"} :
        IF method = "email" THEN contact[c].email = "valid" ELSE ProfileOf[c] = "linkedin"}
IdentitySupported(c) ==
    /\ contact[c].verified /\ contact[c].named
    /\ ProfileOf[c] # "none" /\ contact[c].role # "blank"

\* list_for_candidate(surfaced_only=True).
SurfacedContacts == {c \in Contacts : Known(c) /\ Usable(c)}

\* Mutated form of Supports: a role without an identity names its contact.
SupportsNamingAnyone(c, type, who) ==
    IF IdentitySupported(c)
    THEN who = c /\ type # "role_relevant"
                 /\ (type = "contact_available" => ContactMethods(c) # {})
    ELSE who = c /\ type = "role_relevant" /\ NamesRecruiter(c)

\* _apply_rules: does the contact support a signal of this type, naming this person?
Supports(c, type, who) ==
    IF IdentitySupported(c)
    THEN who = c /\ type # "role_relevant"
                 /\ (type = "contact_available" => ContactMethods(c) # {})
    ELSE who = Nobody /\ type = "role_relevant" /\ NamesRecruiter(c)

NewSignal(c) ==
    [status |-> "discovered", evidence |-> c, methods |-> ContactMethods(c),
     email |-> contact[c].email]

\* The contacts that support a signal; they are visited in the order of their URLs,
\* and the first one's evidence is stored.
Supporters(s) == {c \in SurfacedContacts : Supports(c, s.type, s.recruiter)}

\* create_signal: an identity that exists is left as it is.
Created(s, row) == IF signal[s] = NoRow THEN row ELSE signal[s]

\* _generate, for every eligible job.
Generate(eligible, first) ==
    /\ signal' = [s \in SignalIds |->
                    IF s.job \in eligible /\ Supporters(s) # {}
                    THEN Created(s, NewSignal(first[Supporters(s)])) ELSE signal[s]]
    /\ UNCHANGED <<contact, review, prepared>>

\* The order of URLs, whatever it is, picks one supporter of each set.
Orders == {first \in [(SUBSET Contacts) \ {{}} -> Contacts] :
             \E rank \in [Contacts -> 1..Cardinality(Contacts)] :
                /\ \A c, d \in Contacts : rank[c] = rank[d] => c = d
                /\ \A ds \in DOMAIN first :
                     first[ds] \in ds /\ \A d \in ds : rank[first[ds]] <= rank[d]}

GenerateForCandidate ==
    \E eligible \in SUBSET Jobs, first \in Orders : Generate(eligible, first)

-----------------------------------------------------------------------------
(* The lifecycle.                                                           *)

\* _ALLOWED_TRANSITIONS
AllowedTransitions ==
    [discovered |-> {"evidence_pending", "ready_for_review", "rejected", "expired"},
     evidence_pending |-> {"ready_for_review", "rejected", "expired"},
     ready_for_review |-> {"approved", "rejected", "expired"},
     approved |-> {"expired"}, rejected |-> {"expired"}, expired |-> {}]

\* Mutated form of MayBecome: the table is not asked.
MayBecomeAny(from, to) == TRUE

\* update_status: to the status it has, or along the table.
MayBecome(from, to) == to = from \/ to \in AllowedTransitions[from]

Recorded(s) == signal[s] # NoRow

UpdateStatus(s, status) ==
    /\ Recorded(s) /\ s.type \in MovedTypes
    /\ MayBecome(signal[s].status, status)
    /\ signal' = [signal EXCEPT ![s].status = status]
    /\ UNCHANGED <<contact, review, prepared>>

ReviewsOf(s) == {a \in Reviews : review[a] # NoRow /\ review[a].signal = s}
HasReview(s, statuses) == \E a \in ReviewsOf(s) : review[a].status \in statuses

\* request_review: an open review is returned as it is.
RequestReview(s, a) ==
    /\ Recorded(s) /\ s.type = "outreach_candidate"
    /\ signal[s].status \notin Settled
    /\ ~HasReview(s, OpenReview) /\ review[a] = NoRow
    /\ review' = [review EXCEPT ![a] = [signal |-> s, status |-> "pending"]]
    /\ UNCHANGED <<contact, signal, prepared>>

\* decide(APPROVE): the signal is first made ready for review where it is not; a
\* transition the table refuses rolls the decision back.
Approve(a) ==
    /\ review[a] # NoRow /\ review[a].status \in OpenReview
    /\ LET s == review[a].signal
           from == IF signal[s].status \in {"discovered", "evidence_pending"}
                   THEN "ready_for_review" ELSE signal[s].status
       IN  /\ MayBecome(from, "approved")
           /\ signal' = [signal EXCEPT ![s].status = "approved"]
           /\ review' = [review EXCEPT ![a].status = "approved"]
    /\ UNCHANGED <<contact, prepared>>

Reject(a) ==
    /\ review[a] # NoRow /\ review[a].status \in OpenReview
    /\ LET s == review[a].signal
       IN  /\ MayBecome(signal[s].status, "rejected")
           /\ signal' = [signal EXCEPT ![s].status = "rejected"]
           /\ review' = [review EXCEPT ![a].status = "rejected"]
    /\ UNCHANGED <<contact, prepared>>

\* The approvals API decides any open approval, and the signal does not follow;
\* cancelling a review through decide is the same step.
DecideElsewhere(a, decision) ==
    /\ review[a] # NoRow /\ review[a].status \in OpenReview
    /\ decision = "snoozed" => review[a].status = "pending"
    /\ review' = [review EXCEPT ![a].status = decision]
    /\ UNCHANGED <<contact, signal, prepared>>

\* Mutated form of ReviewApproved: the signal's own status is enough.
ReviewNotAsked(s) == TRUE

\* require_approved_review
ReviewApproved(s) == HasReview(s, {"approved"})

\* prepare: writes nothing but the audit log.
Prepare(s) ==
    /\ Recorded(s) /\ s.type = "outreach_candidate" /\ signal[s].status = "approved"
    /\ ReviewApproved(s)
    /\ Usable(s.recruiter)
    /\ prepared' = prepared \cup {s}
    /\ UNCHANGED <<contact, signal, review>>

\* An opt-out through the outreach engine.
OptOut(c) == Known(c) /\ Suppress(c) /\ UNCHANGED <<signal, review, prepared>>

SigInit ==
    /\ ContactInit
    /\ signal = [s \in SignalIds |-> NoRow]
    /\ review = [a \in Reviews |-> NoRow]
    /\ prepared = {}

SigNext ==
    \/ DiscoverForJob /\ UNCHANGED <<signal, review, prepared>>
    \/ \E c \in Contacts : OptOut(c)
    \/ GenerateForCandidate
    \/ \E s \in SignalIds :
        \/ \E status \in SignalStatus : UpdateStatus(s, status)
        \/ \E a \in Reviews : RequestReview(s, a)
        \/ Prepare(s)
    \/ \E a \in Reviews :
        \/ Approve(a) \/ Reject(a)
        \/ \E d \in ReviewStatus \ {"pending"} : DecideElsewhere(a, d)

SigSpec == SigInit /\ [][SigNext]_signals

-----------------------------------------------------------------------------
(* The quality evaluation (recruiter_signal_quality.py), which only reads.  *)

TypeCoherent(s) ==
    /\ s.type = "role_relevant" => s.recruiter = Nobody
    /\ s.type \in {"contact_available", "outreach_candidate"} => s.recruiter # Nobody

ContactResolvable(s) == s.recruiter # Nobody => Known(s.recruiter)

MethodsCoherent(s) ==
    /\ "email" \in signal[s].methods => signal[s].email # "none"
    /\ "linkedin" \in signal[s].methods => ProfileOf[signal[s].evidence] = "linkedin"

\* evaluate_signal; its other checks compare a signal with what the generator writes
\* next to it and cannot fail for one it wrote.
PassesQuality(s) == TypeCoherent(s) /\ ContactResolvable(s) /\ MethodsCoherent(s)

-----------------------------------------------------------------------------
(* Properties.                                                              *)

\* Rows keep to their enumerations, and prepared signals are outreach candidates.
SigTypeOK ==
    /\ ContactTypeOK
    /\ signal \in [SignalIds -> SignalRow \cup {NoRow}]
    /\ review \in [Reviews -> ReviewRow \cup {NoRow}]
    /\ prepared \subseteq SignalIds

\* Whatever the generator stores, from whatever the directory listed, passes the
\* quality evaluation, and goes on passing it.
GeneratedPassesQuality == \A s \in SignalIds : Recorded(s) => PassesQuality(s)

\* A draft is prepared only for a signal that a human approved, in a review of that
\* very signal, though its status can be set without one; and the contact was surfaced.
PreparedWasReviewed ==
    \A s \in prepared :
        /\ HasReview(s, {"approved"}) /\ signal[s].status \in {"approved", "expired"}
        /\ s.recruiter # Nobody /\ contact[s.recruiter].verified /\ contact[s.recruiter].confident

\* A settled signal stays settled: a review that was already open when the signal was
\* rejected or expired does not turn it into an approved one.
SettledIsFinal ==
    [][\A s \in SignalIds : Recorded(s) /\ signal[s].status \in Settled
        => signal'[s] # NoRow /\ signal'[s].status \in {signal[s].status, "expired"}]_signals
=============================================================================
