---------------------------- MODULE JobPostings ----------------------------
(***************************************************************************)
(* Postings as the feeds give them, the rows of the jobs table they become *)
(* and the two pure decisions about them: which stored job a posting is    *)
(* (JobRepository.find_identical) and what the gate4e bridge does with a   *)
(* producer's record (its disposition, and whether it may be matched).     *)
(***************************************************************************)
EXTENDS Integers, Sequences

CONSTANTS
    Post,       \* posting -> its normalized fields
    Record,     \* gate4e record -> its verification evidence and its posting
    None        \* an absent optional field

Postings == DOMAIN Post
Records == DOMAIN Record

Fields == {"url", "domain", "externalId", "content", "closesAt"}
Verification == {"VERIFIED", "PARTIAL", "UNRESOLVED"}
Accepted == {"ACCEPTED_VERIFIED", "ACCEPTED_PARTIAL"}
Dispositions == Accepted \cup {"QUARANTINED_PARTIAL_NO_URL", "QUARANTINED_UNRESOLVED",
                               "REJECTED_INVALID"}

\* closesAt is a time, or -1 when the posting names none; a record's official URL is
\* valid, missing or invalid, and wellFormed says that it parses and is titled.
ASSUME PostingsOK ==
    /\ \A p \in Postings : DOMAIN Post[p] = Fields /\ Post[p].closesAt \in Int /\ Post[p].url # None
    /\ \A r \in Records :
         /\ Record[r].posting \in Postings /\ Record[r].verification \in Verification
         /\ Record[r].url \in {"valid", "missing", "invalid"}
         /\ Record[r].wellFormed \in BOOLEAN

-----------------------------------------------------------------------------
Closed(p, now) == Post[p].closesAt # -1 /\ Post[p].closesAt < now

\* The companies row that call w creates for posting p.  No two companies are told apart
\* by their domain: it is unique among verified companies only, and no code verifies one.
Company(p, w) == [domain |-> Post[p].domain, by |-> w, of |-> p]

\* The row discovery or ingestion creates for posting p.
JobFor(p, company, closesAt, w) ==
    [url |-> Post[p].url, company |-> company, externalId |-> Post[p].externalId,
     content |-> Post[p].content, closesAt |-> closesAt, status |-> "discovered", by |-> w]

\* Mutated form of SameEmployerId: any employer's id will do.
SameIdAnywhere(job, p, company) ==
    Post[p].externalId # None /\ job.externalId = Post[p].externalId

SameEmployerId(job, p, company) ==
    job.company = company /\ Post[p].externalId # None /\ job.externalId = Post[p].externalId

\* Mutated form of Identical: content is not compared.
IdenticalByKeys(rows, p, company) ==
    LET byUrl == {j \in rows : j.url = Post[p].url}
    IN  IF byUrl # {} THEN byUrl ELSE {j \in rows : SameEmployerId(j, p, company)}

\* find_identical: by URL, else by the company's id for it, else by content.
Identical(rows, p, company) ==
    LET byUrl == {j \in rows : j.url = Post[p].url}
        byId == {j \in rows : SameEmployerId(j, p, company)}
    IN  IF byUrl # {} THEN byUrl
        ELSE IF byId # {} THEN byId
        ELSE {j \in rows : j.content = Post[p].content}

\* A stored job is the posting p: the same page, the same requisition of the same employer
\* (whose name is its domain), or the same text.
Matches(job, p) ==
    \/ job.url = Post[p].url
    \/ /\ Post[p].domain # None /\ job.company.domain = Post[p].domain
       /\ Post[p].externalId # None /\ job.externalId = Post[p].externalId
    \/ job.content = Post[p].content

\* The unique keys of a jobs row; a NULL external id is never a duplicate.
JobKeys(p, company) ==
    {<<"url", Post[p].url>>} \cup {<<"id", company, x>> : x \in {Post[p].externalId} \ {None}}

HasIdentity(p) == Post[p].externalId # None /\ Post[p].domain # None

\* _process_row and _classify.
Disposition(r) ==
    LET rec == Record[r]
    IN  IF ~rec.wellFormed \/ rec.url = "invalid" THEN "REJECTED_INVALID"
        ELSE CASE rec.verification = "UNRESOLVED" -> "QUARANTINED_UNRESOLVED"
               [] rec.verification = "PARTIAL" ->
                    IF rec.url = "missing" THEN "QUARANTINED_PARTIAL_NO_URL"
                    ELSE "ACCEPTED_PARTIAL"
               [] rec.verification = "VERIFIED" ->
                    IF rec.url = "valid" /\ HasIdentity(rec.posting) THEN "ACCEPTED_VERIFIED"
                    ELSE "REJECTED_INVALID"

\* Gate4eEligibilityService._decide on a stored row.
Eligible(r, row, allowPartial) ==
    /\ row.job # None
    /\ Record[r].url # "missing"
    /\ \/ row.status = "ACCEPTED_VERIFIED" /\ HasIdentity(Record[r].posting)
       \/ row.status = "ACCEPTED_PARTIAL" /\ allowPartial
=============================================================================
