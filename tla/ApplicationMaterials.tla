------------------------ MODULE ApplicationMaterials ------------------------
(***************************************************************************)
(* From profile to application: match rows that go stale when the profile  *)
(* is edited, the alerts they raise, and the questions, answers and        *)
(* versioned documents prepared from profile and match row.  One action is *)
(* one request, except the preparation of an application: a transaction of *)
(* several steps, which other requests run between, seen when it commits.  *)
(***************************************************************************)
EXTENDS JobMatching

CONSTANTS
    Jobs,           \* the candidate's jobs: a function to their parsed views
    Profiles,       \* the profiles the candidate may have in turn
    Apps,           \* identities of applications rows (bounds the table)
    Statuses,       \* the statuses update_status is called with
    Answerable,     \* the questions update_answer is called on (bounds the answers)
    Renewable,      \* the documents generate_document is called for, and how many
    MaxVersions,    \* versions each may have (bound the versions)
    NotifyFrom,     \* notification_new_match_threshold, compared with the score as it is
    NoRow

DocTypes == {"cover_letter", "tailored_resume", "answers_sheet"}
AppStatus == {"draft", "ready", "submitted", "withdrawn"}
AnswerStatus == {"auto", "requires_review", "manual"}
Questions == {"experience", "skills", "missing", "compensation", "work_authorization",
              "clearance", "location", "motivation"}

ASSUME MaterialsOK ==
    /\ \A j \in DOMAIN Jobs : Jobs[j] \in JobView
    /\ Profiles # {} /\ Profiles \subseteq Profile
    /\ Statuses \subseteq AppStatus /\ Answerable \subseteq Questions
    /\ Renewable \subseteq DocTypes /\ MaxVersions \in Nat \ {0}
    /\ NoRow \notin [job : DOMAIN Jobs, status : AppStatus]
    /\ \A j \in DOMAIN Jobs, p \in Profiles : NoRow # MatchRow(p, Jobs[j])
    /\ Skills \cap (CandidateProse \cup SectionProse) = {}

VARIABLES
    profile,    \* the candidate's profile
    match,      \* job -> job_matches row
    muted,      \* are new-match alerts switched off?
    unread,     \* jobs whose match row has an unread alert
    app,        \* application -> its job and status
    answers,    \* application -> question -> status of its answer
    versions,   \* application -> document type -> number of versions
    sheet,      \* application -> the questions its first answers sheet answers
    draft       \* application -> what an open preparation has read and written

matVars == <<profile, match, muted, unread, app, answers, versions, sheet, draft>>
matches == <<match, muted, unread>>
stored == <<app, answers, versions, sheet>>
prepared == <<stored, draft>>

MatInit ==
    /\ profile \in Profiles
    /\ match = [j \in DOMAIN Jobs |-> NoRow]
    /\ muted = FALSE /\ unread = {}
    /\ app = [a \in Apps |-> NoRow]
    /\ answers = [a \in Apps |-> <<>>]
    /\ versions = [a \in Apps |-> [t \in DocTypes |-> 0]]
    /\ sheet = [a \in Apps |-> {}] /\ draft = [a \in Apps |-> NoRow]

-----------------------------------------------------------------------------
\* Any section of the profile may be edited at any time; nothing is recomputed.
EditProfile ==
    /\ profile' \in Profiles \ {profile}
    /\ UNCHANGED <<matches, prepared>>

\* The rows the matching service computes.
Rows == [p \in Profiles |-> [j \in DOMAIN Jobs |-> MatchRow(p, Jobs[j])]]

\* _evaluate_and_persist for the jobs of S: upserts their rows and alerts about the
\* matches, unless alerts are muted; a job with an unread alert gets no second one.
EvaluateAll(S) ==
    /\ match' = [j \in DOMAIN Jobs |-> IF j \in S THEN Rows[profile][j] ELSE match[j]]
    /\ unread' = IF muted THEN unread
                 ELSE unread \cup {j \in S : match'[j].isMatch /\ match'[j].score >= NotifyFrom}
    /\ UNCHANGED <<profile, muted, prepared>>

Evaluate(j) == EvaluateAll({j})

\* batch_evaluate: without recompute a job that has a row keeps it.
BatchEvaluate(recompute) ==
    EvaluateAll({j \in DOMAIN Jobs : recompute \/ match[j] = NoRow})

MarkRead(j) ==
    /\ j \in unread
    /\ unread' = unread \ {j}
    /\ UNCHANGED <<profile, match, muted, prepared>>

MarkAllRead ==
    /\ unread' = {}
    /\ UNCHANGED <<profile, match, muted, prepared>>

UpdatePreferences ==
    /\ muted' = ~muted
    /\ UNCHANGED <<profile, match, unread, prepared>>

-----------------------------------------------------------------------------
\* Mutated form of Grounded: the match row is taken at its word.
GroundedInMatch(p, row) == row.matched \cup row.transferable

\* _matched_skills_in_profile: the row may be older than the profile.
Grounded(p, row) == (row.matched \cup row.transferable) \cap p.skills

\* prepare_content: which questions are asked, and which the profile answers.
AnswersFor(p, row, j) ==
    LET Auto(fact) == IF fact THEN "auto" ELSE "requires_review"
        asked == {"compensation", "motivation"} \cup (p.sections \cap {"experience"}) \cup j.asks
                 \cup (IF p.skills # {} THEN {"skills"} ELSE {})
                 \cup (IF row.missing # {} THEN {"missing"} ELSE {})
    IN  [q \in asked |-> CASE q \in {"experience", "skills"} -> "auto"
                           [] q = "compensation" -> Auto(p.pay \notin {Absent, 0})
                           [] q = "work_authorization" -> Auto(p.workAuth)
                           [] OTHER -> "requires_review"]

\* The questions that are answered without the candidate.
Autos(of) == {q \in DOMAIN of : of[q] = "auto"}

\* What each document claims: skills, and prose that names other things.  All name the
\* titles of experiences.  The cover letter's opener falls back on the target role; the
\* sheet names the grounded skills, or without any the profile's own, and what its other
\* answers quote.
Titles(p) == IF "experience" \in p.sections THEN p.prose \cap {"title"} ELSE {}
CoverLetterClaims(p, row) == Grounded(p, row) \cup (p.prose \cap {"target_role"}) \cup Titles(p)
ResumeClaims(p) == p.skills \cup (p.prose \cap {"summary", "field_of_study"}) \cup Titles(p)
SheetClaims(p, row, j) ==
    LET quoted == (IF p.pay \notin {Absent, 0} THEN {"currency"} ELSE {})
                  \cup (IF p.workAuth THEN j.asks \cap {"work_authorization"} ELSE {})
    IN  (IF Grounded(p, row) # {} THEN Grounded(p, row) ELSE p.skills)
        \cup (p.prose \cap quoted) \cup Titles(p)

Claims(t, p, row, j) ==
    CASE t = "cover_letter" -> CoverLetterClaims(p, row)
      [] t = "tailored_resume" -> ResumeClaims(p)
      [] t = "answers_sheet" -> SheetClaims(p, row, j)

\* claim_corpus: entities() lists the profile's skills and none of that prose.
Corpus(p) == p.skills

\* validate_document: the claims FactGroundingValidator finds no ground for.
Unsupported(t, p, row, j) == Claims(t, p, row, j) \ Corpus(p)

Exists(a) == app[a] # NoRow
AppsOf(j) == {a \in Apps : Exists(a) /\ app[a].job = j}

-----------------------------------------------------------------------------
(* prepare: the row, its questions and answers and the three documents, or nothing *)

\* A live application is returned as it is.  A withdrawn one makes room for a second,
\* and then get_by_job finds two rows and raises, whatever their statuses.
MayPrepare(j) ==
    /\ match[j] # NoRow
    /\ \/ AppsOf(j) = {}
       \/ \E a \in Apps : AppsOf(j) = {a} /\ app[a].status = "withdrawn"

\* The candidate's row as p has it, the lists of _load_facts as q has them.
Facts(p, q) ==
    [p EXCEPT !.skills = q.skills, !.sections = q.sections,
              !.prose = (p.prose \cap CandidateProse) \cup (q.prose \cap SectionProse)]

\* The candidate, the match row and the job's applications are read, and the row is
\* inserted: nothing stops two preparations of one job.
BeginPrepare(a, j) ==
    /\ ~Exists(a) /\ draft[a] = NoRow /\ MayPrepare(j)
    /\ draft' = [draft EXCEPT ![a] =
           [job |-> j, row |-> match[j], facts |-> profile, answers |-> <<>>,
            made |-> {}, sheet |-> {}]]
    /\ UNCHANGED <<profile, matches, stored>>

Open(a) == draft[a] # NoRow
Loaded(a) == Open(a) /\ draft[a].answers # <<>>
Unfinished(a) == Loaded(a) /\ draft[a].made # DocTypes

\* _load_facts reads the lists of now; the questions and answers follow from them.
LoadFacts(a) ==
    /\ Open(a) /\ ~Loaded(a)
    /\ LET facts == Facts(draft[a].facts, profile)
       IN  draft' = [draft EXCEPT ![a] =
               [draft[a] EXCEPT !.facts = facts,
                                !.answers = AnswersFor(facts, draft[a].row, Jobs[draft[a].job])]]
    /\ UNCHANGED <<profile, matches, stored>>

NextDocument(made) ==
    IF "cover_letter" \notin made THEN "cover_letter"
    ELSE IF "tailored_resume" \notin made THEN "tailored_resume" ELSE "answers_sheet"

Refused(d, facts) == Unsupported(NextDocument(d.made), facts, d.row, Jobs[d.job]) # {}

\* The next document written from these facts; the sheet asks prepare_content once more.
Written(d, facts) ==
    LET t == NextDocument(d.made)
    IN  [d EXCEPT !.made = d.made \cup {t},
                  !.sheet = IF t = "answers_sheet"
                            THEN Autos(AnswersFor(facts, d.row, Jobs[d.job])) ELSE d.sheet]

\* Mutated form of WriteDocument: the facts are not handed on but loaded once more.
WriteDocumentFromNow(a) ==
    /\ Unfinished(a)
    /\ LET facts == Facts(draft[a].facts, profile)
       IN  /\ ~Refused(draft[a], facts)
           /\ draft' = [draft EXCEPT ![a] = Written(draft[a], facts)]
    /\ UNCHANGED <<profile, matches, stored>>

WriteDocument(a) ==
    /\ Unfinished(a) /\ ~Refused(draft[a], draft[a].facts)
    /\ draft' = [draft EXCEPT ![a] = Written(draft[a], draft[a].facts)]
    /\ UNCHANGED <<profile, matches, stored>>

\* An unsupported claim raises, and the transaction is rolled back; so it is when the
\* request is cut off.
Refuse(a) ==
    /\ Unfinished(a) /\ Refused(draft[a], draft[a].facts)
    /\ draft' = [draft EXCEPT ![a] = NoRow]
    /\ UNCHANGED <<profile, matches, stored>>

BreakOff(a) ==
    /\ Open(a)
    /\ draft' = [draft EXCEPT ![a] = NoRow]
    /\ UNCHANGED <<profile, matches, stored>>

CommitPrepare(a) ==
    /\ Loaded(a) /\ draft[a].made = DocTypes
    /\ app' = [app EXCEPT ![a] = [job |-> draft[a].job, status |-> "draft"]]
    /\ answers' = [answers EXCEPT ![a] = draft[a].answers]
    /\ versions' = [versions EXCEPT ![a] = [t \in DocTypes |-> IF t \in draft[a].made THEN 1 ELSE 0]]
    /\ sheet' = [sheet EXCEPT ![a] = draft[a].sheet]
    /\ draft' = [draft EXCEPT ![a] = NoRow]
    /\ UNCHANGED <<profile, matches>>

Prepare(a) == LoadFacts(a) \/ WriteDocument(a) \/ Refuse(a) \/ BreakOff(a) \/ CommitPrepare(a)

-----------------------------------------------------------------------------
\* generate_document: a new version, from the facts of now.
GenerateDocument(a, t) ==
    /\ Exists(a) /\ versions[a][t] < MaxVersions
    /\ Unsupported(t, profile, match[app[a].job], Jobs[app[a].job]) = {}
    /\ versions' = [versions EXCEPT ![a][t] = @ + 1]
    /\ UNCHANGED <<profile, matches, app, answers, sheet, draft>>

UpdateAnswer(a, q) ==
    /\ Exists(a) /\ q \in DOMAIN answers[a]
    /\ answers' = [answers EXCEPT ![a][q] = "manual"]
    /\ UNCHANGED <<profile, matches, app, versions, sheet, draft>>

UpdateStatus(a, status) ==
    /\ Exists(a)
    /\ app' = [app EXCEPT ![a].status = status]
    /\ UNCHANGED <<profile, matches, answers, versions, sheet, draft>>

MatchRequest ==
    \/ \E recompute \in BOOLEAN : BatchEvaluate(recompute)
    \/ \E j \in DOMAIN Jobs : Evaluate(j)

NotificationRequest ==
    \/ MarkAllRead \/ UpdatePreferences
    \/ \E j \in DOMAIN Jobs : MarkRead(j)

ApplicationRequest ==
    \E a \in Apps :
        \/ \E j \in DOMAIN Jobs : BeginPrepare(a, j)
        \/ Prepare(a)
        \/ \E t \in Renewable : GenerateDocument(a, t)
        \/ \E q \in Answerable : UpdateAnswer(a, q)
        \/ \E status \in Statuses : UpdateStatus(a, status)

MatNext == EditProfile \/ MatchRequest \/ NotificationRequest \/ ApplicationRequest

MatSpec == MatInit /\ [][MatNext]_matVars

-----------------------------------------------------------------------------
\* An application is seen whole or not at all, whichever document the validator refuses
\* and whatever is edited meanwhile: it has its match row, its answers and all documents,
\* and its first answers sheet answers just the questions that are stored as answered,
\* those since edited by hand aside.
PreparedWhole ==
    \A a \in Apps :
        IF Exists(a)
        THEN /\ match[app[a].job] # NoRow
             /\ "motivation" \in DOMAIN answers[a]
             /\ \A t \in DocTypes : versions[a][t] >= 1
             /\ Autos(answers[a]) \subseteq sheet[a]
             /\ \A q \in sheet[a] : q \in DOMAIN answers[a] /\ answers[a][q] \in {"auto", "manual"}
        ELSE answers[a] = <<>> /\ sheet[a] = {} /\ \A t \in DocTypes : versions[a][t] = 0

\* However old a match row is, no document written from it claims a skill that the
\* profile does not hold now: stale rows never make the validator refuse a document.
WriterGrounded ==
    \A j \in DOMAIN Jobs, t \in DocTypes :
        match[j] # NoRow => Claims(t, profile, match[j], Jobs[j]) \cap Skills \subseteq profile.skills

\* The profiles that one more skill, one more year or evidence of leadership or domain
\* makes no worse a match for any job.
Better(p) ==
    {[p EXCEPT !.skills = @ \cup {s}] : s \in Skills}
    \cup {[p EXCEPT !.leader = TRUE], [p EXCEPT !.domain = TRUE],
          [p EXCEPT !.years = IF @ = Absent THEN @ ELSE @ + 1]}
FairlyScored ==
    {p \in Profiles : \A j \in DOMAIN Jobs, q \in Better(p) :
        Score(q, Jobs[j]) >= Score(p, Jobs[j]) /\ Blockers(q, Jobs[j]) \subseteq Blockers(p, Jobs[j])}

\* A better profile never makes a job a worse match, whatever the candidate's profile
\* is by now: it lowers no score and adds no blocker.
BetterNeverHurts == profile \in FairlyScored

\* Every application, match row and answer has its type, and an open preparation holds
\* the facts of a profile and a match row of its job.
MatTypeOK ==
    /\ profile \in Profiles /\ muted \in BOOLEAN /\ unread \subseteq DOMAIN Jobs
    /\ \A j \in DOMAIN Jobs : match[j] # NoRow => \E p \in Profiles : match[j] = MatchRow(p, Jobs[j])
    /\ \A a \in Apps : Exists(a) => app[a] \in [job : DOMAIN Jobs, status : AppStatus]
    /\ \A a \in Apps, q \in Questions : q \in DOMAIN answers[a] => answers[a][q] \in AnswerStatus
    /\ \A a \in Apps, t \in DocTypes : versions[a][t] \in 0..MaxVersions
    /\ \A a \in Apps : Open(a) =>
         /\ draft[a].job \in DOMAIN Jobs /\ draft[a].made \subseteq DocTypes
         /\ \E p \in Profiles : draft[a].row = MatchRow(p, Jobs[draft[a].job])
         /\ draft[a].facts \in Profiles \cup {Facts(p, q) : p \in Profiles, q \in Profiles}
=============================================================================
