# Verification of the AI career agent backend

TLA+ models of the backend in `src/src/backend` (FastAPI services over a PostgreSQL
database), checked with TLC and, for the main safety properties, proved with TLAPS for any
number of rows and requests. Paths below are relative to `src/src/backend` unless they
start with `src/`.

## 1. The system

Every HTTP request is one coroutine with one database session and one transaction:
`get_session` (`api/deps.py:113-123`) commits after the handler and rolls back when it
raises. Services keep no state between requests; all state is in rows. PostgreSQL runs
READ COMMITTED: no `SELECT FOR UPDATE`, no version columns, no handler of
`IntegrityError`. What protects overlapping requests is an UPDATE's row lock and the
unique indexes. `BaseRepository.update` flushes at once, so each `update` in a service is a
statement of its own, and reads the row back.

### Components

| Component | State | Operations | Interacts with | What makes it correct |
|---|---|---|---|---|
| Workflow runs (`services/human_in_loop.py`) | `workflow_runs`: status, attempts, expiry, token | start, pause, resume, complete, cancel | called by challenges; token API | bounded attempts, terminal means terminal |
| Challenges (`services/challenge.py`) | `challenges`: status, type, workflow | ensure_open, escalate, acknowledge, complete, cancel, resolve_superseded | workflows, auth states, automation | one in flight per type, in step with its workflow |
| Providers and auth states (`services/authentication*.py`) | `auth_providers`, `auth_provider_states` | create, delete, report a state | opens, escalates and settles challenges | escalation is never lost |
| Detection (`services/challenge_detection.py`) | none | signals to state and type | reports | total mapping |
| Automation (`services/application_automation.py`) | `automation_runs` | execute, retry | approvals, sources, adapters, challenges | one live run, budget, approval, no bypass, no double submission |
| Approvals (`services/approval.py`) | `approvals`, decisions | request, approve, reject, snooze, cancel | automation, outreach, signals, notifications | a human decides each target once |
| Application preparation (`services/application_prep.py`) | `applications`, documents, answers | prepare, edit, set status | matching, automation | whole or not at all, only facts of the profile |
| Outreach (`services/outreach.py`) | `outreach_messages`, versions, `outreach_runs` | draft, edit, submit, send, retry, cancel, suppress | approvals, sender | the approved text, capped, never sent twice |
| Recruiter contacts (`services/recruiter_discovery.py`, `recruiter_confidence.py`) | `recruiter_contacts` | discover, suppress | outreach, signals | an opt-out is final |
| Recruiter signals (`services/recruiter_signal*.py`) | `recruiter_signals` | generate, review, prepare, evaluate | approvals, contacts | coherent, approved by a human, settled for good |
| Discovery, scheduler (`services/discovery.py`, `scheduler.py`) | `jobs`, `agent_tasks` | tick, run, store, expire | adapters | each posting once, failures per source |
| Gate4e ingestion (`services/gate4e_*.py`) | `gate4e_ingestion_records` | ingest an envelope | jobs, companies | replays are no-ops |
| Matching (`services/matching.py`) | `job_matches` | parse, score, upsert | notifications | deterministic, bounded scores |
| Browser sessions, secrets (`services/browser_session.py`, `secrets.py`) | session and reference rows | create, check, expire, suspend, close, rotate | providers | closed stays closed |
| Notifications (`services/notifications.py`) | `notifications`, preferences | notify, read | everything | muted and deduplicated |
| Analytics and recommendations (`services/analytics.py`) | `recommendations`, `feedback` | generate, acknowledge, archive | matches, applications, outreach | advice is given once |
| Resumes (`services/resume.py`, `storage.py`) | `resumes`, versions, parsed rows, files | upload, parse, apply, delete, restore | profile, file storage | files follow rows |
| Profile rows, login, audit, frontend | rows edited one at a time | CRUD | - | local rules only |

### What is hard here

* Linked rows (auth state, challenge, workflow; message, approval, run; signal, review) are
  changed by many requests, each of which may refuse half way and be rolled back.
* Checks are made on loaded rows and trusted later: `challenge.py:165`, `:189`,
  `application_automation.py:168`, `:257`, `outreach.py:568`, `approval.py:147`.
* The submission adapter, the mail sender and the file storage act outside the transaction.
* Waits on row locks and unique keys that are taken in different orders: `complete` and a
  settling report, two discovery runs that visit the sources in opposite orders, a send and
  a retry.
* Rows that no unique index keeps apart: companies of one domain, two preparations of one
  job, open approvals, version numbers.
* Rows derived from others and never recomputed: match rows, advice, first evidence.

The `hazards` of `PROJECT.json` list these at their lines, with the properties that would
catch them going wrong.

## 2. Modules

| Module | Models | A step is |
|---|---|---|
| `HumanInLoop` | auth states, challenges, workflow runs | one request |
| `ApplicationAutomation` (extends it) | automation runs, approvals, applications, sources | one request |
| `ChallengeSessions` | overlapping requests on one challenge | one SQL statement |
| `SubmissionSessions` | overlapping execute and retry of one application | one SQL statement, or a crash |
| `ApprovalSessions` | overlapping requests and decisions about one target | one SQL statement, or a crash |
| `RecruiterContacts` | the affiliation score, discovered contacts, the opt-out | one pass |
| `MessageDelivery` | what outreach promises: cleared texts, delivered once, within a limit | - (abstract) |
| `Outreach` (extends `RecruiterContacts`) | messages, their approvals, runs, the daily limit | one request |
| `OutreachSessions` | overlapping requests on messages | one SQL statement, or a crash |
| `RecruiterSignals` (extends `RecruiterContacts`) | signals, reviews, preparation, quality | one request |
| `JobPostings` | postings, duplicates, dispositions, eligibility | pure operators |
| `JobStore` (extends it) | overlapping discovery runs and envelopes | one SQL statement, or a cut-off |
| `JobMatching` | the match scorer | pure operators |
| `ApplicationMaterials` (extends it) | match rows, alerts, prepared applications | one request; preparing takes several |
| `Recommendations` (extends it) | recommendations derived from all of that | one request |
| `ResumeSessions` | overlapping requests on one resume and its files | one SQL or file operation, or a crash |
| `*_proofs` | the theorems | - |
| `MC*` | instances for TLC | - |

**HumanInLoop.** `auth`, `challenge` and `workflow` are the tables; `NoRow` is an absent
row. A challenge and its workflow run are created together and linked for life, so both are
indexed by one identifier. One action is one endpoint: `ReportSettled`, `ReportAsks` and
`ReportOther` are the branches of `observe_state`, the last two with the whole transition
table (`AuthTransitions`); `HandOffTo` is what automation does to these tables. A refusal
changes nothing, so refused requests are no steps, except `ResumeRefused`, which records in
`toldOver` (a history variable) that the client was told the run is over. `Expire` is the
clock. `TokenHolders` is the set of workflows whose resume token a client got: the API
returns the token nowhere (`schemas/workflow.py`) and asks for it, so the set is empty
unless somebody reads the database; the properties are checked with one token known and
proved for every set. Not distinguished: severity, descriptions, retry counters of a
challenge (never read), and a second acknowledgement (a stutter).

**ApplicationAutomation.** Adds applications, approvals (of the submission of each
application: the open request, and whether some request was approved), the permission of
the application's source, the configuration and the runs. `Execute` and `Retry` make one
attempt each: the guards of the method, then one of the adapter's outcomes with everything
the code writes for it. `latest` is what `get_for_application` returns, which orders by
creation. A planned retry is `retryAt`: the code asks only whether `next_retry_at` is set.
A closed request of `decide` keeps the earlier approval, as `_get_approved_approval` does.
`AuthRequest` lets the authentication API go on, except that the foreign key refuses the
deletion of a provider that runs refer to.

**Sessions modules.** In `ChallengeSessions`, `SubmissionSessions`, `ApprovalSessions`,
`OutreachSessions` and `ResumeSessions` each session is one request in its own transaction
and `at` is its next statement. Reads see committed rows and never wait. An UPDATE waits for
the row's writer and then overwrites the columns it changes, without checking again; an
INSERT waits for an uncommitted row with the same unique key and fails on a committed one;
both are external, as PostgreSQL does them. Statements that cannot interfere (audit inserts)
are left out. `Crash` rolls back at any statement. History variables (`sent`, `forgotten`,
`accepted`, `overlap`, ...) remember what the outside accepted and which requests ran at one
time; no action reads them. In `SubmissionSessions` and `OutreachSessions`, `Busy` is the
wait for the partial unique index of open runs, whose entry stays until its transaction
ends. A session that loaded a row's status and sets the same writes nothing, as SQLAlchemy
does: `NewStatus`, `SeenStatus`, `WriteParsed`. In `ResumeSessions` the file storage is
outside the transaction: what `WriteFile` and `DeleteFile` did is not undone by a rollback.

**Outreach and MessageDelivery.** An approval belongs to one message, since a message is
submitted once (an edit needs a draft, and nothing leads back to it). `Send` and `Retry`
carry the checks of the methods in their order of effect, then one of the sender's answers.
`handed` records the version the sender accepted. `MessageDelivery` knows only texts,
clearance, blocks and deliveries; `DeliveryHonoured` is its specification under the mapping
text = version, cleared = approved (or submitted, when no approval is required), blocked =
cancelled or to a suppressed contact, delivered = `handed`, today = `sentToday`.

**RecruiterContacts and RecruiterSignals.** `Score` has the weights of
`recruiter_confidence.py`, `Persisted` what a pass stores. The directory is an input: what it
says of a person at each pass is any of `Listings`. Discovery and signal generation
recognise recruiting titles by different lists, which is why `Roles` has three kinds of
them. `Generate` makes all signals of a pass in one step, as it is one transaction;
`Orders` is the unknown order of profile URLs that decides whose evidence a shared signal
stores. No endpoint serves signals: `UpdateStatus` is the service's operation, called by the
reviews and by the tests. `DecideElsewhere` is the approvals API deciding a review, which
leaves the signal as it is.

**JobPostings and JobStore.** A posting has the fields the duplicate tests compare; what
normalisation and HTTP do to a page happens before. A worker is one discovery run or one
envelope; workers are numbered in the order they begin (`Begin`), which loses nothing, as
calls differ in nothing else. `txn` is what it wrote and has not committed: its inserts, their
unique keys, and in `locks` the rows it updated, which are the job sources it visited
(`VisitSource`, `discovery.py:186-210`) and the jobs it expires (`MarkExpired`). `Wants` are
the keys or rows its next statement needs, and it waits while another transaction has one.
`JobKeys` are the keys of a job: its URL, and its company with the employer's id
(`models/job.py:48-50`). A company has no key: its domain is unique among VERIFIED companies
only (`models/company.py:34-40`), and no code verifies one, so `FindCompany` neither waits
nor fails, and where a domain has several companies it takes any of them, as
`find_by_domain` does. A run keeps the company it used for a domain (`employers`), an
envelope looks again. The order of sources and the postings of a page are inputs; a page may
also fail. `Violate` is a unique violation, after which the session is unusable although the
source's handler catches it (`discovery.py:207`).

**JobMatching, ApplicationMaterials, Recommendations.** Every component of the scorer is an
operator in thousandths. A `Profile` and a `JobView` hold what the components read; parsing
a description into a view is not modelled. Documents are the sets of facts they claim, and
the validator compares these with `Corpus`. `prose` are the profile's fields that name
something outside the corpus: summary, target role, field of study, an experience's title,
the currency of the pay and the work authorization. Which of them a document quotes depends
on the document (`Claims`), so each of the three may be the one that is refused. Nothing
recomputes a match row when the profile changes: `EditProfile` leaves it stale, and
preparations, `GenerateDocument` and `Recommendations` work from what is there.

A preparation is a transaction of several steps: `BeginPrepare` reads the candidate, the match
row and the job's applications, `LoadFacts` the lists of the profile and makes the questions
and answers, `WriteDocument` writes the three documents in their order or `Refuse` rolls all
back, `BreakOff` is a request that is cut off, `CommitPrepare` the end. Every other request,
other preparations included, may run between two of them. `draft` is what an open preparation
has read and written, and `app`, `answers`, `versions` and `sheet` what is committed. The
facts are loaded once and handed on, except that the candidate's own row is read before the
lists (`Facts`). The answers are made twice: `prepare` stores them, and the answers sheet
makes its own copy; `sheet` is what the first copy answered, so that `PreparedWhole` can
compare them. `Prepare(a)` are the steps of an open preparation.

`ChallengesAsBefore` (refinement): every behaviour of `ApplicationAutomation` is one of
`HumanInLoop` when only its variables are looked at. It is stated by extension, the mapping
being the identity, as both modules write the same tables.

## 3. Runs

| Run | Question | Instance |
|---|---|---|
| `hil_as_built` | Do states, challenges and workflows stay consistent under every sequence of requests of the authentication API? | 2 providers, 2 challenges, all 11 states, 2 attempts, one token known |
| `app_as_built` | Does automation keep its promises (one live run, approval, no bypass) and leave the challenge machinery intact, with two applications to one site? | 2 applications on one site, 2 runs, 2 challenges, budget 2 |
| `app_withdrawn` | Retry submits an application its candidate withdrew or already submitted. | violated: 1 application |
| `ses_overlap` | Do four overlapping requests on one challenge, statement by statement, resume its workflow once and end? | 4 sessions, every combination of kinds |
| `sub_overlap` | Are overlapping execute and retry requests serialised by the partial unique index, through refusals and crashes? | 3 sessions, 4 runs, budget 2, crashes |
| `out_as_built` | Does the outreach engine implement MessageDelivery, keep messages and runs in agreement and honour an opt-out? | 1 contact, 2 messages, 3 runs, limit 1, 2 attempts |
| `out_overlap` | Do three overlapping sends, retries, edits, cancellations and submissions of a message, with crashes, send it from one request at a time and end? | 3 sessions of every kind, 1 message, crashes, deadlocks |
| `sig_as_built` | Are generated signals coherent, prepared ones reviewed and settled ones final, though approvals and statuses can be changed behind the review? | 2 people, 1 job, 2 reviews |
| `job_overlap` | Do overlapping discovery runs and envelopes report what they stored, store what they report, and end? | 3 calls, two at a time, 3 postings, 2 sources, 3 records, crashes, deadlocks |
| `mat_as_built` | With match rows older than the profile: are applications prepared whole and grounded, scores fair and advice given once? | 2 jobs, 2 applications, 2 profiles, 5 skills; about 460 000 states |
| `apr_overlap` | Do overlapping requests and decisions leave the log in agreement with the approval, and which overlaps make two of something? | 4 sessions of every kind, 3 approvals |
| `res_overlap` | Do the stored files follow the rows when uploads, deletions, parses and applications of a resume overlap or are lost? | 3 sessions of every kind, 3 versions, 1 skill |

The type invariants are not among the runs' properties; they are proved (section 4), and hold
in these instances when they are added to the configuration.

Why the bounds are enough. Requests are compared only by provider, type and identifier, so
two providers and two challenges show every relation between two rows: same or different
provider, same or different type, one closed and one open. Two attempts show the first, the
last and the refused resume. Two applications on one site share a provider and its
challenges, which is the only way they meet; two runs of one application show a new run
beside an old one. Four sessions hold each kind of request once, or one kind several
times; every violation of overlap found needs two. In `sub_overlap` a run is inserted at
most once per session besides the initial one, so four runs bound nothing, nor do they in
`out_overlap`. Three approvals and three versions (`apr_overlap`, `res_overlap`) are one more
than it takes to have two of something; a request that finds no identity left stops there.
`out_overlap` has one message: sessions meet on a message only, apart from the
daily limit, which section 5 covers. `out_as_built` has two messages, a limit of one and two
attempts, so the limit, the budget and a follow-up are all reached, and three runs, so that
a message is sent anew after a run that is spent. `sig_as_built` has two people who may
support one signal, of which either may not be recognised, two reviews, and status requests
for the type that is reviewed (`MovedTypes`). `job_overlap` has three calls, of which two run
at a time (`MaxRunning`), so that a third can meet what two overlapping ones left; two sources
visited in either order, so that runs wait for each other; and three postings: two of one
employer's requisition under different URLs and texts, of which one closes, and one that
has the other's text and names no employer. Its records are one that is VERIFIED, one that is
PARTIAL, and one that is quarantined for want of a URL; the rejected and unresolved
dispositions take the same path as that one. `mat_as_built` has two profiles and two jobs, one of which requires a skill
that the first profile holds only a relative of. That profile names a work authorization
outside the corpus and has an experience, and the second job asks for that authorization, so the
answers sheet is refused after the other two documents are written; the second profile has a
target role and a field of study, which refuse the cover letter and, from a draft that read
the candidate's row before the edit, the resume. Two applications are prepared together, for
one job or for two. One answer, one document and one piece of advice are followed
(`Answerable`, `Renewable`, `Watched`), since they do not depend on one another; `Better`
looks beyond the two profiles. Symmetry is used for identities that
are only compared for equality, in runs without liveness. In `app_as_built` the adapter
hands off one type of challenge, reports settle, and the user withdraws; the other states
only change tables `hil_as_built` covers in full. `CHECK_DEADLOCK FALSE` is set where the
system may stop: when every session has its answer, or the bounded tables are full.

**Fairness.** Only sessions modules and `JobStore` state any: weak fairness of each
session's `Step`. An enabled statement is one the database can answer, the coroutine that
awaits it is resumed by the event loop, and the deadlock detector runs after
`deadlock_timeout` (`EndDeadlock`, `BreakDeadlock`). A statement that waits is not enabled,
so fairness does not assume that waiting ends: that is what `EveryRequestEnds` and
`EveryCallEnds` check. Crashes, cut-offs and people are not fair, so nothing says that
challenges are resolved or messages approved. A discovery run's fetch ends because the
adapters have timeouts.

## 4. Proofs

Each `*_proofs` module proves an inductive invariant and, from it, the properties of its
component, for all values of the constants that satisfy the modules' ASSUMEs.

* `ApplicationAutomation_proofs`, about `HumanInLoop` first: `IInv` is the conjunction of the
  checked invariants, `Linked` and the attempt budget. They need each other: closing a challenge is accepted only by a workflow
  that `InStep` keeps alive; `ChallengeAccounted` needs `Linked` (deletion) and the transition
  table, which has no way out of an escalation that does not settle, ask again or report an
  error. `ResumesAreCapped` is the budget.
  About `ApplicationAutomation`: `AutoIInv` adds the automation's invariants and
  `SitesKept` (a run's provider exists, by the foreign key). The refinement is proved action
  by action: an attempt is a hand-off, the creation of a provider, or a stutter.
  `NoBypass` follows from `OneLiveRun` and the guard of `Retry`; `AttemptsAreBudgeted` is
  `RetryBudget`.
* `ChallengeSessions_proofs`: what saves the workflow is the order of statements. `Holding`
  says what a session has written at each statement: every request that touches the
  workflow has written the challenge before, so it holds that row's lock (`Exclusive`) and
  what it read of the workflow still stands when it commits. `acknowledge` writes the
  challenge alone and so escapes the argument (section 5).
* `SubmissionSessions_proofs`: the partial unique index is a mutex. `Stage` says that a
  session which has written its run is the only one, that no other run is active, and that
  its draft continues the committed counter; `Ledger` counts submissions. The checks made
  before the mutex are not protected by it (section 5).
* `Recruiting_proofs`, about `Outreach`: `OutInv` joins the rows' types, `RunsAgree` and
  `MessagesInStep` (a message is to a known contact, its approval exists only after the draft, and the sender
  has it exactly when it is sent). From it `OutreachImplementsDelivery`: initial states map
  to initial states, and each request is a `Write`, `Clear`, `Block`, `Deliver`, `Midnight` or
  a stutter of `MessageDelivery`. `RunsAgree` is what makes a retry of a sent message
  impossible; the status `draft` what keeps a cleared text from changing.
  About `RecruiterSignals`: signals are coherent since a contact's identity and address are
  written once (`ContactsKept`, shared by both) and its evidence is what the signal was made
  from; a preparation stays reviewed since a closed review is never reopened.
* `OutreachSessions_proofs`: two mutexes, the open-run index and the key of a version.
  `Stage` says what a session knows at each statement; `Locks` that a session which has
  inserted its version still adds the next number; `Accounted` counts accepted sends.
* `ApprovalSessions_proofs`: the approval's row is a lock from a decision's update to its
  end (`OneWriter`, `WriterIsLast`), so the log is in commit order and its last entry agrees
  with the status. What a decision loaded may be stale: `LoadedOrOverlapped` says that then
  the decision it missed was running with it. A second open approval needs more: `CreatorsApart`
  follows a request from its look at the open approvals to its commit, through `FoundClosed`:
  a row it found closed is opened since only by decisions that overlapped the request, or by
  snoozes that loaded the row after one that did.
* `ResumeSessions_proofs`: an upload takes a number that nobody takes again later, since no
  number exceeds how many versions there are (`Counted`); `Numbers` says that who took a
  committed number overlapped its upload. `Found` and `Written` order a deletion after the
  files it removes; `Copies` and `OneWriter` are the same argument as `Numbers` for skills,
  with the candidate's row as the lock.
* `Jobs_proofs`, about `JobStore`: the state a call keeps is related to the tables at each
  statement. `Twins` covers committed rows and those of open transactions, so that two calls
  that insert one content were both running, and a call that finds an identical row inserts
  nothing (`NewContent`). One requisition of one employer needs a second invariant,
  `Employers`: two companies of one domain have creators that overlapped (`Rivals`), since a
  creator found no committed one; and a company and an employer's id have one job
  (`OneOfId`), since that is a unique key. Two jobs of one requisition are therefore under two
  companies.
  `Reported` counts a transaction's rows until it commits them;
  `FoundVisible` says that what a call found is committed or its own, and rows are never
  deleted. An ingestion row is right when it is written (`LinksOK`) and its job stays (`RowOK`).
  About the scorer: `EveryProfileIsFairlyScored` needs no induction. A better profile
  holds at least the same skills, so `1000 held + 500 related = 500 held + 500 (held or
  related)` does not fall (`SkillsMonotone`); every other component rises or stays, and
  sums, weights and rounding down are monotone (`TotalMonotone`, `DivMonotone`).
  About the materials: `DraftsOK` says of every open preparation that its answers are those
  its own facts and match row give, and that its sheet, once written, answers the same
  questions (`IsDraft`); edits of the profile and new match rows do not reach it. A commit
  makes of that a whole application, and later requests only add versions and turn answers
  into manual ones. Documents are grounded by the intersection in `Grounded`, however old the
  match row; `MaterialsTypeCorrect` says that a draft works on facts of profiles of the
  candidate and on a match row of its job.

The proofs rest on the modules' ASSUMEs and nothing else. Those that are more than types: an
absent value is none of the values it stands beside (`NoRow`, `Nothing`, `Absent`), a
posting has a URL (the column is not null), contacts have one empty profile URL
at most, the skills are finitely many and are not named like the profile's prose sections.

Every safety property of the passing runs is proved. Only model-checked is liveness, which
the prover does not handle: `EveryRequestEnds` (three modules) and `EveryCallEnds`. That some
order of waiting ends follows from no invariant alone, since the database's deadlock
detector is part of the argument. The run with an expected violation shows a disagreement
and has no theorem.

## 5. Disagreements between code and documentation

`app_withdrawn` shows that a retry submits a withdrawn application (`findings`). The
following were met as well. Those with a name are stated in their module, in a section of
their own, and TLC refutes them when they are added to the module's configuration.

Human in the loop and automation:

* `RepeatReportAccepted`: a repeated report of an escalating state is refused (`escalate`
  re-pauses a paused run, `human_in_loop.py:44-46`), though `authentication.py:78` says it is
  "safe to call repeatedly with the same status".
* `RefusedIsOver`: resume marks an expired or exhausted run and then raises, which rolls the
  mark back (`human_in_loop.py:143-152`, `deps.py:121-123`); the client was told that the
  "workflow failed until a new human action".
* `PermittedSubmission`: retry never loads the job source (`application_automation.py:257`),
  though line 5 says an application "is only executed when its job source explicitly
  permits automation".
* `InFlightCanBeClosed`: an acknowledgement that overlaps a cancellation overwrites
  CANCELLED and leaves an in-flight challenge nobody can close (`challenge.py:165`).
* `SubmittedIsRejected`: an execute that made its checks before another one committed
  submits the application once more (`application_automation.py:168`), though line 10
  says this is rejected.
* `src/docs/architecture/authentication-and-challenges.md` draws ACCESS_BLOCKED leading to
  HUMAN_ACTION_REQUIRED; the report that would take it there is refused.
* Completing one challenge marks the provider authenticated and leaves its other challenges
  in flight; a completed challenge leaves its workflow RUNNING for good.
* A rejected approval does not block when an older one was approved
  (`application_automation.py:333`; the docstring at line 9 says a rejected one blocks).
* A paused run that has used up its attempts can neither be retried nor replaced, though the
  message of `retry` (line 241) says to start a new run.
* `next_retry_at` is not compared with the clock, and a failure the adapter calls not
  retryable is retried.

Approvals, outreach and contacts:

* `approval.py:66` promises at most one open approval per target; overlapping requests make
  two, and then `get_open_for_target` raises. A snooze that overlaps an approval overwrites
  it. `SecondsOverlapped` says that it takes overlap.
* The daily limit (`outreach.py:9-13`) holds one request at a time; sends of different
  messages that overlap pass the same count.
* An edit that loaded a draft while it was being submitted changes the text after the
  approval was requested, and the new text is what is sent.
* `retry` does not ask the autonomy level that `send` asks; a rejected message stays
  PENDING_APPROVAL.
* `SurfacedHasProfile`: a person without a profile URL is surfaced with 70 points from
  domain, title and address, though every surfaced contact is said to link to its evidence.

Discovery and ingestion:

* `scheduler.py:8` says runs are serialized; `trigger_now` and the API run beside the loop.
* `robots.py`: of consecutive User-agent lines only the last names the group; `crawl_delay`
  is not used.
* Calls that overlap create two companies of one domain, and from then on the search by
  employer id (`repositories/job.py:126-128`) may look under the other one: one requisition is
  stored twice by calls that do not overlap. `TwinsOverlapped` says where that comes from.
* After a unique violation the source's error is caught but the session is unusable, and the
  whole run is lost, its failure mark included.

Matching and applications:

* `matching.py:792-813`: a pay range far above the expectation is a blocker, one far below it
  is not. A related skill removes the blocker of a required one (`matching.py:13` says hard
  requirements are never weakened). When nothing is required, missing preferred skills block.
  Unknown years score 0.6, known but few 0.25.
* `notification_new_match_threshold` is 0.85 (`core/config.py:117`) and is compared with
  scores from 0 to 100, so every match alerts.
* A second application of a job, after a withdrawal or by two preparations that overlap
  (`application_prep.py:955`), makes `get_by_job` find two rows and raise
  (`repositories/application.py:45-51`), for good; `PROGRESS.md` calls prepare idempotent.
* A summary, field of study, title of an experience, currency or work authorization of the
  profile, or an opener with the target role, may name what is not in the corpus the
  validator compares with; `prepare` is then refused for such a profile.
* A regenerated answers sheet ignores answers given by hand.
* `notify` is said never to raise but catches only `NotFoundError`; the insert of the
  preferences may fail, and the approval with it.
* Advice that a refresh archived does not return when it is due again; `_assert_fair` has no
  case in which it fires; a skill written under another name counts as a gap.

Resumes:

* `DATA_MODEL.md:144` says `(resume_id, version_number)` is unique; no index makes it so.
* `SECURITY.md:181` says deleted documents are removed from storage: an upload that overlaps
  or follows the deletion leaves its file, and a rolled-back upload an orphan. A rolled-back
  deletion leaves an active resume without its file, and `update_resume` may set a deleted
  resume ACTIVE.
* Applying a parsed resume again adds skills the candidate removed since.

`ChallengeService.time_out`, `WorkflowStatus.RESUMED` and `AutomationRunStatus.CANCELLED` are
never used.

## 6. Not modelled, and what could follow

* **Browser sessions and secret references**: lifecycles of one row each that nothing else
  reads; `suspend` and `close` do not ask whether the session has ended.
* **Overlap of daily limits and of writes to one application**: `Outreach` takes one request
  at a time, and so does `ApplicationMaterials` apart from preparations; a sessions module
  over two messages would state how far the limit can be exceeded.
* **Text**: description parsing, skill extraction, resume parsing, normalisation, document
  wording, page signals of `challenge_detection.py`. They are functions of strings, with
  unit tests; the models take their results as inputs.
* **Pure readers**: dashboard and analytics aggregates, list and detail endpoints, the
  completeness score.
* **CRUD of single rows** of the profile, login, password hashing, the audit log
  (append-only, nothing reads it back), the HTTP adapters, evaluation scripts, migrations
  and the frontend keep no protocol state.
* **Proofs** to come: that `ChallengeSessions` with one session at a time implements
  `HumanInLoop`, and likewise `OutreachSessions` and `Outreach`.
