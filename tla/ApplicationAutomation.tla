----------------------- MODULE ApplicationAutomation -----------------------
(***************************************************************************)
(* Automated submission of applications, on top of HumanInLoop.            *)
(*                                                                         *)
(* execute and retry make one attempt each: they check the human approval, *)
(* call the submission adapter and record what it answered.  An answer     *)
(* that asks for a human writes the challenge tables of HumanInLoop in the *)
(* same transaction, so every step of this module is a step of HumanInLoop *)
(* or leaves its tables alone.  One action is one request, as there.       *)
(***************************************************************************)
EXTENDS HumanInLoop

CONSTANTS
    Apps,             \* identities of applications rows
    Runs,             \* identities of automation_runs rows (bounds the table)
    SiteOf,           \* app -> the provider _ensure_provider finds or creates for it
    MaxRunAttempts,   \* automation_runs.max_attempts
    StatusUpdates,    \* statuses the user sets on applications
    Decisions         \* decisions the user takes on approval requests

ApplicationStatus == {"draft", "ready", "submitted", "withdrawn"}
ActiveRunStatus == {"running", "paused_human_action"}
RunStatus == ActiveRunStatus \cup {"submitted", "failed"}

RunRow == [app : Apps, status : RunStatus, attempts : Nat, retryAt : BOOLEAN,
           challenge : Ids \cup {NoRow}]

\* A request for approval of an application: the open one and the decided ones.
DecisionTypes == {"approve", "reject", "cancel", "snooze"}
Approvals == [open : {"none", "pending", "snoozed"}, approved : BOOLEAN]

ASSUME AutomationConstantsOK ==
    /\ SiteOf \in [Apps -> Providers]
    /\ MaxRunAttempts \in Nat \ {0}
    /\ StatusUpdates \subseteq ApplicationStatus
    /\ Decisions \subseteq DecisionTypes
    /\ NoRow \notin Runs \cup Ids \cup RunRow

VARIABLES
    application,   \* app -> applications.status
    approval,      \* app -> its submission approvals
    permitted,     \* app -> its source allows automation and is enabled
    configured,    \* automation_enabled and an autonomy level of at least 2
    runs,          \* run -> automation_runs row
    latest         \* app -> the run get_for_application returns, by created_at

autoVars == <<application, approval, permitted, configured, runs, latest>>
allVars == <<vars, autoVars>>

-----------------------------------------------------------------------------
Active(r) == runs[r] # NoRow /\ runs[r].status \in ActiveRunStatus
RetryPending(r) == runs[r] # NoRow /\ runs[r].status = "failed" /\ runs[r].retryAt
Live(r) == Active(r) \/ RetryPending(r)
Exhausted(r) == runs[r].attempts >= MaxRunAttempts

\* Mutated form of ApprovedNow: an open request does not block.
ApprovedNowIgnoresOpen(a) == approval[a].approved

\* _get_approved_approval: nothing open, and some request was approved.
ApprovedNow(a) == approval[a].open = "none" /\ approval[a].approved

NoLiveRun(a) == latest[a] # NoRow => ~Live(latest[a])

-----------------------------------------------------------------------------
AutoInit ==
    /\ Init
    /\ application = [a \in Apps |-> "draft"]
    /\ approval = [a \in Apps |-> [open |-> "none", approved |-> FALSE]]
    /\ permitted \in [Apps -> BOOLEAN]
    /\ configured \in BOOLEAN
    /\ runs = [r \in Runs |-> NoRow]
    /\ latest = [a \in Apps |-> NoRow]

\* POST /applications/{id}/status sets any status.
UpdateStatus(a, s) ==
    /\ application[a] # s
    /\ application' = [application EXCEPT ![a] = s]
    /\ UNCHANGED <<vars, approval, permitted, configured, runs, latest>>

\* request_approval; an open request is returned instead of a second one.
RequestApproval(a) ==
    /\ approval[a].open = "none"
    /\ approval' = [approval EXCEPT ![a].open = "pending"]
    /\ UNCHANGED <<vars, application, permitted, configured, runs, latest>>

\* decide: approve, reject and cancel close an open request; snooze only delays
\* a pending one.
Decide(a, d) ==
    /\ approval[a].open # "none"
    /\ d = "snooze" => approval[a].open = "pending"
    /\ approval' = [approval EXCEPT ![a] =
          IF d = "snooze" THEN [@ EXCEPT !.open = "snoozed"]
          ELSE [open |-> "none", approved |-> @.approved \/ d = "approve"]]
    /\ UNCHANGED <<vars, application, permitted, configured, runs, latest>>

\* PUT /sources/{id} changes what the application's source permits.
ToggleSource(a) ==
    /\ permitted' = [permitted EXCEPT ![a] = ~@]
    /\ UNCHANGED <<vars, application, approval, configured, runs, latest>>

\* The service restarts with other settings.
Reconfigure ==
    /\ configured' = ~configured
    /\ UNCHANGED <<vars, application, approval, permitted, runs, latest>>

-----------------------------------------------------------------------------
(* One attempt: what the adapter answers and what is recorded of it.  row is *)
(* the run as execute or retry leaves it before the adapter is called.       *)

\* The row after an attempt that did not submit: the attempt is counted.
Counted(row, status, retryAt, c) ==
    [app |-> row.app, status |-> status, attempts |-> row.attempts + 1,
     retryAt |-> retryAt, challenge |-> c]

\* Mutated form of Submitted: a success is taken as a sign of a valid session.
SubmittedAuthenticates(r, row) ==
    /\ runs' = [runs EXCEPT ![r] = [row EXCEPT !.status = "submitted"]]
    /\ application' = [application EXCEPT ![row.app] = "submitted"]
    /\ auth' = [auth EXCEPT ![SiteOf[row.app]] = "authenticated"]
    /\ UNCHANGED <<challenge, workflow, toldOver>>

\* SUBMITTED: the run and the application are marked together.
Submitted(r, row) ==
    /\ runs' = [runs EXCEPT ![r] = [row EXCEPT !.status = "submitted"]]
    /\ application' = [application EXCEPT ![row.app] = "submitted"]
    /\ EnsureSite(SiteOf[row.app])
    /\ UNCHANGED <<challenge, workflow, toldOver>>

\* _record_failure plans a retry unless the budget is used up; whether the adapter
\* called the failure retryable is recorded and not asked.
Failed(r, row) ==
    /\ runs' = [runs EXCEPT ![r] =
          Counted(row, "failed", row.attempts + 1 < MaxRunAttempts, row.challenge)]
    /\ EnsureSite(SiteOf[row.app])
    /\ UNCHANGED <<challenge, workflow, toldOver, application>>

\* Mutated form of HandedOff: the run does not remember its challenge.
HandedOffForgets(r, row) ==
    \E t \in HandOffTypes, c \in Ids :
        /\ HandOffTo(SiteOf[row.app], t, c)
        /\ runs' = [runs EXCEPT ![r] =
              Counted(row, "paused_human_action", row.retryAt, row.challenge)]
        /\ UNCHANGED application

\* _hand_off_challenge: the site asks for a human.
HandedOff(r, row) ==
    \E t \in HandOffTypes, c \in Ids :
        /\ HandOffTo(SiteOf[row.app], t, c)
        /\ runs' = [runs EXCEPT ![r] =
              Counted(row, "paused_human_action", row.retryAt, c)]
        /\ UNCHANGED application

Attempt(r, row) == Submitted(r, row) \/ Failed(r, row) \/ HandedOff(r, row)

NewRun(a) == [app |-> a, status |-> "running", attempts |-> 0, retryAt |-> FALSE,
              challenge |-> NoRow]

\* Mutated form of ExecuteOK: a retry-pending run does not block a new one.
ExecuteOKIgnoresRetry(a) ==
    /\ configured /\ permitted[a]
    /\ application[a] \notin {"submitted", "withdrawn"}
    /\ latest[a] # NoRow => ~Active(latest[a])
    /\ ApprovedNow(a)

ExecuteOK(a) ==
    /\ configured /\ permitted[a]
    /\ application[a] \notin {"submitted", "withdrawn"}
    /\ NoLiveRun(a)
    /\ ApprovedNow(a)

\* POST /applications/{id}/execute.
Execute(a, r) ==
    /\ ExecuteOK(a)
    /\ runs[r] = NoRow
    /\ latest' = [latest EXCEPT ![a] = r]
    /\ Attempt(r, NewRun(a))
    /\ UNCHANGED <<approval, permitted, configured>>

\* Mutated form of RetryOK: a run whose challenge is still open may be retried.
RetryOKBypass(r) ==
    /\ runs[r] # NoRow
    /\ \/ runs[r].status = "paused_human_action"
       \/ runs[r].status = "failed" /\ runs[r].retryAt
    /\ ~Exhausted(r)
    /\ ApprovedNow(runs[r].app)

\* Whether retry accepts a run: the planned time is not compared with the clock,
\* and neither the application nor its source is looked at again.
RetryOK(r) ==
    /\ runs[r] # NoRow
    /\ \/ runs[r].status = "paused_human_action"
       \/ runs[r].status = "failed" /\ runs[r].retryAt
    /\ ~Exhausted(r)
    /\ runs[r].challenge # NoRow => ~InFlight(runs[r].challenge)
    /\ ApprovedNow(runs[r].app)

\* POST /automation/runs/{id}/retry.
Retry(r) ==
    /\ RetryOK(r)
    /\ Attempt(r, [runs[r] EXCEPT !.status = "running", !.retryAt = FALSE])
    /\ UNCHANGED <<approval, permitted, configured, latest>>

-----------------------------------------------------------------------------
\* The authentication API goes on beside it; a provider that runs refer to cannot
\* be deleted, the foreign key automation_runs.provider_id refuses.
AuthRequest ==
    /\ \/ \E p \in Providers :
            /\ ProviderRequest(p)
            /\ auth'[p] = NoRow =>
                 \A r \in Runs : runs[r] # NoRow => SiteOf[runs[r].app] # p
       \/ \E c \in Ids : ChallengeRequest(c)
    /\ UNCHANGED autoVars

ApplicationRequest(a) ==
    \/ \E s \in StatusUpdates : UpdateStatus(a, s)
    \/ RequestApproval(a)
    \/ \E d \in Decisions : Decide(a, d)
    \/ ToggleSource(a)

AutoNext ==
    \/ AuthRequest
    \/ Reconfigure
    \/ \E a \in Apps : ApplicationRequest(a) \/ \E r \in Runs : Execute(a, r)
    \/ \E r \in Runs : Retry(r)

AutoSpec == AutoInit /\ [][AutoNext]_allVars

-----------------------------------------------------------------------------
(* Properties.                                                              *)

\* Every automation row stays within its columns' enumerations.
AutoTypeOK ==
    /\ application \in [Apps -> ApplicationStatus]
    /\ approval \in [Apps -> Approvals]
    /\ permitted \in [Apps -> BOOLEAN]
    /\ configured \in BOOLEAN
    /\ runs \in [Runs -> RunRow \cup {NoRow}]
    /\ latest \in [Apps -> Runs \cup {NoRow}]

\* At most one run of an application is active or waiting for its retry, and it
\* is the latest one: the service never relies on the partial unique index, and
\* the retry of an older run never races a newer run.
OneLiveRun ==
    \A r \in Runs : Live(r) => latest[runs[r].app] = r

\* "No endless retry loop": hand-offs and failures share one budget, and a failed
\* run can be retried exactly while there is budget left.
RetryBudget ==
    \A r \in Runs : runs[r] # NoRow =>
        /\ runs[r].attempts \in 0..MaxRunAttempts
        /\ runs[r].status = "failed" => (runs[r].retryAt <=> ~Exhausted(r))

\* A paused run points at a challenge of its own site that still exists, whatever
\* was deleted meanwhile: there is always a row for the human to resolve.
PausedRunHasChallenge ==
    \A r \in Runs : runs[r] # NoRow /\ runs[r].status = "paused_human_action" =>
        LET c == runs[r].challenge
        IN c # NoRow /\ Exists(c) /\ challenge[c].provider = SiteOf[runs[r].app]

\* No attempt gets past a challenge: once a run was handed over, nothing more
\* happens to it, not even a failure, before that challenge is closed.
NoBypass ==
    [][\A r \in Runs :
        runs[r] # NoRow /\ runs[r].challenge # NoRow /\ runs'[r] # runs[r]
            => ~InFlight(runs[r].challenge)]_allVars

\* No attempt is made without an approval, and none while a request is open.
AttemptApproved(r) ==
    runs'[r] # runs[r] =>
        LET a == runs'[r].app IN approval[a].open = "none" /\ approval[a].approved

ApprovedAttempts == [][\A r \in Runs : AttemptApproved(r)]_allVars

\* Automation never disturbs the challenge machinery: its steps are hand-offs.
ChallengesAsBefore == Spec

-----------------------------------------------------------------------------
(* What the documentation says and the code does not do.                    *)

Submits(r) ==
    runs[r] # runs'[r] /\ runs'[r] # NoRow /\ runs'[r].status = "submitted"

\* An application is only executed when its source explicitly permits automation.
PermittedSubmission ==
    [][\A r \in Runs : Submits(r) => permitted[runs'[r].app]]_allVars

\* A withdrawn or already submitted application is not submitted.
WithdrawnNotSubmitted ==
    [][\A r \in Runs : Submits(r) =>
        application[runs'[r].app] \notin {"submitted", "withdrawn"}]_allVars
=============================================================================
