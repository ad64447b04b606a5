---------------------------- MODULE HumanInLoop ----------------------------
(***************************************************************************)
(* Authentication states, challenges and human-in-the-loop workflows.      *)
(*                                                                         *)
(* An external site that asks for a human (CAPTCHA, MFA, login, ...) leaves *)
(* three linked rows: the provider's authentication state, a challenge and *)
(* the workflow run that waits for the human.  One action of this module   *)
(* is one HTTP request, which is one database transaction: get_session     *)
(* commits after the handler and rolls everything back when it raises, so  *)
(* a refused request changes no row.  Requests that overlap are the        *)
(* subject of module ChallengeSessions.                                    *)
(*                                                                         *)
(* A challenge and its workflow run are created together and linked for    *)
(* life, so both tables are indexed by the same identifier.                *)
(***************************************************************************)
EXTENDS Integers, FiniteSets

CONSTANTS
    Providers,        \* identities of auth_providers rows
    Ids,              \* identities of challenge/workflow pairs (bounds the tables)
    NoRow,            \* the absent row
    MaxAttempts,      \* workflow_runs.max_attempts, max_retries + 1 in ensure_open
    Reported,         \* auth states the site detectors report
    HandOffTypes,     \* challenge types the automation adapters hand off
    TokenHolders      \* workflows whose resume token a client got; WorkflowRunRead omits it

AuthStates ==
    {"not_required", "not_configured", "authenticated", "session_expired",
     "authentication_required", "mfa_required", "captcha_required",
     "access_blocked", "rate_limited", "human_action_required", "error"}

ChallengeTypes ==
    {"captcha", "mfa", "otp", "login_required", "session_expired", "bot_protection",
     "access_denied", "rate_limit", "unknown_human_verification"}

InFlightStatus == {"open", "acknowledged", "human_action_required"}
ClosedStatus == {"resolved", "cancelled", "timed_out", "failed"}

WorkflowTerminal == {"completed", "cancelled", "timed_out", "failed"}
WorkflowStatus == {"running", "paused", "resumed"} \cup WorkflowTerminal

ChallengeRow == [provider : Providers, type : ChallengeTypes,
                 status : InFlightStatus \cup ClosedStatus]
WorkflowRow == [status : WorkflowStatus, attempts : Nat, expired : BOOLEAN]

ASSUME ConstantsOK ==
    /\ MaxAttempts \in Nat \ {0}
    /\ Reported \subseteq AuthStates
    /\ HandOffTypes \subseteq ChallengeTypes
    /\ TokenHolders \subseteq Ids
    /\ NoRow \notin AuthStates \cup ChallengeRow \cup WorkflowRow

VARIABLES
    auth,        \* provider -> auth_provider_states.status, NoRow without provider
    challenge,   \* id -> challenges row
    workflow,    \* id -> workflow_runs row
    toldOver     \* ids of workflows some client was told have expired or failed

vars == <<auth, challenge, workflow, toldOver>>

-----------------------------------------------------------------------------
(* The auth state machine.                                                 *)

HumanEscalation ==
    {"mfa_required", "captcha_required", "access_blocked", "human_action_required"}

\* Where a state may go; ordinary states may go to every state of Trouble.
Trouble == {"authentication_required", "mfa_required", "captcha_required",
            "access_blocked", "rate_limited", "human_action_required", "error"}
Authorised == {"authenticated", "session_expired", "authentication_required",
               "human_action_required", "error"}

AuthTransitions ==
    [s \in AuthStates |->
        CASE s = "not_configured" -> Trouble \cup {"not_required", "authenticated"}
          [] s = "not_required" -> Trouble \cup {"authenticated", "session_expired"}
          [] s = "authenticated" -> Trouble \cup {"not_required", "session_expired"}
          [] s = "session_expired" -> Trouble \cup {"authenticated"}
          [] s = "authentication_required" ->
                (Trouble \ {"authentication_required"})
                    \cup {"not_required", "authenticated", "session_expired"}
          [] s \in {"mfa_required", "captcha_required", "rate_limited", "error"} ->
                Authorised
          [] s = "access_blocked" -> {"human_action_required", "error"}
          [] s = "human_action_required" ->
                (Authorised \ {"human_action_required"}) \cup {"not_required"}]

\* apply_state refreshes an unchanged state and otherwise asks the table.
ApplyOK(p, s) ==
    /\ auth[p] # NoRow
    /\ s = auth[p] \/ s \in AuthTransitions[auth[p]]

\* The type of challenge a state stands for; other states open none.
ChallengeTypeFor ==
    [s \in AuthStates \ {"authenticated", "not_required", "not_configured", "error"} |->
        CASE s = "captcha_required" -> "captcha"
          [] s = "mfa_required" -> "mfa"
          [] s = "access_blocked" -> "access_denied"
          [] s = "rate_limited" -> "rate_limit"
          [] s = "session_expired" -> "session_expired"
          [] s = "authentication_required" -> "login_required"
          [] s = "human_action_required" -> "unknown_human_verification"]

-----------------------------------------------------------------------------
(* Rows.                                                                    *)

Exists(c) == challenge[c] # NoRow
InFlight(c) == Exists(c) /\ challenge[c].status \in InFlightStatus
InFlightOf(p) == {c \in Ids : InFlight(c) /\ challenge[c].provider = p}
\* Mutated form of InFlightFor: the lookup forgets acknowledged and escalated rows.
InFlightForOpenOnly(p, t) ==
    {c \in InFlightOf(p) : challenge[c].type = t /\ challenge[c].status = "open"}

InFlightFor(p, t) == {c \in InFlightOf(p) : challenge[c].type = t}
Free == {c \in Ids : ~Exists(c)}

NewChallenge(p, t) == [provider |-> p, type |-> t, status |-> "open"]

\* Mutated form of NewWorkflow: the run is started and never paused.
NewWorkflowRunning == [status |-> "running", attempts |-> 0, expired |-> FALSE]

\* ensure_open starts a run and pauses it in the same request.
NewWorkflow == [status |-> "paused", attempts |-> 0, expired |-> FALSE]

WorkflowTransitions ==
    [s \in WorkflowStatus |->
        CASE s = "running" -> WorkflowTerminal \cup {"paused"}
          [] s = "paused" -> WorkflowTerminal \cup {"running", "resumed"}
          [] s = "resumed" -> WorkflowTerminal
          [] s \in WorkflowTerminal -> {}]

\* pause_for_human_action ignores terminal runs and refuses a paused one.
PauseOK(w) == w.status \in WorkflowTerminal \/ "paused" \in WorkflowTransitions[w.status]
Pause(w) == IF w.status \in WorkflowTerminal THEN w ELSE [w EXCEPT !.status = "paused"]

\* resume with the right token; the two refusals that report the run as over.
TooLate(w) == w.status = "paused" /\ (w.expired \/ w.attempts >= MaxAttempts)
ResumeOK(w) == w.status = "paused" /\ ~TooLate(w)
Resume(w) == [w EXCEPT !.status = "running", !.attempts = @ + 1]

\* _finish_workflow_after_resolution: complete a running run, resume a paused one.
FinishOK(w) == w.status = "running" \/ ResumeOK(w)
Finish(w) == IF w.status = "running" THEN [w EXCEPT !.status = "completed"] ELSE Resume(w)

-----------------------------------------------------------------------------
Init ==
    /\ auth = [p \in Providers |-> NoRow]
    /\ challenge = [c \in Ids |-> NoRow]
    /\ workflow = [c \in Ids |-> NoRow]
    /\ toldOver = {}

\* POST /providers; an authentication method of NONE needs no configuration.
CreateProvider(p, s) ==
    /\ auth[p] = NoRow
    /\ s \in {"not_required", "not_configured"}
    /\ auth' = [auth EXCEPT ![p] = s]
    /\ UNCHANGED <<challenge, workflow, toldOver>>

\* DELETE /providers/{id}; challenges and workflow runs go with the provider.
DeleteProvider(p) ==
    LET owned == {c \in Ids : Exists(c) /\ challenge[c].provider = p}
    IN /\ auth[p] # NoRow
       /\ auth' = [auth EXCEPT ![p] = NoRow]
       /\ challenge' = [c \in Ids |-> IF c \in owned THEN NoRow ELSE challenge[c]]
       /\ workflow' = [c \in Ids |-> IF c \in owned THEN NoRow ELSE workflow[c]]
       /\ toldOver' = toldOver \ owned

\* What POST /providers/{id}/state does with each kind of report, and when it
\* is accepted.
SettlesOK(p, s) ==
    /\ s \in {"authenticated", "not_required"}
    /\ ApplyOK(p, s)
    /\ \A c \in InFlightOf(p) : FinishOK(workflow[c])

EscalatesOK(p, s, ch, w) ==
    auth[p] \in HumanEscalation /\ ch.status # "human_action_required" => PauseOK(w)

AsksOK(p, s) ==
    /\ s \in DOMAIN ChallengeTypeFor
    /\ ApplyOK(p, s)
    /\ IF InFlightFor(p, ChallengeTypeFor[s]) # {}
       THEN \E c \in InFlightFor(p, ChallengeTypeFor[s]) :
                EscalatesOK(p, s, challenge[c], workflow[c])
       ELSE EscalatesOK(p, s, NewChallenge(p, ChallengeTypeFor[s]), NewWorkflow)

OtherOK(p, s) ==
    /\ s \in {"not_configured", "error"}
    /\ ApplyOK(p, s)

ReportOK(p, s) == SettlesOK(p, s) \/ AsksOK(p, s) \/ OtherOK(p, s)

\* observe_state(authenticated | not_required): resolve_superseded closes every
\* in-flight challenge of the provider and finishes its workflow.
ReportSettled(p, s) ==
    /\ SettlesOK(p, s)
    /\ auth' = [auth EXCEPT ![p] = s]
    /\ challenge' = [c \in Ids |-> IF c \in InFlightOf(p)
                                   THEN [challenge[c] EXCEPT !.status = "resolved"]
                                   ELSE challenge[c]]
    /\ workflow' = [c \in Ids |-> IF c \in InFlightOf(p) THEN Finish(workflow[c])
                                  ELSE workflow[c]]
    /\ UNCHANGED toldOver

\* observe_state of a state that asks for a human: reuse or open the challenge,
\* escalate it when the provider was escalating before the report.
ReportAsks(p, s) ==
    LET t == ChallengeTypeFor[s]
        targets == IF InFlightFor(p, t) # {} THEN InFlightFor(p, t) ELSE Free
    IN /\ s \in DOMAIN ChallengeTypeFor
       /\ ApplyOK(p, s)
       /\ \E c \in targets :
            LET ch == IF Exists(c) THEN challenge[c] ELSE NewChallenge(p, t)
                w == IF Exists(c) THEN workflow[c] ELSE NewWorkflow
                escalate == /\ auth[p] \in HumanEscalation
                            /\ ch.status # "human_action_required"
            IN /\ EscalatesOK(p, s, ch, w)
               /\ challenge' = [challenge EXCEPT ![c] =
                    IF escalate THEN [ch EXCEPT !.status = "human_action_required"] ELSE ch]
               /\ workflow' = [workflow EXCEPT ![c] = IF escalate THEN Pause(w) ELSE w]
       /\ auth' = [auth EXCEPT ![p] = s]
       /\ UNCHANGED toldOver

\* observe_state of a state that neither settles nor asks.
ReportOther(p, s) ==
    /\ OtherOK(p, s)
    /\ auth' = [auth EXCEPT ![p] = s]
    /\ UNCHANGED <<challenge, workflow, toldOver>>

\* get_or_create_for_site: the site's provider is created when it is missing.
EnsureSite(p) == auth' = [auth EXCEPT ![p] = IF @ = NoRow THEN "not_configured" ELSE @]

\* The automation hands a site's challenge over in one request: the provider, the
\* challenge and its paused run, with no state reported.
HandOffTo(p, t, c) ==
    /\ c \in IF InFlightFor(p, t) # {} THEN InFlightFor(p, t) ELSE Free
    /\ EnsureSite(p)
    /\ LET ch == IF Exists(c) THEN challenge[c] ELSE NewChallenge(p, t)
       IN /\ challenge' = [challenge EXCEPT ![c] =
                               [ch EXCEPT !.status = "human_action_required"]]
          /\ workflow' = [workflow EXCEPT ![c] = IF Exists(c) THEN @ ELSE NewWorkflow]
    /\ UNCHANGED toldOver

HandOff(p) == \E t \in HandOffTypes, c \in Ids : HandOffTo(p, t, c)

\* Mutated form of Acknowledge: _assert_in_flight is forgotten.
AcknowledgeUnchecked(c) ==
    /\ Exists(c)
    /\ challenge[c].status # "acknowledged"
    /\ challenge' = [challenge EXCEPT ![c].status = "acknowledged"]
    /\ UNCHANGED <<auth, workflow, toldOver>>

\* POST /challenges/{id}/acknowledge; a second one is a no-op.
Acknowledge(c) ==
    /\ InFlight(c)
    /\ challenge[c].status # "acknowledged"
    /\ challenge' = [challenge EXCEPT ![c].status = "acknowledged"]
    /\ UNCHANGED <<auth, workflow, toldOver>>

\* complete resolves the challenge, marks the provider authenticated and finishes
\* the workflow; any of the three may refuse.
AuthenticateOK(c) == ApplyOK(challenge[c].provider, "authenticated")

\* Mutated form of Complete: the provider keeps its state.
CompleteKeepsAuth(c) ==
    /\ InFlight(c)
    /\ FinishOK(workflow[c])
    /\ challenge' = [challenge EXCEPT ![c].status = "resolved"]
    /\ workflow' = [workflow EXCEPT ![c] = Finish(@)]
    /\ UNCHANGED <<auth, toldOver>>

Complete(c) ==
    /\ InFlight(c)
    /\ AuthenticateOK(c)
    /\ FinishOK(workflow[c])
    /\ challenge' = [challenge EXCEPT ![c].status = "resolved"]
    /\ auth' = [auth EXCEPT ![challenge[c].provider] = "authenticated"]
    /\ workflow' = [workflow EXCEPT ![c] = Finish(@)]
    /\ UNCHANGED toldOver

\* POST /challenges/{id}/cancel.
Cancel(c) ==
    /\ InFlight(c)
    /\ "cancelled" \in WorkflowTransitions[workflow[c].status]
    /\ challenge' = [challenge EXCEPT ![c].status = "cancelled"]
    /\ workflow' = [workflow EXCEPT ![c].status = "cancelled"]
    /\ UNCHANGED <<auth, toldOver>>

\* POST /workflows/{id}/resume by a client that holds the run's token.  The
\* challenge is not looked at.
ResumeWorkflow(c) ==
    /\ c \in TokenHolders
    /\ Exists(c)
    /\ ResumeOK(workflow[c])
    /\ workflow' = [workflow EXCEPT ![c] = Resume(@)]
    /\ UNCHANGED <<auth, challenge, toldOver>>

\* Mutated form of ResumeRefused: the session commits what was flushed.
ResumeRefusedCommits(c) ==
    /\ Exists(c)
    /\ TooLate(workflow[c])
    /\ c \in TokenHolders \/ (InFlight(c) /\ AuthenticateOK(c))
    /\ toldOver' = toldOver \cup {c}
    /\ workflow' = [workflow EXCEPT ![c].status = "timed_out"]
    /\ UNCHANGED <<auth, challenge>>

\* resume marks an expired or exhausted run TIMED_OUT or FAILED and raises; the
\* client reads that the run is over, and the transaction is rolled back.
ResumeRefused(c) ==
    /\ Exists(c)
    /\ TooLate(workflow[c])
    /\ c \in TokenHolders \/ (InFlight(c) /\ AuthenticateOK(c))
    /\ toldOver' = toldOver \cup {c}
    /\ UNCHANGED <<auth, challenge, workflow>>

\* The clock passes a run's expires_at; nothing in the program reacts.
Expire(c) ==
    /\ Exists(c)
    /\ ~workflow[c].expired
    /\ workflow' = [workflow EXCEPT ![c].expired = TRUE]
    /\ UNCHANGED <<auth, challenge, toldOver>>

\* The requests of the authentication API, and time.
ProviderRequest(p) ==
    \/ \E s \in {"not_required", "not_configured"} : CreateProvider(p, s)
    \/ DeleteProvider(p)
    \/ \E s \in Reported : ReportSettled(p, s) \/ ReportAsks(p, s) \/ ReportOther(p, s)

ChallengeRequest(c) ==
    \/ Acknowledge(c) \/ Complete(c) \/ Cancel(c)
    \/ ResumeWorkflow(c) \/ ResumeRefused(c) \/ Expire(c)

Next ==
    \/ \E p \in Providers : ProviderRequest(p) \/ HandOff(p)
    \/ \E c \in Ids : ChallengeRequest(c)

Spec == Init /\ [][Next]_vars

-----------------------------------------------------------------------------
(* Properties.                                                              *)

\* Every row stays within its columns' enumerations, as the models declare them.
TypeOK ==
    /\ auth \in [Providers -> AuthStates \cup {NoRow}]
    /\ challenge \in [Ids -> ChallengeRow \cup {NoRow}]
    /\ workflow \in [Ids -> WorkflowRow \cup {NoRow}]
    /\ toldOver \subseteq Ids

\* Rows come and go together: a challenge has its workflow and its provider.
Linked ==
    \A c \in Ids :
        /\ challenge[c] = NoRow <=> workflow[c] = NoRow
        /\ Exists(c) => auth[challenge[c].provider] # NoRow
        /\ c \in toldOver => Exists(c)

\* ensure_open is idempotent and escalate, acknowledge and hand-off keep it so:
\* a provider never has two in-flight challenges of one type.
UniqueInFlight ==
    \A c, d \in Ids :
        /\ InFlight(c) /\ InFlight(d)
        /\ challenge[c].provider = challenge[d].provider
        /\ challenge[c].type = challenge[d].type
        => c = d

\* A challenge and its workflow stay in step whatever path closed the challenge:
\* while it is in flight the workflow is alive (so cancel is always accepted),
\* a resolved one no longer waits, and both are cancelled together.
Aligned(ch, w) ==
    \/ ch.status \in InFlightStatus /\ w.status \in {"paused", "running"}
    \/ ch.status = "resolved" /\ w.status \in {"running", "completed"}
    \/ ch.status = "cancelled" /\ w.status = "cancelled"

InStep == \A c \in Ids : Exists(c) => Aligned(challenge[c], workflow[c])

\* An unresolved challenge cannot cause an endless retry loop: no sequence of
\* resumes, re-escalations and reports takes a run past its attempt budget.
AttemptBudget ==
    \A c \in Ids : workflow[c] # NoRow => workflow[c].attempts \in 0..MaxAttempts

\* A provider whose state asks for a human has a challenge of that type which is
\* still in flight or which somebody cancelled: escalation never disappears silently.
ChallengeAccounted ==
    \A p \in Providers : auth[p] \in DOMAIN ChallengeTypeFor =>
        \E c \in Ids :
            /\ Exists(c)
            /\ challenge[c].provider = p
            /\ challenge[c].type = ChallengeTypeFor[auth[p]]
            /\ challenge[c].status \in InFlightStatus \cup {"cancelled"}

\* As long as its resume token stays inside the service, a workflow runs again only
\* once its challenge is closed: every in-flight challenge holds a paused run.
PausedWhileInFlight ==
    \A c \in Ids \ TokenHolders : InFlight(c) => workflow[c].status = "paused"

\* A closed challenge is never reopened, closed again or resumed again: neither
\* its status nor its workflow's status and attempts change until both rows are
\* deleted with the provider.
ClosedStays(c) ==
    Exists(c) /\ ~InFlight(c) =>
        \/ challenge'[c] = NoRow
        \/ /\ challenge'[c] = challenge[c]
           /\ workflow'[c].status = workflow[c].status
           /\ workflow'[c].attempts = workflow[c].attempts

ClosedIsFinal == [][\A c \in Ids : ClosedStays(c)]_vars

-----------------------------------------------------------------------------
(* What the documentation says and the code does not do.                    *)

\* observe_state is "safe to call repeatedly with the same status": a report
\* that repeats the current state is accepted.
RepeatReportAccepted ==
    \A p \in Providers : auth[p] # NoRow => ReportOK(p, auth[p])

\* A run whose resume was refused as expired or exhausted is over: it "failed
\* until a new human action".
RefusedIsOver ==
    \A c \in toldOver : workflow[c].status \in WorkflowTerminal

=============================================================================
