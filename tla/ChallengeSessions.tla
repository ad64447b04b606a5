------------------------- MODULE ChallengeSessions -------------------------
(***************************************************************************)
(* Overlapping requests on one challenge, statement by statement.          *)
(*                                                                         *)
(* HumanInLoop takes a request for one step.  The database runs requests   *)
(* in READ COMMITTED without row versions: a handler loads the challenge,  *)
(* checks it in memory and writes it later, so what it checked may have    *)
(* changed.  An UPDATE locks its row until the transaction ends and a      *)
(* second UPDATE of the row waits, then overwrites; a SELECT never waits   *)
(* and sees what is committed.  Each session here is one request.          *)
(***************************************************************************)
EXTENDS Integers

CONSTANTS
    Sessions,     \* the overlapping requests
    MaxAttempts,  \* workflow_runs.max_attempts
    Unwritten     \* marks the rows a transaction has not written

InFlightStatus == {"open", "acknowledged", "human_action_required"}
ClosedStatus == {"resolved", "cancelled"}
WorkflowTerminal == {"completed", "cancelled"}
WorkflowRow == [status : {"paused", "running"} \cup WorkflowTerminal, attempts : Nat]

Tables == {"auth", "challenge", "workflow"}
ValuesOf == [auth |-> {"captcha_required", "authenticated"},
             challenge |-> InFlightStatus \cup ClosedStatus,
             workflow |-> WorkflowRow]
Kinds == {"acknowledge", "complete", "cancel", "settle"}
Points == {"start", "list", "write", "authenticate", "workflow", "commit", "over"}

ASSUME SessionConstantsOK ==
    /\ MaxAttempts \in Nat \ {0}
    /\ \A row \in Tables : Unwritten \notin ValuesOf[row]

VARIABLES
    db,      \* committed rows
    draft,   \* session -> the rows it has written and not committed, which it locks
    kind,    \* session -> what it was asked to do
    at       \* session -> its next statement

vars == <<db, draft, kind, at>>

Empty == [row \in Tables |-> Unwritten]
Holds(s, row) == draft[s][row] # Unwritten
Locked(s, row) == \E t \in Sessions \ {s} : Holds(t, row)
InFlight == db.challenge \in InFlightStatus

Init ==
    /\ \E c \in InFlightStatus :
        db = [auth |-> "captcha_required", challenge |-> c,
              workflow |-> [status |-> "paused", attempts |-> 0]]
    /\ draft = [s \in Sessions |-> Empty]
    /\ kind \in [Sessions -> Kinds]
    /\ at = [s \in Sessions |-> "start"]

GoTo(s, point) == at' = [at EXCEPT ![s] = point]

\* UPDATE of a row no other transaction holds, then the next statement.
Update(s, row, value, point) ==
    /\ ~Locked(s, row)
    /\ draft' = [draft EXCEPT ![s][row] = value]
    /\ GoTo(s, point)
    /\ UNCHANGED <<db, kind>>

\* The handler raised, or the database chose it to break a deadlock.
Abort(s) ==
    /\ draft' = [draft EXCEPT ![s] = Empty]
    /\ GoTo(s, "over")
    /\ UNCHANGED <<db, kind>>

\* GET of the challenge and _assert_in_flight; acknowledging twice is a no-op.
Load(s) ==
    /\ at[s] = "start" /\ kind[s] # "settle"
    /\ IF InFlight /\ ~(kind[s] = "acknowledge" /\ db.challenge = "acknowledged")
       THEN GoTo(s, "write")
       ELSE GoTo(s, "over")
    /\ UNCHANGED <<db, draft, kind>>

\* observe_state(authenticated) writes the state before it looks for challenges.
Report(s) ==
    /\ at[s] = "start" /\ kind[s] = "settle"
    /\ Update(s, "auth", "authenticated", "list")

\* list_in_flight_by_provider.
List(s) ==
    /\ at[s] = "list"
    /\ GoTo(s, IF InFlight THEN "write" ELSE "commit")
    /\ UNCHANGED <<db, draft, kind>>

\* The new status is written whatever the row holds by now.
Target == [acknowledge |-> "acknowledged", complete |-> "resolved",
           cancel |-> "cancelled", settle |-> "resolved"]

WriteChallenge(s) ==
    /\ at[s] = "write"
    /\ Update(s, "challenge", Target[kind[s]],
              CASE kind[s] = "acknowledge" -> "commit"
                [] kind[s] = "complete" -> "authenticate"
                [] OTHER -> "workflow")

\* _set_authenticated: nothing to write when the state says so already.
Authenticate(s) ==
    /\ at[s] = "authenticate"
    /\ IF db.auth = "authenticated"
       THEN GoTo(s, "workflow") /\ UNCHANGED <<db, draft, kind>>
       ELSE Update(s, "auth", "authenticated", "workflow")

\* Mutated form of FinishOK: a finished run is taken for a resumed one.
FinishOKAlways(w) == w.attempts < MaxAttempts

\* _finish_workflow_after_resolution, on the run as it is read now: complete a
\* running one, resume a paused one with budget, raise for a finished one.
FinishOK(w) == w.status = "running" \/ (w.status = "paused" /\ w.attempts < MaxAttempts)

\* Mutated form of Finish: a running run is resumed again.
FinishAgain(w) == [status |-> "running", attempts |-> w.attempts + 1]

Finish(w) == IF w.status = "running" THEN [w EXCEPT !.status = "completed"]
             ELSE [status |-> "running", attempts |-> w.attempts + 1]

\* Mutated form of FinishWorkflow: an error of the workflow is swallowed.
FinishWorkflowSwallows(s) ==
    /\ at[s] = "workflow" /\ kind[s] # "cancel"
    /\ IF FinishOK(db.workflow)
       THEN Update(s, "workflow", Finish(db.workflow), "commit")
       ELSE GoTo(s, "commit") /\ UNCHANGED <<db, draft, kind>>

\* Mutated form of FinishWorkflow: the error is answered and nothing is rolled back.
FinishWorkflowLeavesOpen(s) ==
    /\ at[s] = "workflow" /\ kind[s] # "cancel"
    /\ IF FinishOK(db.workflow)
       THEN Update(s, "workflow", Finish(db.workflow), "commit")
       ELSE GoTo(s, "over") /\ UNCHANGED <<db, draft, kind>>

FinishWorkflow(s) ==
    /\ at[s] = "workflow" /\ kind[s] # "cancel"
    /\ IF FinishOK(db.workflow)
       THEN Update(s, "workflow", Finish(db.workflow), "commit")
       ELSE Abort(s)

\* cancel: a finished run cannot be cancelled.
CancelWorkflow(s) ==
    /\ at[s] = "workflow" /\ kind[s] = "cancel"
    /\ IF db.workflow.status \notin WorkflowTerminal
       THEN Update(s, "workflow", [db.workflow EXCEPT !.status = "cancelled"], "commit")
       ELSE Abort(s)

\* get_session commits after the handler.
Commit(s) ==
    /\ at[s] = "commit"
    /\ db' = [row \in Tables |-> IF Holds(s, row) THEN draft[s][row] ELSE db[row]]
    /\ draft' = [draft EXCEPT ![s] = Empty]
    /\ GoTo(s, "over")
    /\ UNCHANGED kind

\* complete holds the challenge and waits for the state, settle holds the state and
\* waits for the challenge: the database aborts one of the two.
Wants(s, row) ==
    \/ at[s] = "write" /\ row = "challenge"
    \/ at[s] = "authenticate" /\ row = "auth"

Waits(s, t) == \E row \in Tables : Wants(s, row) /\ Holds(t, row)

BreakDeadlock(s) ==
    /\ \E t \in Sessions \ {s} : Waits(s, t) /\ Waits(t, s)
    /\ Abort(s)

Step(s) ==
    \/ Load(s) \/ Report(s) \/ List(s) \/ WriteChallenge(s) \/ Authenticate(s)
    \/ FinishWorkflow(s) \/ CancelWorkflow(s) \/ Commit(s) \/ BreakDeadlock(s)

Next == \E s \in Sessions : Step(s)

Spec == Init /\ [][Next]_vars

\* The event loop resumes every request whose statement the database can answer,
\* and the database looks for deadlocks.
FairSpec == Spec /\ \A s \in Sessions : WF_vars(Step(s))

-----------------------------------------------------------------------------
(* Properties.                                                              *)

\* Rows hold values of their columns, committed or not.
TypeOK ==
    /\ \A row \in Tables :
        /\ db[row] \in ValuesOf[row]
        /\ \A s \in Sessions : draft[s][row] \in ValuesOf[row] \cup {Unwritten}
    /\ kind \in [Sessions -> Kinds]
    /\ at \in [Sessions -> Points]

\* "Completing a challenge resumes the paused workflow exactly once", however many
\* completions, settlements and cancellations overlap.
ResumedOnce == db.workflow.attempts <= 1

\* Overlap never leaves a closed challenge half closed: a resolved one has an
\* authenticated provider and a workflow that went on, a cancelled one a cancelled
\* workflow.
ClosedInStep ==
    /\ db.challenge = "resolved" =>
          db.auth = "authenticated" /\ db.workflow.status \in {"running", "completed"}
    /\ db.challenge = "cancelled" => db.workflow.status = "cancelled"

\* A finished workflow is never revived.
WorkflowFinal ==
    [][db.workflow.status \in WorkflowTerminal => db'.workflow = db.workflow]_vars

\* Every request gets an answer: waiting for rows never lasts forever.
EveryRequestEnds == <>(\A s \in Sessions : at[s] = "over")

-----------------------------------------------------------------------------
(* What the documentation says and overlap breaks.                          *)

\* Any challenge state pauses the linked workflow: an in-flight challenge never
\* has a finished one, which neither complete nor cancel would accept.
InFlightCanBeClosed ==
    InFlight => db.workflow.status \notin WorkflowTerminal
=============================================================================
