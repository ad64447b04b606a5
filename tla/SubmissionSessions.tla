------------------------- MODULE SubmissionSessions -------------------------
(***************************************************************************)
(* Overlapping execute and retry requests for one application, statement   *)
(* by statement, with crashes.                                             *)
(*                                                                         *)
(* ApplicationAutomation takes a request for one step.  Here each session  *)
(* is one request in its own READ COMMITTED transaction: it checks what is *)
(* committed, writes its run, calls the submission adapter and commits.    *)
(* The partial unique index on automation_runs makes a session that writes *)
(* an active run wait for every other transaction that wrote one, and      *)
(* fails it when an active run of the application is committed by then;    *)
(* the checks made before the wait are not made again.  What the adapter   *)
(* submitted stays submitted when the transaction is lost.                 *)
(***************************************************************************)
EXTENDS Integers

CONSTANTS
    Sessions,         \* the overlapping requests
    MaxRuns,          \* bounds the automation_runs of the application
    MaxRunAttempts,   \* automation_runs.max_attempts
    NoRow             \* the absent row

Runs == 1..MaxRuns    \* by created_at

\* retry_pending: failed with next_retry_at; resumable: paused, its challenge closed.
ActiveStatus == {"running", "paused", "resumable"}
RunStatus == ActiveStatus \cup {"retry_pending", "failed", "submitted"}
RunRow == [status : RunStatus, attempts : Nat]
Points == {"start", "runs", "provider", "create_provider", "insert", "reopen", "call",
           "commit", "over"}

ASSUME SubmissionConstantsOK ==
    /\ MaxRuns \in Nat
    /\ MaxRunAttempts \in Nat \ {0}
    /\ NoRow \notin RunRow \cup Runs

VARIABLES
    application,   \* committed applications.status
    provider,      \* is the site's auth_providers row committed?
    runs,          \* run -> committed automation_runs row
    draft,         \* session -> the run it has written and not committed
    creating,      \* session -> has it inserted the provider and not committed?
    kind,          \* session -> execute or retry
    target,        \* session -> the run it works on
    at,            \* session -> its next statement
    sent,          \* submissions the site has accepted
    forgotten,     \* accepted submissions whose transaction was lost
    unsuccessful   \* run -> committed attempts that did not submit

db == <<application, provider, runs, unsuccessful>>
vars == <<db, draft, creating, kind, target, at, sent, forgotten>>

-----------------------------------------------------------------------------
Committed(r) == runs[r] # NoRow
Latest(r) == Committed(r) /\ \A q \in Runs : q > r => ~Committed(q)
Live(row) == row.status \in ActiveStatus \cup {"retry_pending"}
Writing(s) == draft[s] # NoRow

\* Mutated form of Busy: rows are locked, the index is not there.
BusyWithRow(s, r) == \E t \in Sessions \ {s} : Writing(t) /\ target[t] = r

\* Mutated form of Busy: a run that has left the active statuses no longer waits
\* for its transaction.
BusyWhileActive(s, r) ==
    \E t \in Sessions \ {s} : Writing(t) /\ draft[t].status \in ActiveStatus

\* Writing an active run waits for every transaction that wrote one: its index
\* entry stays until it ends, also when it has finished that run since.
Busy(s, r) == \E t \in Sessions \ {s} : Writing(t)

\* The unique violation: another active run of the application is committed.
Taken(r) == \E q \in Runs \ {r} : Committed(q) /\ runs[q].status \in ActiveStatus

-----------------------------------------------------------------------------
\* The application starts with no run, or with one that may be retried.
Init ==
    /\ application = "ready"
    /\ provider \in BOOLEAN
    /\ \E row \in {NoRow} \cup [status : {"retry_pending", "resumable"},
                                attempts : 1..(MaxRunAttempts - 1)] :
        /\ row # NoRow => provider /\ MaxRuns > 0
        /\ runs = [r \in Runs |-> IF r = 1 THEN row ELSE NoRow]
        /\ unsuccessful = [r \in Runs |-> IF r = 1 /\ row # NoRow THEN row.attempts ELSE 0]
    /\ draft = [s \in Sessions |-> NoRow]
    /\ creating = [s \in Sessions |-> FALSE]
    /\ kind \in [Sessions -> {"execute", "retry"}]
    /\ target = [s \in Sessions |-> NoRow]
    /\ at = [s \in Sessions |-> "start"]
    /\ sent = 0
    /\ forgotten = 0

GoTo(s, point) == at' = [at EXCEPT ![s] = point]
Move(s, point) == GoTo(s, point) /\ UNCHANGED <<db, draft, creating, kind, target, sent, forgotten>>

\* Mutated form of Rollback: the session is left open with its locks.
RollbackLeavesOpen(s) == UNCHANGED <<draft, creating>>

\* get_session rolls back when the handler raises.
Rollback(s) ==
    /\ draft' = [draft EXCEPT ![s] = NoRow]
    /\ creating' = [creating EXCEPT ![s] = FALSE]

Abort(s) ==
    /\ Rollback(s)
    /\ GoTo(s, "over")
    /\ UNCHANGED <<db, kind, target, sent, forgotten>>

\* execute: _check_application_ready.
CheckApplication(s) ==
    /\ at[s] = "start" /\ kind[s] = "execute"
    /\ Move(s, IF application = "submitted" THEN "over" ELSE "runs")

\* execute: the latest run must neither be active nor wait for its retry.
CheckRuns(s) ==
    /\ at[s] = "runs"
    /\ Move(s, IF \E r \in Runs : Latest(r) /\ Live(runs[r]) THEN "over" ELSE "provider")

\* execute: get_or_create_for_site looks for the provider ...
FindProvider(s) ==
    /\ at[s] = "provider"
    /\ Move(s, IF provider THEN "insert" ELSE "create_provider")

\* ... and inserts it; its unique name makes a second insert wait and fail.
CreateProvider(s) ==
    /\ at[s] = "create_provider"
    /\ \A t \in Sessions \ {s} : ~creating[t]
    /\ IF provider THEN Abort(s)
       ELSE /\ creating' = [creating EXCEPT ![s] = TRUE]
            /\ GoTo(s, "insert")
            /\ UNCHANGED <<db, draft, kind, target, sent, forgotten>>

NewRow == [status |-> "running", attempts |-> 0]

Write(s, r, row) ==
    /\ draft' = [draft EXCEPT ![s] = row]
    /\ target' = [target EXCEPT ![s] = r]
    /\ GoTo(s, "call")
    /\ UNCHANGED <<db, creating, kind, sent, forgotten>>

\* execute: insert the run.
InsertRun(s, r) ==
    /\ at[s] = "insert"
    /\ \A q \in Runs : Committed(q) <=> q < r
    /\ ~Busy(s, r)
    /\ IF Taken(r) THEN Abort(s) ELSE Write(s, r, NewRow)

\* retry: load the run and check it; there is nothing to retry otherwise.
RetryOK(row) ==
    /\ row.status \in {"retry_pending", "resumable"}
    /\ row.attempts < MaxRunAttempts

LoadRun(s, r) ==
    /\ at[s] = "start" /\ kind[s] = "retry"
    /\ Committed(r)
    /\ IF RetryOK(runs[r])
       THEN /\ target' = [target EXCEPT ![s] = r]
            /\ GoTo(s, "reopen")
            /\ UNCHANGED <<db, draft, creating, kind, sent, forgotten>>
       ELSE Move(s, "over")

NoRunToLoad(s) ==
    /\ at[s] = "start" /\ kind[s] = "retry"
    /\ \A r \in Runs : ~Committed(r)
    /\ Move(s, "over")

\* retry: the run becomes RUNNING whatever it has become since, and is read again.
Reopen(s) ==
    /\ at[s] = "reopen"
    /\ ~Busy(s, target[s])
    /\ IF Taken(target[s]) THEN Abort(s)
       ELSE Write(s, target[s], [runs[target[s]] EXCEPT !.status = "running"])

\* The row after an attempt that did not submit.
Counted(row, status) == [status |-> status, attempts |-> row.attempts + 1]

\* The adapter answers and the run is updated with its answer.
Outcomes(row) ==
    {[row EXCEPT !.status = "submitted"],
     Counted(row, "paused"),
     Counted(row, IF row.attempts + 1 < MaxRunAttempts THEN "retry_pending" ELSE "failed")}

Call(s) ==
    /\ at[s] = "call"
    /\ \E row \in Outcomes(draft[s]) :
        /\ draft' = [draft EXCEPT ![s] = row]
        /\ sent' = sent + IF row.status = "submitted" THEN 1 ELSE 0
    /\ GoTo(s, "commit")
    /\ UNCHANGED <<db, creating, kind, target, forgotten>>

Submitting(s) == at[s] = "commit" /\ draft[s].status = "submitted"

\* Mutated form of Commit: the application is not marked with its run.
CommitRunOnly(s) ==
    /\ at[s] = "commit"
    /\ runs' = [runs EXCEPT ![target[s]] = draft[s]]
    /\ unsuccessful' = [unsuccessful EXCEPT ![target[s]] =
                          @ + IF Submitting(s) THEN 0 ELSE 1]
    /\ provider' = (provider \/ creating[s])
    /\ Rollback(s)
    /\ GoTo(s, "over")
    /\ UNCHANGED <<application, kind, target, sent, forgotten>>

\* get_session commits: the run, the application it submitted and the provider.
Commit(s) ==
    /\ at[s] = "commit"
    /\ runs' = [runs EXCEPT ![target[s]] = draft[s]]
    /\ unsuccessful' = [unsuccessful EXCEPT ![target[s]] =
                          @ + IF Submitting(s) THEN 0 ELSE 1]
    /\ application' = IF Submitting(s) THEN "submitted" ELSE application
    /\ provider' = (provider \/ creating[s])
    /\ Rollback(s)
    /\ GoTo(s, "over")
    /\ UNCHANGED <<kind, target, sent, forgotten>>

\* The process or its connection dies: the database rolls back, the site does not.
Crash(s) ==
    /\ at[s] \notin {"start", "over"}
    /\ Rollback(s)
    /\ GoTo(s, "over")
    /\ forgotten' = forgotten + IF Submitting(s) THEN 1 ELSE 0
    /\ UNCHANGED <<db, kind, target, sent>>

\* The challenge of a paused run is closed.
CloseChallenge(r) ==
    /\ Committed(r) /\ runs[r].status = "paused"
    /\ runs' = [runs EXCEPT ![r].status = "resumable"]
    /\ UNCHANGED <<application, provider, unsuccessful, draft, creating, kind, target, at,
                   sent, forgotten>>

Step(s) ==
    \/ CheckApplication(s) \/ CheckRuns(s) \/ FindProvider(s) \/ CreateProvider(s)
    \/ NoRunToLoad(s) \/ Reopen(s) \/ Call(s) \/ Commit(s)
    \/ \E r \in Runs : InsertRun(s, r) \/ LoadRun(s, r)

Next ==
    \/ \E s \in Sessions : Step(s) \/ Crash(s)
    \/ \E r \in Runs : CloseChallenge(r)

Spec == Init /\ [][Next]_vars

\* The event loop resumes every request whose statement the database can answer.
FairSpec == Spec /\ \A s \in Sessions : WF_vars(Step(s))

-----------------------------------------------------------------------------
(* Properties.                                                              *)

\* Rows keep to their columns' enumerations, committed or not.
TypeOK ==
    /\ application \in {"ready", "submitted"}
    /\ provider \in BOOLEAN
    /\ runs \in [Runs -> RunRow \cup {NoRow}]
    /\ draft \in [Sessions -> RunRow \cup {NoRow}]
    /\ creating \in [Sessions -> BOOLEAN]
    /\ kind \in [Sessions -> {"execute", "retry"}]
    /\ target \in [Sessions -> Runs \cup {NoRow}]
    /\ at \in [Sessions -> Points]
    /\ sent \in Nat /\ forgotten \in Nat
    /\ unsuccessful \in [Runs -> Nat]

\* "A submission can never be launched twice concurrently": of all the requests
\* that are to call the adapter or have called it and not committed, there is one.
NeverConcurrent ==
    \A s, t \in Sessions :
        at[s] \in {"call", "commit"} /\ at[t] \in {"call", "commit"} => s = t

\* "At most one non-terminal run may exist per application": however the requests
\* overlap, fail or crash, two runs are never active.
OneActiveRun ==
    \A q, r \in Runs :
        /\ Committed(q) /\ Committed(r)
        /\ runs[q].status \in ActiveStatus /\ runs[r].status \in ActiveStatus
        => q = r

\* No attempt is lost to an overlapping one: the counter of a run says how many
\* attempts failed or were handed off.
NoLostAttempt ==
    \A r \in Runs : Committed(r) => runs[r].attempts = unsuccessful[r]

\* An accepted submission is recorded, about to be, or lost to a crash: no refusal,
\* unique violation or overlap makes the application forget it.
AcceptedIsKept ==
    sent > forgotten =>
        application = "submitted" \/ \E s \in Sessions : Submitting(s)

\* Waiting for the index and for the provider's name always ends.
EveryRequestEnds == <>(\A s \in Sessions : at[s] = "over")

-----------------------------------------------------------------------------
(* What the documentation says and overlap breaks.                          *)

\* "Executing an already submitted/withdrawn application is rejected": no execute
\* request submits an application that is recorded as submitted.
SubmittedIsRejected ==
    [][\A s \in Sessions : kind[s] = "execute" /\ ~Submitting(s) /\ Submitting(s)'
        => application # "submitted"]_vars
=============================================================================
