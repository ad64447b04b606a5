-------------------------- MODULE OutreachSessions --------------------------
(***************************************************************************)
(* Overlapping outreach requests, statement by statement, with crashes.    *)
(*                                                                         *)
(* Outreach takes a request for one step.  Here each session is one        *)
(* request in its own READ COMMITTED transaction: it checks what is        *)
(* committed, writes its run or version, calls the sender, writes the      *)
(* message and commits.  A write waits for the row's or the index entry's  *)
(* owner; the checks made before the wait are not made again, and only the *)
(* columns the request changes are written.  The database ends a deadlock  *)
(* by aborting one of its sessions.                                        *)
(***************************************************************************)
EXTENDS Integers, FiniteSets

CONSTANTS
    Sessions,      \* the overlapping requests
    Messages,      \* the messages they are about
    Kinds,         \* which requests
    MaxRuns,       \* bounds the outreach_runs of a message
    DailyLimit     \* outreach_daily_limit

Runs == 1..MaxRuns    \* of one message, by created_at
Status == {"draft", "pending_approval", "approved", "sent", "failed", "cancelled"}
RunStatus == {"none", "sent", "failed", "retry_pending"}    \* committed: never running
Points == {"start", "approve", "limit", "latest", "insert", "reopen", "call", "number",
           "version", "write", "commit", "over"}

ASSUME OutreachSessionsOK ==
    /\ MaxRuns \in Nat \ {0} /\ DailyLimit \in Nat
    /\ Kinds \subseteq {"send", "retry", "edit", "cancel", "submit"}

VARIABLES
    status,      \* message -> committed status
    dated,       \* the messages whose sent_at is committed, all of them today
    text,        \* message -> the version its subject and body are
    versions,    \* message -> highest committed version
    runs,        \* message -> run -> committed status
    agreed,      \* the messages whose approval request was approved
    kind,        \* session -> its request
    about,       \* session -> its message
    at,          \* session -> its next statement
    seen,        \* session -> the status it loaded
    target,      \* session -> the run or the version number it writes
    outcome,     \* session -> what the sender answered, "none" before
    owner,       \* message -> the session that has written its row, if any
    accepted,    \* message -> sends the sender has accepted (history)
    forgotten    \* message -> accepted sends whose transaction was lost (history)

db == <<status, dated, text, versions, runs>>
local == <<kind, about, at, seen, target, outcome, owner>>
vars == <<db, agreed, local, accepted, forgotten>>

Nobody == "nobody"

-----------------------------------------------------------------------------
\* A session holds the message's index entry from the write of its run, and the
\* key of its version from the insert, until its transaction ends.
Sending(s) == kind[s] \in {"send", "retry"} /\ at[s] \in {"call", "write", "commit"}
Versioning(s) == kind[s] = "edit" /\ at[s] \in {"write", "commit"}

\* Mutated form of Busy: the index only sees runs, not their transactions.
BusyWithRun(s) == \E t \in Sessions \ {s} : Sending(t) /\ about[t] = about[s]
                                              /\ target[t] = target[s]

Busy(s) == \E t \in Sessions \ {s} : Sending(t) /\ about[t] = about[s]
RowFree(s) == owner[about[s]] \in {Nobody, s}

\* Mutated form of NumberTaken: the version number is not unique.
NumberFree(s) == FALSE

NumberTaken(s) == versions[about[s]] >= target[s]
NumberBusy(s) == \E t \in Sessions \ {s} :
                    Versioning(t) /\ about[t] = about[s] /\ target[t] = target[s]

\* A message is a draft, waits for its approval, or failed with its run retryable
\* or not.
Init ==
    /\ status \in [Messages -> {"draft", "pending_approval", "failed"}]
    /\ agreed = {m \in Messages : status[m] = "failed"}
    /\ dated = {}
    /\ text = [m \in Messages |-> 1] /\ versions = [m \in Messages |-> 1]
    /\ \E failure \in {"failed", "retry_pending"} :
        runs = [m \in Messages |-> [r \in Runs |->
                  IF r = 1 /\ status[m] = "failed" THEN failure ELSE "none"]]
    /\ kind \in [Sessions -> Kinds]
    /\ about \in [Sessions -> Messages]
    /\ at = [s \in Sessions |-> "start"]
    /\ seen = [s \in Sessions |-> "none"]
    /\ target = [s \in Sessions |-> 0]
    /\ outcome = [s \in Sessions |-> "none"]
    /\ owner = [m \in Messages |-> Nobody]
    /\ accepted = [m \in Messages |-> 0] /\ forgotten = [m \in Messages |-> 0]

GoTo(s, point) == at' = [at EXCEPT ![s] = point]
Move(s, point) ==
    /\ GoTo(s, point)
    /\ UNCHANGED <<db, agreed, kind, about, seen, target, outcome, owner, accepted, forgotten>>

\* Mutated form of Release: the connection is kept open with its row locks.
ReleaseNothing(s) == UNCHANGED owner

Release(s) == owner' = [m \in Messages |-> IF owner[m] = s THEN Nobody ELSE owner[m]]

\* get_session rolls back: a check failed, a unique violation, a deadlock, a crash.
Abort(s) ==
    /\ Release(s)
    /\ GoTo(s, "over")
    /\ forgotten' = [forgotten EXCEPT ![about[s]] =
                       @ + IF Sending(s) /\ outcome[s] = "sent" THEN 1 ELSE 0]
    /\ UNCHANGED <<db, agreed, kind, about, seen, target, outcome, accepted>>

-----------------------------------------------------------------------------
(* The statements.                                                          *)

\* What each request checks when it loads the message.
Admits(s) ==
    LET now == status[about[s]]
    IN  CASE kind[s] = "send" -> /\ now \in {"pending_approval", "approved", "failed"}
                                 /\ about[s] \in agreed
          [] kind[s] = "retry" -> now = "failed" /\ about[s] \in agreed
          [] kind[s] = "cancel" -> now \notin {"sent", "cancelled"}
          [] OTHER -> now = "draft"

AfterLoad(s) ==
    CASE kind[s] = "send" -> IF status[about[s]] = "pending_approval" THEN "approve" ELSE "limit"
      [] kind[s] = "retry" -> "limit"
      [] kind[s] = "edit" -> "number"
      [] OTHER -> "write"

\* Load the message; retry has loaded a run that waits for its retry before.
Load(s) ==
    /\ at[s] = "start"
    /\ IF Admits(s)
       THEN /\ IF kind[s] = "retry"
               THEN \E r \in Runs : /\ runs[about[s]][r] = "retry_pending"
                                    /\ target' = [target EXCEPT ![s] = r]
               ELSE UNCHANGED target
            /\ GoTo(s, AfterLoad(s))
            /\ seen' = [seen EXCEPT ![s] = status[about[s]]]
            /\ UNCHANGED <<db, agreed, kind, about, outcome, owner, accepted, forgotten>>
       ELSE Move(s, "over")

NothingToRetry(s) ==
    /\ at[s] = "start" /\ kind[s] = "retry"
    /\ \A r \in Runs : runs[about[s]][r] # "retry_pending"
    /\ Move(s, "over")

\* send: a message seen pending is marked approved, whatever it has become.
MarkApproved(s) ==
    /\ at[s] = "approve" /\ RowFree(s)
    /\ owner' = [owner EXCEPT ![about[s]] = s]
    /\ seen' = [seen EXCEPT ![s] = "approved"]
    /\ GoTo(s, "limit")
    /\ UNCHANGED <<db, agreed, kind, about, target, outcome, accepted, forgotten>>

\* _enforce_daily_limit: messages that are sent and were sent today.
SentToday == {m \in dated : status[m] = "sent"}

CheckLimit(s) ==
    /\ at[s] = "limit"
    /\ IF Cardinality(SentToday) >= DailyLimit THEN Abort(s)
       ELSE Move(s, IF kind[s] = "send" THEN "latest" ELSE "reopen")

LastRun(m) == Cardinality({r \in Runs : runs[m][r] # "none"})

CheckLatest(s) ==
    /\ at[s] = "latest"
    /\ LET last == LastRun(about[s])
       IN  IF last # 0 /\ runs[about[s]][last] = "retry_pending" THEN Abort(s)
           ELSE Move(s, "insert")

\* Insert the run, or set it running again; the open-run index lets one through.
WriteRun(s) ==
    /\ at[s] \in {"insert", "reopen"} /\ ~Busy(s)
    /\ at[s] = "insert" => LastRun(about[s]) < MaxRuns
    /\ target' = [target EXCEPT ![s] = IF at[s] = "insert" THEN LastRun(about[s]) + 1 ELSE @]
    /\ GoTo(s, "call")
    /\ UNCHANGED <<db, agreed, kind, about, seen, outcome, owner, accepted, forgotten>>

\* _attempt: the sender answers and the run is updated.
Call(s) ==
    /\ at[s] = "call"
    /\ \E answer \in RunStatus \ {"none"} :
        /\ outcome' = [outcome EXCEPT ![s] = answer]
        /\ accepted' = [accepted EXCEPT ![about[s]] = @ + IF answer = "sent" THEN 1 ELSE 0]
    /\ GoTo(s, "write")
    /\ UNCHANGED <<db, agreed, kind, about, seen, target, owner, forgotten>>

\* update_draft: next_version_number, then the insert of the version.
ReadNumber(s) ==
    /\ at[s] = "number"
    /\ target' = [target EXCEPT ![s] = versions[about[s]] + 1]
    /\ GoTo(s, "version")
    /\ UNCHANGED <<db, agreed, kind, about, seen, outcome, owner, accepted, forgotten>>

InsertVersion(s) ==
    /\ at[s] = "version" /\ ~NumberBusy(s)
    /\ IF NumberTaken(s) THEN Abort(s) ELSE Move(s, "write")

\* The last update of the message waits for its row.
WriteMessage(s) ==
    /\ at[s] = "write" /\ RowFree(s)
    /\ owner' = [owner EXCEPT ![about[s]] = s]
    /\ GoTo(s, "commit")
    /\ UNCHANGED <<db, agreed, kind, about, seen, target, outcome, accepted, forgotten>>

\* The status a session leaves; one it loaded already is not written again.
NewStatus(s) ==
    CASE kind[s] = "cancel" -> "cancelled"
      [] kind[s] = "submit" -> "pending_approval"
      [] kind[s] = "edit" -> status[about[s]]
      [] OTHER -> IF outcome[s] = "sent" THEN "sent"
                  ELSE IF seen[s] = "failed" THEN status[about[s]] ELSE "failed"

\* Mutated form of Dated: a request writes every column as it loaded it.
DatedAsLoaded(s) == IF outcome[s] = "sent" THEN dated \cup {about[s]} ELSE dated \ {about[s]}

Dated(s) == IF outcome[s] = "sent" THEN dated \cup {about[s]} ELSE dated

\* get_session commits.
Commit(s) ==
    /\ at[s] = "commit"
    /\ status' = [status EXCEPT ![about[s]] = NewStatus(s)]
    /\ dated' = Dated(s)
    /\ IF kind[s] = "edit"
       THEN /\ text' = [text EXCEPT ![about[s]] = target[s]]
            /\ versions' = [versions EXCEPT ![about[s]] =
                              IF target[s] > @ THEN target[s] ELSE @]
       ELSE UNCHANGED <<text, versions>>
    /\ runs' = IF Sending(s) THEN [runs EXCEPT ![about[s]][target[s]] = outcome[s]] ELSE runs
    /\ Release(s)
    /\ GoTo(s, "over")
    /\ UNCHANGED <<agreed, kind, about, seen, target, outcome, accepted, forgotten>>

\* A human approves a message that waits for it.
HumanApproves(m) ==
    /\ status[m] = "pending_approval"
    /\ agreed' = agreed \cup {m}
    /\ UNCHANGED <<db, local, accepted, forgotten>>

\* The process or its connection dies: the database rolls back, the mail is out.
Crash(s) == at[s] \notin {"start", "over"} /\ Abort(s)

\* One session has marked the message approved and waits for the index, which
\* another holds that waits for the message: the database aborts either.
Deadlocked(s, t) ==
    /\ at[s] = "insert" /\ owner[about[s]] = s
    /\ at[t] = "write" /\ Sending(t) /\ about[t] = about[s] /\ t # s

EndDeadlock ==
    \E s, t \in Sessions : Deadlocked(s, t) /\ \E victim \in {s, t} : Abort(victim)

Step(s) ==
    \/ Load(s) \/ NothingToRetry(s) \/ MarkApproved(s) \/ CheckLimit(s) \/ CheckLatest(s)
    \/ WriteRun(s) \/ Call(s) \/ ReadNumber(s) \/ InsertVersion(s)
    \/ WriteMessage(s) \/ Commit(s)

Next ==
    \/ \E s \in Sessions : Step(s) \/ Crash(s)
    \/ \E m \in Messages : HumanApproves(m)
    \/ EndDeadlock

Spec == Init /\ [][Next]_vars

\* The event loop resumes every request whose statement the database can answer, and
\* the database's deadlock timeout fires.
FairSpec == Spec /\ (\A s \in Sessions : WF_vars(Step(s))) /\ WF_vars(EndDeadlock)

-----------------------------------------------------------------------------
(* Properties.                                                              *)

\* Rows and requests keep to their enumerations.
TypeOK ==
    /\ status \in [Messages -> Status]
    /\ dated \subseteq Messages /\ agreed \subseteq Messages
    /\ text \in [Messages -> Nat] /\ versions \in [Messages -> Nat]
    /\ runs \in [Messages -> [Runs -> RunStatus]]
    /\ kind \in [Sessions -> Kinds] /\ about \in [Sessions -> Messages]
    /\ at \in [Sessions -> Points]
    /\ seen \in [Sessions -> Status \cup {"none"}]
    /\ target \in [Sessions -> Nat]
    /\ outcome \in [Sessions -> RunStatus]
    /\ owner \in [Messages -> Sessions \cup {Nobody}]
    /\ accepted \in [Messages -> Nat] /\ forgotten \in [Messages -> Nat]

\* "At most one non-terminal run may exist per message": two requests are never in the
\* sender for one message, nor about to commit what it answered.
OneSenderPerMessage ==
    \A s, t \in Sessions : Sending(s) /\ Sending(t) /\ about[s] = about[t] => s = t

\* "Every edit appends a version row": the message reads as its highest version,
\* however edits, submissions and cancellations overlap.
LastVersionIsText == \A m \in Messages : text[m] = versions[m]

\* A send that was accepted and not lost has left its date on the message, or is about
\* to, whatever other requests write to the row.
AcceptedIsDated ==
    \A m \in Messages : accepted[m] > forgotten[m] =>
        \/ m \in dated
        \/ \E s \in Sessions : about[s] = m /\ Sending(s) /\ outcome[s] = "sent"

\* Waiting for the index, the row and the version number always ends.
EveryRequestEnds == <>(\A s \in Sessions : at[s] = "over")

=============================================================================
