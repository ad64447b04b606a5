-------------------------- MODULE ApprovalSessions --------------------------
(***************************************************************************)
(* Overlapping requests about the approvals of one target: requests for an *)
(* approval, which alert the candidate and may create her notification     *)
(* preferences, and decisions on one.  Each session is one request in its  *)
(* own READ COMMITTED transaction.  No unique index guards the table: what *)
(* a session read may be stale when it writes, and a write waits for the   *)
(* row's writer without asking again.                                      *)
(***************************************************************************)
EXTENDS Integers, Sequences, FiniteSets

CONSTANTS
    Sessions,      \* the requests
    Approvals,     \* identities of approvals rows
    Kinds          \* which requests

Decisions == {"approved", "rejected", "cancelled", "snoozed"}
OpenStatus == {"pending", "snoozed"}
Nothing == "nothing"
Points == {"start", "insert", "notify", "preferences", "update", "log", "commit",
           "committed", "rolledBack"}

ASSUME ApprovalSessionsOK ==
    /\ IsFiniteSet(Sessions) /\ IsFiniteSet(Approvals)
    /\ Kinds \subseteq Decisions \cup {"request"}
    /\ Nothing \notin Approvals

VARIABLES
    status,       \* approval -> committed status, "none" before it is committed
    preferred,    \* are the candidate's notification preferences committed?
    kind,         \* session -> "request", or the decision it applies
    about,        \* session -> the approval it creates or decides
    at,           \* session -> its next statement
    creates,      \* the sessions whose transaction inserted the preferences
    log,          \* approval -> sessions by decided_at of their approval_decisions row
    overlap       \* pairs of sessions that were running at one time (history)

vars == <<status, preferred, kind, about, at, creates, log, overlap>>

-----------------------------------------------------------------------------
Over(s) == at[s] \in {"committed", "rolledBack"}
Running(s) == at[s] # "start" /\ ~Over(s)

\* Mutated form of Writers: the row is written outside the transaction of the log.
NoWriters(a) == {}

\* Sessions that have written the row of a, which lock it until they end.
Writers(a) == {s \in Sessions : Running(s) /\ about[s] = a /\ at[s] \in {"log", "commit"}
                                /\ kind[s] # "request"}

\* An id that no row has, committed or not.
Fresh(a) == status[a] = "none" /\ \A s \in Sessions : about[s] # a

Init ==
    /\ status = [a \in Approvals |-> "none"]
    /\ preferred \in BOOLEAN
    /\ kind \in [Sessions -> Kinds]
    /\ about = [s \in Sessions |-> Nothing]
    /\ at = [s \in Sessions |-> "start"]
    /\ creates = {}
    /\ log = [a \in Approvals |-> <<>>]
    /\ overlap = {}

GoTo(s, point) == at' = [at EXCEPT ![s] = point]

Begin(s) ==
    /\ at[s] = "start"
    /\ overlap' = overlap \cup {{s, t} : t \in {u \in Sessions : Running(u)}}

\* Mutated form of OpenRows: a snoozed request is not looked for.
OpenRowsPending == {a \in Approvals : status[a] = "pending"}

\* get_open_for_target, which raises when it finds more than one.
OpenRows == {a \in Approvals : status[a] \in OpenStatus}

\* request_approval returns the open approval, or goes on to create one.
LoadOpen(s) ==
    /\ kind[s] = "request" /\ Begin(s)
    /\ GoTo(s, CASE OpenRows = {} -> "insert"
                 [] Cardinality(OpenRows) = 1 -> "committed"
                 [] OTHER -> "rolledBack")
    /\ UNCHANGED <<status, preferred, kind, about, creates, log>>

InsertApproval(s) ==
    /\ at[s] = "insert"
    /\ \E a \in Approvals : Fresh(a) /\ about' = [about EXCEPT ![s] = a]
    /\ GoTo(s, "notify")
    /\ UNCHANGED <<status, preferred, kind, creates, log, overlap>>

\* notify reads the preferences, and creates them for a candidate who has none.
Notify(s) ==
    /\ at[s] = "notify"
    /\ GoTo(s, IF preferred THEN "commit" ELSE "preferences")
    /\ UNCHANGED <<status, preferred, kind, about, creates, log, overlap>>

\* The insert waits for another one that is not committed, and fails on one that is.
InsertPreferences(s) ==
    /\ at[s] = "preferences" /\ \A t \in creates : Over(t)
    /\ IF preferred
       THEN GoTo(s, "rolledBack") /\ UNCHANGED creates
       ELSE GoTo(s, "commit") /\ creates' = creates \cup {s}
    /\ UNCHANGED <<status, preferred, kind, about, log, overlap>>

-----------------------------------------------------------------------------
\* decide: from pending or snoozed; only a pending approval can be snoozed.
MayDecide(s, a) ==
    /\ status[a] \in OpenStatus
    /\ kind[s] = "snoozed" => status[a] = "pending"

LoadApproval(s) ==
    /\ kind[s] # "request" /\ Begin(s)
    /\ \E a \in {b \in Approvals : status[b] # "none"} :
        /\ about' = [about EXCEPT ![s] = a]
        /\ GoTo(s, IF MayDecide(s, a) THEN "update" ELSE "rolledBack")
    /\ UNCHANGED <<status, preferred, kind, creates, log>>

\* The update waits for the row; the status that was checked is not checked again.
UpdateApproval(s) ==
    /\ at[s] = "update" /\ Writers(about[s]) = {}
    /\ GoTo(s, "log")
    /\ UNCHANGED <<status, preferred, kind, about, creates, log, overlap>>

LogDecision(s) ==
    /\ at[s] = "log"
    /\ log' = [log EXCEPT ![about[s]] = Append(@, s)]
    /\ GoTo(s, "commit")
    /\ UNCHANGED <<status, preferred, kind, about, creates, overlap>>

Commit(s) ==
    /\ at[s] = "commit"
    /\ status' = [status EXCEPT ![about[s]] =
                    IF kind[s] = "request" THEN "pending" ELSE kind[s]]
    /\ preferred' = (preferred \/ s \in creates)
    /\ GoTo(s, "committed")
    /\ UNCHANGED <<kind, about, creates, log, overlap>>

\* The process, its connection or the client goes away: everything is rolled back.
Crash(s) ==
    /\ Running(s)
    /\ GoTo(s, "rolledBack")
    /\ UNCHANGED <<status, preferred, kind, about, creates, log, overlap>>

RequestStep(s) == LoadOpen(s) \/ InsertApproval(s) \/ Notify(s) \/ InsertPreferences(s)
DecisionStep(s) == LoadApproval(s) \/ UpdateApproval(s) \/ LogDecision(s)

Next == \E s \in Sessions : RequestStep(s) \/ DecisionStep(s) \/ Commit(s) \/ Crash(s)

Spec == Init /\ [][Next]_vars

-----------------------------------------------------------------------------
(* Properties.                                                              *)

\* Rows and sessions keep to their enumerations.
TypeOK ==
    /\ status \in [Approvals -> Decisions \cup {"none", "pending"}]
    /\ preferred \in BOOLEAN
    /\ kind \in [Sessions -> Kinds]
    /\ about \in [Sessions -> Approvals \cup {Nothing}]
    /\ at \in [Sessions -> Points]
    /\ creates \subseteq Sessions
    /\ log \in [Approvals -> Seq(Sessions)]
    /\ overlap \subseteq SUBSET Sessions

\* Where the committed decisions of an approval are in its log.
Decided(a) == {i \in DOMAIN log[a] : at[log[a][i]] = "committed"}

Latest(a, i) == i \in Decided(a) /\ \A j \in Decided(a) : j <= i
Successive(a, i, j) == {i, j} \subseteq Decided(a) /\ i < j /\ \A k \in Decided(a) : k <= i \/ j <= k

\* The decision log tells how the approval came by its status: however decisions
\* overlap, the last one in the log is the one the row shows.
DecisionsLogged ==
    \A a \in Approvals :
        IF Decided(a) = {} THEN status[a] \in {"none", "pending"}
        ELSE \E i \in DOMAIN log[a] : Latest(a, i) /\ status[a] = kind[log[a][i]]

\* The requests and decisions that were committed for an approval.
Committed(a) == {s \in Sessions : about[s] = a /\ at[s] = "committed"}

SecondOpenOverlapped ==
    \A a, b \in Approvals : a # b /\ {status[a], status[b]} \subseteq OpenStatus =>
        \E s, t \in Committed(a) \cup Committed(b) : s # t /\ {s, t} \in overlap

SecondDecisionOverlapped ==
    \A a \in Approvals : \A i, j \in DOMAIN log[a] :
        Successive(a, i, j) /\ kind[log[a][i]] # "snoozed" => {log[a][i], log[a][j]} \in overlap

\* A target has a second open approval, which get_open_for_target cannot read, only
\* after requests that overlapped, or a snooze that overlapped another decision; and a
\* decision that follows an approval, a rejection or a cancellation in the log was made
\* by a request that had loaded the approval before.
SecondsOverlapped == SecondOpenOverlapped /\ SecondDecisionOverlapped
=============================================================================
