------------------------------ MODULE Outreach ------------------------------
(***************************************************************************)
(* Recruiter outreach: drafts to contacts, their approval, the send        *)
(* workflow with its runs, retries and daily limit, responses, suppression *)
(* and cancellation.  One action is one request; requests that overlap are *)
(* in OutreachSessions.  The engine implements MessageDelivery.            *)
(***************************************************************************)
EXTENDS RecruiterContacts

CONSTANTS
    Messages,           \* identities of outreach_messages rows
    Runs,               \* identities of outreach_runs rows (bounds the table)
    Channels,           \* channels drafts are written for
    MaxEdits,           \* bounds the versions of a message
    DailyLimit,         \* outreach_daily_limit
    MaxSendAttempts,    \* outreach_runs.max_attempts
    ApprovalRequired    \* outreach_approval_required

MessageStatus == {"draft", "pending_approval", "approved", "sent", "failed", "cancelled"}
MessageRow == [contact : Contacts, channel : Channels, status : MessageStatus,
               version : 1..MaxEdits, followUp : BOOLEAN, responded : BOOLEAN]
RunRow == [message : Messages, status : {"sent", "failed"}, attempts : Nat, retryAt : BOOLEAN]

\* A message is submitted once, so it has at most one approval request.
ApprovalStatus == {"none", "pending", "snoozed", "approved", "rejected", "cancelled"}

ASSUME OutreachConstantsOK ==
    /\ Channels \subseteq {"email", "professional_network"}
    /\ MaxEdits \in Nat /\ DailyLimit \in Nat /\ MaxSendAttempts \in Nat \ {0}
    /\ ApprovalRequired \in BOOLEAN
    /\ NoRow \notin MessageRow \cup RunRow \cup Runs
    /\ IsFiniteSet(Messages)

VARIABLES
    message,      \* message -> outreach_messages row
    approval,     \* message -> status of its approval request
    run,          \* run -> outreach_runs row
    latestRun,    \* message -> the run get_for_message returns, by created_at
    sentToday,    \* messages whose sent_at is not before today's midnight
    autonomous,   \* is the autonomy level at least 2?
    handed        \* message -> the version the sender accepted, 0 before (history)

outVars == <<message, approval, run, latestRun, sentToday, autonomous, handed>>
outreach == <<contact, outVars>>

-----------------------------------------------------------------------------
Exists(m) == message[m] # NoRow
Status(m) == message[m].status
Has(m, statuses) == Exists(m) /\ message[m].status \in statuses
RetryPending(r) == run[r].status = "failed" /\ run[r].retryAt

\* _require_verified_destination.
Destination(row) ==
    IF row.channel = "email" THEN contact[row.contact].email # "none"
    ELSE ProfileOf[row.contact] # "none"

\* The approval gate of send and retry.
ApprovedToSend(m) == ApprovalRequired => approval[m] = "approved"

\* _enforce_daily_limit.
BelowDailyLimit == Cardinality(sentToday) < DailyLimit

OutInit ==
    /\ ContactInit
    /\ message = [m \in Messages |-> NoRow]
    /\ approval = [m \in Messages |-> "none"]
    /\ run = [r \in Runs |-> NoRow]
    /\ latestRun = [m \in Messages |-> NoRow]
    /\ sentToday = {}
    /\ autonomous \in BOOLEAN
    /\ handed = [m \in Messages |-> 0]

NewDraft(c, ch, followUp) ==
    [contact |-> c, channel |-> ch, status |-> "draft", version |-> 1,
     followUp |-> followUp, responded |-> FALSE]

\* create_draft: for a usable contact; the draft is version 1.
CreateDraft(m, c, ch) ==
    /\ ~Exists(m) /\ MaxEdits > 0
    /\ Usable(c)
    /\ message' = [message EXCEPT ![m] = NewDraft(c, ch, FALSE)]
    /\ UNCHANGED <<contact, approval, run, latestRun, sentToday, autonomous, handed>>

\* create_follow_up: to the contact of a sent message, on its channel.
CreateFollowUp(m, parent) ==
    /\ ~Exists(m) /\ MaxEdits > 0
    /\ Has(parent, {"sent"})
    /\ Usable(message[parent].contact)
    /\ message' = [message EXCEPT ![m] =
                     NewDraft(message[parent].contact, message[parent].channel, TRUE)]
    /\ UNCHANGED <<contact, approval, run, latestRun, sentToday, autonomous, handed>>

\* Mutated form of UpdateDraft: a message waiting for approval may be edited too.
UpdateDraftOrPending(m) ==
    /\ Has(m, {"draft", "pending_approval"}) /\ message[m].version < MaxEdits
    /\ message' = [message EXCEPT ![m].version = @ + 1]
    /\ UNCHANGED <<contact, approval, run, latestRun, sentToday, autonomous, handed>>

\* update_draft: an edit appends a version.
UpdateDraft(m) ==
    /\ Has(m, {"draft"}) /\ message[m].version < MaxEdits
    /\ message' = [message EXCEPT ![m].version = @ + 1]
    /\ UNCHANGED <<contact, approval, run, latestRun, sentToday, autonomous, handed>>

\* submit_for_approval: opens the request, or approves when none is required.
Submit(m) ==
    /\ Has(m, {"draft"})
    /\ message' = [message EXCEPT ![m].status =
                     IF ApprovalRequired THEN "pending_approval" ELSE "approved"]
    /\ approval' = [approval EXCEPT ![m] = IF ApprovalRequired THEN "pending" ELSE @]
    /\ UNCHANGED <<contact, run, latestRun, sentToday, autonomous, handed>>

\* ApprovalService.decide: an open request is decided; only a pending one is snoozed.
Decide(m, decision) ==
    /\ approval[m] \in {"pending", "snoozed"}
    /\ decision = "snoozed" => approval[m] = "pending"
    /\ approval' = [approval EXCEPT ![m] = decision]
    /\ UNCHANGED <<contact, message, run, latestRun, sentToday, autonomous, handed>>

Cancel(m) ==
    /\ Exists(m) /\ Status(m) \notin {"sent", "cancelled"}
    /\ message' = [message EXCEPT ![m].status = "cancelled"]
    /\ UNCHANGED <<contact, approval, run, latestRun, sentToday, autonomous, handed>>

-----------------------------------------------------------------------------
(* One attempt (_attempt): what the sender answers for message m and run r,  *)
(* whose row is as send or retry leaves it.                                  *)

Accepted(r, row) ==
    /\ run' = [run EXCEPT ![r] = [message |-> row.message, status |-> "sent",
                                   attempts |-> row.attempts, retryAt |-> FALSE]]
    /\ message' = [message EXCEPT ![row.message].status = "sent"]
    /\ sentToday' = sentToday \cup {row.message}
    /\ handed' = [handed EXCEPT ![row.message] = message[row.message].version]

\* Mutated form of Refused: the budget does not end the retries.
RefusedForEver(r, row) ==
    /\ \E retryable \in BOOLEAN :
        run' = [run EXCEPT ![r] = [message |-> row.message, status |-> "failed",
                                   attempts |-> row.attempts + 1, retryAt |-> retryable]]
    /\ message' = [message EXCEPT ![row.message].status = "failed"]
    /\ UNCHANGED <<sentToday, handed>>

Refused(r, row) ==
    /\ \E retryable \in BOOLEAN :
        run' = [run EXCEPT ![r] =
                  [message |-> row.message, status |-> "failed", attempts |-> row.attempts + 1,
                   retryAt |-> retryable /\ row.attempts + 1 < MaxSendAttempts]]
    /\ message' = [message EXCEPT ![row.message].status = "failed"]
    /\ UNCHANGED <<sentToday, handed>>

Attempt(r, row) == Accepted(r, row) \/ Refused(r, row)

\* send: a new run for an approved message; a failed run that waits for its retry
\* must be retried instead.
Send(m, r) ==
    /\ autonomous
    /\ Has(m, {"pending_approval", "approved", "failed"})
    /\ Usable(message[m].contact)
    /\ ApprovedToSend(m)
    /\ ~ApprovalRequired => Status(m) # "pending_approval"
    /\ Destination(message[m])
    /\ BelowDailyLimit
    /\ latestRun[m] # NoRow => ~RetryPending(latestRun[m])
    /\ run[r] = NoRow
    /\ latestRun' = [latestRun EXCEPT ![m] = r]
    /\ Attempt(r, [message |-> m, status |-> "failed", attempts |-> 0, retryAt |-> FALSE])
    /\ UNCHANGED <<contact, approval, autonomous>>

\* retry: the same run attempts once more; the autonomy level is not asked again.
Retry(r) ==
    /\ run[r] # NoRow /\ RetryPending(r) /\ run[r].attempts < MaxSendAttempts
    /\ Has(run[r].message, {"failed"})
    /\ Usable(message[run[r].message].contact)
    /\ ApprovedToSend(run[r].message)
    /\ Destination(message[run[r].message])
    /\ BelowDailyLimit
    /\ Attempt(r, [run[r] EXCEPT !.retryAt = FALSE])
    /\ UNCHANGED <<contact, approval, latestRun, autonomous>>

RecordResponse(m) ==
    /\ Has(m, {"sent"})
    /\ message' = [message EXCEPT ![m].responded = TRUE]
    /\ UNCHANGED <<contact, approval, run, latestRun, sentToday, autonomous, handed>>

\* mark_suppressed: the contact of any message, whatever its status.
MarkSuppressed(m) ==
    /\ Exists(m)
    /\ Suppress(message[m].contact)
    /\ UNCHANGED outVars

Midnight ==
    /\ sentToday' = {}
    /\ UNCHANGED <<contact, message, approval, run, latestRun, autonomous, handed>>

\* The service restarts with another autonomy level.
Reconfigure ==
    /\ autonomous' = ~autonomous
    /\ UNCHANGED <<contact, message, approval, run, latestRun, sentToday, handed>>

DraftRequest(m) ==
    \/ \E c \in Contacts, ch \in Channels : CreateDraft(m, c, ch)
    \/ \E parent \in Messages : CreateFollowUp(m, parent)
    \/ UpdateDraft(m) \/ Submit(m) \/ Cancel(m)

DecisionRequest(m) == \E d \in ApprovalStatus \ {"none", "pending"} : Decide(m, d)

SendRequest(m) == \E r \in Runs : Send(m, r)

RetryRequest == \E r \in Runs : Retry(r)

OutNext ==
    \/ DiscoverForJob /\ UNCHANGED outVars
    \/ \E m \in Messages :
        \/ DraftRequest(m) \/ DecisionRequest(m) \/ SendRequest(m)
        \/ RecordResponse(m) \/ MarkSuppressed(m)
    \/ RetryRequest
    \/ Midnight \/ Reconfigure

OutSpec == OutInit /\ [][OutNext]_outreach

-----------------------------------------------------------------------------
(* Properties.                                                              *)

\* Rows keep to their columns' enumerations.
OutTypeOK ==
    /\ ContactTypeOK
    /\ message \in [Messages -> MessageRow \cup {NoRow}]
    /\ approval \in [Messages -> ApprovalStatus]
    /\ run \in [Runs -> RunRow \cup {NoRow}]
    /\ latestRun \in [Messages -> Runs \cup {NoRow}]
    /\ sentToday \subseteq Messages
    /\ autonomous \in BOOLEAN
    /\ handed \in [Messages -> 0..MaxEdits]

RunsOf(m) == {r \in Runs : run[r] # NoRow /\ run[r].message = m}

\* A message and its runs tell one story: it is sent when one run of it was, it
\* failed when its latest run did, and only the latest run may be retried, within
\* the budget, unless the message was cancelled meanwhile.
RunsAgree ==
    \A m \in Messages :
        /\ Has(m, {"sent"}) <=> \E r \in RunsOf(m) : run[r].status = "sent"
        /\ \A q, r \in RunsOf(m) : run[q].status = "sent" /\ run[r].status = "sent" => q = r
        /\ Has(m, {"failed"}) => latestRun[m] \in RunsOf(m) /\ run[latestRun[m]].status = "failed"
        /\ \A r \in RunsOf(m) : RetryPending(r) =>
            /\ r = latestRun[m] /\ Has(m, {"failed", "cancelled"})
            /\ run[r].attempts < MaxSendAttempts

\* Cleared: approved by a human, or submitted when no approval is required.
ClearedMessages ==
    [m \in Messages |-> IF ApprovalRequired THEN approval[m] = "approved"
                        ELSE Has(m, {"approved", "sent", "failed"})]

Texts == [m \in Messages |-> IF Exists(m) THEN message[m].version ELSE 0]

BlockedMessages ==
    {m \in Messages : Exists(m) /\ (Status(m) = "cancelled" \/ contact[message[m].contact].suppressed)}

Delivery == INSTANCE MessageDelivery WITH
    Limit <- DailyLimit, text <- Texts, cleared <- ClearedMessages,
    blocked <- BlockedMessages, delivered <- handed, today <- sentToday

\* The engine keeps the promise of MessageDelivery: the text that was approved is
\* sent, once, unless the message was cancelled or the contact suppressed before,
\* and within the daily limit.
DeliveryHonoured == Delivery!Spec
=============================================================================
