---------------------------- MODULE Recruiting_proofs ---------------------------
(***************************************************************************)
(* Proofs about recruiting for any contacts, messages, runs, jobs, reviews *)
(* and limits: the rows and runs of the outreach engine, the opt-out, and  *)
(* that it implements MessageDelivery; the signals the generator stores    *)
(* pass its evaluation, what is prepared was reviewed, and a settled signal*)
(* stays settled.                                                          *)
(***************************************************************************)
EXTENDS Outreach, RecruiterSignals, TLAPS

\* Discovery and suppression forget no contact, un-suppress none and change no verdict.
LEMMA ContactsKept ==
    ASSUME ContactTypeOK, DiscoverForJob \/ \E c \in Contacts : Known(c) /\ Suppress(c)
    PROVE  /\ ContactTypeOK'
           /\ \A c \in Contacts : Known(c) =>
                /\ Known(c)'
                /\ contact'[c].verified = contact[c].verified
                /\ contact'[c].confident = contact[c].confident
                /\ contact[c].suppressed => contact'[c].suppressed
<1>1. CASE DiscoverForJob
  <2>1. PICK listed \in [Contacts -> Listings \cup {NoRow}] : contact' = Discovered(listed)
    BY <1>1 DEF DiscoverForJob
  <2>2. ASSUME NEW c \in Contacts, listed[c] # NoRow
        PROVE  Persisted(c, listed[c]) \in ContactRow
    <3>1. listed[c] \in Evidence
      BY <2>2, ContactConstantsOK
    <3>2. Verified(listed[c]) \in BOOLEAN /\ (Score(c, listed[c]) >= MinSurfaceConfidence) \in BOOLEAN
          /\ (~Surfaced(c, listed[c])) \in BOOLEAN
      BY <3>1 DEF Evidence, Verified, Surfaced, IsRecruitingRole
    <3>. QED BY <3>1, <3>2 DEF Persisted, ContactRow, Evidence
  <2>. QED BY <2>1, <2>2 DEF Discovered, ContactTypeOK, Known
<1>2. CASE \E c \in Contacts : Known(c) /\ Suppress(c)
  <2>1. PICK c \in Contacts : Known(c) /\ Suppress(c)
    BY <1>2
  <2> DEFINE row == [contact[c] EXCEPT !.suppressed = TRUE]
  <2>2. contact[c] \in ContactRow
    BY <2>1 DEF Known, ContactTypeOK
  <2>3. row \in ContactRow /\ row.verified = contact[c].verified
        /\ row.confident = contact[c].confident /\ row.suppressed
    BY <2>2 DEF ContactRow
  <2>4. contact' = [contact EXCEPT ![c] = row]
    BY <2>1 DEF Suppress, ContactTypeOK
  <2>5. row # NoRow
    BY <2>3, ContactConstantsOK
  <2> HIDE DEF row
  <2>. QED BY <2>1, <2>3, <2>4, <2>5 DEF Known, ContactTypeOK
<1>. QED BY <1>1, <1>2

-----------------------------------------------------------------------------
(* The outreach engine.                                                     *)

\* A message is to a known contact, its approval request is made when it leaves the
\* draft, and the sender has it exactly when it is sent.
MessagesInStep ==
    \A m \in Messages :
        /\ Exists(m) => Known(message[m].contact)
        /\ approval[m] # "none" => Exists(m) /\ Status(m) # "draft"
        /\ handed[m] # 0 <=> Has(m, {"sent"})

OutInv == OutTypeOK /\ MessagesInStep /\ RunsAgree

-----------------------------------------------------------------------------
\* The value of an absent row is no row.
LEMMA AbsentRow == NoRow \notin MessageRow /\ NoRow \notin RunRow /\ NoRow \notin Runs
                   /\ NoRow \notin ContactRow
  BY OutreachConstantsOK, ContactConstantsOK

\* Initially nothing is stored.
LEMMA OutInitInv == OutInit => OutInv
<1> SUFFICES ASSUME OutInit PROVE OutInv
  OBVIOUS
<1>1. OutTypeOK
  BY OutreachConstantsOK DEF OutInit, ContactInit, OutTypeOK, ContactTypeOK, ApprovalStatus
<1>2. MessagesInStep
  BY DEF OutInit, MessagesInStep, Exists, Has
<1>3. RunsAgree
  BY DEF OutInit, RunsAgree, RunsOf, Exists, Has
<1>. QED BY <1>1, <1>2, <1>3 DEF OutInv

\* A request that writes one message row, and perhaps its approval, and sends nothing.
LEMMA MessageInv ==
    ASSUME OutInv, NEW m \in Messages, NEW row \in MessageRow, NEW s \in ApprovalStatus,
           message' = [message EXCEPT ![m] = row],
           approval' = [approval EXCEPT ![m] = s],
           Known(row.contact),
           s # "none" => row.status # "draft",
           row.status = "sent" <=> Has(m, {"sent"}),
           row.status = "failed" => Has(m, {"failed"}),
           Has(m, {"failed", "cancelled"}) => row.status \in {"failed", "cancelled"},
           UNCHANGED <<contact, run, latestRun, sentToday, autonomous, handed>>
    PROVE  OutInv'
<1>1. OutTypeOK'
  BY DEF OutInv, OutTypeOK, ContactTypeOK
<1>2. /\ message'[m] = row /\ row # NoRow /\ approval'[m] = s
      /\ \A n \in Messages : n # m => message'[n] = message[n] /\ approval'[n] = approval[n]
  BY AbsentRow DEF OutInv, OutTypeOK
<1>3. MessagesInStep'
  BY <1>2 DEF OutInv, MessagesInStep, Exists, Status, Has, Known
<1>4. \A n \in Messages : RunsOf(n)' = RunsOf(n)
  BY DEF RunsOf
<1>5. RunsAgree'
  <2> SUFFICES ASSUME NEW n \in Messages
               PROVE  /\ Has(n, {"sent"})' <=> Has(n, {"sent"})
                      /\ Has(n, {"failed"})' => Has(n, {"failed"})
                      /\ Has(n, {"failed", "cancelled"}) => Has(n, {"failed", "cancelled"})'
    BY <1>4 DEF OutInv, RunsAgree, RetryPending
  <2>1. CASE n = m
    BY <1>2, <2>1 DEF Has, Exists
  <2>2. CASE n # m
    BY <1>2, <2>2 DEF Has, Exists
  <2>. QED BY <2>1, <2>2
<1>. QED BY <1>1, <1>3, <1>5 DEF OutInv

\* An attempt: the run written is the message's latest, and it was its only live one.
LEMMA AttemptInv ==
    ASSUME OutInv, NEW r \in Runs, NEW row \in RunRow, NEW m \in Messages, row.message = m,
           Has(m, {"pending_approval", "approved", "failed"}),
           Attempt(r, row),
           run[r] = NoRow \/ run[r].message = m,
           \A q \in RunsOf(m) : RetryPending(q) => q = r,
           latestRun' = [latestRun EXCEPT ![m] = r],
           UNCHANGED <<contact, approval, autonomous>>
    PROVE  OutInv'
<1>1. PICK outcome \in RunRow :
        /\ run' = [run EXCEPT ![r] = outcome]
        /\ outcome.message = m
        /\ outcome.status = "failed" /\ outcome.retryAt => outcome.attempts < MaxSendAttempts
        /\ message' = [message EXCEPT ![m].status = outcome.status]
        /\ IF outcome.status = "sent"
           THEN /\ sentToday' = sentToday \cup {m}
                /\ handed' = [handed EXCEPT ![m] = message[m].version]
           ELSE UNCHANGED <<sentToday, handed>>
  <2>1. CASE Accepted(r, row)
    <3> DEFINE outcome == [message |-> m, status |-> "sent", attempts |-> row.attempts,
                           retryAt |-> FALSE]
    <3>1. outcome \in RunRow
      BY DEF RunRow
    <3>. QED BY <2>1, <3>1 DEF Accepted
  <2>2. CASE Refused(r, row)
    <3>1. PICK retryable \in BOOLEAN :
            run' = [run EXCEPT ![r] =
                      [message |-> row.message, status |-> "failed",
                       attempts |-> row.attempts + 1,
                       retryAt |-> retryable /\ row.attempts + 1 < MaxSendAttempts]]
      BY <2>2 DEF Refused
    <3>2. PICK again \in BOOLEAN : again = (retryable /\ row.attempts + 1 < MaxSendAttempts)
      OBVIOUS
    <3> DEFINE outcome == [message |-> m, status |-> "failed", attempts |-> row.attempts + 1,
                           retryAt |-> again]
    <3>3. outcome \in RunRow
      BY DEF RunRow
    <3>4. run' = [run EXCEPT ![r] = outcome]
      BY <3>1, <3>2
    <3>5. outcome.retryAt => outcome.attempts < MaxSendAttempts
      BY <3>2
    <3>. QED BY <2>2, <3>3, <3>4, <3>5 DEF Refused
  <2>. QED BY <2>1, <2>2 DEF Attempt
<1>2. message[m] \in MessageRow /\ outcome.status \in {"sent", "failed"} /\ outcome # NoRow
  BY AbsentRow DEF OutInv, OutTypeOK, Has, Exists, RunRow
<1>3. PICK sent \in MessageRow :
        /\ message' = [message EXCEPT ![m] = sent]
        /\ sent.status = outcome.status /\ sent.contact = message[m].contact
        /\ sent # NoRow
  <2> DEFINE sent == [message[m] EXCEPT !.status = outcome.status]
  <2>1. sent \in MessageRow /\ sent.status = outcome.status /\ sent.contact = message[m].contact
    BY <1>2 DEF MessageRow, MessageStatus
  <2>2. message' = [message EXCEPT ![m] = sent]
    BY <1>1 DEF OutInv, OutTypeOK
  <2> HIDE DEF sent
  <2>. QED BY <2>1, <2>2, AbsentRow
<1>4. message[m].version \in 1..MaxEdits
  BY <1>2 DEF MessageRow
<1>5. OutTypeOK'
  <2>1. message' \in [Messages -> MessageRow \cup {NoRow}] /\ run' \in [Runs -> RunRow \cup {NoRow}]
    BY <1>1, <1>3 DEF OutInv, OutTypeOK
  <2>2. sentToday' \subseteq Messages /\ handed' \in [Messages -> 0..MaxEdits]
    BY <1>1, <1>4 DEF OutInv, OutTypeOK
  <2>. QED BY <2>1, <2>2 DEF OutInv, OutTypeOK, ContactTypeOK
<1>6. /\ message'[m] = sent /\ run'[r] = outcome /\ latestRun'[m] = r
      /\ \A n \in Messages : n # m => message'[n] = message[n] /\ latestRun'[n] = latestRun[n]
      /\ \A q \in Runs : q # r => run'[q] = run[q]
  BY <1>1, <1>3 DEF OutInv, OutTypeOK
<1>7. MessagesInStep'
  <2> SUFFICES ASSUME NEW n \in Messages
               PROVE  /\ Exists(n)' => Known(message[n].contact)'
                      /\ approval'[n] # "none" => Exists(n)' /\ Status(n)' # "draft"
                      /\ handed'[n] # 0 <=> Has(n, {"sent"})'
    BY DEF MessagesInStep
  <2>1. CASE n = m
    <3>1. handed[m] = 0
      BY DEF OutInv, MessagesInStep, Has
    <3>2. handed'[m] # 0 <=> outcome.status = "sent"
      BY <1>1, <1>4, <3>1 DEF OutInv, OutTypeOK
    <3>. QED BY <1>2, <1>3, <1>6, <3>2, <2>1 DEF OutInv, MessagesInStep, Exists, Status, Has, Known
  <2>2. CASE n # m
    <3>1. handed'[n] = handed[n]
      BY <1>1, <2>2 DEF OutInv, OutTypeOK
    <3>. QED BY <1>6, <3>1, <2>2 DEF OutInv, MessagesInStep, Exists, Status, Has, Known
  <2>. QED BY <2>1, <2>2
<1>8. /\ RunsOf(m)' = RunsOf(m) \cup {r}
      /\ \A n \in Messages : n # m => RunsOf(n)' = RunsOf(n) /\ r \notin RunsOf(n)
  BY <1>1, <1>2, <1>6 DEF RunsOf
<1>9. RunsAgree'
  <2> SUFFICES ASSUME NEW n \in Messages
               PROVE  /\ Has(n, {"sent"})' <=> \E q \in RunsOf(n)' : run'[q].status = "sent"
                      /\ \A p, q \in RunsOf(n)' :
                            run'[p].status = "sent" /\ run'[q].status = "sent" => p = q
                      /\ Has(n, {"failed"})' => /\ latestRun'[n] \in RunsOf(n)'
                                                /\ run'[latestRun'[n]].status = "failed"
                      /\ \A q \in RunsOf(n)' : RetryPending(q)' =>
                            /\ q = latestRun'[n] /\ Has(n, {"failed", "cancelled"})'
                            /\ run'[q].attempts < MaxSendAttempts
    BY DEF RunsAgree
  <2>1. CASE n = m
    <3>1. \A q \in RunsOf(m) : run[q].status # "sent"
      BY DEF OutInv, RunsAgree, Has
    <3>2. \A q \in RunsOf(m)' : q # r => run'[q].status # "sent" /\ ~RetryPending(q)'
      BY <1>6, <1>8, <3>1 DEF RetryPending, RunsOf
    <3>3. r \in RunsOf(m)'
      BY <1>8
    <3>4. Has(m, {"sent"})' <=> outcome.status = "sent"
      BY <1>3, <1>6 DEF Has, Exists
    <3>5. Has(m, {"failed", "cancelled"})' <=> outcome.status = "failed"
      BY <1>2, <1>3, <1>6 DEF Has, Exists
    <3>6. Has(m, {"failed"})' <=> outcome.status = "failed"
      BY <1>3, <1>6 DEF Has, Exists
    <3>7. RetryPending(r)' => outcome.status = "failed" /\ outcome.attempts < MaxSendAttempts
      BY <1>1, <1>6 DEF RetryPending
    <3>. QED BY <1>6, <3>2, <3>3, <3>4, <3>5, <3>6, <3>7, <2>1
  <2>2. CASE n # m
    <3>1. \A q \in RunsOf(n) : run'[q] = run[q]
      BY <1>6, <1>8, <2>2 DEF RunsOf
    <3>2. message'[n] = message[n] /\ latestRun'[n] = latestRun[n] /\ RunsOf(n)' = RunsOf(n)
      BY <1>6, <1>8, <2>2
    <3>. QED BY <3>1, <3>2 DEF OutInv, RunsAgree, Has, Exists, RetryPending
  <2>. QED BY <2>1, <2>2
<1>. QED BY <1>5, <1>7, <1>9 DEF OutInv

-----------------------------------------------------------------------------
\* What send and retry know of the message when they call the sender.
LEMMA SendAttempts ==
    ASSUME OutInv, NEW m \in Messages, NEW r \in Runs, Send(m, r)
    PROVE  \E row \in RunRow :
              /\ row.message = m /\ Attempt(r, row)
              /\ \A q \in RunsOf(m) : RetryPending(q) => q = r
<1> DEFINE row == [message |-> m, status |-> "failed", attempts |-> 0, retryAt |-> FALSE]
<1>1. row \in RunRow
  BY DEF RunRow
<1>2. Attempt(r, row)
  BY DEF Send
<1>3. \A q \in RunsOf(m) : ~RetryPending(q)
  <2>1. \A q \in RunsOf(m) : RetryPending(q) => q = latestRun[m]
    BY DEF OutInv, RunsAgree
  <2>2. \A q \in RunsOf(m) : q # NoRow
    BY AbsentRow DEF RunsOf
  <2>. QED BY <2>1, <2>2 DEF Send
<1> HIDE DEF row
<1>. QED BY <1>1, <1>2, <1>3 DEF row

\* The run a retry continues is the message's latest.
LEMMA RetryAttempts ==
    ASSUME OutInv, NEW r \in Runs, Retry(r)
    PROVE  /\ run[r] \in RunRow /\ run[r].message \in Messages
           /\ \E row \in RunRow : row.message = run[r].message /\ Attempt(r, row)
           /\ latestRun[run[r].message] = r
           /\ \A q \in RunsOf(run[r].message) : RetryPending(q) => q = r
<1>1. run[r] \in RunRow
  BY DEF Retry, OutInv, OutTypeOK
<1>2. run[r].message \in Messages
  BY <1>1 DEF RunRow
<1>3. r \in RunsOf(run[r].message)
  BY <1>1, AbsentRow DEF RunsOf
<1>4. latestRun[run[r].message] = r
      /\ \A q \in RunsOf(run[r].message) : RetryPending(q) => q = r
  BY <1>2, <1>3 DEF OutInv, RunsAgree, Retry
<1>5. [run[r] EXCEPT !.retryAt = FALSE] \in RunRow
      /\ [run[r] EXCEPT !.retryAt = FALSE].message = run[r].message
  BY <1>1 DEF RunRow
<1>. QED BY <1>1, <1>2, <1>4, <1>5 DEF Retry

\* Sending makes a new run of the message and one attempt on it.
LEMMA SendInv ==
    ASSUME OutInv, NEW m \in Messages, NEW r \in Runs, Send(m, r)
    PROVE  OutInv'
<1>1. PICK row \in RunRow : /\ row.message = m /\ Attempt(r, row)
                            /\ \A q \in RunsOf(m) : RetryPending(q) => q = r
  BY SendAttempts
<1>. QED BY <1>1, AttemptInv DEF Send

\* Retrying makes another attempt on a failed run.
LEMMA RetryInv ==
    ASSUME OutInv, NEW r \in Runs, Retry(r)
    PROVE  OutInv'
<1>1. PICK row \in RunRow : row.message = run[r].message /\ Attempt(r, row)
  BY RetryAttempts
<1>2. latestRun' = [latestRun EXCEPT ![run[r].message] = r]
  BY RetryAttempts DEF Retry, OutInv, OutTypeOK
<1>3. Has(run[r].message, {"pending_approval", "approved", "failed"})
  BY DEF Retry, Has
<1>. QED BY <1>1, <1>2, <1>3, RetryAttempts, AttemptInv DEF Retry

\* What the requests about drafts write.
LEMMA DraftWrites ==
    ASSUME OutInv, NEW m \in Messages, DraftRequest(m)
    PROVE  \E row \in MessageRow, s \in ApprovalStatus :
              /\ message' = [message EXCEPT ![m] = row]
              /\ approval' = [approval EXCEPT ![m] = s]
              /\ Known(row.contact)
              /\ s # "none" => row.status # "draft"
              /\ row.status = "sent" <=> Has(m, {"sent"})
              /\ row.status = "failed" => Has(m, {"failed"})
              /\ Has(m, {"failed", "cancelled"}) => row.status \in {"failed", "cancelled"}
              /\ UNCHANGED <<contact, run, latestRun, sentToday, autonomous, handed>>
<1> DEFINE Writes(row, s) ==
              /\ message' = [message EXCEPT ![m] = row]
              /\ approval' = [approval EXCEPT ![m] = s]
              /\ Known(row.contact)
              /\ s # "none" => row.status # "draft"
              /\ row.status = "sent" <=> Has(m, {"sent"})
              /\ row.status = "failed" => Has(m, {"failed"})
              /\ Has(m, {"failed", "cancelled"}) => row.status \in {"failed", "cancelled"}
              /\ UNCHANGED <<contact, run, latestRun, sentToday, autonomous, handed>>
<1>1. /\ approval[m] \in ApprovalStatus
      /\ approval = [approval EXCEPT ![m] = approval[m]]
      /\ ~Exists(m) => approval[m] = "none"
      /\ Exists(m) => message[m] \in MessageRow /\ Known(message[m].contact)
      /\ Has(m, {"draft"}) => approval[m] = "none"
  BY DEF OutInv, OutTypeOK, MessagesInStep, Exists, Has, Status
<1>2. ASSUME NEW c \in Contacts, NEW ch \in Channels, CreateDraft(m, c, ch)
      PROVE  \E row \in MessageRow, s \in ApprovalStatus : Writes(row, s)
  <2>1. NewDraft(c, ch, FALSE) \in MessageRow
    BY <1>2, OutreachConstantsOK DEF NewDraft, MessageRow, MessageStatus, CreateDraft
  <2>2. Writes(NewDraft(c, ch, FALSE), approval[m])
    BY <1>1, <1>2 DEF CreateDraft, NewDraft, Usable, Has
  <2>. QED BY <1>1, <2>1, <2>2
<1>3. ASSUME NEW parent \in Messages, CreateFollowUp(m, parent)
      PROVE  \E row \in MessageRow, s \in ApprovalStatus : Writes(row, s)
  <2> DEFINE row == NewDraft(message[parent].contact, message[parent].channel, TRUE)
  <2>1. message[parent] \in MessageRow
    BY <1>3 DEF CreateFollowUp, Has, Exists, OutInv, OutTypeOK
  <2>2. row \in MessageRow
    BY <1>3, <2>1, OutreachConstantsOK DEF NewDraft, MessageRow, MessageStatus, CreateFollowUp
  <2>3. Writes(row, approval[m])
    BY <1>1, <1>3 DEF CreateFollowUp, NewDraft, Usable, Has
  <2>. QED BY <1>1, <2>2, <2>3
<1>4. ASSUME UpdateDraft(m)
      PROVE  \E row \in MessageRow, s \in ApprovalStatus : Writes(row, s)
  <2> DEFINE row == [message[m] EXCEPT !.version = @ + 1]
  <2>1. message[m] \in MessageRow
    BY <1>1, <1>4 DEF UpdateDraft, Has
  <2>2. row \in MessageRow /\ row.contact = message[m].contact /\ row.status = message[m].status
    BY <1>4, <2>1, OutreachConstantsOK DEF MessageRow, UpdateDraft
  <2>3. message' = [message EXCEPT ![m] = row]
    BY <1>4 DEF UpdateDraft, OutInv, OutTypeOK
  <2> HIDE DEF row
  <2>4. Writes(row, approval[m])
    BY <1>1, <1>4, <2>2, <2>3 DEF UpdateDraft, Has
  <2>. QED BY <1>1, <2>2, <2>4
<1>5. ASSUME NEW to \in {"pending_approval", "approved", "cancelled"},
             NEW s \in ApprovalStatus, Exists(m), ~Has(m, {"sent"}),
             Has(m, {"failed", "cancelled"}) => to = "cancelled",
             message' = [message EXCEPT ![m].status = to],
             approval' = [approval EXCEPT ![m] = s],
             UNCHANGED <<contact, run, latestRun, sentToday, autonomous, handed>>
      PROVE  \E row \in MessageRow, t \in ApprovalStatus : Writes(row, t)
  <2> DEFINE row == [message[m] EXCEPT !.status = to]
  <2>1. message[m] \in MessageRow
    BY <1>1, <1>5
  <2>2. row \in MessageRow /\ row.contact = message[m].contact /\ row.status = to
    BY <2>1 DEF MessageRow, MessageStatus
  <2>3. message' = [message EXCEPT ![m] = row]
    BY <1>5 DEF OutInv, OutTypeOK
  <2> HIDE DEF row
  <2>4. Writes(row, s)
    BY <1>1, <1>5, <2>2, <2>3
  <2>. QED BY <2>2, <2>4
<1>6. ASSUME Submit(m)
      PROVE  \E row \in MessageRow, s \in ApprovalStatus : Writes(row, s)
  <2>1. Exists(m) /\ ~Has(m, {"sent"}) /\ ~Has(m, {"failed", "cancelled"})
    BY <1>6 DEF Submit, Has
  <2>2. CASE ApprovalRequired
    BY <1>5, <1>6, <2>1, <2>2 DEF Submit, ApprovalStatus
  <2>3. CASE ~ApprovalRequired
    BY <1>1, <1>5, <1>6, <2>1, <2>3 DEF Submit
  <2>. QED BY <2>2, <2>3
<1>7. ASSUME Cancel(m)
      PROVE  \E row \in MessageRow, s \in ApprovalStatus : Writes(row, s)
  <2>1. Exists(m) /\ ~Has(m, {"sent"})
    BY <1>7 DEF Cancel, Has, Status
  <2>. QED BY <1>1, <1>5, <1>7, <2>1 DEF Cancel
<1>. QED BY <1>2, <1>3, <1>4, <1>6, <1>7 DEF DraftRequest

\* A step that changes contacts only.
LEMMA OutreachContactsInv ==
    ASSUME OutInv, ContactTypeOK', \A c \in Contacts : Known(c) => Known(c)', UNCHANGED outVars
    PROVE  OutInv'
<1>1. OutTypeOK'
  BY DEF OutInv, OutTypeOK, outVars
<1>2. \A m \in Messages : Exists(m) => message[m].contact \in Contacts
  BY DEF OutInv, OutTypeOK, Exists, MessageRow
<1>3. MessagesInStep'
  BY <1>2 DEF OutInv, MessagesInStep, outVars, Exists, Status, Has
<1>4. RunsAgree'
  BY DEF OutInv, RunsAgree, outVars, RunsOf, Exists, Has, RetryPending
<1>. QED BY <1>1, <1>3, <1>4 DEF OutInv

\* Every request keeps the invariant.
LEMMA OutNextInv == OutInv /\ [OutNext]_outreach => OutInv'
<1> SUFFICES ASSUME OutInv, [OutNext]_outreach PROVE OutInv'
  OBVIOUS
<1>1. CASE DiscoverForJob /\ UNCHANGED outVars
  BY <1>1, ContactsKept, OutreachContactsInv DEF OutInv, OutTypeOK
<1>2. ASSUME NEW m \in Messages, DraftRequest(m) PROVE OutInv'
  BY <1>2, DraftWrites, MessageInv
<1>3. ASSUME NEW m \in Messages, DecisionRequest(m) PROVE OutInv'
  <2>1. PICK d \in ApprovalStatus \ {"none", "pending"} : Decide(m, d)
    BY <1>3 DEF DecisionRequest
  <2>2. Exists(m) /\ Status(m) # "draft"
    BY <2>1 DEF Decide, OutInv, MessagesInStep
  <2>3. OutTypeOK'
    BY <2>1 DEF Decide, OutInv, OutTypeOK, ContactTypeOK
  <2>4. MessagesInStep'
    BY <2>1, <2>2 DEF Decide, OutInv, OutTypeOK, MessagesInStep, Exists, Has, Status, Known
  <2>5. RunsAgree'
    BY <2>1 DEF Decide, OutInv, RunsAgree, RunsOf, Exists, Has, RetryPending
  <2>. QED BY <2>3, <2>4, <2>5 DEF OutInv
<1>4. ASSUME NEW m \in Messages, SendRequest(m) PROVE OutInv'
  BY <1>4, SendInv DEF SendRequest
<1>5. ASSUME NEW m \in Messages, RecordResponse(m) PROVE OutInv'
  <2> DEFINE row == [message[m] EXCEPT !.responded = TRUE]
  <2>1. message[m] \in MessageRow /\ Known(message[m].contact)
    BY <1>5 DEF RecordResponse, OutInv, OutTypeOK, MessagesInStep, Has, Exists
  <2>2. row \in MessageRow /\ row.contact = message[m].contact /\ row.status = "sent"
    BY <1>5, <2>1 DEF MessageRow, RecordResponse, Has
  <2>3. message' = [message EXCEPT ![m] = row] /\ approval' = [approval EXCEPT ![m] = approval[m]]
        /\ approval[m] \in ApprovalStatus
    BY <1>5 DEF RecordResponse, OutInv, OutTypeOK
  <2> HIDE DEF row
  <2>4. Known(row.contact) /\ (approval[m] # "none" => row.status # "draft")
        /\ (row.status = "sent" <=> Has(m, {"sent"})) /\ (row.status = "failed" => Has(m, {"failed"}))
        /\ ~Has(m, {"failed", "cancelled"})
        /\ UNCHANGED <<contact, run, latestRun, sentToday, autonomous, handed>>
    BY <1>5, <2>1, <2>2 DEF RecordResponse, Has
  <2>. QED BY <2>2, <2>3, <2>4, MessageInv
<1>6. ASSUME NEW m \in Messages, MarkSuppressed(m) PROVE OutInv'
  <2>1. message[m].contact \in Contacts /\ Known(message[m].contact)
    BY <1>6 DEF MarkSuppressed, OutInv, OutTypeOK, MessagesInStep, Exists, MessageRow
  <2>2. ContactTypeOK' /\ \A c \in Contacts : Known(c) => Known(c)'
    BY <1>6, <2>1, ContactsKept DEF MarkSuppressed, OutInv, OutTypeOK
  <2>. QED BY <1>6, <2>2, OutreachContactsInv DEF MarkSuppressed
<1>7. CASE RetryRequest
  BY <1>7, RetryInv DEF RetryRequest
<1>8. CASE Midnight \/ Reconfigure \/ UNCHANGED outreach
  <2>1. /\ UNCHANGED <<contact, message, approval, run, latestRun, handed>>
        /\ sentToday' = {} \/ sentToday' = sentToday
        /\ autonomous' = ~autonomous \/ autonomous' = autonomous
    BY <1>8 DEF Midnight, Reconfigure, outreach, outVars
  <2>2. autonomous' \in BOOLEAN
    BY <2>1 DEF OutInv, OutTypeOK
  <2>3. OutTypeOK'
    BY <2>1, <2>2 DEF OutInv, OutTypeOK, ContactTypeOK
  <2>4. MessagesInStep'
    BY <2>1 DEF OutInv, MessagesInStep, Exists, Has, Status, Known
  <2>5. RunsAgree'
    BY <2>1 DEF OutInv, RunsAgree, RunsOf, Exists, Has, RetryPending
  <2>. QED BY <2>3, <2>4, <2>5 DEF OutInv
<1>. QED BY <1>1, <1>2, <1>3, <1>4, <1>5, <1>6, <1>7, <1>8 DEF OutNext

\* The invariant holds in every reachable state.
LEMMA OutInvariance == OutSpec => []OutInv
  BY OutInitInv, OutNextInv, PTL DEF OutSpec

-----------------------------------------------------------------------------
\* Rows keep to their columns' enumerations, whatever the limits.
THEOREM OutreachTypeCorrect == OutSpec => []OutTypeOK
<1>1. OutInv => OutTypeOK
  BY DEF OutInv
<1>. QED BY <1>1, OutInvariance, PTL

\* A message and its runs tell one story under every sequence of requests: sent by one
\* run at most, failed with its latest, retried within the budget.
THEOREM MessagesAgreeWithRuns == OutSpec => []RunsAgree
<1>1. OutInv => RunsAgree
  BY DEF OutInv
<1>. QED BY <1>1, OutInvariance, PTL

\* An opt-out is never undone, by a later discovery pass or any other request.
THEOREM OptOutIsFinal == OutSpec => SuppressionIsFinal
<1> DEFINE Kept == \A c \in Contacts : Known(c) /\ contact[c].suppressed
                        => contact'[c] # NoRow /\ contact'[c].suppressed
<1>1. OutInv /\ [OutNext]_outreach => [Kept]_contact
  <2> SUFFICES ASSUME OutInv, OutNext, contact' # contact PROVE Kept
    BY DEF outreach
  <2>1. DiscoverForJob \/ \E m \in Messages : MarkSuppressed(m)
    BY DEF OutNext, DraftRequest, DecisionRequest, SendRequest, RetryRequest, CreateDraft,
           CreateFollowUp, UpdateDraft, Submit, Cancel, Decide, Send, Retry, RecordResponse,
           Midnight, Reconfigure
  <2>2. \A m \in Messages : MarkSuppressed(m) =>
            \E c \in Contacts : Known(c) /\ Suppress(c)
    BY DEF MarkSuppressed, OutInv, OutTypeOK, MessagesInStep, Exists, MessageRow
  <2>. QED BY <2>1, <2>2, ContactsKept DEF OutInv, OutTypeOK, Known
<1>. QED BY <1>1, OutInvariance, PTL DEF OutSpec, SuppressionIsFinal

-----------------------------------------------------------------------------
(* The refinement: every step of the engine is a step of MessageDelivery.   *)

DeliveryState == <<Texts, ClearedMessages, BlockedMessages, handed, sentToday>>

\* A draft is not cleared, not delivered and, to a usable contact, not blocked.
LEMMA DraftsAreOpen ==
    ASSUME OutInv, NEW m \in Messages, ~Exists(m) \/ Has(m, {"draft"})
    PROVE  ~ClearedMessages[m] /\ handed[m] = 0
  BY DEF OutInv, MessagesInStep, ClearedMessages, Has, Exists, Status

\* What one message's own state says of it, for the messages a step leaves alone.
LEMMA OthersKept ==
    ASSUME OutInv, NEW n \in Messages, message'[n] = message[n], approval'[n] = approval[n],
           \A c \in Contacts : Known(c) => contact'[c] = contact[c]
    PROVE  /\ Texts'[n] = Texts[n] /\ ClearedMessages'[n] = ClearedMessages[n]
           /\ n \in BlockedMessages' <=> n \in BlockedMessages
<1>1. Exists(n) => message[n].contact \in Contacts /\ Known(message[n].contact)
  BY DEF OutInv, OutTypeOK, MessagesInStep, Exists, MessageRow
<1>. QED BY <1>1 DEF Texts, ClearedMessages, BlockedMessages, Exists, Has, Status

\* Steps the abstract engine does not see.
LEMMA UnseenStep ==
    ASSUME \A n \in Messages : /\ Texts'[n] = Texts[n] /\ ClearedMessages'[n] = ClearedMessages[n]
                               /\ n \in BlockedMessages' <=> n \in BlockedMessages,
           UNCHANGED <<handed, sentToday>>
    PROVE  UNCHANGED DeliveryState
<1>1. Texts' = Texts
  BY DEF Texts
<1>2. ClearedMessages' = ClearedMessages
  BY DEF ClearedMessages
<1>3. BlockedMessages' = BlockedMessages
  BY DEF BlockedMessages
<1>. QED BY <1>1, <1>2, <1>3 DEF DeliveryState

\* A request about a draft writes its text, clears it, blocks it, or is not seen.
LEMMA DraftStep ==
    ASSUME OutInv, NEW m \in Messages, DraftRequest(m)
    PROVE  Delivery!Next \/ UNCHANGED DeliveryState
<1>1. PICK row \in MessageRow, s \in ApprovalStatus :
        /\ message' = [message EXCEPT ![m] = row]
        /\ approval' = [approval EXCEPT ![m] = s]
        /\ UNCHANGED <<contact, run, latestRun, sentToday, autonomous, handed>>
  BY DraftWrites
<1>2. \A n \in Messages \ {m} :
        /\ Texts'[n] = Texts[n] /\ ClearedMessages'[n] = ClearedMessages[n]
        /\ n \in BlockedMessages' <=> n \in BlockedMessages
  BY <1>1, OthersKept DEF OutInv, OutTypeOK
<1>3. message'[m] = row /\ row # NoRow /\ approval'[m] = s
  BY <1>1, AbsentRow DEF OutInv, OutTypeOK
<1>4. Exists(m) => message[m] \in MessageRow
  BY DEF OutInv, OutTypeOK, Exists
<1>5. ASSUME ~Exists(m) \/ Has(m, {"draft"}), row.status = "draft", s = approval[m],
             row.version = Texts[m] + 1,
             contact[row.contact].suppressed <=> (Exists(m) /\ contact[message[m].contact].suppressed)
      PROVE  Delivery!Write(m)
  <2>1. ~ClearedMessages[m] /\ handed[m] = 0
    BY <1>5, DraftsAreOpen
  <2>2. Texts' = [Texts EXCEPT ![m] = @ + 1]
    BY <1>2, <1>3, <1>5 DEF Texts, Exists
  <2>3. ClearedMessages'[m] = ClearedMessages[m]
    BY <1>3, <1>5 DEF ClearedMessages, Has, Exists
  <2>4. m \in BlockedMessages' <=> m \in BlockedMessages
    BY <1>1, <1>3, <1>5 DEF BlockedMessages, Has, Exists, Status
  <2>5. ClearedMessages' = ClearedMessages
    BY <1>2, <2>3 DEF ClearedMessages
  <2>6. BlockedMessages' = BlockedMessages
    BY <1>2, <2>4 DEF BlockedMessages
  <2>. QED BY <1>1, <2>1, <2>2, <2>5, <2>6 DEF Delivery!Write
<1>6. ASSUME NEW c \in Contacts, NEW ch \in Channels, CreateDraft(m, c, ch)
      PROVE  Delivery!Write(m)
  <2>1. row = NewDraft(c, ch, FALSE) /\ s = approval[m] /\ ~Exists(m) /\ ~contact[c].suppressed
    BY <1>1, <1>6, <1>3 DEF CreateDraft, OutInv, OutTypeOK, Usable
  <2>. QED BY <1>5, <2>1 DEF NewDraft, Texts
<1>7. ASSUME NEW parent \in Messages, CreateFollowUp(m, parent)
      PROVE  Delivery!Write(m)
  <2>1. /\ row = NewDraft(message[parent].contact, message[parent].channel, TRUE)
        /\ s = approval[m] /\ ~Exists(m) /\ ~contact[message[parent].contact].suppressed
    BY <1>1, <1>7, <1>3 DEF CreateFollowUp, OutInv, OutTypeOK, Usable
  <2>. QED BY <1>5, <2>1 DEF NewDraft, Texts
<1>8. ASSUME UpdateDraft(m)
      PROVE  Delivery!Write(m)
  <2>1. Has(m, {"draft"}) /\ Exists(m)
    BY <1>8 DEF UpdateDraft, Has
  <2>2. row = [message[m] EXCEPT !.version = message[m].version + 1] /\ s = approval[m]
    BY <1>1, <1>3, <1>8 DEF UpdateDraft, OutInv, OutTypeOK
  <2>3. /\ row.status = "draft" /\ row.contact = message[m].contact
        /\ row.version = message[m].version + 1
    BY <1>4, <2>1, <2>2 DEF MessageRow, Has
  <2>. QED BY <1>5, <2>1, <2>2, <2>3 DEF Texts
<1>9. ASSUME Exists(m), NEW to \in MessageStatus, message' = [message EXCEPT ![m].status = to]
      PROVE  /\ row.status = to /\ row.version = message[m].version
             /\ row.contact = message[m].contact /\ Texts' = Texts
             /\ Texts[m] # 0
  <2>1. row = [message[m] EXCEPT !.status = to]
    BY <1>3, <1>9 DEF OutInv, OutTypeOK
  <2>2. row.status = to /\ row.version = message[m].version /\ row.contact = message[m].contact
    BY <1>4, <1>9, <2>1 DEF MessageRow
  <2>3. message[m].version # 0
    BY <1>4, <1>9, OutreachConstantsOK DEF MessageRow
  <2>. QED BY <1>2, <1>3, <1>9, <2>2, <2>3 DEF Texts, Exists
<1>10. ASSUME Submit(m)
       PROVE  Delivery!Clear(m) \/ UNCHANGED DeliveryState
  <2>1. Exists(m) /\ message[m].status = "draft"
    BY <1>10 DEF Submit, Has
  <2>2. m \in BlockedMessages' <=> m \in BlockedMessages
    BY <1>1, <1>3, <1>9, <1>10, <2>1 DEF Submit, MessageStatus, BlockedMessages, Exists, Status
  <2>3. BlockedMessages' = BlockedMessages
    BY <1>2, <2>2 DEF BlockedMessages
  <2>4. Texts' = Texts /\ Texts[m] # 0
    BY <1>9, <1>10, <2>1 DEF Submit, MessageStatus
  <2>5. CASE ApprovalRequired
    <3>1. ClearedMessages'[m] = FALSE
      BY <1>10, <2>5 DEF Submit, ClearedMessages, OutInv, OutTypeOK
    <3>2. ClearedMessages[m] = FALSE
      BY <2>1, <2>5, DraftsAreOpen DEF ClearedMessages, Has
    <3>3. ClearedMessages' = ClearedMessages
      BY <1>2, <3>1, <3>2 DEF ClearedMessages
    <3>. QED BY <1>1, <2>3, <2>4, <3>3 DEF DeliveryState
  <2>6. CASE ~ApprovalRequired
    <3>1. message'[m].status = "approved" /\ Exists(m)'
      BY <1>3, <1>9, <1>10, <2>1, <2>6 DEF Submit, MessageStatus, Exists
    <3>2. ClearedMessages'[m] = TRUE
      BY <2>6, <3>1 DEF ClearedMessages, Has
    <3>3. ClearedMessages' = [ClearedMessages EXCEPT ![m] = TRUE]
      BY <1>2, <3>2 DEF ClearedMessages
    <3>. QED BY <1>1, <2>3, <2>4, <3>3 DEF Delivery!Clear
  <2>. QED BY <2>5, <2>6
<1>11. ASSUME Cancel(m)
       PROVE  Delivery!Block
  <2>1. Exists(m) /\ message[m].status # "sent" /\ approval' = approval
    BY <1>11 DEF Cancel, Status
  <2>2. row.status = "cancelled" /\ Texts' = Texts
    BY <1>9, <1>11, <2>1 DEF Cancel, MessageStatus
  <2>3. BlockedMessages' = BlockedMessages \cup {m}
    BY <1>2, <1>3, <2>2 DEF BlockedMessages, Exists, Status
  <2> DEFINE back == IF ApprovalRequired THEN {} ELSE {m}
  <2>4. ClearedMessages'[m] = (ClearedMessages[m] /\ m \notin back)
    BY <1>3, <2>1, <2>2 DEF ClearedMessages, Has, Exists
  <2>5. ClearedMessages' = [n \in Messages |-> ClearedMessages[n] /\ n \notin back]
    <3>1. \A n \in Messages : ClearedMessages'[n] = (ClearedMessages[n] /\ n \notin back)
      <4>1. \A n \in Messages \ {m} : (ClearedMessages[n] /\ n \notin back) = ClearedMessages[n]
        BY DEF ClearedMessages, Has, Exists
      <4>. QED BY <1>2, <2>4, <4>1
    <3>2. ClearedMessages' = [n \in Messages |-> ClearedMessages'[n]]
      BY DEF ClearedMessages
    <3>. QED BY <3>1, <3>2, Zenon
  <2>6. back \subseteq BlockedMessages' /\ back \in SUBSET Messages /\ {m} \in SUBSET Messages
    BY <2>3
  <2> HIDE DEF back
  <2>. QED BY <1>1, <2>2, <2>3, <2>5, <2>6 DEF Delivery!Block
<1>. QED BY <1>6, <1>7, <1>8, <1>10, <1>11 DEF DraftRequest, Delivery!Next

\* An attempt delivers the message or is not seen.
LEMMA AttemptStepSeen ==
    ASSUME OutInv, NEW r \in Runs, NEW row \in RunRow, NEW m \in Messages, row.message = m,
           Has(m, {"pending_approval", "approved", "failed"}),
           Usable(message[m].contact), ApprovedToSend(m), BelowDailyLimit,
           ~ApprovalRequired => Status(m) # "pending_approval",
           Attempt(r, row), UNCHANGED <<contact, approval>>
    PROVE  Delivery!Deliver(m) \/ UNCHANGED DeliveryState
<1>1. message[m] \in MessageRow /\ Exists(m) /\ message[m].version # 0
  BY OutreachConstantsOK DEF OutInv, OutTypeOK, Has, Exists, MessageRow
<1>2. PICK to \in {"sent", "failed"} :
        /\ message' = [message EXCEPT ![m].status = to]
        /\ to = "sent" => /\ sentToday' = sentToday \cup {m}
                          /\ handed' = [handed EXCEPT ![m] = message[m].version]
        /\ to = "failed" => UNCHANGED <<sentToday, handed>>
  BY DEF Attempt, Accepted, Refused
<1>3. /\ message'[m] # NoRow /\ message'[m].status = to
      /\ message'[m].version = message[m].version /\ message'[m].contact = message[m].contact
  <2> DEFINE new == [message[m] EXCEPT !.status = to]
  <2>1. /\ new \in MessageRow /\ new.status = to
        /\ new.version = message[m].version /\ new.contact = message[m].contact
    BY <1>1 DEF MessageRow, MessageStatus
  <2>2. message'[m] = new
    BY <1>2 DEF OutInv, OutTypeOK
  <2> HIDE DEF new
  <2>. QED BY <2>1, <2>2, AbsentRow
<1>4. \A n \in Messages \ {m} :
        /\ Texts'[n] = Texts[n] /\ ClearedMessages'[n] = ClearedMessages[n]
        /\ n \in BlockedMessages' <=> n \in BlockedMessages
  BY <1>2, OthersKept DEF OutInv, OutTypeOK
<1>5. Texts'[m] = Texts[m] /\ Texts[m] = message[m].version
  BY <1>1, <1>3 DEF Texts, Exists
<1>6. m \notin BlockedMessages' /\ m \notin BlockedMessages
  BY <1>1, <1>3 DEF BlockedMessages, Usable, Has, Status
<1>7. ClearedMessages'[m] = TRUE /\ ClearedMessages[m] = TRUE
  BY <1>1, <1>3 DEF ClearedMessages, ApprovedToSend, Has, Exists, Status
<1>8. Texts' = Texts /\ ClearedMessages' = ClearedMessages /\ BlockedMessages' = BlockedMessages
  <2>1. Texts' = Texts
    BY <1>4, <1>5 DEF Texts
  <2>2. ClearedMessages' = ClearedMessages
    BY <1>4, <1>7 DEF ClearedMessages
  <2>3. BlockedMessages' = BlockedMessages
    BY <1>4, <1>6 DEF BlockedMessages
  <2>. QED BY <2>1, <2>2, <2>3
<1>9. handed[m] = 0
  BY DEF OutInv, MessagesInStep, Has
<1>10. CASE to = "sent"
  <2>1. handed' = [handed EXCEPT ![m] = Texts[m]] /\ sentToday' = sentToday \cup {m}
    BY <1>2, <1>5, <1>10
  <2>2. Delivery!Cardinality(sentToday) < DailyLimit
    BY Zenon DEF BelowDailyLimit, Delivery!Cardinality, Cardinality
  <2>3. ClearedMessages[m]
    BY <1>7
  <2>4. Delivery!Deliver(m)
    BY <1>6, <1>8, <1>9, <2>1, <2>2, <2>3 DEF Delivery!Deliver
  <2>. QED BY <2>4
<1>11. CASE to = "failed"
  BY <1>2, <1>8, <1>11 DEF DeliveryState
<1>. QED BY <1>10, <1>11

\* Suppressing a contact blocks its messages.
LEMMA SuppressStep ==
    ASSUME OutInv, NEW m \in Messages, MarkSuppressed(m)
    PROVE  Delivery!Block
<1>1. Known(message[m].contact) /\ Suppress(message[m].contact) /\ UNCHANGED outVars
  BY DEF MarkSuppressed, OutInv, MessagesInStep
<1>2. message[m].contact \in Contacts
  BY DEF MarkSuppressed, OutInv, OutTypeOK, Exists, MessageRow
<1>3. \A c \in Contacts : contact[c].suppressed /\ Known(c) => contact'[c].suppressed
  BY <1>1, <1>2, ContactsKept DEF OutInv, OutTypeOK
<1>4. BlockedMessages' = BlockedMessages \cup BlockedMessages'
  <2>1. \A n \in Messages : Exists(n) => message[n].contact \in Contacts
                                          /\ Known(message[n].contact)
    BY DEF OutInv, OutTypeOK, MessagesInStep, Exists, MessageRow
  <2>. QED BY <1>1, <1>3, <2>1 DEF BlockedMessages, outVars, Exists, Status
<1>5. Texts' = Texts /\ ClearedMessages' = ClearedMessages
  BY <1>1 DEF outVars, Texts, ClearedMessages, Exists, Has
<1>6. ClearedMessages' = [n \in Messages |-> ClearedMessages[n] /\ n \notin {}]
  <2>1. ClearedMessages = [n \in Messages |-> ClearedMessages[n]]
    BY DEF ClearedMessages
  <2>2. \A n \in Messages : ClearedMessages[n] = (ClearedMessages[n] /\ n \notin {})
    BY DEF ClearedMessages, Has, Exists
  <2>3. ClearedMessages = [n \in Messages |-> ClearedMessages[n] /\ n \notin {}]
    BY <2>1, <2>2, Zenon
  <2>. QED BY <1>5, <2>3
<1>7. BlockedMessages' \in SUBSET Messages /\ {} \in SUBSET Messages
  BY DEF BlockedMessages
<1>. QED BY <1>1, <1>4, <1>5, <1>6, <1>7 DEF Delivery!Block, outVars

\* Steps about contacts, responses, the clock and the settings.
LEMMA QuietSteps ==
    ASSUME OutInv,
           \/ DiscoverForJob /\ UNCHANGED outVars
           \/ \E m \in Messages : RecordResponse(m)
           \/ Reconfigure \/ UNCHANGED outreach
    PROVE  UNCHANGED DeliveryState
<1>1. UNCHANGED <<handed, sentToday>>
  BY DEF outVars, outreach, RecordResponse, Reconfigure
<1>2. CASE DiscoverForJob /\ UNCHANGED outVars
  <2>1. \A c \in Contacts : Known(c) => contact'[c] = contact[c]
    BY <1>2 DEF DiscoverForJob, Discovered, Known
  <2>. QED BY <1>1, <1>2, <2>1, OthersKept, UnseenStep DEF outVars
<1>3. ASSUME NEW m \in Messages, RecordResponse(m) PROVE UNCHANGED DeliveryState
  <2>1. message[m] \in MessageRow
    BY <1>3 DEF RecordResponse, OutInv, OutTypeOK, Has, Exists
  <2> DEFINE new == [message[m] EXCEPT !.responded = TRUE]
  <2>2. /\ new \in MessageRow /\ new.status = message[m].status
        /\ new.version = message[m].version /\ new.contact = message[m].contact
    BY <2>1 DEF MessageRow
  <2>3. message'[m] = new /\ \A n \in Messages \ {m} : message'[n] = message[n]
    BY <1>3 DEF RecordResponse, OutInv, OutTypeOK
  <2>4. new # NoRow /\ message[m] # NoRow
    BY <2>1, <2>2, AbsentRow
  <2> HIDE DEF new
  <2>5. UNCHANGED <<approval, contact>>
    BY <1>3 DEF RecordResponse
  <2>6. /\ Texts'[m] = Texts[m] /\ ClearedMessages'[m] = ClearedMessages[m]
        /\ m \in BlockedMessages' <=> m \in BlockedMessages
    BY <2>2, <2>3, <2>4, <2>5 DEF Texts, ClearedMessages, BlockedMessages, Exists, Has, Status
  <2>. QED BY <1>1, <2>3, <2>5, <2>6, OthersKept, UnseenStep
<1>4. CASE Reconfigure \/ UNCHANGED outreach
  BY <1>1, <1>4, OthersKept, UnseenStep DEF Reconfigure, outreach, outVars
<1>. QED BY <1>2, <1>3, <1>4

\* Every step of the engine is one of MessageDelivery, or none.
LEMMA DeliveryStep ==
    OutInv /\ [OutNext]_outreach => Delivery!Next \/ UNCHANGED DeliveryState
<1> SUFFICES ASSUME OutInv, [OutNext]_outreach
             PROVE  Delivery!Next \/ UNCHANGED DeliveryState
  OBVIOUS
<1>1. ASSUME NEW m \in Messages, DecisionRequest(m)
      PROVE  Delivery!Next \/ UNCHANGED DeliveryState
  <2>1. PICK d \in ApprovalStatus \ {"none", "pending"} : Decide(m, d)
    BY <1>1 DEF DecisionRequest
  <2>2. /\ Exists(m) /\ message[m] \in MessageRow
        /\ approval'[m] = d /\ UNCHANGED <<contact, message, handed, sentToday>>
        /\ \A n \in Messages \ {m} : approval'[n] = approval[n]
    BY <2>1 DEF Decide, OutInv, OutTypeOK, MessagesInStep, Exists
  <2>3. Texts' = Texts /\ BlockedMessages' = BlockedMessages /\ Texts[m] # 0
    BY <2>2, OutreachConstantsOK DEF Texts, BlockedMessages, Exists, Status, MessageRow
  <2>4. \A n \in Messages \ {m} : ClearedMessages'[n] = ClearedMessages[n]
    BY <2>2 DEF ClearedMessages, Has, Exists
  <2>5. CASE ApprovalRequired /\ d = "approved"
    <3>1. ClearedMessages'[m] = TRUE
      BY <2>2, <2>5 DEF ClearedMessages
    <3>2. ClearedMessages' = [ClearedMessages EXCEPT ![m] = TRUE]
      BY <2>4, <3>1 DEF ClearedMessages
    <3>3. Delivery!Clear(m)
      BY <2>2, <2>3, <3>2 DEF Delivery!Clear
    <3>. QED BY <3>3 DEF Delivery!Next
  <2>6. CASE ~(ApprovalRequired /\ d = "approved")
    <3>1. ClearedMessages'[m] = ClearedMessages[m]
      BY <2>1, <2>2, <2>6 DEF ClearedMessages, Decide, Has, Exists
    <3>2. ClearedMessages' = ClearedMessages
      BY <2>4, <3>1 DEF ClearedMessages
    <3>. QED BY <2>2, <2>3, <3>2 DEF DeliveryState
  <2>. QED BY <2>5, <2>6
<1>2. ASSUME NEW m \in Messages, NEW r \in Runs, Send(m, r)
      PROVE  Delivery!Next \/ UNCHANGED DeliveryState
  <2>1. PICK row \in RunRow : row.message = m /\ Attempt(r, row)
    BY <1>2, SendAttempts
  <2>2. Delivery!Deliver(m) \/ UNCHANGED DeliveryState
    BY <1>2, <2>1, AttemptStepSeen DEF Send
  <2>. QED BY <2>2 DEF Delivery!Next
<1>3. ASSUME NEW r \in Runs, Retry(r)
      PROVE  Delivery!Next \/ UNCHANGED DeliveryState
  <2>1. PICK m \in Messages, row \in RunRow :
            m = run[r].message /\ row.message = m /\ Attempt(r, row)
    BY <1>3, RetryAttempts
  <2>2. Has(m, {"pending_approval", "approved", "failed"}) /\ Status(m) # "pending_approval"
    BY <1>3, <2>1 DEF Retry, Has, Status
  <2>3. Delivery!Deliver(m) \/ UNCHANGED DeliveryState
    BY <1>3, <2>1, <2>2, AttemptStepSeen DEF Retry
  <2>. QED BY <2>3 DEF Delivery!Next
<1>4. CASE Midnight
  <2>1. \A n \in Messages : /\ Texts'[n] = Texts[n] /\ ClearedMessages'[n] = ClearedMessages[n]
                            /\ n \in BlockedMessages' <=> n \in BlockedMessages
    BY <1>4, OthersKept DEF Midnight
  <2>2. Texts' = Texts /\ ClearedMessages' = ClearedMessages /\ BlockedMessages' = BlockedMessages
    BY <1>4 DEF Midnight, Texts, ClearedMessages, BlockedMessages, Exists, Has, Status
  <2>3. Delivery!Midnight
    BY <1>4, <2>2 DEF Midnight, Delivery!Midnight
  <2>. QED BY <2>3 DEF Delivery!Next
<1>5. \A m \in Messages : DraftRequest(m) => Delivery!Next \/ UNCHANGED DeliveryState
  BY DraftStep
<1>6. \A m \in Messages : MarkSuppressed(m) => Delivery!Next
  BY SuppressStep DEF Delivery!Next
<1>7. CASE \/ DiscoverForJob /\ UNCHANGED outVars
           \/ \E m \in Messages : RecordResponse(m)
           \/ Reconfigure \/ UNCHANGED outreach
  BY <1>7, QuietSteps
<1>. QED BY <1>1, <1>2, <1>3, <1>4, <1>5, <1>6, <1>7 DEF OutNext, SendRequest, RetryRequest

\* The engine implements MessageDelivery: what was approved is sent, once, within the
\* day's limit, unless it was cancelled or its contact opted out before.
THEOREM OutreachImplementsDelivery == OutSpec => DeliveryHonoured
<1>1. OutInit => Delivery!Init
  BY DEF OutInit, Delivery!Init, Texts, ClearedMessages, BlockedMessages, Exists, Has
<1>2. OutInv /\ [OutNext]_outreach => [Delivery!Next]_(Delivery!delivery)
  BY DeliveryStep DEF DeliveryState, Delivery!delivery
<1>. QED BY <1>1, <1>2, OutInvariance, PTL DEF OutSpec, DeliveryHonoured, Delivery!Spec

-----------------------------------------------------------------------------
(* The recruiter signals.                                                   *)

\* A review is about a recorded signal.
ReviewsHaveSignals == \A a \in Reviews : review[a] # NoRow => Recorded(review[a].signal)

SigInv ==
    /\ SigTypeOK /\ GeneratedPassesQuality /\ PreparedWasReviewed
    /\ \A s \in prepared : Recorded(s)
    /\ ReviewsHaveSignals

-----------------------------------------------------------------------------
\* The table never leads from a settled status to another than expired.
LEMMA SettledTransitions ==
    ASSUME NEW from \in SignalStatus, NEW to \in SignalStatus, MayBecome(from, to),
           from \in Settled
    PROVE  to \in {from, "expired"}
<1>1. CASE from = "approved"
  BY <1>1 DEF MayBecome, AllowedTransitions
<1>2. CASE from = "rejected"
  BY <1>2 DEF MayBecome, AllowedTransitions
<1>3. CASE from = "expired"
  BY <1>3 DEF MayBecome, AllowedTransitions
<1>. QED BY <1>1, <1>2, <1>3 DEF Settled

\* What one contact supports is coherent: a role names nobody, the rest names it.
LEMMA SupportedIsCoherent ==
    ASSUME NEW s \in SignalIds, NEW c \in Supporters(s)
    PROVE  /\ c \in Contacts /\ Known(c)
           /\ s.type = "role_relevant" => s.recruiter = Nobody
           /\ s.type # "role_relevant" => s.recruiter = c
<1>1. /\ c \in Contacts /\ Known(c) /\ Supports(c, s.type, s.recruiter)
  BY DEF Supporters, SurfacedContacts
<1>2. IF IdentitySupported(c) THEN s.recruiter = c /\ s.type # "role_relevant"
      ELSE s.recruiter = Nobody /\ s.type = "role_relevant"
  BY <1>1 DEF Supports
<1>. QED BY <1>1, <1>2

\* A new signal is coherent with the contact it was made from.
LEMMA NewSignalCoherent ==
    ASSUME SigInv, NEW s \in SignalIds, NEW first \in Orders, Supporters(s) # {}
    PROVE  LET row == NewSignal(first[Supporters(s)])
           IN  /\ row \in SignalRow
               /\ TypeCoherent(s) /\ ContactResolvable(s)
               /\ "email" \in row.methods => row.email # "none"
               /\ "linkedin" \in row.methods => ProfileOf[row.evidence] = "linkedin"
<1> DEFINE c == first[Supporters(s)]
<1>1. Supporters(s) \in (SUBSET Contacts) \ {{}}
  BY DEF Supporters, SurfacedContacts
<1>2. c \in Supporters(s)
  BY <1>1 DEF Orders
<1> HIDE DEF c
<1>3. /\ c \in Contacts /\ Known(c)
      /\ s.type = "role_relevant" => s.recruiter = Nobody
      /\ s.type # "role_relevant" => s.recruiter = c
  BY <1>2, SupportedIsCoherent
<1>4. contact[c].email \in Emails
  BY <1>3 DEF SigInv, SigTypeOK, ContactTypeOK, Known, ContactRow
<1>5. /\ ContactMethods(c) \in SUBSET {"email", "linkedin"}
      /\ "email" \in ContactMethods(c) => contact[c].email = "valid"
      /\ "linkedin" \in ContactMethods(c) => ProfileOf[c] = "linkedin"
  BY DEF ContactMethods
<1>6. NewSignal(c) \in SignalRow
  BY <1>3, <1>4, <1>5 DEF NewSignal, SignalRow, SignalStatus
<1>7. TypeCoherent(s) /\ ContactResolvable(s)
  BY <1>3, SignalConstantsOK DEF TypeCoherent, ContactResolvable
<1>. QED BY <1>5, <1>6, <1>7 DEF NewSignal, c

\* A step that rewrites statuses: of signals along the table, of open reviews.
LEMMA StatusInv ==
    ASSUME SigInv, UNCHANGED contact, SigTypeOK', prepared' = prepared,
           \A s \in SignalIds : Recorded(s)' <=> Recorded(s),
           \A s \in SignalIds : Recorded(s) =>
              /\ signal'[s].methods = signal[s].methods /\ signal'[s].email = signal[s].email
              /\ signal'[s].evidence = signal[s].evidence
              /\ signal[s].status \in Settled => signal'[s].status \in {signal[s].status, "expired"},
           \A a \in Reviews : review[a] # NoRow /\ review[a].status = "approved"
                                => review'[a] = review[a],
           \A a \in Reviews : review'[a] # NoRow => Recorded(review'[a].signal)
    PROVE  SigInv'
<1>1. GeneratedPassesQuality'
  BY DEF SigInv, GeneratedPassesQuality, PassesQuality, TypeCoherent, ContactResolvable,
         MethodsCoherent, Known
<1>2. ASSUME NEW s \in prepared
      PROVE  /\ HasReview(s, {"approved"})' /\ signal'[s].status \in {"approved", "expired"}
             /\ s.recruiter # Nobody /\ contact[s.recruiter].verified /\ contact[s.recruiter].confident
  <2>1. s \in SignalIds /\ signal[s].status \in {"approved", "expired"} /\ Recorded(s)
    BY DEF SigInv, SigTypeOK, PreparedWasReviewed
  <2>. QED BY <2>1 DEF SigInv, PreparedWasReviewed, HasReview, ReviewsOf, Settled
<1>3. PreparedWasReviewed'
  BY <1>2 DEF PreparedWasReviewed
<1>4. \A s \in prepared' : Recorded(s)'
  BY DEF SigInv, SigTypeOK
<1>5. ReviewsHaveSignals'
  <2>1. \A a \in Reviews : review'[a] # NoRow => review'[a].signal \in SignalIds
    BY DEF SigTypeOK, ReviewRow
  <2>. QED BY <2>1 DEF ReviewsHaveSignals
<1>. QED BY <1>1, <1>3, <1>4, <1>5 DEF SigInv

\* A step that rewrites one signal's status and one review's.
LEMMA OneStatusInv ==
    ASSUME SigInv, NEW s \in SignalIds, Recorded(s), NEW to \in SignalStatus,
           signal[s].status \in Settled => to \in {signal[s].status, "expired"},
           signal' = [signal EXCEPT ![s].status = to],
           \/ review' = review
           \/ \E a \in Reviews, d \in ReviewStatus :
                /\ review[a] # NoRow /\ review[a].status \in OpenReview
                /\ review' = [review EXCEPT ![a].status = d],
           UNCHANGED <<contact, prepared>>
    PROVE  SigInv' /\ \A r \in SignalIds : Recorded(r) /\ signal[r].status \in Settled
              => signal'[r] # NoRow /\ signal'[r].status \in {signal[r].status, "expired"}
<1>1. signal[s] \in SignalRow /\ signal[s].status \in SignalStatus
  BY DEF SigInv, SigTypeOK, Recorded, SignalRow
<1> DEFINE row == [signal[s] EXCEPT !.status = to]
<1>2. /\ row \in SignalRow /\ row.status = to /\ row.methods = signal[s].methods
      /\ row.email = signal[s].email /\ row.evidence = signal[s].evidence
  BY <1>1 DEF SignalRow
<1>3. signal' = [signal EXCEPT ![s] = row]
  BY DEF SigInv, SigTypeOK
<1>4. row # NoRow
  BY <1>2, SignalConstantsOK
<1> HIDE DEF row
<1>5. signal[s].status \in Settled => to \in {signal[s].status, "expired"}
  OBVIOUS
<1>6. /\ review' \in [Reviews -> ReviewRow \cup {NoRow}]
      /\ \A a \in Reviews : review'[a] # NoRow => Recorded(review'[a].signal)
      /\ \A a \in Reviews : review[a] # NoRow /\ review[a].status = "approved"
                                => review'[a] = review[a]
  <2>1. CASE review' = review
    BY <2>1 DEF SigInv, SigTypeOK, ReviewsHaveSignals
  <2>2. ASSUME NEW a \in Reviews, NEW d \in ReviewStatus,
               review[a] # NoRow, review[a].status \in OpenReview,
               review' = [review EXCEPT ![a].status = d]
        PROVE  /\ review' \in [Reviews -> ReviewRow \cup {NoRow}]
               /\ \A b \in Reviews : review'[b] # NoRow => Recorded(review'[b].signal)
               /\ \A b \in Reviews : review[b] # NoRow /\ review[b].status = "approved"
                                => review'[b] = review[b]
    <3>1. review[a] \in ReviewRow
      BY <2>2 DEF SigInv, SigTypeOK
    <3>2. /\ [review[a] EXCEPT !.status = d] \in ReviewRow
          /\ [review[a] EXCEPT !.status = d].signal = review[a].signal
      BY <3>1 DEF ReviewRow
    <3>3. review' = [review EXCEPT ![a] = [review[a] EXCEPT !.status = d]]
      BY <2>2 DEF SigInv, SigTypeOK
    <3>. QED BY <2>2, <3>2, <3>3 DEF SigInv, SigTypeOK, OpenReview, ReviewsHaveSignals
  <2>. QED BY <2>1, <2>2
<1>7. /\ signal'[s] = row /\ signal' \in [SignalIds -> SignalRow \cup {NoRow}]
      /\ \A r \in SignalIds : r # s => signal'[r] = signal[r]
  BY <1>2, <1>3 DEF SigInv, SigTypeOK
<1>8. SigTypeOK'
  BY <1>6, <1>7 DEF SigInv, SigTypeOK, ContactTypeOK
<1>9. \A r \in SignalIds : Recorded(r)' <=> Recorded(r)
  BY <1>4, <1>7 DEF Recorded
<1>10. \A r \in SignalIds : Recorded(r) =>
          /\ signal'[r].methods = signal[r].methods /\ signal'[r].email = signal[r].email
          /\ signal'[r].evidence = signal[r].evidence
          /\ signal[r].status \in Settled => signal'[r].status \in {signal[r].status, "expired"}
  <2> SUFFICES ASSUME NEW r \in SignalIds, Recorded(r)
               PROVE  /\ signal'[r].methods = signal[r].methods /\ signal'[r].email = signal[r].email
                      /\ signal'[r].evidence = signal[r].evidence
                      /\ signal[r].status \in Settled => signal'[r].status \in {signal[r].status, "expired"}
    OBVIOUS
  <2>1. CASE r = s
    BY <1>2, <1>5, <1>7, <2>1
  <2>2. CASE r # s
    BY <1>7, <2>2
  <2>. QED BY <2>1, <2>2
<1>11. SigInv'
  BY <1>6, <1>8, <1>9, <1>10, StatusInv
<1>. QED BY <1>9, <1>10, <1>11 DEF Recorded

\* Discovery and opt-outs.
LEMMA SignalContactsInv ==
    ASSUME SigInv, DiscoverForJob \/ \E c \in Contacts : Known(c) /\ Suppress(c),
           UNCHANGED <<signal, review, prepared>>
    PROVE  SigInv'
<1>1. /\ ContactTypeOK'
      /\ \A c \in Contacts : Known(c) => /\ Known(c)'
                                         /\ contact'[c].verified = contact[c].verified
                                         /\ contact'[c].confident = contact[c].confident
  BY ContactsKept DEF SigInv, SigTypeOK
<1>2. SigTypeOK'
  BY <1>1 DEF SigInv, SigTypeOK
<1>3. \A s \in SignalIds : s.recruiter \in Contacts \cup {Nobody}
  BY DEF SignalIds
<1>4. GeneratedPassesQuality'
  BY <1>1, <1>3 DEF SigInv, GeneratedPassesQuality, PassesQuality, TypeCoherent, ContactResolvable,
                    MethodsCoherent, Recorded
<1>5. ASSUME NEW s \in prepared
      PROVE  s.recruiter \in Contacts /\ Known(s.recruiter)
  BY <1>3 DEF SigInv, SigTypeOK, GeneratedPassesQuality, PassesQuality, ContactResolvable,
              PreparedWasReviewed
<1>6. PreparedWasReviewed'
  BY <1>1, <1>5 DEF SigInv, PreparedWasReviewed, HasReview, ReviewsOf
<1>7. /\ \A s \in prepared' : Recorded(s)'
      /\ ReviewsHaveSignals'
  BY DEF SigInv, Recorded, ReviewsHaveSignals
<1>. QED BY <1>2, <1>4, <1>6, <1>7 DEF SigInv

\* A generation pass adds coherent signals and leaves the others as they are.
LEMMA GenerateInv ==
    ASSUME SigInv, GenerateForCandidate
    PROVE  /\ SigInv'
           /\ \A s \in SignalIds : Recorded(s) => signal'[s] = signal[s]
<1>1. PICK eligible \in SUBSET Jobs, first \in Orders : Generate(eligible, first)
  BY DEF GenerateForCandidate
<1>2. UNCHANGED <<contact, review, prepared>>
  BY <1>1 DEF Generate
<1>3. ASSUME NEW s \in SignalIds
      PROVE  \/ signal'[s] = signal[s]
             \/ /\ ~Recorded(s) /\ Supporters(s) # {}
                /\ signal'[s] = NewSignal(first[Supporters(s)])
  BY <1>1 DEF Generate, Created, Recorded
<1>4. ASSUME NEW s \in SignalIds, signal'[s] # signal[s]
      PROVE  /\ signal'[s] \in SignalRow /\ PassesQuality(s)'
  <2>1. Supporters(s) # {} /\ signal'[s] = NewSignal(first[Supporters(s)])
    BY <1>3, <1>4
  <2>2. /\ signal'[s] \in SignalRow
        /\ TypeCoherent(s) /\ ContactResolvable(s)
        /\ "email" \in signal'[s].methods => signal'[s].email # "none"
        /\ "linkedin" \in signal'[s].methods => ProfileOf[signal'[s].evidence] = "linkedin"
    BY <2>1, NewSignalCoherent
  <2>. QED BY <1>2, <2>2 DEF PassesQuality, TypeCoherent, ContactResolvable, MethodsCoherent, Known
<1>5. SigTypeOK'
  <2>1. \A s \in SignalIds : signal'[s] \in SignalRow \cup {NoRow}
    BY <1>4 DEF SigInv, SigTypeOK
  <2>2. signal' = [s \in SignalIds |-> signal'[s]]
    BY <1>1 DEF Generate
  <2>. QED BY <1>2, <2>1, <2>2 DEF SigInv, SigTypeOK, ContactTypeOK
<1>6. GeneratedPassesQuality'
  <2> SUFFICES ASSUME NEW s \in SignalIds, Recorded(s)' PROVE PassesQuality(s)'
    BY DEF GeneratedPassesQuality
  <2>1. CASE signal'[s] = signal[s]
    BY <1>2, <2>1 DEF SigInv, GeneratedPassesQuality, Recorded, PassesQuality, TypeCoherent,
                      ContactResolvable, MethodsCoherent, Known
  <2>2. CASE signal'[s] # signal[s]
    BY <1>4, <2>2
  <2>. QED BY <2>1, <2>2
<1>7. \A s \in SignalIds : Recorded(s) => signal'[s] = signal[s]
  BY <1>3
<1>8. PreparedWasReviewed' /\ \A s \in prepared' : Recorded(s)'
  <2>1. \A s \in prepared : s \in SignalIds /\ Recorded(s) /\ signal'[s] = signal[s]
    BY <1>7 DEF SigInv, SigTypeOK
  <2>. QED BY <1>2, <2>1 DEF SigInv, PreparedWasReviewed, HasReview, ReviewsOf, Recorded
<1>9. ReviewsHaveSignals'
  <2>1. \A a \in Reviews : review[a] # NoRow => review[a].signal \in SignalIds
    BY DEF SigInv, SigTypeOK, ReviewRow
  <2>. QED BY <1>2, <1>7, <2>1 DEF SigInv, Recorded, ReviewsHaveSignals
<1>. QED BY <1>5, <1>6, <1>7, <1>8, <1>9 DEF SigInv

\* Every request keeps the invariant, and the settled signals settled.
LEMMA SigStep ==
    ASSUME SigInv, SigNext
    PROVE  SigInv' /\ \A s \in SignalIds : Recorded(s) /\ signal[s].status \in Settled
              => signal'[s] # NoRow /\ signal'[s].status \in {signal[s].status, "expired"}
<1> DEFINE Goal == SigInv' /\ \A s \in SignalIds : Recorded(s) /\ signal[s].status \in Settled
              => signal'[s] # NoRow /\ signal'[s].status \in {signal[s].status, "expired"}
<1>1. CASE DiscoverForJob /\ UNCHANGED <<signal, review, prepared>>
  BY <1>1, SignalContactsInv DEF Recorded
<1>2. ASSUME NEW c \in Contacts, OptOut(c) PROVE Goal
  BY <1>2, SignalContactsInv DEF OptOut, Recorded
<1>3. CASE GenerateForCandidate
  BY <1>3, GenerateInv DEF Recorded
<1>4. ASSUME NEW s \in SignalIds, NEW status \in SignalStatus, UpdateStatus(s, status) PROVE Goal
  <2>1. /\ Recorded(s) /\ MayBecome(signal[s].status, status)
        /\ signal' = [signal EXCEPT ![s].status = status]
        /\ UNCHANGED <<contact, review, prepared>>
    BY <1>4 DEF UpdateStatus
  <2>2. signal[s].status \in SignalStatus
    BY <2>1 DEF SigInv, SigTypeOK, Recorded, SignalRow
  <2>. QED BY <2>1, <2>2, SettledTransitions, OneStatusInv
<1>5. \A a \in Reviews : review[a] # NoRow => review[a] \in ReviewRow /\ review[a].signal \in SignalIds
  BY DEF SigInv, SigTypeOK, ReviewRow
<1>6. ASSUME NEW s \in SignalIds, NEW a \in Reviews, RequestReview(s, a) PROVE Goal
  <2> DEFINE row == [signal |-> s, status |-> "pending"]
  <2>1. row \in ReviewRow
    BY DEF ReviewRow, ReviewStatus
  <2>2. review' = [review EXCEPT ![a] = row] /\ review[a] = NoRow
        /\ UNCHANGED <<contact, signal, prepared>>
    BY <1>6 DEF RequestReview
  <2>3. SigTypeOK'
    BY <2>1, <2>2 DEF SigInv, SigTypeOK, ContactTypeOK
  <2>4. \A b \in Reviews : review[b] # NoRow /\ review[b].status = "approved"
                                => review'[b] = review[b]
    BY <2>2 DEF SigInv, SigTypeOK
  <2>5. \A b \in Reviews : review'[b] # NoRow => Recorded(review'[b].signal)
    BY <1>6, <2>2 DEF RequestReview, SigInv, SigTypeOK, ReviewsHaveSignals
  <2>6. \A r \in SignalIds : Recorded(r)' <=> Recorded(r)
    BY <2>2 DEF Recorded
  <2>7. SigInv'
    BY <2>2, <2>3, <2>4, <2>5, <2>6, StatusInv
  <2>. QED BY <2>2, <2>7 DEF Recorded
<1>7. ASSUME NEW s \in SignalIds, Prepare(s) PROVE Goal
  <2>1. /\ Recorded(s) /\ s.type = "outreach_candidate" /\ signal[s].status = "approved"
        /\ HasReview(s, {"approved"}) /\ Usable(s.recruiter)
        /\ prepared' = prepared \cup {s} /\ UNCHANGED <<contact, signal, review>>
    BY <1>7 DEF Prepare, ReviewApproved
  <2>2. s.recruiter # Nobody
    BY <2>1 DEF SigInv, GeneratedPassesQuality, PassesQuality, TypeCoherent
  <2>3. SigTypeOK' /\ GeneratedPassesQuality' /\ \A r \in prepared' : Recorded(r)'
    BY <2>1 DEF SigInv, SigTypeOK, ContactTypeOK, GeneratedPassesQuality, PassesQuality, TypeCoherent,
                ContactResolvable, MethodsCoherent, Recorded, Known
  <2>4. PreparedWasReviewed'
    BY <2>1, <2>2 DEF SigInv, PreparedWasReviewed, HasReview, ReviewsOf, Usable
  <2>. QED BY <2>1, <2>3, <2>4 DEF SigInv, Recorded, ReviewsHaveSignals
<1>8. ASSUME NEW a \in Reviews, Approve(a) PROVE Goal
  <2> DEFINE s == review[a].signal
  <2>1. /\ s \in SignalIds /\ review[a] # NoRow /\ review[a].status \in OpenReview
        /\ Recorded(s) /\ signal[s].status \in SignalStatus
    BY <1>5, <1>8 DEF Approve, SigInv, SigTypeOK, ReviewsHaveSignals, Recorded, SignalRow
  <2>2. /\ signal' = [signal EXCEPT ![s].status = "approved"]
        /\ review' = [review EXCEPT ![a].status = "approved"]
        /\ UNCHANGED <<contact, prepared>>
    BY <1>8 DEF Approve
  <2>3. signal[s].status \in Settled => MayBecome(signal[s].status, "approved")
    BY <1>8 DEF Approve, Settled
  <2>4. "approved" \in SignalStatus /\ "approved" \in ReviewStatus
    BY DEF SignalStatus, ReviewStatus
  <2>5. signal[s].status \in Settled => "approved" \in {signal[s].status, "expired"}
    BY <2>1, <2>3, <2>4, SettledTransitions
  <2>. QED BY <2>1, <2>2, <2>4, <2>5, OneStatusInv
<1>9. ASSUME NEW a \in Reviews, Reject(a) PROVE Goal
  <2> DEFINE s == review[a].signal
  <2>1. /\ s \in SignalIds /\ review[a] # NoRow /\ review[a].status \in OpenReview
        /\ Recorded(s) /\ signal[s].status \in SignalStatus
    BY <1>5, <1>9 DEF Reject, SigInv, SigTypeOK, ReviewsHaveSignals, Recorded, SignalRow
  <2>2. /\ signal' = [signal EXCEPT ![s].status = "rejected"]
        /\ review' = [review EXCEPT ![a].status = "rejected"]
        /\ MayBecome(signal[s].status, "rejected") /\ UNCHANGED <<contact, prepared>>
    BY <1>9 DEF Reject
  <2>3. "rejected" \in SignalStatus /\ "rejected" \in ReviewStatus
    BY DEF SignalStatus, ReviewStatus
  <2>4. signal[s].status \in Settled => "rejected" \in {signal[s].status, "expired"}
    BY <2>1, <2>2, <2>3, SettledTransitions
  <2>. QED BY <2>1, <2>2, <2>3, <2>4, OneStatusInv
<1>10. ASSUME NEW a \in Reviews, NEW d \in ReviewStatus \ {"pending"}, DecideElsewhere(a, d)
       PROVE  Goal
  <2> DEFINE row == [review[a] EXCEPT !.status = d]
  <2>1. review[a] \in ReviewRow /\ review[a] # NoRow /\ review[a].status \in OpenReview
    BY <1>5, <1>10 DEF DecideElsewhere
  <2>2. row \in ReviewRow /\ row.signal = review[a].signal
    BY <2>1 DEF ReviewRow
  <2>3. review' = [review EXCEPT ![a] = row] /\ UNCHANGED <<contact, signal, prepared>>
    BY <1>10 DEF DecideElsewhere, SigInv, SigTypeOK
  <2> HIDE DEF row
  <2>4. SigTypeOK'
    BY <2>2, <2>3 DEF SigInv, SigTypeOK, ContactTypeOK
  <2>5. \A b \in Reviews : review[b] # NoRow /\ review[b].status = "approved"
                                => review'[b] = review[b]
    BY <2>1, <2>3 DEF SigInv, SigTypeOK, OpenReview
  <2>6. \A b \in Reviews : review'[b] # NoRow => Recorded(review'[b].signal)
    BY <2>1, <2>2, <2>3 DEF SigInv, SigTypeOK, ReviewsHaveSignals
  <2>7. \A s \in SignalIds : Recorded(s)' <=> Recorded(s)
    BY <2>3 DEF Recorded
  <2>8. SigInv'
    BY <2>3, <2>4, <2>5, <2>6, <2>7, StatusInv
  <2>. QED BY <2>3, <2>8 DEF Recorded
<1>. QED BY <1>1, <1>2, <1>3, <1>4, <1>6, <1>7, <1>8, <1>9, <1>10 DEF SigNext

\* Initially nothing is stored; a stutter changes nothing.
LEMMA SigInvariance == SigSpec => []SigInv
<1>1. SigInit => SigInv
  BY DEF SigInit, ContactInit, SigInv, SigTypeOK, ContactTypeOK, GeneratedPassesQuality, Recorded,
         PreparedWasReviewed, ReviewsHaveSignals
<1>2. SigInv /\ UNCHANGED signals => SigInv'
  <2> SUFFICES ASSUME SigInv, UNCHANGED signals PROVE SigInv'
    OBVIOUS
  <2>1. SigTypeOK' /\ GeneratedPassesQuality'
    BY DEF signals, SigInv, SigTypeOK, ContactTypeOK, GeneratedPassesQuality, PassesQuality,
           TypeCoherent, ContactResolvable, MethodsCoherent, Recorded, Known
  <2>2. PreparedWasReviewed'
    BY DEF signals, SigInv, PreparedWasReviewed, HasReview, ReviewsOf
  <2>. QED BY <2>1, <2>2 DEF signals, SigInv, Recorded, ReviewsHaveSignals
<1>. QED BY <1>1, <1>2, SigStep, PTL DEF SigSpec

-----------------------------------------------------------------------------
\* Rows keep to their enumerations.
THEOREM SignalsTypeCorrect == SigSpec => []SigTypeOK
<1>1. SigInv => SigTypeOK
  BY DEF SigInv
<1>. QED BY <1>1, SigInvariance, PTL

\* Whatever the directory lists, what the generator stores passes the evaluation.
THEOREM GeneratedSignalsPass == SigSpec => []GeneratedPassesQuality
<1>1. SigInv => GeneratedPassesQuality
  BY DEF SigInv
<1>. QED BY <1>1, SigInvariance, PTL

\* No sequence of requests prepares a draft without an approved review of its signal.
THEOREM PreparationsAreReviewed == SigSpec => []PreparedWasReviewed
<1>1. SigInv => PreparedWasReviewed
  BY DEF SigInv
<1>. QED BY <1>1, SigInvariance, PTL

\* No review, decision or status request brings a settled signal back.
THEOREM SettledSignalsStay == SigSpec => SettledIsFinal
<1>1. SigInv /\ [SigNext]_signals =>
        [\A s \in SignalIds : Recorded(s) /\ signal[s].status \in Settled
           => signal'[s] # NoRow /\ signal'[s].status \in {signal[s].status, "expired"}]_signals
  BY SigStep
<1>. QED BY <1>1, SigInvariance, PTL DEF SigSpec, SettledIsFinal
=============================================================================
