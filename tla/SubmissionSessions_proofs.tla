---------------------- MODULE SubmissionSessions_proofs ----------------------
(***************************************************************************)
(* Proofs about SubmissionSessions for any number of overlapping requests  *)
(* and crashes.  The partial unique index is a lock: a session that has     *)
(* written its run keeps every other one from writing until it ends, so    *)
(* the run it will commit continues the committed one and no other run is  *)
(* active.  Stage says what a session holds at each of its statements.     *)
(***************************************************************************)
EXTENDS SubmissionSessions, TLAPS

Answered == {"submitted", "paused", "retry_pending", "failed"}

\* What a session works on and has written, at each of its statements.
Stage(s) ==
    /\ at[s] \in {"reopen", "call", "commit"} => target[s] \in Runs
    /\ at[s] = "reopen" => Committed(target[s])
    /\ at[s] \in {"call", "commit"} =>
        /\ draft[s] \in RunRow
        /\ ~Taken(target[s])
    /\ at[s] \notin {"call", "commit"} => draft[s] = NoRow
    /\ at[s] = "call" => draft[s].attempts = unsuccessful[target[s]]
    /\ at[s] = "commit" =>
        /\ draft[s].status \in Answered
        /\ draft[s].status = "submitted" => draft[s].attempts = unsuccessful[target[s]]
        /\ draft[s].status # "submitted" => draft[s].attempts = unsuccessful[target[s]] + 1

\* Submissions are recorded, about to be recorded or forgotten.
Ledger ==
    application = "ready" =>
        /\ (\A s \in Sessions : ~Submitting(s)) => sent = forgotten
        /\ (\E s \in Sessions : Submitting(s)) => sent = forgotten + 1

IInv ==
    /\ TypeOK
    /\ \A s \in Sessions : Stage(s)
    /\ NeverConcurrent
    /\ OneActiveRun
    /\ NoLostAttempt
    /\ \A r \in Runs : ~Committed(r) => unsuccessful[r] = 0
    /\ Ledger

\* The value of an absent row is no run.
LEMMA Absent == NoRow \notin RunRow /\ NoRow \notin Runs
  BY SubmissionConstantsOK

\* A session that calls or commits has written; no other session has.
LEMMA Alone ==
    ASSUME IInv, NEW s \in Sessions, at[s] \in {"call", "commit"}
    PROVE  /\ \A t \in Sessions \ {s} : at[t] \notin {"call", "commit"} /\ ~Submitting(t)
           /\ draft[s] \in RunRow /\ target[s] \in Runs /\ ~Taken(target[s])
<1>1. Stage(s)
  BY DEF IInv
<1>2. \A t \in Sessions \ {s} : at[t] \notin {"call", "commit"}
  BY DEF IInv, NeverConcurrent
<1>. QED BY <1>1, <1>2 DEF Stage, Submitting

\* Before any session starts the invariant holds.
LEMMA InitInv == Init => IInv
<1> SUFFICES ASSUME Init PROVE IInv
  OBVIOUS
<1>1. PICK row \in {NoRow} \cup [status : {"retry_pending", "resumable"},
                                 attempts : 1..(MaxRunAttempts - 1)] :
        /\ runs = [r \in Runs |-> IF r = 1 THEN row ELSE NoRow]
        /\ unsuccessful = [r \in Runs |-> IF r = 1 /\ row # NoRow THEN row.attempts ELSE 0]
  BY DEF Init
<1>2. row # NoRow => row \in RunRow /\ row.attempts \in Nat
  BY <1>1, SubmissionConstantsOK DEF RunRow, RunStatus, ActiveStatus
<1>3. TypeOK
  <2>1. runs \in [Runs -> RunRow \cup {NoRow}] /\ unsuccessful \in [Runs -> Nat]
    BY <1>1, <1>2
  <2>. QED BY <2>1 DEF Init, TypeOK, Points
<1>4. \A s \in Sessions : at[s] = "start" /\ draft[s] = NoRow
  BY DEF Init
<1>5. \A s \in Sessions : Stage(s)
  BY <1>4 DEF Stage
<1>6. NeverConcurrent /\ Ledger
  BY <1>4 DEF NeverConcurrent, Ledger, Submitting, Init
<1>7. \A r \in Runs : /\ Committed(r) => r = 1 /\ runs[r].attempts = unsuccessful[r]
                      /\ ~Committed(r) => unsuccessful[r] = 0
  BY <1>1, Absent DEF Committed
<1>. QED BY <1>3, <1>5, <1>6, <1>7 DEF IInv, OneActiveRun, NoLostAttempt

\* A statement after which the session has written no run: a check, a move to the
\* next statement, a refusal, a crash.
LEMMA QuietInv ==
    ASSUME IInv, NEW s \in Sessions,
           NEW point \in Points \ {"call", "commit"}, NEW r \in Runs \cup {NoRow},
           point = "reopen" => r \in Runs /\ Committed(r),
           at' = [at EXCEPT ![s] = point],
           target' = [target EXCEPT ![s] = r],
           draft' = [draft EXCEPT ![s] = NoRow],
           creating' \in [Sessions -> BOOLEAN],
           UNCHANGED <<db, kind, sent>>,
           forgotten' = forgotten + IF Submitting(s) THEN 1 ELSE 0
    PROVE  IInv'
<1> USE DEF IInv
<1>1. TypeOK'
  <2>1. forgotten' \in Nat
    <3>1. CASE Submitting(s)
      BY <3>1 DEF TypeOK
    <3>2. CASE ~Submitting(s)
      BY <3>2 DEF TypeOK
    <3>. QED BY <3>1, <3>2
  <2>2. at' \in [Sessions -> Points] /\ target' \in [Sessions -> Runs \cup {NoRow}]
    BY DEF TypeOK
  <2>3. draft' \in [Sessions -> RunRow \cup {NoRow}]
    BY DEF TypeOK
  <2>. QED BY <2>1, <2>2, <2>3 DEF TypeOK, db
<1>2. /\ at'[s] = point /\ target'[s] = r /\ draft'[s] = NoRow
      /\ \A t \in Sessions \ {s} : at'[t] = at[t] /\ target'[t] = target[t] /\ draft'[t] = draft[t]
      /\ runs' = runs /\ unsuccessful' = unsuccessful /\ application' = application
  BY DEF TypeOK, db
<1>3. \A t \in Sessions : Stage(t)'
  <2>1. Stage(s)'
    BY <1>2 DEF Stage, Committed
  <2>2. ASSUME NEW t \in Sessions \ {s} PROVE Stage(t)'
    BY <1>2 DEF Stage, Committed, Taken
  <2>. QED BY <2>1, <2>2
<1>4. NeverConcurrent'
  BY <1>2 DEF NeverConcurrent
<1>5. OneActiveRun' /\ NoLostAttempt' /\ \A q \in Runs : ~Committed(q)' => unsuccessful'[q] = 0
  BY <1>2 DEF OneActiveRun, NoLostAttempt, Committed
<1>6. Ledger'
  <2>1. /\ ~Submitting(s)'
        /\ \A t \in Sessions \ {s} : Submitting(t)' <=> Submitting(t)
    BY <1>2 DEF Submitting
  <2>2. CASE Submitting(s)
    <3>1. \A t \in Sessions \ {s} : ~Submitting(t)
      BY <2>2, Alone DEF Submitting
    <3>2. forgotten' = forgotten + 1 /\ sent' = sent
      BY <2>2
    <3>. QED BY <1>2, <2>1, <2>2, <3>1, <3>2 DEF Ledger
  <2>3. CASE ~Submitting(s)
    <3>1. forgotten' = forgotten /\ sent' = sent
      BY <2>3 DEF TypeOK
    <3>2. (\E t \in Sessions : Submitting(t)') <=> \E t \in Sessions : Submitting(t)
      BY <2>1, <2>3
    <3>. QED BY <1>2, <3>1, <3>2 DEF Ledger
  <2>. QED BY <2>2, <2>3
<1>. QED BY <1>1, <1>3, <1>4, <1>5, <1>6

\* A check that moves on, and an abort, are such statements.
LEMMA MoveInv ==
    ASSUME IInv, NEW s \in Sessions, NEW point \in Points \ {"reopen", "call", "commit"},
           at[s] \notin {"call", "commit"}, Move(s, point)
    PROVE  IInv'
<1>1. draft[s] = NoRow /\ ~Submitting(s) /\ target[s] \in Runs \cup {NoRow}
  BY DEF IInv, TypeOK, Stage, Submitting
<1>2. PICK r \in Runs \cup {NoRow} : r = target[s]
  BY <1>1
<1>3. /\ at' = [at EXCEPT ![s] = point] /\ UNCHANGED <<db, kind, sent>>
      /\ draft' = [draft EXCEPT ![s] = NoRow] /\ target' = [target EXCEPT ![s] = r]
      /\ creating' \in [Sessions -> BOOLEAN] /\ forgotten' = forgotten + 0
  BY <1>1, <1>2 DEF Move, GoTo, IInv, TypeOK
<1>. QED BY <1>1, <1>3, QuietInv

\* A session that rolls back before its call to the provider gives nothing away.
LEMMA AbortInv ==
    ASSUME IInv, NEW s \in Sessions, at[s] \notin {"call", "commit"}, Abort(s)
    PROVE  IInv'
<1>1. ~Submitting(s) /\ target[s] \in Runs \cup {NoRow}
  BY DEF IInv, TypeOK, Submitting
<1>2. PICK r \in Runs \cup {NoRow} : r = target[s]
  BY <1>1
<1>3. /\ at' = [at EXCEPT ![s] = "over"] /\ UNCHANGED <<db, kind, sent>>
      /\ draft' = [draft EXCEPT ![s] = NoRow] /\ target' = [target EXCEPT ![s] = r]
      /\ creating' \in [Sessions -> BOOLEAN] /\ forgotten' = forgotten + 0
  BY <1>1, <1>2 DEF Abort, Rollback, GoTo, IInv, TypeOK
<1>. QED BY <1>1, <1>3, QuietInv DEF Points

\* Writing an active run, when nobody else has written one and none is committed.
LEMMA WriteInv ==
    ASSUME IInv, NEW s \in Sessions, NEW r \in Runs, NEW row \in RunRow,
           at[s] \notin {"call", "commit"}, ~Busy(s, r), ~Taken(r),
           row.attempts = unsuccessful[r], Write(s, r, row)
    PROVE  IInv'
<1> USE DEF IInv
<1>1. /\ at' = [at EXCEPT ![s] = "call"] /\ target' = [target EXCEPT ![s] = r]
      /\ draft' = [draft EXCEPT ![s] = row]
      /\ UNCHANGED <<db, creating, kind, sent, forgotten>>
  BY DEF Write, GoTo
<1>2. TypeOK'
  BY <1>1 DEF TypeOK, db, Points
<1>3. /\ at'[s] = "call" /\ target'[s] = r /\ draft'[s] = row
      /\ \A t \in Sessions \ {s} : at'[t] = at[t] /\ target'[t] = target[t] /\ draft'[t] = draft[t]
      /\ runs' = runs /\ unsuccessful' = unsuccessful /\ application' = application
  BY <1>1 DEF TypeOK, db
<1>4. \A t \in Sessions \ {s} : at[t] \notin {"call", "commit"}
  BY Absent DEF Busy, Writing, Stage
<1>5. \A t \in Sessions : Stage(t)'
  <2>1. Stage(s)'
    BY <1>3 DEF Stage, Taken, Committed
  <2>2. ASSUME NEW t \in Sessions \ {s} PROVE Stage(t)'
    BY <1>3 DEF Stage, Committed, Taken
  <2>. QED BY <2>1, <2>2
<1>6. NeverConcurrent'
  BY <1>3, <1>4 DEF NeverConcurrent
<1>7. OneActiveRun' /\ NoLostAttempt' /\ \A q \in Runs : ~Committed(q)' => unsuccessful'[q] = 0
  BY <1>3 DEF OneActiveRun, NoLostAttempt, Committed
<1>8. Ledger'
  BY <1>1, <1>3, <1>4 DEF Ledger, Submitting
<1>. QED BY <1>2, <1>5, <1>6, <1>7, <1>8

\* The adapter's answer.
LEMMA CallInv ==
    ASSUME IInv, NEW s \in Sessions, Call(s)
    PROVE  IInv'
<1> USE DEF IInv
<1>1. PICK row \in Outcomes(draft[s]) :
        /\ draft' = [draft EXCEPT ![s] = row]
        /\ sent' = sent + IF row.status = "submitted" THEN 1 ELSE 0
  BY DEF Call
<1>2. /\ at[s] = "call" /\ at' = [at EXCEPT ![s] = "commit"]
      /\ UNCHANGED <<db, creating, kind, target, forgotten>>
  BY DEF Call, GoTo
<1>3. /\ \A t \in Sessions \ {s} : at[t] \notin {"call", "commit"} /\ ~Submitting(t)
      /\ draft[s] \in RunRow /\ ~Taken(target[s]) /\ target[s] \in Runs
      /\ draft[s].attempts = unsuccessful[target[s]]
  BY <1>2, Alone DEF Stage
<1>4. /\ row \in RunRow /\ row.status \in Answered
      /\ row.status = "submitted" => row.attempts = draft[s].attempts
      /\ row.status # "submitted" => row.attempts = draft[s].attempts + 1
  <2>1. CASE row = [draft[s] EXCEPT !.status = "submitted"]
    BY <1>3, <2>1 DEF RunRow, RunStatus, Answered
  <2>2. ASSUME NEW status \in {"paused", "retry_pending", "failed"},
               row = Counted(draft[s], status)
        PROVE  /\ row \in RunRow /\ row.status \in Answered /\ row.status # "submitted"
               /\ row.attempts = draft[s].attempts + 1
    BY <1>3, <2>2 DEF RunRow, RunStatus, ActiveStatus, Counted, Answered
  <2>3. \/ row = [draft[s] EXCEPT !.status = "submitted"]
        \/ \E status \in {"paused", "retry_pending", "failed"} : row = Counted(draft[s], status)
    BY <1>1 DEF Outcomes
  <2>. QED BY <2>1, <2>2, <2>3
<1>5. TypeOK'
  <2>1. sent' \in Nat
    BY <1>1 DEF TypeOK
  <2>. QED BY <1>1, <1>2, <1>4, <2>1 DEF TypeOK, db, Points
<1>6. /\ at'[s] = "commit" /\ draft'[s] = row /\ target' = target
      /\ \A t \in Sessions \ {s} : at'[t] = at[t] /\ draft'[t] = draft[t]
      /\ runs' = runs /\ unsuccessful' = unsuccessful /\ application' = application
      /\ forgotten' = forgotten
  BY <1>1, <1>2 DEF TypeOK, db
<1>7. \A t \in Sessions : Stage(t)'
  <2>1. Stage(s)'
    BY <1>3, <1>4, <1>6 DEF Stage, Taken, Committed
  <2>2. ASSUME NEW t \in Sessions \ {s} PROVE Stage(t)'
    BY <1>6 DEF Stage, Committed, Taken
  <2>. QED BY <2>1, <2>2
<1>8. NeverConcurrent'
  BY <1>3, <1>6 DEF NeverConcurrent
<1>9. OneActiveRun' /\ NoLostAttempt' /\ \A q \in Runs : ~Committed(q)' => unsuccessful'[q] = 0
  BY <1>6 DEF OneActiveRun, NoLostAttempt, Committed
<1>10. Ledger'
  <2>1. \A t \in Sessions : ~Submitting(t)
    BY <1>2, <1>3 DEF Submitting
  <2>2. /\ Submitting(s)' <=> row.status = "submitted"
        /\ \A t \in Sessions \ {s} : ~Submitting(t)'
    BY <1>3, <1>6 DEF Submitting
  <2>3. CASE row.status = "submitted"
    BY <1>1, <1>6, <2>1, <2>2, <2>3 DEF Ledger
  <2>4. CASE row.status # "submitted"
    <3>1. sent' = sent
      BY <1>1, <2>4 DEF TypeOK
    <3>. QED BY <1>6, <2>1, <2>2, <2>4, <3>1 DEF Ledger
  <2>. QED BY <2>3, <2>4
<1>. QED BY <1>5, <1>7, <1>8, <1>9, <1>10

\* The commit of a run: no other run is active, and it continues the committed one.
LEMMA CommitInv ==
    ASSUME IInv, NEW s \in Sessions, Commit(s)
    PROVE  IInv'
<1> USE DEF IInv
<1>1. PICK r \in Runs : r = target[s]
  BY Alone DEF Commit
<1>2. /\ at[s] = "commit" /\ at' = [at EXCEPT ![s] = "over"]
      /\ runs' = [runs EXCEPT ![r] = draft[s]]
      /\ unsuccessful' = [unsuccessful EXCEPT ![r] = @ + IF Submitting(s) THEN 0 ELSE 1]
      /\ application' = IF Submitting(s) THEN "submitted" ELSE application
      /\ provider' = (provider \/ creating[s])
      /\ draft' = [draft EXCEPT ![s] = NoRow]
      /\ creating' = [creating EXCEPT ![s] = FALSE]
      /\ UNCHANGED <<kind, target, sent, forgotten>>
  BY <1>1 DEF Commit, Rollback, GoTo
<1>3. /\ \A t \in Sessions \ {s} : at[t] \notin {"call", "commit"} /\ ~Submitting(t)
      /\ draft[s] \in RunRow /\ ~Taken(r)
      /\ draft[s].attempts = unsuccessful[r] + IF Submitting(s) THEN 0 ELSE 1
  <2>1. Stage(s)
    OBVIOUS
  <2>2. CASE Submitting(s)
    <3>1. draft[s].attempts = unsuccessful[r] /\ unsuccessful[r] \in Nat
      BY <1>1, <1>2, <2>1, <2>2 DEF Stage, Submitting, TypeOK
    <3>. QED BY <1>1, <1>2, <2>2, <3>1, Alone
  <2>3. CASE ~Submitting(s)
    <3>1. draft[s].attempts = unsuccessful[r] + 1
      BY <1>1, <1>2, <2>1, <2>3 DEF Stage, Submitting
    <3>. QED BY <1>1, <1>2, <2>3, <3>1, Alone
  <2>. QED BY <2>2, <2>3
<1>4. TypeOK'
  <2>1. provider' \in BOOLEAN
    BY <1>2 DEF TypeOK
  <2>2. unsuccessful' \in [Runs -> Nat] /\ application' \in {"ready", "submitted"}
    BY <1>2 DEF TypeOK
  <2>3. runs' \in [Runs -> RunRow \cup {NoRow}] /\ draft' \in [Sessions -> RunRow \cup {NoRow}]
    BY <1>2, <1>3 DEF TypeOK
  <2>. QED BY <1>2, <2>1, <2>2, <2>3 DEF TypeOK, Points
<1>5. /\ at'[s] = "over" /\ draft'[s] = NoRow
      /\ \A t \in Sessions \ {s} : at'[t] = at[t] /\ draft'[t] = draft[t]
      /\ runs'[r] = draft[s] /\ draft[s] # NoRow
      /\ \A q \in Runs \ {r} : runs'[q] = runs[q] /\ unsuccessful'[q] = unsuccessful[q]
      /\ unsuccessful'[r] = draft[s].attempts
  BY <1>2, <1>3, Absent DEF TypeOK
<1>6. \A t \in Sessions : Stage(t)'
  <2>1. Stage(s)'
    BY <1>5 DEF Stage
  <2>2. ASSUME NEW t \in Sessions \ {s} PROVE Stage(t)'
    BY <1>2, <1>3, <1>5, <2>2 DEF Stage, Committed
  <2>. QED BY <2>1, <2>2
<1>7. NeverConcurrent'
  BY <1>3, <1>5 DEF NeverConcurrent
<1>8. OneActiveRun'
  BY <1>3, <1>5 DEF OneActiveRun, Taken, Committed
<1>9. NoLostAttempt' /\ \A q \in Runs : ~Committed(q)' => unsuccessful'[q] = 0
  BY <1>5 DEF NoLostAttempt, Committed
<1>10. Ledger'
  BY <1>2, <1>3, <1>5 DEF Ledger, Submitting
<1>. QED BY <1>4, <1>6, <1>7, <1>8, <1>9, <1>10

\* The candidate closing the challenge of a paused run.
LEMMA CloseInv ==
    ASSUME IInv, NEW r \in Runs, CloseChallenge(r)
    PROVE  IInv'
<1> USE DEF IInv
<1>1. /\ Committed(r) /\ runs[r] \in RunRow /\ runs[r].status = "paused"
      /\ runs' = [runs EXCEPT ![r] = [runs[r] EXCEPT !.status = "resumable"]]
      /\ UNCHANGED <<application, provider, unsuccessful, draft, creating, kind, target, at,
                     sent, forgotten>>
  BY DEF CloseChallenge, Committed, TypeOK
<1>2. PICK row : row = [runs[r] EXCEPT !.status = "resumable"]
  OBVIOUS
<1>3. row \in RunRow /\ row.status = "resumable" /\ row.attempts = runs[r].attempts
  BY <1>1, <1>2 DEF RunRow, RunStatus, ActiveStatus
<1>4. /\ runs'[r] = row /\ row # NoRow
      /\ \A q \in Runs \ {r} : runs'[q] = runs[q]
  BY <1>1, <1>2, <1>3, Absent DEF TypeOK
<1>5. TypeOK'
  BY <1>1, <1>2, <1>3 DEF TypeOK
<1>6. \A q \in Runs : /\ Committed(q)' <=> Committed(q)
                      /\ Committed(q) => /\ runs'[q].attempts = runs[q].attempts
                                         /\ runs'[q].status \in ActiveStatus
                                              <=> runs[q].status \in ActiveStatus
  BY <1>1, <1>3, <1>4 DEF Committed, ActiveStatus
<1>7. \A q \in Runs : Taken(q)' <=> Taken(q)
  BY <1>6 DEF Taken
<1>8. \A t \in Sessions : Stage(t)'
  BY <1>1, <1>6, <1>7 DEF Stage
<1>9. OneActiveRun' /\ NoLostAttempt' /\ \A q \in Runs : ~Committed(q)' => unsuccessful'[q] = 0
  BY <1>1, <1>6 DEF OneActiveRun, NoLostAttempt
<1>10. NeverConcurrent' /\ Ledger'
  BY <1>1 DEF NeverConcurrent, Ledger, Submitting
<1>. QED BY <1>5, <1>8, <1>9, <1>10

\* Every statement of a session, and its crash.
LEMMA StepInv ==
    ASSUME IInv, NEW s \in Sessions, Step(s) \/ Crash(s)
    PROVE  IInv'
<1>1. CASE CheckApplication(s)
  <2>1. PICK p \in {"over", "runs"} : Move(s, p)
    BY <1>1 DEF CheckApplication
  <2>. QED BY <1>1, <2>1, MoveInv DEF CheckApplication, Points
<1>2. CASE CheckRuns(s)
  <2>1. PICK p \in {"over", "provider"} : Move(s, p)
    BY <1>2 DEF CheckRuns
  <2>. QED BY <1>2, <2>1, MoveInv DEF CheckRuns, Points
<1>3. CASE FindProvider(s)
  <2>1. PICK p \in {"insert", "create_provider"} : Move(s, p)
    BY <1>3 DEF FindProvider
  <2>. QED BY <1>3, <2>1, MoveInv DEF FindProvider, Points
<1>4. CASE CreateProvider(s)
  <2>1. CASE provider
    BY <1>4, <2>1, AbortInv DEF CreateProvider
  <2>2. CASE ~provider
    <3>1. draft[s] = NoRow /\ ~Submitting(s) /\ target[s] \in Runs \cup {NoRow}
      BY <1>4 DEF IInv, TypeOK, Stage, Submitting, CreateProvider
    <3>2. PICK r \in Runs \cup {NoRow} : r = target[s]
      BY <3>1
    <3>3. /\ at' = [at EXCEPT ![s] = "insert"] /\ creating' = [creating EXCEPT ![s] = TRUE]
          /\ UNCHANGED <<db, draft, kind, target, sent, forgotten>>
      BY <1>4, <2>2 DEF CreateProvider, GoTo
    <3>4. /\ draft' = [draft EXCEPT ![s] = NoRow] /\ target' = [target EXCEPT ![s] = r]
          /\ creating' \in [Sessions -> BOOLEAN]
      BY <3>1, <3>2, <3>3 DEF IInv, TypeOK
    <3>5. UNCHANGED <<db, kind, sent>> /\ forgotten' = forgotten + 0
      BY <3>3 DEF IInv, TypeOK
    <3>. QED BY <3>1, <3>3, <3>4, <3>5, QuietInv DEF Points
  <2>. QED BY <2>1, <2>2
<1>5. CASE NoRunToLoad(s)
  BY <1>5, MoveInv DEF NoRunToLoad, Points
<1>6. CASE Reopen(s)
  <2>1. at[s] = "reopen" /\ target[s] \in Runs /\ runs[target[s]] \in RunRow
        /\ runs[target[s]].attempts = unsuccessful[target[s]]
    BY <1>6 DEF Reopen, IInv, Stage, TypeOK, Committed, NoLostAttempt
  <2>2. CASE Taken(target[s])
    BY <1>6, <2>1, <2>2, AbortInv DEF Reopen
  <2>3. CASE ~Taken(target[s])
    <3>1. PICK r \in Runs : r = target[s]
      BY <2>1
    <3>2. PICK row : row = [runs[r] EXCEPT !.status = "running"]
      OBVIOUS
    <3>3. row \in RunRow /\ row.attempts = unsuccessful[r]
      BY <2>1, <3>1, <3>2 DEF RunRow, RunStatus, ActiveStatus
    <3>4. ~Busy(s, r) /\ ~Taken(r) /\ Write(s, r, row)
      BY <1>6, <2>3, <3>1, <3>2 DEF Reopen
    <3>. QED BY <2>1, <3>3, <3>4, WriteInv
  <2>. QED BY <2>2, <2>3
<1>7. CASE Call(s)
  BY <1>7, CallInv
<1>8. CASE Commit(s)
  BY <1>8, CommitInv
<1>9. ASSUME NEW r \in Runs, InsertRun(s, r) PROVE IInv'
  <2>1. CASE Taken(r)
    BY <1>9, <2>1, AbortInv DEF InsertRun
  <2>2. CASE ~Taken(r)
    <3>1. at[s] = "insert" /\ ~Busy(s, r) /\ Write(s, r, NewRow) /\ ~Committed(r)
      BY <1>9, <2>2 DEF InsertRun, Runs
    <3>2. NewRow \in RunRow /\ NewRow.attempts = unsuccessful[r]
      BY <3>1 DEF IInv, NewRow, RunRow, RunStatus, ActiveStatus
    <3>. QED BY <2>2, <3>1, <3>2, WriteInv
  <2>. QED BY <2>1, <2>2
<1>10. ASSUME NEW r \in Runs, LoadRun(s, r) PROVE IInv'
  <2>1. CASE RetryOK(runs[r])
    <3>1. draft[s] = NoRow /\ ~Submitting(s) /\ Committed(r)
      BY <1>10 DEF IInv, Stage, Submitting, LoadRun
    <3>2. /\ at' = [at EXCEPT ![s] = "reopen"] /\ UNCHANGED <<db, kind, sent>>
          /\ draft' = [draft EXCEPT ![s] = NoRow] /\ target' = [target EXCEPT ![s] = r]
          /\ creating' \in [Sessions -> BOOLEAN] /\ forgotten' = forgotten + 0
      BY <1>10, <2>1, <3>1 DEF LoadRun, GoTo, IInv, TypeOK
    <3>. QED BY <3>1, <3>2, QuietInv DEF Points
  <2>2. CASE ~RetryOK(runs[r])
    BY <1>10, <2>2, MoveInv DEF LoadRun, Points
  <2>. QED BY <2>1, <2>2
<1>11. CASE Crash(s)
  <2>1. PICK r \in Runs \cup {NoRow} : r = target[s]
    BY DEF IInv, TypeOK
  <2>2. /\ at' = [at EXCEPT ![s] = "over"] /\ UNCHANGED <<db, kind, sent>>
        /\ draft' = [draft EXCEPT ![s] = NoRow] /\ target' = [target EXCEPT ![s] = r]
        /\ creating' \in [Sessions -> BOOLEAN]
        /\ forgotten' = forgotten + IF Submitting(s) THEN 1 ELSE 0
    BY <1>11, <2>1 DEF Crash, Rollback, GoTo, IInv, TypeOK
  <2>. QED BY <2>2, QuietInv DEF Points
<1>. QED BY <1>1, <1>2, <1>3, <1>4, <1>5, <1>6, <1>7, <1>8, <1>9, <1>10, <1>11 DEF Step

\* Every step keeps the invariant.
LEMMA NextInv == IInv /\ [Next]_vars => IInv'
<1> SUFFICES ASSUME IInv, [Next]_vars PROVE IInv'
  OBVIOUS
<1>1. CASE UNCHANGED vars
  BY <1>1 DEF vars, db, IInv, TypeOK, Stage, NeverConcurrent, OneActiveRun, NoLostAttempt,
     Ledger, Committed, Taken, Submitting
<1>2. ASSUME NEW s \in Sessions, Step(s) \/ Crash(s) PROVE IInv'
  BY <1>2, StepInv
<1>3. ASSUME NEW r \in Runs, CloseChallenge(r) PROVE IInv'
  BY <1>3, CloseInv
<1>. QED BY <1>1, <1>2, <1>3 DEF Next

\* The invariant holds in every reachable state.
LEMMA Invariance == Spec => []IInv
  BY InitInv, NextInv, PTL DEF Spec

-----------------------------------------------------------------------------
\* Rows keep to their columns' enumerations in every transaction.
THEOREM SubmissionTypeCorrect == Spec => []TypeOK
<1>1. IInv => TypeOK
  BY DEF IInv
<1>. QED BY <1>1, Invariance, PTL

\* However many requests overlap, one at a time is between its run's write and its
\* commit, so the adapter is never called by two of them at once.
THEOREM SubmissionsAreSerialised == Spec => []NeverConcurrent
<1>1. IInv => NeverConcurrent
  BY DEF IInv
<1>. QED BY <1>1, Invariance, PTL

\* However many requests overlap and crash, one run at most is active.
THEOREM OneRunIsActive == Spec => []OneActiveRun
<1>1. IInv => OneActiveRun
  BY DEF IInv
<1>. QED BY <1>1, Invariance, PTL

\* However many retries overlap, every attempt that did not submit is counted.
THEOREM AttemptsAreNotLost == Spec => []NoLostAttempt
<1>1. IInv => NoLostAttempt
  BY DEF IInv
<1>. QED BY <1>1, Invariance, PTL

\* Only a crash between the adapter's answer and the commit loses a submission.
THEOREM OnlyCrashesForget == Spec => []AcceptedIsKept
<1>1. IInv => AcceptedIsKept
  BY DEF IInv, AcceptedIsKept, Ledger, TypeOK
<1>. QED BY <1>1, Invariance, PTL
==============================================================================
