---------------------- MODULE ChallengeSessions_proofs ----------------------
(***************************************************************************)
(* Proofs about ChallengeSessions for any number of overlapping requests.  *)
(* What saves the workflow is the order of the statements: every request   *)
(* that touches it writes the challenge first, so it holds that row's lock *)
(* while it reads and writes the workflow, and what a transaction read of  *)
(* the workflow still holds when it commits.  Holding says it: what a      *)
(* session has written, at each of its statements.                         *)
(***************************************************************************)
EXTENDS ChallengeSessions, TLAPS

\* The rows written by a request that reached one of its statements.
Holding(s) ==
    LET wrote(a, c) == draft[s]["auth"] = a /\ draft[s]["challenge"] = c
        resolves == /\ draft[s]["challenge"] = "resolved"
                    /\ \/ draft[s]["auth"] = "authenticated"
                       \/ draft[s]["auth"] = Unwritten /\ db.auth = "authenticated"
    IN /\ at[s] \in {"start", "list", "write", "authenticate", "workflow", "over"} =>
            draft[s]["workflow"] = Unwritten
       /\ at[s] \in {"start", "over"} => wrote(Unwritten, Unwritten)
       /\ at[s] = "list" => kind[s] = "settle" /\ wrote("authenticated", Unwritten)
       /\ at[s] = "write" =>
            wrote(IF kind[s] = "settle" THEN "authenticated" ELSE Unwritten, Unwritten)
       /\ at[s] = "authenticate" => kind[s] = "complete" /\ wrote(Unwritten, "resolved")
       /\ at[s] = "workflow" =>
            \/ kind[s] = "cancel" /\ wrote(Unwritten, "cancelled")
            \/ kind[s] \in {"complete", "settle"} /\ resolves
       /\ at[s] = "commit" =>
            \/ wrote(Unwritten, "acknowledged") /\ draft[s]["workflow"] = Unwritten
            \/ wrote("authenticated", Unwritten) /\ draft[s]["workflow"] = Unwritten
            \/ /\ resolves
               /\ FinishOK(db.workflow)
               /\ draft[s]["workflow"] = Finish(db.workflow)
            \/ /\ wrote(Unwritten, "cancelled")
               /\ db.workflow.status \notin WorkflowTerminal
               /\ draft[s]["workflow"] = [db.workflow EXCEPT !.status = "cancelled"]

\* A row is locked by one transaction at a time.
Exclusive ==
    \A s, t \in Sessions, row \in Tables : Holds(s, row) /\ Holds(t, row) => s = t

AnyValue == (UNION {ValuesOf[row] : row \in Tables}) \cup {Unwritten}

IInv ==
    /\ draft \in [Sessions -> [Tables -> AnyValue]]
    /\ kind \in [Sessions -> Kinds]
    /\ at \in [Sessions -> Points]
    /\ \A row \in Tables : db[row] \in ValuesOf[row]
    /\ \A s \in Sessions : Holding(s)
    /\ Exclusive
    /\ db.workflow.status = "paused" => db.workflow.attempts = 0
    /\ db.workflow.attempts \in 0..1
    /\ ClosedInStep

\* What a resumed or completed run looks like.
LEMMA FinishRow ==
    ASSUME NEW w \in WorkflowRow, FinishOK(w), w.attempts \in 0..1,
           w.status = "paused" => w.attempts = 0
    PROVE  /\ Finish(w) \in WorkflowRow
           /\ Finish(w).status \in {"running", "completed"}
           /\ Finish(w).attempts \in 0..1
           /\ w.status \notin WorkflowTerminal
<1> USE DEF WorkflowRow, WorkflowTerminal
<1>1. CASE w.status = "running"
  BY <1>1 DEF Finish
<1>2. CASE w.status = "paused"
  BY <1>2 DEF Finish
<1>. QED BY <1>1, <1>2 DEF FinishOK

\* The values of the three columns, spelled out.
LEMMA Columns ==
    /\ Tables = {"auth", "challenge", "workflow"}
    /\ ValuesOf["auth"] = {"captcha_required", "authenticated"}
    /\ ValuesOf["challenge"] = InFlightStatus \cup ClosedStatus
    /\ ValuesOf["workflow"] = WorkflowRow
    /\ \A row \in Tables : ValuesOf[row] \subseteq AnyValue
    /\ Unwritten \in AnyValue
    /\ \A row \in Tables : Unwritten \notin ValuesOf[row]
<1>1. /\ ValuesOf["auth"] = {"captcha_required", "authenticated"}
      /\ ValuesOf["challenge"] = InFlightStatus \cup ClosedStatus
      /\ ValuesOf["workflow"] = WorkflowRow
  BY DEF ValuesOf
<1>2. \A row \in Tables : ValuesOf[row] \subseteq AnyValue
  BY DEF AnyValue
<1>3. Unwritten \in AnyValue
  BY DEF AnyValue
<1>. QED BY <1>1, <1>2, <1>3, SessionConstantsOK DEF Tables

\* Before any session starts the invariant holds.
LEMMA InitInv == Init => IInv
<1> SUFFICES ASSUME Init PROVE IInv
  OBVIOUS
<1>1. PICK c \in InFlightStatus :
        db = [auth |-> "captcha_required", challenge |-> c,
              workflow |-> [status |-> "paused", attempts |-> 0]]
  BY DEF Init
<1>2. \A s \in Sessions, row \in Tables : draft[s][row] = Unwritten
  BY DEF Init, Empty
<1>3. draft \in [Sessions -> [Tables -> AnyValue]]
  BY Columns DEF Init, Empty
<1>4. db.workflow \in WorkflowRow /\ db.workflow.status = "paused"
      /\ db.workflow.attempts = 0
  BY <1>1 DEF WorkflowRow
<1>5. \A row \in Tables : db[row] \in ValuesOf[row]
  <2>1. db["auth"] \in ValuesOf["auth"] /\ db["challenge"] \in ValuesOf["challenge"]
    BY <1>1, Columns
  <2>. QED BY <1>4, <2>1, Columns
<1>6. at \in [Sessions -> Points] /\ \A s \in Sessions : at[s] = "start"
  BY DEF Init, Points
<1>7. \A s \in Sessions : Holding(s)
  BY <1>2, <1>6 DEF Holding, Tables
<1>8. ClosedInStep
  BY <1>1 DEF ClosedInStep, InFlightStatus
<1>. QED BY <1>2, <1>3, <1>4, <1>5, <1>6, <1>7, <1>8 DEF Init, IInv, Exclusive, Holds

\* A statement of one session that commits nothing: it must keep to what the
\* session may hold and write no row another session has locked.
LEMMA StatementInv ==
    ASSUME IInv, NEW s \in Sessions, NEW d \in [Tables -> AnyValue], NEW point \in Points,
           draft' = [draft EXCEPT ![s] = d],
           at' = [at EXCEPT ![s] = point],
           UNCHANGED <<db, kind>>,
           Holding(s)',
           \A row \in Tables : d[row] # Unwritten => Holds(s, row) \/ ~Locked(s, row)
    PROVE  IInv'
<1> USE DEF IInv
<1>1. draft' \in [Sessions -> [Tables -> AnyValue]] /\ at' \in [Sessions -> Points]
  OBVIOUS
<1>2. \A t \in Sessions : Holding(t)'
  <2> SUFFICES ASSUME NEW t \in Sessions, t # s PROVE Holding(t)'
    OBVIOUS
  <2>1. draft'[t] = draft[t] /\ at'[t] = at[t] /\ kind'[t] = kind[t] /\ db' = db
    OBVIOUS
  <2>2. Holding(t)
    OBVIOUS
  <2>. QED BY <2>1, <2>2 DEF Holding
<1>3. Exclusive'
  <2> SUFFICES ASSUME NEW t \in Sessions, NEW u \in Sessions, NEW row \in Tables,
                      draft'[t][row] # Unwritten, draft'[u][row] # Unwritten, t # u
               PROVE  FALSE
    BY DEF Exclusive, Holds
  <2>1. draft'[s] = d /\ \A v \in Sessions \ {s} : draft'[v] = draft[v]
    OBVIOUS
  <2>. QED BY <2>1 DEF Exclusive, Holds, Locked
<1>4. ClosedInStep'
  BY DEF ClosedInStep
<1>. QED BY <1>1, <1>2, <1>3, <1>4

\* UPDATE of one row, and abort, are such statements.
LEMMA UpdateInv ==
    ASSUME IInv, NEW s \in Sessions, NEW row \in Tables, NEW value \in ValuesOf[row],
           NEW point \in Points, Update(s, row, value, point), Holding(s)'
    PROVE  IInv'
<1> DEFINE d == [draft[s] EXCEPT ![row] = value]
<1>1. PICK dd : dd = d
  OBVIOUS
<1>2. dd \in [Tables -> AnyValue] /\ draft' = [draft EXCEPT ![s] = dd]
      /\ at' = [at EXCEPT ![s] = point] /\ UNCHANGED <<db, kind>>
  BY <1>1, Columns DEF IInv, Update, GoTo
<1>3. \A r \in Tables : dd[r] # Unwritten => Holds(s, r) \/ ~Locked(s, r)
  BY <1>1 DEF Update, Holds, IInv
<1>. QED BY <1>2, <1>3, StatementInv

\* A session that only moves on, holding what it may hold there, keeps the invariant.
LEMMA MoveInv ==
    ASSUME IInv, NEW s \in Sessions, NEW point \in Points,
           GoTo(s, point), UNCHANGED <<db, draft, kind>>, Holding(s)'
    PROVE  IInv'
<1>1. PICK d : d = draft[s]
  OBVIOUS
<1>2. d \in [Tables -> AnyValue] /\ draft' = [draft EXCEPT ![s] = d]
      /\ at' = [at EXCEPT ![s] = point]
  BY <1>1 DEF IInv, GoTo
<1>. QED BY <1>1, <1>2, StatementInv DEF Holds

\* A session that rolls back drops its draft and its locks.
LEMMA AbortInv ==
    ASSUME IInv, NEW s \in Sessions, Abort(s)
    PROVE  IInv'
<1>1. Empty \in [Tables -> AnyValue] /\ \A row \in Tables : Empty[row] = Unwritten
  BY Columns DEF Empty
<1>2. draft' = [draft EXCEPT ![s] = Empty] /\ at' = [at EXCEPT ![s] = "over"]
      /\ UNCHANGED <<db, kind>>
  BY DEF Abort, GoTo
<1>3. Holding(s)'
  <2>1. at'[s] = "over" /\ draft'[s] = Empty
    BY <1>2 DEF IInv
  <2>. QED BY <1>1, <2>1 DEF Holding, Tables
<1>. QED BY <1>1, <1>2, <1>3, StatementInv DEF Points

\* The statements that are not the commit.
LEMMA StatementsInv ==
    ASSUME IInv, NEW s \in Sessions, Step(s), ~Commit(s)
    PROVE  IInv'
<1> USE DEF IInv
<1>0. Holding(s) /\ at[s] \in Points /\ kind[s] \in Kinds
  OBVIOUS
<1>1. CASE Load(s)
  <2>1. PICK p \in {"write", "over"} : GoTo(s, p) /\ UNCHANGED <<db, draft, kind>>
    BY <1>1 DEF Load
  <2>2. at'[s] = p /\ at[s] = "start" /\ kind[s] # "settle"
    BY <1>1, <2>1 DEF GoTo, Load
  <2>3. Holding(s)'
    BY <1>0, <2>1, <2>2 DEF Holding
  <2>. QED BY <2>1, <2>3, MoveInv DEF Points
<1>2. CASE List(s)
  <2>1. PICK p \in {"write", "commit"} : GoTo(s, p) /\ UNCHANGED <<db, draft, kind>>
    BY <1>2 DEF List
  <2>2. at'[s] = p /\ at[s] = "list"
    BY <1>2, <2>1 DEF GoTo, List
  <2>3. Holding(s)'
    BY <1>0, <2>1, <2>2 DEF Holding
  <2>. QED BY <2>1, <2>3, MoveInv DEF Points
<1>3. CASE Report(s)
  <2>1. Update(s, "auth", "authenticated", "list") /\ at[s] = "start" /\ kind[s] = "settle"
    BY <1>3 DEF Report
  <2>2. /\ at'[s] = "list" /\ draft'[s] = [draft[s] EXCEPT !["auth"] = "authenticated"]
        /\ UNCHANGED <<db, kind>>
    BY <2>1 DEF Update, GoTo
  <2>3. Holding(s)'
    BY <1>0, <2>1, <2>2 DEF Holding, Tables
  <2>. QED BY <2>1, <2>3, UpdateInv, Columns DEF Points
<1>4. CASE WriteChallenge(s)
  <2>1. PICK p \in {"commit", "authenticate", "workflow"} :
          /\ Update(s, "challenge", Target[kind[s]], p)
          /\ p = "commit" <=> kind[s] = "acknowledge"
          /\ p = "authenticate" <=> kind[s] = "complete"
    BY <1>0, <1>4 DEF WriteChallenge
  <2>2. /\ at'[s] = p /\ at[s] = "write" /\ UNCHANGED <<db, kind>>
        /\ draft'[s] = [draft[s] EXCEPT !["challenge"] = Target[kind[s]]]
    BY <1>4, <2>1 DEF Update, GoTo, WriteChallenge
  <2>3. /\ kind[s] = "acknowledge" => Target[kind[s]] = "acknowledged"
        /\ kind[s] \in {"complete", "settle"} => Target[kind[s]] = "resolved"
        /\ kind[s] = "cancel" => Target[kind[s]] = "cancelled"
        /\ Target[kind[s]] \in ValuesOf["challenge"]
    BY <1>0, Columns DEF Target, Kinds, InFlightStatus, ClosedStatus
  <2>4. Holding(s)'
    BY <1>0, <2>1, <2>2, <2>3 DEF Holding, Tables, Kinds
  <2>. QED BY <2>1, <2>3, <2>4, UpdateInv DEF Points, Tables
<1>5. CASE Authenticate(s)
  <2>1. CASE db.auth = "authenticated"
    <3>1. GoTo(s, "workflow") /\ UNCHANGED <<db, draft, kind>> /\ at[s] = "authenticate"
      BY <1>5, <2>1 DEF Authenticate
    <3>2. Holding(s)'
      BY <1>0, <2>1, <3>1 DEF Holding, GoTo
    <3>. QED BY <3>1, <3>2, MoveInv DEF Points
  <2>2. CASE db.auth # "authenticated"
    <3>1. Update(s, "auth", "authenticated", "workflow") /\ at[s] = "authenticate"
      BY <1>5, <2>2 DEF Authenticate
    <3>2. /\ at'[s] = "workflow" /\ UNCHANGED <<db, kind>>
          /\ draft'[s] = [draft[s] EXCEPT !["auth"] = "authenticated"]
      BY <3>1 DEF Update, GoTo
    <3>3. Holding(s)'
      BY <1>0, <3>1, <3>2 DEF Holding, Tables
    <3>. QED BY <3>1, <3>3, UpdateInv, Columns DEF Points
  <2>. QED BY <2>1, <2>2
<1>6. CASE FinishWorkflow(s)
  <2>1. CASE FinishOK(db.workflow)
    <3>1. /\ Update(s, "workflow", Finish(db.workflow), "commit") /\ at[s] = "workflow"
          /\ kind[s] # "cancel"
      BY <1>6, <2>1 DEF FinishWorkflow
    <3>2. /\ at'[s] = "commit" /\ UNCHANGED <<db, kind>>
          /\ draft'[s] = [draft[s] EXCEPT !["workflow"] = Finish(db.workflow)]
      BY <3>1 DEF Update, GoTo
    <3>3. db.workflow \in WorkflowRow
      BY Columns
    <3>4. Finish(db.workflow) \in WorkflowRow
      BY <2>1, <3>3, FinishRow
    <3>5. Holding(s)'
      BY <1>0, <2>1, <3>1, <3>2 DEF Holding, Tables, FinishOK, Finish
    <3>6. Finish(db.workflow) \in ValuesOf["workflow"]
      BY <3>4, Columns
    <3>. QED BY <3>1, <3>5, <3>6, UpdateInv DEF Points, Tables
  <2>2. CASE ~FinishOK(db.workflow)
    BY <1>6, <2>2, AbortInv DEF FinishWorkflow
  <2>. QED BY <2>1, <2>2
<1>7. CASE CancelWorkflow(s)
  <2>1. CASE db.workflow.status \notin WorkflowTerminal
    <3> DEFINE w == [db.workflow EXCEPT !.status = "cancelled"]
    <3>1. /\ Update(s, "workflow", w, "commit") /\ at[s] = "workflow" /\ kind[s] = "cancel"
      BY <1>7, <2>1 DEF CancelWorkflow
    <3>2. /\ at'[s] = "commit" /\ UNCHANGED <<db, kind>>
          /\ draft'[s] = [draft[s] EXCEPT !["workflow"] = w]
      BY <3>1 DEF Update, GoTo
    <3>3. w \in ValuesOf["workflow"]
      <4>1. db.workflow \in WorkflowRow
        BY Columns
      <4>. QED BY <4>1, Columns DEF WorkflowRow, WorkflowTerminal
    <3>5. Holding(s)'
      BY <1>0, <2>1, <3>1, <3>2 DEF Holding, Tables
    <3>. QED BY <3>1, <3>3, <3>5, UpdateInv DEF Points, Tables
  <2>2. CASE db.workflow.status \in WorkflowTerminal
    BY <1>7, <2>2, AbortInv DEF CancelWorkflow
  <2>. QED BY <2>1, <2>2
<1>8. CASE BreakDeadlock(s)
  BY <1>8, AbortInv DEF BreakDeadlock
<1>. QED BY <1>1, <1>2, <1>3, <1>4, <1>5, <1>6, <1>7, <1>8 DEF Step

\* The commit.  Whoever commits a workflow row holds the challenge row, so no other
\* session has read the workflow that is replaced and will still write it.
LEMMA CommitInv ==
    ASSUME IInv, NEW s \in Sessions, Commit(s)
    PROVE  IInv'
<1> USE DEF IInv
<1>0. Holding(s) /\ at[s] = "commit"
  BY DEF Commit
<1>1. /\ draft' = [draft EXCEPT ![s] = Empty]
      /\ at' = [at EXCEPT ![s] = "over"]
      /\ kind' = kind
      /\ db' = [row \in Tables |-> IF Holds(s, row) THEN draft[s][row] ELSE db[row]]
  BY DEF Commit, GoTo
<1>2. /\ db'.auth = IF draft[s]["auth"] # Unwritten THEN draft[s]["auth"] ELSE db.auth
      /\ db'.challenge = IF draft[s]["challenge"] # Unwritten
                         THEN draft[s]["challenge"] ELSE db.challenge
      /\ db'.workflow = IF draft[s]["workflow"] # Unwritten
                        THEN draft[s]["workflow"] ELSE db.workflow
  BY <1>1 DEF Holds, Tables
<1>3. Empty \in [Tables -> AnyValue] /\ \A row \in Tables : Empty[row] = Unwritten
  BY Columns DEF Empty
<1>4. draft' \in [Sessions -> [Tables -> AnyValue]] /\ at' \in [Sessions -> Points]
      /\ kind' \in [Sessions -> Kinds]
  BY <1>1, <1>3 DEF Points
<1>5. Exclusive'
  <2>1. \A t \in Sessions, row \in Tables : draft'[t][row] # Unwritten => Holds(t, row)
    BY <1>1, <1>3 DEF Holds
  <2>. QED BY <2>1 DEF Exclusive, Holds
<1>6. db.auth \in {"captcha_required", "authenticated"} /\ db.workflow \in WorkflowRow
      /\ db.challenge \in InFlightStatus \cup ClosedStatus
  BY Columns
<1>7. /\ Unwritten # "authenticated" /\ Unwritten # "acknowledged"
      /\ Unwritten # "resolved" /\ Unwritten # "cancelled" /\ Unwritten \notin WorkflowRow
  BY Columns DEF InFlightStatus, ClosedStatus, Tables
\* What a commit may do to the three rows.
<1>8. \/ /\ db'.workflow = db.workflow
         /\ \/ db'.auth = db.auth /\ db'.challenge = "acknowledged"
            \/ db'.auth = "authenticated" /\ db'.challenge = db.challenge
      \/ /\ Holds(s, "challenge")
         /\ db'.auth = "authenticated" /\ db'.challenge = "resolved"
         /\ FinishOK(db.workflow) /\ db'.workflow = Finish(db.workflow)
      \/ /\ Holds(s, "challenge")
         /\ db'.auth = db.auth /\ db'.challenge = "cancelled"
         /\ db.workflow.status \notin WorkflowTerminal
         /\ db'.workflow = [db.workflow EXCEPT !.status = "cancelled"]
  <2>1. CASE /\ draft[s]["auth"] = Unwritten /\ draft[s]["challenge"] = "acknowledged"
             /\ draft[s]["workflow"] = Unwritten
    BY <1>2, <1>7, <2>1
  <2>2. CASE /\ draft[s]["auth"] = "authenticated" /\ draft[s]["challenge"] = Unwritten
             /\ draft[s]["workflow"] = Unwritten
    BY <1>2, <1>7, <2>2
  <2>3. CASE /\ draft[s]["challenge"] = "resolved"
             /\ \/ draft[s]["auth"] = "authenticated"
                \/ draft[s]["auth"] = Unwritten /\ db.auth = "authenticated"
             /\ FinishOK(db.workflow)
             /\ draft[s]["workflow"] = Finish(db.workflow)
    <3>1. Finish(db.workflow) \in WorkflowRow
      BY <1>6, <2>3, FinishRow
    <3>2. Holds(s, "challenge") /\ db'.challenge = "resolved"
          /\ db'.workflow = Finish(db.workflow)
      BY <1>2, <1>7, <2>3, <3>1 DEF Holds
    <3>3. db'.auth = "authenticated"
      BY <1>2, <1>7, <2>3
    <3>. QED BY <2>3, <3>2, <3>3
  <2>4. CASE /\ draft[s]["auth"] = Unwritten /\ draft[s]["challenge"] = "cancelled"
             /\ db.workflow.status \notin WorkflowTerminal
             /\ draft[s]["workflow"] = [db.workflow EXCEPT !.status = "cancelled"]
    <3>1. [db.workflow EXCEPT !.status = "cancelled"] \in WorkflowRow
      BY <1>6 DEF WorkflowRow, WorkflowTerminal
    <3>. QED BY <1>2, <1>7, <2>4, <3>1 DEF Holds
  <2>. QED BY <1>0, <2>1, <2>2, <2>3, <2>4 DEF Holding
<1>9. /\ db'.auth \in {"captcha_required", "authenticated"}
      /\ db.auth = "authenticated" => db'.auth = "authenticated"
      /\ db'.challenge \in InFlightStatus \cup ClosedStatus
  BY <1>6, <1>8 DEF InFlightStatus, ClosedStatus
<1>10. /\ db'.workflow \in WorkflowRow
       /\ db'.workflow.status = "paused" => db'.workflow.attempts = 0
       /\ db'.workflow.attempts \in 0..1
  <2>1. CASE db'.workflow = db.workflow
    BY <1>6, <2>1
  <2>2. CASE FinishOK(db.workflow) /\ db'.workflow = Finish(db.workflow)
    BY <1>6, <2>2, FinishRow
  <2>3. CASE db'.workflow = [db.workflow EXCEPT !.status = "cancelled"]
    BY <1>6, <2>3 DEF WorkflowRow, WorkflowTerminal
  <2>. QED BY <1>8, <2>1, <2>2, <2>3
<1>11. ClosedInStep'
  <2>1. CASE db'.workflow = db.workflow
    BY <1>8, <1>9, <2>1, <1>6, FinishRow DEF ClosedInStep, WorkflowRow
  <2>2. CASE FinishOK(db.workflow) /\ db'.workflow = Finish(db.workflow)
             /\ db'.auth = "authenticated" /\ db'.challenge = "resolved"
    BY <1>6, <2>2, FinishRow DEF ClosedInStep
  <2>3. CASE db'.workflow = [db.workflow EXCEPT !.status = "cancelled"]
             /\ db'.challenge = "cancelled"
    BY <1>6, <2>3 DEF ClosedInStep, WorkflowRow
  <2>. QED BY <1>8, <2>1, <2>2, <2>3
<1>12. \A row \in Tables : db'[row] \in ValuesOf[row]
  BY <1>9, <1>10, Columns
<1>13. \A t \in Sessions : Holding(t)'
  <2>1. Holding(s)'
    <3>1. at'[s] = "over" /\ draft'[s] = Empty
      BY <1>1
    <3>. QED BY <1>3, <3>1 DEF Holding, Tables
  <2> SUFFICES ASSUME NEW t \in Sessions, t # s PROVE Holding(t)'
    BY <2>1, Zenon
  <2>2. draft'[t] = draft[t] /\ at'[t] = at[t] /\ kind'[t] = kind[t]
    BY <1>1
  <2>3. Holding(t)
    OBVIOUS
  <2>4. CASE db'.workflow = db.workflow
    BY <1>9, <2>2, <2>3, <2>4 DEF Holding
  <2>5. CASE Holds(s, "challenge")
    <3>1. draft[t]["challenge"] = Unwritten
      BY <2>5 DEF Exclusive, Holds, Tables
    <3>. QED BY <1>7, <1>9, <2>2, <2>3, <3>1 DEF Holding
  <2>. QED BY <1>8, <2>4, <2>5
<1>. QED BY <1>4, <1>5, <1>10, <1>11, <1>12, <1>13

\* Every statement of every session keeps the invariant.
LEMMA NextInv == IInv /\ [Next]_vars => IInv'
<1> SUFFICES ASSUME IInv, [Next]_vars PROVE IInv'
  OBVIOUS
<1>1. CASE UNCHANGED vars
  BY <1>1 DEF vars, IInv, Holding, Exclusive, Holds, ClosedInStep
<1>2. ASSUME NEW s \in Sessions, Step(s) PROVE IInv'
  BY <1>2, CommitInv, StatementsInv
<1>. QED BY <1>1, <1>2 DEF Next

\* The invariant holds in every reachable state.
LEMMA Invariance == Spec => []IInv
  BY InitInv, NextInv, PTL DEF Spec

-----------------------------------------------------------------------------
\* Rows hold values of their columns in every transaction.
THEOREM RowsWellTyped == Spec => []TypeOK
<1>1. IInv => TypeOK
  <2> SUFFICES ASSUME IInv PROVE TypeOK
    OBVIOUS
  <2>1. \A row \in Tables, s \in Sessions : draft[s][row] \in ValuesOf[row] \cup {Unwritten}
    <3> SUFFICES ASSUME NEW s \in Sessions
                 PROVE  \A row \in Tables : draft[s][row] \in ValuesOf[row] \cup {Unwritten}
      OBVIOUS
    <3>0. Holding(s) /\ at[s] \in Points /\ db.workflow \in WorkflowRow
      BY Columns DEF IInv
    <3>1. draft[s]["auth"] \in {"authenticated", Unwritten}
          /\ draft[s]["challenge"] \in {"acknowledged", "resolved", "cancelled", Unwritten}
      BY <3>0 DEF Holding, Points
    <3>2. \/ draft[s]["workflow"] = Unwritten
          \/ FinishOK(db.workflow) /\ draft[s]["workflow"] = Finish(db.workflow)
          \/ draft[s]["workflow"] = [db.workflow EXCEPT !.status = "cancelled"]
      BY <3>0 DEF Holding, Points
    <3>3. draft[s]["workflow"] \in WorkflowRow \cup {Unwritten}
      <4>1. CASE FinishOK(db.workflow) /\ draft[s]["workflow"] = Finish(db.workflow)
        BY <3>0, <4>1, FinishRow DEF IInv
      <4>2. CASE draft[s]["workflow"] = [db.workflow EXCEPT !.status = "cancelled"]
        BY <3>0, <4>2 DEF WorkflowRow, WorkflowTerminal
      <4>. QED BY <3>2, <4>1, <4>2
    <3>. QED BY <3>1, <3>3, Columns DEF InFlightStatus, ClosedStatus
  <2>. QED BY <2>1 DEF IInv, TypeOK
<1>. QED BY <1>1, Invariance, PTL

\* However many requests overlap, the workflow is resumed at most once.
THEOREM OverlapResumesOnce == Spec => []ResumedOnce
<1>1. IInv => ResumedOnce
  BY DEF IInv, ResumedOnce
<1>. QED BY <1>1, Invariance, PTL

\* However many requests overlap, a closed challenge is closed as a whole.
THEOREM OverlapClosesWhole == Spec => []ClosedInStep
<1>1. IInv => ClosedInStep
  BY DEF IInv
<1>. QED BY <1>1, Invariance, PTL

\* However many requests overlap, a finished workflow stays as it is.
THEOREM OverlapKeepsFinal == Spec => WorkflowFinal
<1>1. IInv /\ [Next]_vars =>
        [db.workflow.status \in WorkflowTerminal => db'.workflow = db.workflow]_vars
  <2> SUFFICES ASSUME IInv, Next, db.workflow.status \in WorkflowTerminal
               PROVE  db'.workflow = db.workflow
    OBVIOUS
  <2>1. PICK s \in Sessions : Step(s)
    BY DEF Next
  <2>2. CASE Commit(s)
    <3>1. Holding(s) /\ at[s] = "commit" /\ ~FinishOK(db.workflow)
      BY <2>2 DEF Commit, IInv, FinishOK, WorkflowTerminal
    <3>2. draft[s]["workflow"] = Unwritten
      BY <3>1 DEF Holding
    <3>. QED BY <2>2, <3>2 DEF Commit, Holds, Tables
  <2>3. CASE ~Commit(s)
    BY <2>1, <2>3 DEF Step, Load, Report, List, WriteChallenge, Authenticate, FinishWorkflow,
       CancelWorkflow, BreakDeadlock, Update, Abort
  <2>. QED BY <2>2, <2>3
<1>. QED BY <1>1, Invariance, PTL DEF Spec, WorkflowFinal
=============================================================================
