----------------------- MODULE OutreachSessions_proofs -----------------------
(***************************************************************************)
(* Proofs about OutreachSessions for any number of overlapping requests,   *)
(* messages and crashes.  The open-run index is a lock from the write of a *)
(* run to the end of its transaction, and the version's key from its       *)
(* insert; Stage says what a session holds at each of its statements.      *)
(***************************************************************************)
EXTENDS OutreachSessions, FiniteSetTheorems, TLAPS

Senders == {"send", "retry"}

\* What a session is and knows at each of its statements.
Stage(s) ==
    /\ at[s] \in {"approve", "limit", "latest", "insert", "reopen", "call"} => kind[s] \in Senders
    /\ at[s] \in {"number", "version"} => kind[s] = "edit"
    /\ outcome[s] # "none" => kind[s] \in Senders /\ at[s] \in {"write", "commit", "over"}
    /\ at[s] = "version" => target[s] <= versions[about[s]] + 1
    /\ Versioning(s) => target[s] = versions[about[s]] + 1

OneEditorPerVersion ==
    \A s, t \in Sessions : Versioning(s) /\ Versioning(t) /\ about[s] = about[t] => s = t

\* A send whose answer is not committed yet.
Underway(m) == \E s \in Sessions : about[s] = m /\ Sending(s) /\ outcome[s] = "sent"

Accounted(m) ==
    m \notin dated => /\ Underway(m) => accepted[m] <= forgotten[m] + 1
                      /\ ~Underway(m) => accepted[m] <= forgotten[m]

Locks ==
    /\ \A s \in Sessions : Stage(s)
    /\ OneSenderPerMessage
    /\ OneEditorPerVersion
    /\ LastVersionIsText

IInv == TypeOK /\ Locks /\ \A m \in Messages : Accounted(m)

-----------------------------------------------------------------------------
\* Initially every request is about to start and nothing is sent.
LEMMA InitInv == Init => IInv
<1> SUFFICES ASSUME Init PROVE IInv
  OBVIOUS
<1>1. runs \in [Messages -> [Runs -> RunStatus]]
  BY DEF Init, RunStatus
<1>2. TypeOK
  BY <1>1 DEF Init, TypeOK, Status, RunStatus, Points, Nobody
<1>3. \A s \in Sessions : at[s] = "start" /\ outcome[s] = "none"
  BY DEF Init
<1>4. Locks
  BY <1>3 DEF Init, Locks, Stage, OneSenderPerMessage, OneEditorPerVersion, LastVersionIsText,
              Sending, Versioning
<1>5. \A m \in Messages : Accounted(m)
  BY <1>3 DEF Init, Accounted
<1>. QED BY <1>2, <1>4, <1>5 DEF IInv

\* A statement of s that commits nothing and hears no answer, and an abort: s goes to a
\* point it may go to.
LEMMA StatementLocks ==
    ASSUME IInv, NEW s \in Sessions, NEW point \in Points, NEW n \in Nat,
           at' = [at EXCEPT ![s] = point],
           target' = [target EXCEPT ![s] = n],
           seen' \in [Sessions -> Status \cup {"none"}],
           owner' \in [Messages -> Sessions \cup {Nobody}],
           forgotten' \in [Messages -> Nat],
           UNCHANGED <<db, agreed, kind, about, outcome, accepted>>,
           point \in {"approve", "limit", "latest", "insert", "reopen", "call"}
               => kind[s] \in Senders,
           point \in {"number", "version"} => kind[s] = "edit",
           point = "version" => n <= versions[about[s]] + 1,
           point \in {"commit", "over"} \/ outcome[s] = "none",
           point = "call" => ~Busy(s),
           point = "write" => kind[s] \notin Senders,
           point = "write" /\ kind[s] = "edit"
               => n = versions[about[s]] + 1 /\ ~\E t \in Sessions \ {s} :
                                                    Versioning(t) /\ about[t] = about[s],
           point = "commit" => at[s] = "write" /\ n = target[s]
    PROVE  TypeOK' /\ Locks'
<1> USE DEF IInv
<1>1. TypeOK'
  BY DEF TypeOK, db
<1>2. /\ at'[s] = point /\ target'[s] = n
      /\ \A t \in Sessions \ {s} : at'[t] = at[t] /\ target'[t] = target[t]
      /\ kind' = kind /\ about' = about /\ outcome' = outcome /\ versions' = versions /\ text' = text
  BY DEF TypeOK, db
<1>3. \A t \in Sessions \ {s} : /\ Stage(t)'
                                /\ Sending(t)' <=> Sending(t)
                                /\ Versioning(t)' <=> Versioning(t)
  BY <1>2 DEF Locks, Stage, Sending, Versioning
<1>4. Stage(s)'
  BY <1>2 DEF Locks, Stage, Versioning
<1>5. /\ Sending(s)' => Sending(s) \/ ~Busy(s)
      /\ Versioning(s)' => Versioning(s) \/ ~\E t \in Sessions \ {s} :
                                                  Versioning(t) /\ about[t] = about[s]
  BY <1>2 DEF Sending, Versioning, Senders
<1>6. OneSenderPerMessage'
  <2> SUFFICES ASSUME NEW t \in Sessions, NEW u \in Sessions, Sending(t)', Sending(u)',
                      about[t] = about[u], t # u
               PROVE  FALSE
    BY <1>2 DEF OneSenderPerMessage
  <2>. QED BY <1>3, <1>5 DEF Locks, OneSenderPerMessage, Busy
<1>7. OneEditorPerVersion'
  <2> SUFFICES ASSUME NEW t \in Sessions, NEW u \in Sessions, Versioning(t)', Versioning(u)',
                      about[t] = about[u], t # u
               PROVE  FALSE
    BY <1>2 DEF OneEditorPerVersion
  <2>. QED BY <1>3, <1>5 DEF Locks, OneEditorPerVersion
<1>8. LastVersionIsText'
  BY <1>2 DEF Locks, LastVersionIsText
<1>. QED BY <1>1, <1>3, <1>4, <1>6, <1>7, <1>8 DEF Locks

\* The same for a statement that does not end the transaction.
LEMMA StatementInv ==
    ASSUME IInv, NEW s \in Sessions, NEW point \in Points, NEW n \in Nat,
           at' = [at EXCEPT ![s] = point],
           target' = [target EXCEPT ![s] = n],
           seen' \in [Sessions -> Status \cup {"none"}],
           owner' \in [Messages -> Sessions \cup {Nobody}],
           UNCHANGED <<db, agreed, kind, about, outcome, accepted, forgotten>>,
           point \in {"approve", "limit", "latest", "insert", "reopen", "call"}
               => kind[s] \in Senders,
           point \in {"number", "version"} => kind[s] = "edit",
           point = "version" => n <= versions[about[s]] + 1,
           point = "commit" \/ outcome[s] = "none",
           point = "call" => ~Busy(s),
           point = "write" => kind[s] \notin Senders,
           point = "write" /\ kind[s] = "edit"
               => n = versions[about[s]] + 1 /\ ~\E t \in Sessions \ {s} :
                                                    Versioning(t) /\ about[t] = about[s],
           point = "commit" => at[s] = "write" /\ n = target[s]
    PROVE  IInv'
<1>1. forgotten' \in [Messages -> Nat]
  BY DEF IInv, TypeOK
<1>2. TypeOK' /\ Locks'
  BY <1>1, StatementLocks
<1>3. \A m \in Messages : Underway(m)' <=> Underway(m)
  <2>1. \A t \in Sessions : outcome[t] = "sent" => (Sending(t)' <=> Sending(t))
    BY DEF IInv, TypeOK, Sending
  <2>. QED BY <2>1 DEF Underway
<1>4. \A m \in Messages : Accounted(m)'
  BY <1>3 DEF IInv, Accounted, db
<1>. QED BY <1>2, <1>4 DEF IInv

\* A transaction that is lost: what the sender accepted for it is forgotten.
LEMMA AbortInv ==
    ASSUME IInv, NEW s \in Sessions, Abort(s)
    PROVE  IInv'
<1> DEFINE lost == Sending(s) /\ outcome[s] = "sent"
<1>1. about[s] \in Messages /\ target[s] \in Nat /\ target' = [target EXCEPT ![s] = target[s]]
  BY DEF IInv, TypeOK, Abort
<1>2. /\ forgotten' \in [Messages -> Nat]
      /\ forgotten'[about[s]] = forgotten[about[s]] + IF lost THEN 1 ELSE 0
      /\ \A m \in Messages : m # about[s] => forgotten'[m] = forgotten[m]
  <2>1. PICK k \in {0, 1} : k = IF lost THEN 1 ELSE 0
    OBVIOUS
  <2>2. forgotten' = [forgotten EXCEPT ![about[s]] = @ + k]
    BY <2>1 DEF Abort
  <2>. QED BY <1>1, <2>1, <2>2 DEF IInv, TypeOK
<1>3. TypeOK' /\ Locks'
  <2>1. owner' \in [Messages -> Sessions \cup {Nobody}]
    BY DEF Abort, Release, IInv, TypeOK
  <2>2. "over" \in Points /\ at' = [at EXCEPT ![s] = "over"]
    BY DEF Abort, GoTo, Points
  <2>. QED BY <1>1, <1>2, <2>1, <2>2, StatementLocks DEF Abort, IInv, TypeOK
<1>4. /\ ~Sending(s)' /\ \A t \in Sessions \ {s} : Sending(t)' <=> Sending(t)
      /\ UNCHANGED <<about, outcome, dated, accepted>>
  BY DEF Abort, GoTo, IInv, TypeOK, Sending, db
<1>5. ASSUME NEW m \in Messages PROVE Accounted(m)'
  <2>1. accepted[m] \in Nat /\ forgotten[m] \in Nat
    BY DEF IInv, TypeOK
  <2>2. CASE m = about[s] /\ lost
    <3>1. Underway(m) /\ ~Underway(m)'
      BY <1>4, <2>2 DEF Underway, IInv, Locks, OneSenderPerMessage
    <3>2. forgotten'[m] = forgotten[m] + 1
      BY <1>2, <2>2
    <3>. QED BY <1>4, <2>1, <3>1, <3>2 DEF IInv, Accounted
  <2>3. CASE ~(m = about[s] /\ lost)
    <3>1. forgotten'[m] = forgotten[m]
      BY <1>2, <2>1, <2>3
    <3>2. Underway(m)' <=> Underway(m)
      BY <1>4, <2>3 DEF Underway
    <3>. QED BY <1>4, <3>1, <3>2 DEF IInv, Accounted
  <2>. QED BY <2>2, <2>3
<1>. QED BY <1>3, <1>5 DEF IInv

\* The sender's answer.
LEMMA CallInv ==
    ASSUME IInv, NEW s \in Sessions, Call(s)
    PROVE  IInv'
<1>1. PICK answer \in RunStatus \ {"none"} :
        /\ outcome' = [outcome EXCEPT ![s] = answer]
        /\ accepted' = [accepted EXCEPT ![about[s]] = @ + IF answer = "sent" THEN 1 ELSE 0]
  BY DEF Call
<1>2. /\ at[s] = "call" /\ at'[s] = "write" /\ outcome'[s] = answer
      /\ \A t \in Sessions \ {s} : at'[t] = at[t] /\ outcome'[t] = outcome[t]
      /\ UNCHANGED <<db, agreed, kind, about, seen, target, owner, forgotten>>
  BY <1>1 DEF Call, GoTo, IInv, TypeOK
<1>3. about[s] \in Messages /\ kind[s] \in Senders /\ outcome[s] = "none"
  BY <1>2 DEF IInv, TypeOK, Locks, Stage
<1>4. /\ accepted' \in [Messages -> Nat]
      /\ accepted'[about[s]] = accepted[about[s]] + IF answer = "sent" THEN 1 ELSE 0
      /\ \A m \in Messages : m # about[s] => accepted'[m] = accepted[m]
  <2>1. PICK k \in {0, 1} : k = IF answer = "sent" THEN 1 ELSE 0
    OBVIOUS
  <2>2. accepted' = [accepted EXCEPT ![about[s]] = @ + k]
    BY <1>1, <2>1
  <2>. QED BY <1>3, <2>1, <2>2 DEF IInv, TypeOK
<1>5. TypeOK'
  <2>1. at' \in [Sessions -> Points] /\ outcome' \in [Sessions -> RunStatus]
    BY <1>1 DEF Call, GoTo, IInv, TypeOK, Points
  <2>. QED BY <1>2, <1>4, <2>1 DEF IInv, TypeOK, db
<1>6. \A t \in Sessions : /\ Sending(t)' <=> Sending(t)
                          /\ Versioning(t)' <=> Versioning(t)
                          /\ Stage(t)'
  BY <1>2, <1>3 DEF IInv, Locks, Stage, Sending, Versioning, Senders, db
<1>7. Locks'
  BY <1>2, <1>6 DEF IInv, Locks, OneSenderPerMessage, OneEditorPerVersion, LastVersionIsText, db
<1>8. Sending(s) /\ Sending(s)'
  BY <1>2, <1>3, <1>6 DEF Sending, Senders
<1>9. ~Underway(about[s])
  BY <1>3, <1>8 DEF Underway, IInv, Locks, OneSenderPerMessage
<1>10. ASSUME NEW m \in Messages PROVE Accounted(m)'
  <2>1. accepted[m] \in Nat /\ forgotten[m] \in Nat /\ forgotten'[m] = forgotten[m] /\ dated' = dated
    BY <1>2 DEF IInv, TypeOK, db
  <2>2. CASE m # about[s]
    <3>1. Underway(m)' <=> Underway(m)
      BY <1>2, <1>6, <2>2 DEF Underway
    <3>. QED BY <1>4, <2>1, <2>2, <3>1 DEF IInv, Accounted
  <2>3. CASE m = about[s] /\ answer = "sent"
    <3>1. Underway(m)'
      BY <1>2, <1>8, <2>3 DEF Underway
    <3>2. accepted'[m] = accepted[m] + 1
      BY <1>4, <2>3
    <3>. QED BY <1>9, <2>1, <2>3, <3>1, <3>2 DEF IInv, Accounted
  <2>4. CASE m = about[s] /\ answer # "sent"
    <3>1. accepted'[m] = accepted[m]
      BY <1>4, <2>1, <2>4
    <3>. QED BY <1>9, <2>1, <2>4, <3>1 DEF IInv, Accounted
  <2>. QED BY <2>2, <2>3, <2>4
<1>. QED BY <1>5, <1>7, <1>10 DEF IInv

\* A commit: the version or the run and the date become visible.
LEMMA CommitInv ==
    ASSUME IInv, NEW s \in Sessions, Commit(s)
    PROVE  IInv'
<1>1. /\ at[s] = "commit" /\ at'[s] = "over"
      /\ \A t \in Sessions \ {s} : at'[t] = at[t]
      /\ UNCHANGED <<agreed, kind, about, seen, target, outcome, accepted, forgotten>>
      /\ about[s] \in Messages /\ target[s] \in Nat
  BY DEF Commit, GoTo, IInv, TypeOK
<1>2. /\ ~Sending(s)' /\ ~Versioning(s)'
      /\ \A t \in Sessions \ {s} : (Sending(t)' <=> Sending(t)) /\ (Versioning(t)' <=> Versioning(t))
  BY <1>1 DEF Sending, Versioning
<1>3. Versioning(s) <=> kind[s] = "edit"
  BY <1>1 DEF Versioning
<1>4. IF kind[s] = "edit"
      THEN /\ versions' = [versions EXCEPT ![about[s]] = target[s]]
           /\ text' = [text EXCEPT ![about[s]] = target[s]]
           /\ target[s] = versions[about[s]] + 1
      ELSE UNCHANGED <<text, versions>>
  <2>1. CASE kind[s] = "edit"
    <3>1. target[s] = versions[about[s]] + 1 /\ versions[about[s]] \in Nat
      BY <1>1, <1>3, <2>1 DEF IInv, TypeOK, Locks, Stage
    <3>2. target[s] > versions[about[s]]
      BY <3>1
    <3>. QED BY <2>1, <3>1, <3>2 DEF Commit
  <2>2. CASE kind[s] # "edit"
    BY <2>2 DEF Commit
  <2>. QED BY <2>1, <2>2
<1>5. text' \in [Messages -> Nat] /\ versions' \in [Messages -> Nat] /\ LastVersionIsText'
  BY <1>1, <1>4 DEF IInv, TypeOK, Locks, LastVersionIsText
<1>6. TypeOK'
  <2>1. NewStatus(s) \in Status
    BY DEF NewStatus, IInv, TypeOK, Status
  <2>2. status' \in [Messages -> Status]
    BY <1>1, <2>1 DEF Commit, IInv, TypeOK
  <2>3. runs' \in [Messages -> [Runs -> RunStatus]]
    BY <1>1 DEF Commit, IInv, TypeOK
  <2>4. dated' \subseteq Messages /\ owner' \in [Messages -> Sessions \cup {Nobody}]
    BY <1>1 DEF Commit, Dated, Release, IInv, TypeOK
  <2>5. at' \in [Sessions -> Points]
    BY DEF Commit, GoTo, IInv, TypeOK, Points
  <2>. QED BY <1>1, <1>5, <2>2, <2>3, <2>4, <2>5 DEF IInv, TypeOK
<1>7. OneSenderPerMessage' /\ OneEditorPerVersion'
  BY <1>1, <1>2 DEF IInv, Locks, OneSenderPerMessage, OneEditorPerVersion
<1>8. ASSUME NEW t \in Sessions PROVE Stage(t)'
  <2>1. CASE t = s
    BY <1>1, <1>2, <2>1 DEF IInv, Locks, Stage
  <2>2. CASE t # s
    <3>1. about[t] \in Messages /\ versions[about[t]] \in Nat /\ target[t] \in Nat
      BY DEF IInv, TypeOK
    <3>2. CASE kind[s] = "edit" /\ about[t] = about[s]
      <4>1. ~Versioning(t)'
        BY <1>2, <1>3, <2>2, <3>2 DEF IInv, Locks, OneEditorPerVersion
      <4>2. versions'[about[t]] = versions[about[t]] + 1
        BY <1>1, <1>4, <3>2 DEF IInv, TypeOK
      <4>3. at[t] = "version" => target[t] <= versions'[about[t]] + 1
        BY <3>1, <4>2 DEF IInv, Locks, Stage
      <4>. QED BY <1>1, <2>2, <4>1, <4>3 DEF IInv, Locks, Stage
    <3>3. CASE ~(kind[s] = "edit" /\ about[t] = about[s])
      <4>1. versions'[about[t]] = versions[about[t]]
        BY <1>1, <1>4, <3>1, <3>3 DEF IInv, TypeOK
      <4>. QED BY <1>1, <1>2, <2>2, <4>1 DEF IInv, Locks, Stage
    <3>. QED BY <3>2, <3>3
  <2>. QED BY <2>1, <2>2
<1>9. ASSUME NEW m \in Messages PROVE Accounted(m)'
  <2>1. dated' = IF outcome[s] = "sent" THEN dated \cup {about[s]} ELSE dated
    BY DEF Commit, Dated
  <2>2. CASE outcome[s] = "sent" /\ m = about[s]
    BY <2>1, <2>2 DEF Accounted
  <2>3. CASE ~(outcome[s] = "sent" /\ m = about[s])
    <3>1. Underway(m)' <=> Underway(m)
      BY <1>1, <1>2, <2>3 DEF Underway
    <3>2. m \in dated' <=> m \in dated
      BY <2>1, <2>3
    <3>. QED BY <1>1, <3>1, <3>2 DEF IInv, Accounted
  <2>. QED BY <2>2, <2>3
<1>. QED BY <1>5, <1>6, <1>7, <1>8, <1>9 DEF IInv, Locks

\* Every statement of a request keeps the invariant.
LEMMA StepInv ==
    ASSUME IInv, NEW s \in Sessions, Step(s)
    PROVE  IInv'
<1>1. /\ target[s] \in Nat /\ about[s] \in Messages /\ versions[about[s]] \in Nat
      /\ target = [target EXCEPT ![s] = target[s]]
      /\ seen \in [Sessions -> Status \cup {"none"}]
      /\ owner \in [Messages -> Sessions \cup {Nobody}]
      /\ status[about[s]] \in Status
      /\ kind[s] \in {"send", "retry", "edit", "cancel", "submit"}
  BY OutreachSessionsOK DEF IInv, TypeOK
<1>2. at[s] \in {"approve", "limit", "latest", "insert", "reopen", "call"} => kind[s] \in Senders
  BY DEF IInv, Locks, Stage
<1>3. at[s] \in {"number", "version"} => kind[s] = "edit"
  BY DEF IInv, Locks, Stage
<1>4. at[s] \notin {"write", "commit", "over"} => outcome[s] = "none"
  BY DEF IInv, Locks, Stage
<1>5. ASSUME NEW point \in Points, Move(s, point),
             point \in {"approve", "limit", "latest", "insert", "reopen"} => kind[s] \in Senders,
             point \notin {"call", "number", "version", "commit"},
             point = "write" => /\ kind[s] \notin Senders
                                /\ kind[s] = "edit" =>
                                     /\ target[s] = versions[about[s]] + 1
                                     /\ ~\E t \in Sessions \ {s} : Versioning(t) /\ about[t] = about[s],
             outcome[s] = "none"
      PROVE  IInv'
  BY <1>1, <1>5, StatementInv DEF Move, GoTo
<1>6. ASSUME Load(s) PROVE IInv'
  <2>1. CASE Admits(s)
    <3>1. PICK n \in Nat : target' = [target EXCEPT ![s] = n]
      BY <1>1, <1>6, <2>1 DEF Load, Runs
    <3>2. /\ at' = [at EXCEPT ![s] = AfterLoad(s)]
          /\ seen' = [seen EXCEPT ![s] = status[about[s]]]
          /\ UNCHANGED <<db, agreed, kind, about, outcome, owner, accepted, forgotten>>
      BY <1>6, <2>1 DEF Load, GoTo
    <3>3. /\ AfterLoad(s) \in {"approve", "limit", "number", "write"}
          /\ AfterLoad(s) \in {"approve", "limit"} => kind[s] \in Senders
          /\ AfterLoad(s) = "number" => kind[s] = "edit"
          /\ AfterLoad(s) = "write" => kind[s] \in {"cancel", "submit"}
      BY <1>1 DEF AfterLoad, Senders
    <3>4. seen' \in [Sessions -> Status \cup {"none"}]
      BY <1>1, <3>2
    <3>5. outcome[s] = "none"
      BY <1>4, <1>6 DEF Load
    <3>6. AfterLoad(s) \in Points
      BY <3>3 DEF Points
    <3> HIDE DEF AfterLoad
    <3>. QED BY <1>1, <3>1, <3>2, <3>3, <3>4, <3>5, <3>6, StatementInv DEF Senders
  <2>2. CASE ~Admits(s)
    BY <1>4, <1>5, <1>6, <2>2 DEF Load, Points
  <2>. QED BY <2>1, <2>2
<1>7. ASSUME NothingToRetry(s) PROVE IInv'
  BY <1>4, <1>5, <1>7 DEF NothingToRetry, Points
<1>8. ASSUME MarkApproved(s) PROVE IInv'
  <2>1. seen' \in [Sessions -> Status \cup {"none"}]
    BY <1>1, <1>8 DEF MarkApproved, Status
  <2>2. owner' \in [Messages -> Sessions \cup {Nobody}]
    BY <1>1, <1>8 DEF MarkApproved
  <2>3. kind[s] \in Senders /\ outcome[s] = "none" /\ "limit" \in Points
    BY <1>2, <1>4, <1>8 DEF MarkApproved, Points
  <2>. QED BY <1>1, <1>8, <2>1, <2>2, <2>3, StatementInv DEF MarkApproved, GoTo
<1>9. ASSUME CheckLimit(s) PROVE IInv'
  <2>1. kind[s] \in Senders /\ outcome[s] = "none"
    BY <1>2, <1>4, <1>9 DEF CheckLimit
  <2>2. CASE Abort(s)
    BY <2>2, AbortInv
  <2>3. CASE Move(s, "latest")
    BY <1>5, <2>1, <2>3 DEF Points
  <2>4. CASE Move(s, "reopen")
    BY <1>5, <2>1, <2>4 DEF Points
  <2>. QED BY <1>9, <2>2, <2>3, <2>4 DEF CheckLimit
<1>10. ASSUME CheckLatest(s) PROVE IInv'
  <2>1. kind[s] \in Senders /\ outcome[s] = "none"
    BY <1>2, <1>4, <1>10 DEF CheckLatest
  <2>2. CASE Abort(s)
    BY <2>2, AbortInv
  <2>3. CASE Move(s, "insert")
    BY <1>5, <2>1, <2>3 DEF Points
  <2>. QED BY <1>10, <2>2, <2>3 DEF CheckLatest
<1>11. ASSUME WriteRun(s) PROVE IInv'
  <2>1. kind[s] \in Senders /\ outcome[s] = "none" /\ "call" \in Points
    BY <1>2, <1>4, <1>11 DEF WriteRun, Points
  <2>2. LastRun(about[s]) + 1 \in Nat
    <3> DEFINE used == {r \in Runs : runs[about[s]][r] # "none"}
    <3>1. IsFiniteSet(Runs)
      BY OutreachSessionsOK, FS_Interval DEF Runs
    <3>2. used \subseteq Runs
      OBVIOUS
    <3> HIDE DEF used
    <3>3. IsFiniteSet(used)
      BY <3>1, <3>2, FS_Subset
    <3>4. Cardinality(used) \in Nat
      BY <3>3, FS_CardinalityType
    <3>. QED BY <3>4 DEF LastRun, used
  <2>3. PICK n \in Nat : target' = [target EXCEPT ![s] = n]
    BY <1>1, <1>11, <2>2 DEF WriteRun
  <2>. QED BY <1>1, <1>11, <2>1, <2>3, StatementInv DEF WriteRun, GoTo
<1>12. ASSUME ReadNumber(s) PROVE IInv'
  <2>1. kind[s] = "edit" /\ outcome[s] = "none" /\ "version" \in Points
    BY <1>3, <1>4, <1>12 DEF ReadNumber, Points
  <2>2. versions[about[s]] + 1 \in Nat /\ versions[about[s]] + 1 <= versions[about[s]] + 1
    BY <1>1
  <2>. QED BY <1>1, <1>12, <2>1, <2>2, StatementInv DEF ReadNumber, GoTo
<1>13. ASSUME InsertVersion(s) PROVE IInv'
  <2>1. kind[s] = "edit" /\ outcome[s] = "none" /\ kind[s] \notin Senders
    BY <1>3, <1>4, <1>13 DEF InsertVersion, Senders
  <2>2. CASE Abort(s)
    BY <2>2, AbortInv
  <2>3. CASE ~NumberTaken(s) /\ Move(s, "write")
    <3>1. target[s] = versions[about[s]] + 1
      BY <1>1, <1>13, <2>3 DEF InsertVersion, NumberTaken, IInv, Locks, Stage
    <3>2. ~\E t \in Sessions \ {s} : Versioning(t) /\ about[t] = about[s]
      BY <1>13, <3>1 DEF InsertVersion, NumberBusy, IInv, Locks, Stage
    <3>. QED BY <1>5, <2>1, <2>3, <3>1, <3>2 DEF Points
  <2>. QED BY <1>13, <2>2, <2>3 DEF InsertVersion
<1>14. ASSUME WriteMessage(s) PROVE IInv'
  <2>1. owner' \in [Messages -> Sessions \cup {Nobody}]
    BY <1>1, <1>14 DEF WriteMessage
  <2>2. "commit" \in Points
    BY DEF Points
  <2>. QED BY <1>1, <1>14, <2>1, <2>2, StatementInv DEF WriteMessage, GoTo
<1>. QED BY <1>6, <1>7, <1>8, <1>9, <1>10, <1>11, <1>12, <1>13, <1>14, CallInv, CommitInv DEF Step

\* Every step keeps the invariant: a statement, a crash, a deadlock's victim, a human.
LEMMA NextInv == IInv /\ [Next]_vars => IInv'
<1> SUFFICES ASSUME IInv, [Next]_vars PROVE IInv'
  OBVIOUS
<1>1. ASSUME NEW s \in Sessions, Step(s) \/ Crash(s) PROVE IInv'
  BY <1>1, StepInv, AbortInv DEF Crash
<1>2. CASE (\E m \in Messages : HumanApproves(m)) \/ UNCHANGED vars
  <2>1. agreed' \subseteq Messages /\ UNCHANGED <<db, local, accepted, forgotten>>
    BY <1>2 DEF HumanApproves, vars, IInv, TypeOK
  <2>2. TypeOK'
    BY <2>1 DEF IInv, TypeOK, db, local
  <2>3. Locks'
    BY <2>1 DEF IInv, Locks, db, local, Stage, OneSenderPerMessage, OneEditorPerVersion,
                LastVersionIsText, Sending, Versioning
  <2>4. \A m \in Messages : Accounted(m)'
    BY <2>1 DEF IInv, db, local, Accounted, Underway, Sending
  <2>. QED BY <2>2, <2>3, <2>4 DEF IInv
<1>3. CASE EndDeadlock
  BY <1>3, AbortInv DEF EndDeadlock
<1>. QED BY <1>1, <1>2, <1>3 DEF Next

\* Every reachable state satisfies it.
LEMMA Invariance == Spec => []IInv
  BY InitInv, NextInv, PTL DEF Spec

-----------------------------------------------------------------------------
\* Rows and requests keep to their enumerations.
THEOREM OutreachRowsWellTyped == Spec => []TypeOK
<1>1. IInv => TypeOK
  BY DEF IInv
<1>. QED BY <1>1, Invariance, PTL

\* However many requests overlap, one of them at a time is in the sender for a message.
THEOREM SendersExcludeEachOther == Spec => []OneSenderPerMessage
<1>1. IInv => OneSenderPerMessage
  BY DEF IInv, Locks
<1>. QED BY <1>1, Invariance, PTL

\* No overlap of edits, submissions and cancellations separates a message from its versions.
THEOREM EditsAreNotLost == Spec => []LastVersionIsText
<1>1. IInv => LastVersionIsText
  BY DEF IInv, Locks
<1>. QED BY <1>1, Invariance, PTL

\* Only a lost transaction makes the message forget that it was sent.
THEOREM SentMessagesAreDated == Spec => []AcceptedIsDated
<1>1. IInv => AcceptedIsDated
  <2> SUFFICES ASSUME IInv, NEW m \in Messages, accepted[m] > forgotten[m], m \notin dated
               PROVE  Underway(m)
    BY DEF AcceptedIsDated, Underway
  <2>1. accepted[m] \in Nat /\ forgotten[m] \in Nat
    BY DEF IInv, TypeOK
  <2>. QED BY <2>1 DEF IInv, Accounted
<1>. QED BY <1>1, Invariance, PTL
=============================================================================
