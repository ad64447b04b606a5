----------------------- MODULE ApprovalSessions_proofs -----------------------
(***************************************************************************)
(* Proofs about ApprovalSessions for any number of overlapping requests    *)
(* and approvals.  A decision holds the row from its update to its end, so *)
(* the log is written in the order of the commits; what was loaded before  *)
(* that may be stale, and then the two sessions were running at one time.  *)
(***************************************************************************)
EXTENDS ApprovalSessions, TLAPS

Deciding(s) == kind[s] # "request"
Writing(s) == Deciding(s) /\ at[s] \in {"log", "commit"}

\* What a session is and knows at each of its statements.
Stage(s) ==
    /\ at[s] \in {"start", "insert"} => about[s] = Nothing
    /\ at[s] \in {"update", "log"} => Deciding(s)
    /\ at[s] \in {"insert", "notify", "preferences"} => ~Deciding(s)
    /\ at[s] \in {"notify", "preferences", "update", "log", "commit"} => about[s] \in Approvals
    /\ at[s] = "committed" /\ Deciding(s) => about[s] \in Approvals

\* A row is created by one request, and decided only once it is committed.
Created(a) ==
    /\ \A s \in Sessions : Deciding(s) /\ about[s] = a => status[a] # "none"
    /\ \A s \in Sessions : ~Deciding(s) /\ about[s] = a => (status[a] # "none" <=> at[s] = "committed")
    /\ \A s, t \in Sessions : ~Deciding(s) /\ ~Deciding(t) /\ about[s] = a /\ about[t] = a => s = t
    /\ status[a] # "none" => \E s \in Sessions : ~Deciding(s) /\ about[s] = a

\* The log of a row names decisions on it, each once.
Logs(a) ==
    \A i \in DOMAIN log[a] :
        /\ Deciding(log[a][i]) /\ about[log[a][i]] = a
        /\ at[log[a][i]] \in {"commit", "committed", "rolledBack"}
        /\ \A j \in DOMAIN log[a] : log[a][i] = log[a][j] => i = j

\* The row is a lock: one writer, whose entry ends the log.
OneWriter == \A s, t \in Sessions : Writing(s) /\ Writing(t) /\ about[s] = about[t] => s = t
WriterIsLast ==
    \A s \in Sessions : Deciding(s) /\ at[s] = "commit" =>
        /\ Len(log[about[s]]) > 0
        /\ log[about[s]][Len(log[about[s]])] = s

RunningOverlap == \A s, t \in Sessions : Running(s) /\ Running(t) /\ s # t => {s, t} \in overlap

\* A decision under way loaded its row after the latest committed one, which then was a
\* snooze, or was running together with that one.
LoadedOrOverlapped ==
    \A s \in Sessions : at[s] \in {"update", "log"} \/ (at[s] = "commit" /\ Deciding(s)) =>
        \A i \in DOMAIN log[about[s]] : Latest(about[s], i) =>
            \/ kind[log[about[s]][i]] = "snoozed"
            \/ {log[about[s]][i], s} \in overlap

\* Request s found row a closed; since then it is opened only by decisions that
\* overlapped s, or by others that loaded it after one of these.
MetCommitted(s, a) == \E t \in Committed(a) : {s, t} \in overlap
FoundClosed(s, a) ==
    /\ status[a] \in OpenStatus => MetCommitted(s, a)
    /\ \A t \in Sessions : Deciding(t) /\ about[t] = a /\ Running(t) =>
         {s, t} \in overlap \/ MetCommitted(s, a)

Creating(s) ==
    /\ ~Deciding(s)
    /\ \/ at[s] \in {"insert", "notify", "preferences", "commit"}
       \/ at[s] = "committed" /\ about[s] # Nothing

CreatedApart(s, t) ==
    \/ {s, t} \in overlap
    \/ at[s] = "committed" /\ FoundClosed(t, about[s])
    \/ at[t] = "committed" /\ FoundClosed(s, about[t])

CreatorsApart == \A s, t \in Sessions : Creating(s) /\ Creating(t) /\ s # t => CreatedApart(s, t)

Shape ==
    /\ \A s \in Sessions : Stage(s)
    /\ \A a \in Approvals : Created(a) /\ Logs(a)
    /\ OneWriter /\ WriterIsLast /\ RunningOverlap

IInv ==
    /\ TypeOK /\ Shape /\ DecisionsLogged
    /\ LoadedOrOverlapped /\ SecondDecisionOverlapped /\ CreatorsApart

-----------------------------------------------------------------------------
\* Initially every request is about to start and no approval is requested.
LEMMA InitInv == Init => IInv
<1> SUFFICES ASSUME Init PROVE IInv
  OBVIOUS
<1>1. TypeOK
  BY DEF Init, TypeOK, Points, Decisions
<1>2. Shape
  BY ApprovalSessionsOK DEF Init, Shape, Stage, Created, Logs, OneWriter, WriterIsLast, Writing,
     RunningOverlap, Running, Over
<1>3. DecisionsLogged /\ LoadedOrOverlapped /\ SecondDecisionOverlapped
  BY DEF Init, DecisionsLogged, Decided, LoadedOrOverlapped, SecondDecisionOverlapped
<1>4. CreatorsApart
  BY DEF Init, CreatorsApart, Creating
<1>. QED BY <1>1, <1>2, <1>3, <1>4 DEF IInv

\* A session that begins overlaps all that are running.
LEMMA BeginOverlaps ==
    ASSUME overlap \subseteq SUBSET Sessions, NEW s \in Sessions, Begin(s)
    PROVE  /\ overlap' \subseteq SUBSET Sessions
           /\ overlap \subseteq overlap'
           /\ \A t \in Sessions : Running(t) => {s, t} \in overlap'
<1> DEFINE new == {{s, t} : t \in {u \in Sessions : Running(u)}}
<1>1. overlap' = overlap \cup new
  BY DEF Begin
<1>2. new \subseteq SUBSET Sessions
  OBVIOUS
<1>3. \A t \in Sessions : Running(t) => {s, t} \in new
  OBVIOUS
<1> HIDE DEF new
<1>. QED BY <1>1, <1>2, <1>3

\* Every statement keeps the types.
LEMMA TypeInv ==
    ASSUME TypeOK, \A s \in Sessions : Stage(s),
           NEW s \in Sessions, RequestStep(s) \/ DecisionStep(s) \/ Commit(s) \/ Crash(s)
    PROVE  TypeOK'
<1> USE DEF TypeOK, GoTo, Begin, Points
<1>1. CASE LoadOpen(s)
  <2>1. overlap' \subseteq SUBSET Sessions
    BY <1>1, BeginOverlaps DEF LoadOpen
  <2>. QED BY <1>1, <2>1 DEF LoadOpen
<1>2. CASE InsertApproval(s)
  BY <1>2 DEF InsertApproval
<1>3. CASE Notify(s)
  BY <1>3 DEF Notify
<1>4. CASE InsertPreferences(s)
  BY <1>4 DEF InsertPreferences
<1>5. CASE LoadApproval(s)
  <2>1. overlap' \subseteq SUBSET Sessions
    BY <1>5, BeginOverlaps DEF LoadApproval
  <2>2. PICK a \in Approvals :
          /\ about' = [about EXCEPT ![s] = a]
          /\ at' = [at EXCEPT ![s] = IF MayDecide(s, a) THEN "update" ELSE "rolledBack"]
    BY <1>5 DEF LoadApproval
  <2>. QED BY <1>5, <2>1, <2>2 DEF LoadApproval
<1>6. CASE UpdateApproval(s)
  BY <1>6 DEF UpdateApproval
<1>7. CASE LogDecision(s)
  BY <1>7 DEF LogDecision, Stage
<1>8. CASE Commit(s)
  BY <1>8, ApprovalSessionsOK DEF Commit, Stage
<1>9. CASE Crash(s)
  BY <1>9 DEF Crash
<1>. QED BY <1>1, <1>2, <1>3, <1>4, <1>5, <1>6, <1>7, <1>8, <1>9 DEF RequestStep, DecisionStep

\* Every statement leaves its session where Stage says.
LEMMA StageInv ==
    ASSUME TypeOK, \A s \in Sessions : Stage(s),
           NEW s \in Sessions, RequestStep(s) \/ DecisionStep(s) \/ Commit(s) \/ Crash(s)
    PROVE  \A t \in Sessions : Stage(t)'
<1> USE DEF TypeOK, GoTo, Begin, Stage, Deciding
<1>1. CASE LoadOpen(s)
  BY <1>1 DEF LoadOpen
<1>2. CASE InsertApproval(s)
  BY <1>2 DEF InsertApproval
<1>3. CASE Notify(s)
  BY <1>3 DEF Notify
<1>4. CASE InsertPreferences(s)
  BY <1>4 DEF InsertPreferences
<1>5. CASE LoadApproval(s)
  BY <1>5 DEF LoadApproval
<1>6. CASE UpdateApproval(s)
  BY <1>6 DEF UpdateApproval
<1>7. CASE LogDecision(s)
  BY <1>7 DEF LogDecision
<1>8. CASE Commit(s)
  BY <1>8 DEF Commit
<1>9. CASE Crash(s)
  BY <1>9 DEF Crash
<1>. QED BY <1>1, <1>2, <1>3, <1>4, <1>5, <1>6, <1>7, <1>8, <1>9 DEF RequestStep, DecisionStep

\* A row keeps its one creator, and is decided only once it is committed.
LEMMA CreatedInv ==
    ASSUME TypeOK, \A t \in Sessions : Stage(t),
           \A a \in Approvals : Created(a),
           NEW s \in Sessions, RequestStep(s) \/ DecisionStep(s) \/ Commit(s) \/ Crash(s)
    PROVE  \A a \in Approvals : Created(a)'
<1> USE DEF TypeOK, GoTo, Begin, Stage, Created, Deciding
<1>1. CASE LoadOpen(s)
  BY <1>1, ApprovalSessionsOK DEF LoadOpen
<1>2. CASE InsertApproval(s)
  BY <1>2 DEF InsertApproval, Fresh
<1>3. CASE Notify(s)
  BY <1>3 DEF Notify
<1>4. CASE InsertPreferences(s)
  BY <1>4 DEF InsertPreferences
<1>5. CASE LoadApproval(s)
  BY <1>5 DEF LoadApproval, MayDecide, OpenStatus, Decisions
<1>6. CASE UpdateApproval(s)
  BY <1>6 DEF UpdateApproval
<1>7. CASE LogDecision(s)
  BY <1>7 DEF LogDecision
<1>8. CASE Commit(s)
  BY <1>8, ApprovalSessionsOK DEF Commit, Decisions
<1>9. CASE Crash(s)
  BY <1>9 DEF Crash, Running, Over
<1>. QED BY <1>1, <1>2, <1>3, <1>4, <1>5, <1>6, <1>7, <1>8, <1>9 DEF RequestStep, DecisionStep

\* A log keeps naming its row's decisions, each once.
LEMMA LogsInv ==
    ASSUME TypeOK, \A t \in Sessions : Stage(t),
           \A a \in Approvals : Logs(a),
           NEW s \in Sessions, RequestStep(s) \/ DecisionStep(s) \/ Commit(s) \/ Crash(s)
    PROVE  \A a \in Approvals : Logs(a)'
<1> USE DEF TypeOK, GoTo, Begin, Stage, Logs, Deciding
<1>1. CASE LoadOpen(s)
  BY <1>1 DEF LoadOpen
<1>2. CASE InsertApproval(s)
  BY <1>2 DEF InsertApproval
<1>3. CASE Notify(s)
  BY <1>3 DEF Notify
<1>4. CASE InsertPreferences(s)
  BY <1>4 DEF InsertPreferences
<1>5. CASE LoadApproval(s)
  BY <1>5 DEF LoadApproval
<1>6. CASE UpdateApproval(s)
  BY <1>6 DEF UpdateApproval
<1>7. CASE LogDecision(s)
  <2>1. log' = [log EXCEPT ![about[s]] = Append(@, s)] /\ about[s] \in Approvals
        /\ at[s] = "log" /\ at' = [at EXCEPT ![s] = "commit"] /\ kind' = kind /\ about' = about
    BY <1>7 DEF LogDecision
  <2> SUFFICES ASSUME NEW a \in Approvals PROVE Logs(a)'
    OBVIOUS
  <2>2. \A i \in DOMAIN log[a] : log[a][i] \in Sessions \ {s}
    <3>1. log[a] \in Seq(Sessions)
      OBVIOUS
    <3>. QED BY <2>1, <3>1
  <2>3. CASE a # about[s]
    <3>1. log'[a] = log[a]
      BY <2>1, <2>3
    <3>. QED BY <2>1, <2>2, <3>1
  <2>4. CASE a = about[s]
    <3>1. /\ log'[a] = Append(log[a], s) /\ log[a] \in Seq(Sessions)
          /\ Len(log'[a]) = Len(log[a]) + 1 /\ DOMAIN log'[a] = 1..Len(log'[a])
          /\ \A i \in DOMAIN log[a] : log'[a][i] = log[a][i]
          /\ log'[a][Len(log[a]) + 1] = s
      BY <2>1, <2>4
    <3>2. \A i \in DOMAIN log'[a] : i \in DOMAIN log[a] \/ i = Len(log[a]) + 1
      BY <3>1
    <3>3. \A i \in DOMAIN log[a] :
            /\ Deciding(log'[a][i]) /\ about'[log'[a][i]] = a
            /\ at'[log'[a][i]] \in {"commit", "committed", "rolledBack"} /\ log'[a][i] # s
      BY <2>1, <2>2, <3>1
    <3>4. Deciding(s) /\ about'[s] = a /\ at'[s] = "commit"
      BY <2>1, <2>4
    <3>. QED BY <2>1, <3>1, <3>2, <3>3, <3>4
  <2>. QED BY <2>3, <2>4
<1>8. CASE Commit(s)
  BY <1>8 DEF Commit
<1>9. CASE Crash(s)
  BY <1>9 DEF Crash
<1>. QED BY <1>1, <1>2, <1>3, <1>4, <1>5, <1>6, <1>7, <1>8, <1>9 DEF RequestStep, DecisionStep

\* The row is a lock from its update to the end of the transaction.
LEMMA WriterInv ==
    ASSUME TypeOK, \A t \in Sessions : Stage(t), OneWriter,
           NEW s \in Sessions, RequestStep(s) \/ DecisionStep(s) \/ Commit(s) \/ Crash(s)
    PROVE  OneWriter'
<1> USE DEF TypeOK, GoTo, Begin, Stage, OneWriter, Writing, Deciding
<1>1. CASE LoadOpen(s)
  BY <1>1 DEF LoadOpen
<1>2. CASE InsertApproval(s)
  BY <1>2 DEF InsertApproval
<1>3. CASE Notify(s)
  BY <1>3 DEF Notify
<1>4. CASE InsertPreferences(s)
  BY <1>4 DEF InsertPreferences
<1>5. CASE LoadApproval(s)
  BY <1>5 DEF LoadApproval
<1>6. CASE UpdateApproval(s)
  BY <1>6 DEF UpdateApproval, Writers, Running, Over
<1>7. CASE LogDecision(s)
  BY <1>7 DEF LogDecision
<1>8. CASE Commit(s)
  BY <1>8 DEF Commit
<1>9. CASE Crash(s)
  BY <1>9 DEF Crash
<1>. QED BY <1>1, <1>2, <1>3, <1>4, <1>5, <1>6, <1>7, <1>8, <1>9 DEF RequestStep, DecisionStep

\* The entry of the writer stays the last.
LEMMA WriterIsLastInv ==
    ASSUME TypeOK, \A t \in Sessions : Stage(t), OneWriter, WriterIsLast,
           NEW s \in Sessions, RequestStep(s) \/ DecisionStep(s) \/ Commit(s) \/ Crash(s)
    PROVE  WriterIsLast'
<1> USE DEF TypeOK, GoTo, Begin, Stage, WriterIsLast, Deciding
<1>1. CASE LoadOpen(s)
  BY <1>1 DEF LoadOpen
<1>2. CASE InsertApproval(s)
  BY <1>2 DEF InsertApproval
<1>3. CASE Notify(s)
  BY <1>3 DEF Notify
<1>4. CASE InsertPreferences(s)
  BY <1>4 DEF InsertPreferences
<1>5. CASE LoadApproval(s)
  BY <1>5 DEF LoadApproval
<1>6. CASE UpdateApproval(s)
  BY <1>6 DEF UpdateApproval
<1>7. CASE LogDecision(s)
  BY <1>7 DEF LogDecision, OneWriter, Writing
<1>8. CASE Commit(s)
  BY <1>8 DEF Commit
<1>9. CASE Crash(s)
  BY <1>9 DEF Crash
<1>. QED BY <1>1, <1>2, <1>3, <1>4, <1>5, <1>6, <1>7, <1>8, <1>9 DEF RequestStep, DecisionStep

\* Two sessions that run at one time are recorded as overlapping.
LEMMA RunningInv ==
    ASSUME TypeOK, RunningOverlap,
           NEW s \in Sessions, RequestStep(s) \/ DecisionStep(s) \/ Commit(s) \/ Crash(s)
    PROVE  RunningOverlap'
<1> USE DEF TypeOK, GoTo, RunningOverlap, Running, Over
<1>1. CASE LoadOpen(s)
  BY <1>1, BeginOverlaps DEF LoadOpen, Begin
<1>2. CASE InsertApproval(s)
  BY <1>2 DEF InsertApproval
<1>3. CASE Notify(s)
  BY <1>3 DEF Notify
<1>4. CASE InsertPreferences(s)
  BY <1>4 DEF InsertPreferences
<1>5. CASE LoadApproval(s)
  <2>1. PICK a \in Approvals :
          at' = [at EXCEPT ![s] = IF MayDecide(s, a) THEN "update" ELSE "rolledBack"]
    BY <1>5 DEF LoadApproval
  <2>2. \A t \in Sessions \ {s} : Running(t)' => Running(t)
    BY <2>1
  <2>3. /\ overlap \subseteq overlap'
        /\ \A t \in Sessions : Running(t) => {s, t} \in overlap' /\ {t, s} \in overlap'
    <3>1. \A t : {s, t} = {t, s}
      OBVIOUS
    <3>. QED BY <1>5, <3>1, BeginOverlaps DEF LoadApproval
  <2> SUFFICES ASSUME NEW t \in Sessions, NEW u \in Sessions, Running(t)', Running(u)', t # u
               PROVE  {t, u} \in overlap'
    BY DEF RunningOverlap
  <2>. QED BY <2>2, <2>3 DEF RunningOverlap
<1>6. CASE UpdateApproval(s)
  BY <1>6 DEF UpdateApproval
<1>7. CASE LogDecision(s)
  BY <1>7 DEF LogDecision
<1>8. CASE Commit(s)
  BY <1>8 DEF Commit
<1>9. CASE Crash(s)
  BY <1>9 DEF Crash
<1>. QED BY <1>1, <1>2, <1>3, <1>4, <1>5, <1>6, <1>7, <1>8, <1>9 DEF RequestStep, DecisionStep

-----------------------------------------------------------------------------
\* What is in the logs stays, and only a commit dates a decision.
LEMMA LogsKept ==
    ASSUME TypeOK, Shape, NEW s \in Sessions, RequestStep(s) \/ DecisionStep(s) \/ Crash(s)
    PROVE  /\ status' = status /\ kind' = kind /\ overlap \subseteq overlap'
           /\ \A t \in Sessions : at[t] = "committed" => at'[t] = "committed" /\ about'[t] = about[t]
           /\ \A a \in Approvals :
                /\ \A i \in DOMAIN log[a] : i \in DOMAIN log'[a] /\ log'[a][i] = log[a][i]
                /\ Decided(a)' = Decided(a)
<1>1. status' = status /\ kind' = kind /\ overlap \subseteq overlap'
  BY BeginOverlaps DEF TypeOK, RequestStep, DecisionStep, Crash, LoadOpen, InsertApproval, Notify,
     InsertPreferences, LoadApproval, UpdateApproval, LogDecision
<1>2. \A t \in Sessions : at[t] = "committed" => at'[t] = "committed" /\ about'[t] = about[t]
  BY DEF TypeOK, RequestStep, DecisionStep, Crash, LoadOpen, InsertApproval, Notify, Begin, GoTo,
     InsertPreferences, LoadApproval, UpdateApproval, LogDecision, Running, Over
<1>3. CASE LogDecision(s)
  <2>1. /\ log' = [log EXCEPT ![about[s]] = Append(@, s)] /\ about[s] \in Approvals
        /\ at[s] = "log" /\ at' = [at EXCEPT ![s] = "commit"]
    BY <1>3 DEF LogDecision, GoTo, Shape, Stage
  <2> SUFFICES ASSUME NEW a \in Approvals
               PROVE  /\ \A i \in DOMAIN log[a] : i \in DOMAIN log'[a] /\ log'[a][i] = log[a][i]
                      /\ Decided(a)' = Decided(a)
    BY <1>1, <1>2
  <2>2. log[a] \in Seq(Sessions) /\ \A i \in DOMAIN log[a] : log[a][i] \in Sessions
    BY DEF TypeOK
  <2>3. CASE a # about[s]
    <3>1. log'[a] = log[a]
      BY <2>1, <2>3 DEF TypeOK
    <3>2. \A i \in DOMAIN log[a] : at'[log[a][i]] = "committed" <=> at[log[a][i]] = "committed"
      BY <2>1, <2>2 DEF TypeOK
    <3>. QED BY <3>1, <3>2 DEF Decided
  <2>4. CASE a = about[s]
    <3>1. /\ log'[a] = Append(log[a], s)
          /\ DOMAIN log'[a] = DOMAIN log[a] \cup {Len(log[a]) + 1}
          /\ \A i \in DOMAIN log[a] : log'[a][i] = log[a][i]
          /\ log'[a][Len(log[a]) + 1] = s
      BY <2>1, <2>2, <2>4 DEF TypeOK
    <3>2. \A i \in DOMAIN log[a] : at'[log[a][i]] = "committed" <=> at[log[a][i]] = "committed"
      BY <2>1, <2>2 DEF TypeOK
    <3>3. at'[s] # "committed"
      BY <2>1 DEF TypeOK
    <3>. QED BY <3>1, <3>2, <3>3 DEF Decided
  <2>. QED BY <2>3, <2>4
<1>4. CASE log' = log
  <2>1. \A a \in Approvals : \A i \in DOMAIN log[a] :
          log[a][i] \in Sessions /\ at[log[a][i]] \in {"commit", "committed", "rolledBack"}
    <3>1. \A a \in Approvals : log[a] \in Seq(Sessions)
      BY DEF TypeOK
    <3>. QED BY <3>1 DEF Shape, Logs
  <2>2. \A t \in Sessions : at[t] \in {"commit", "committed", "rolledBack"} =>
          (at'[t] = "committed" <=> at[t] = "committed")
    BY DEF TypeOK, RequestStep, DecisionStep, Crash, LoadOpen, InsertApproval, Notify, Begin, GoTo,
       InsertPreferences, LoadApproval, UpdateApproval, LogDecision, Running, Over
  <2>3. \A a \in Approvals : Decided(a)' = Decided(a)
    BY <1>4, <2>1, <2>2 DEF Decided
  <2>. QED BY <1>1, <1>2, <1>4, <2>3
<1>. QED BY <1>3, <1>4 DEF RequestStep, DecisionStep, Crash, LoadOpen, InsertApproval, Notify,
        InsertPreferences, LoadApproval, UpdateApproval

\* A commit dates the writer's entry, which is the last of its row's log, and no other.
LEMMA LogsDated ==
    ASSUME TypeOK, Shape, NEW s \in Sessions, Commit(s)
    PROVE  /\ log' = log /\ kind' = kind /\ overlap' = overlap /\ about' = about
           /\ \A a \in Approvals :
                Decided(a)' = IF Deciding(s) /\ a = about[s] THEN Decided(a) \cup {Len(log[a])}
                              ELSE Decided(a)
           /\ Deciding(s) => /\ Len(log[about[s]]) \in DOMAIN log[about[s]]
                             /\ log[about[s]][Len(log[about[s]])] = s
                             /\ Len(log[about[s]]) \notin Decided(about[s])
           /\ about[s] \in Approvals
<1>1. /\ log' = log /\ kind' = kind /\ overlap' = overlap /\ about' = about
      /\ at[s] = "commit" /\ at' = [at EXCEPT ![s] = "committed"]
  BY DEF Commit, GoTo
<1>2. about[s] \in Approvals
  BY <1>1 DEF Shape, Stage
<1>3. \A a \in Approvals : log[a] \in Seq(Sessions)
  BY DEF TypeOK
<1>4. \A a \in Approvals : \A i \in DOMAIN log[a] :
        log[a][i] \in Sessions /\ Deciding(log[a][i]) /\ about[log[a][i]] = a
  BY <1>3 DEF Shape, Logs
<1>5. Deciding(s) => /\ Len(log[about[s]]) \in DOMAIN log[about[s]]
                     /\ log[about[s]][Len(log[about[s]])] = s
  BY <1>1, <1>2, <1>3 DEF Shape, WriterIsLast
<1>6. Deciding(s) => Len(log[about[s]]) \notin Decided(about[s])
  BY <1>1, <1>5 DEF Decided
<1>7. ASSUME NEW a \in Approvals
      PROVE  Decided(a)' = IF Deciding(s) /\ a = about[s] THEN Decided(a) \cup {Len(log[a])}
                           ELSE Decided(a)
  <2>1. CASE Deciding(s) /\ a = about[s]
    <3>1. \A i \in DOMAIN log[a] : log[a][i] = s => i = Len(log[a])
      BY <1>5, <2>1 DEF Shape, Logs
    <3>2. \A i \in DOMAIN log[a] : at'[log[a][i]] = "committed"
                                     <=> at[log[a][i]] = "committed" \/ i = Len(log[a])
      BY <1>1, <1>4, <1>5, <2>1, <3>1 DEF TypeOK
    <3>. QED BY <1>1, <1>5, <2>1, <3>2 DEF Decided
  <2>2. CASE ~(Deciding(s) /\ a = about[s])
    <3>1. \A i \in DOMAIN log[a] : log[a][i] # s
      BY <1>4, <2>2
    <3>2. \A i \in DOMAIN log[a] : at'[log[a][i]] = "committed" <=> at[log[a][i]] = "committed"
      BY <1>1, <1>4, <3>1 DEF TypeOK
    <3>. QED BY <1>1, <2>2, <3>2 DEF Decided
  <2>. QED BY <2>1, <2>2
<1>. QED BY <1>1, <1>2, <1>5, <1>6, <1>7

\* The row keeps showing the latest committed decision.
LEMMA DecisionsInv ==
    ASSUME TypeOK, Shape, DecisionsLogged,
           NEW s \in Sessions, RequestStep(s) \/ DecisionStep(s) \/ Commit(s) \/ Crash(s)
    PROVE  DecisionsLogged'
<1> SUFFICES ASSUME NEW a \in Approvals
             PROVE  IF Decided(a)' = {} THEN status'[a] \in {"none", "pending"}
                    ELSE \E i \in DOMAIN log'[a] : Latest(a, i)' /\ status'[a] = kind'[log'[a][i]]
  BY DEF DecisionsLogged
<1>1. CASE RequestStep(s) \/ DecisionStep(s) \/ Crash(s)
  BY <1>1, LogsKept DEF DecisionsLogged, Latest
<1>2. CASE Commit(s)
  <2>1. status' = [status EXCEPT ![about[s]] = IF kind[s] = "request" THEN "pending" ELSE kind[s]]
    BY <1>2 DEF Commit
  <2>2. CASE a # about[s]
    <3>1. status'[a] = status[a] /\ Decided(a)' = Decided(a)
      BY <1>2, <2>1, <2>2, LogsDated DEF TypeOK
    <3>. QED BY <1>2, <3>1, LogsDated DEF DecisionsLogged, Latest
  <2>3. CASE a = about[s] /\ Deciding(s)
    <3>1. Latest(a, Len(log[a]))'
      <4>1. log[a] \in Seq(Sessions)
        BY DEF TypeOK
      <4>2. \A j \in DOMAIN log[a] : j <= Len(log[a])
        BY <4>1
      <4>. QED BY <1>2, <2>3, <4>2, LogsDated DEF Latest, Decided
    <3>2. status'[a] = kind'[log'[a][Len(log[a])]]
      BY <1>2, <2>1, <2>3, LogsDated DEF TypeOK, Deciding
    <3>. QED BY <1>2, <2>3, <3>1, <3>2, LogsDated DEF Latest
  <2>4. CASE a = about[s] /\ ~Deciding(s)
    <3>1. status[a] = "none"
      BY <1>2, <2>4 DEF Commit, Shape, Created
    <3>2. \A i \in DOMAIN log[a] : log[a][i] \in Sessions /\ Deciding(log[a][i]) /\ about[log[a][i]] = a
      <4>1. log[a] \in Seq(Sessions)
        BY DEF TypeOK
      <4>. QED BY <4>1 DEF Shape, Logs
    <3>3. Decided(a) = {}
      BY <3>1, <3>2 DEF Shape, Created, Decided
    <3>. QED BY <1>2, <2>1, <2>4, <3>3, LogsDated DEF TypeOK, Deciding
  <2>. QED BY <2>2, <2>3, <2>4
<1>. QED BY <1>1, <1>2

\* A decision that loads its row meets the latest one committed, or overlaps it.
LEMMA LoadedInv ==
    ASSUME TypeOK, Shape, DecisionsLogged, LoadedOrOverlapped,
           NEW s \in Sessions, RequestStep(s) \/ DecisionStep(s) \/ Commit(s) \/ Crash(s)
    PROVE  LoadedOrOverlapped'
<1> DEFINE Underway(t) == at[t] \in {"update", "log"} \/ (at[t] = "commit" /\ Deciding(t))
<1> SUFFICES ASSUME NEW t \in Sessions, Underway(t)', NEW a \in Approvals, about'[t] = a,
                    NEW i \in DOMAIN log'[a], Latest(a, i)'
             PROVE  kind'[log'[a][i]] = "snoozed" \/ {log'[a][i], t} \in overlap'
  <2>1. \A t \in Sessions : Underway(t)' => about'[t] \in Approvals
    BY StageInv DEF Shape, Stage
  <2>. QED BY <2>1 DEF LoadedOrOverlapped
<1>1. kind' = kind
  BY LogsKept, LogsDated
<1>2. CASE Underway(t) /\ about[t] = a /\ ~Commit(s)
  <2>1. Latest(a, i) /\ i \in DOMAIN log[a] /\ log'[a][i] = log[a][i] /\ overlap \subseteq overlap'
    <3>1. Decided(a)' = Decided(a)
      BY <1>2, LogsKept
    <3>2. Latest(a, i) /\ i \in DOMAIN log[a]
      BY <3>1 DEF Latest, Decided
    <3>. QED BY <1>2, <3>2, LogsKept
  <2>2. kind[log[a][i]] = "snoozed" \/ {log[a][i], t} \in overlap
    BY <1>2, <2>1 DEF LoadedOrOverlapped
  <2>. QED BY <1>1, <2>1, <2>2
<1>3. CASE LoadApproval(s) /\ t = s
  <2>1. MayDecide(s, a)
    BY <1>3 DEF LoadApproval, GoTo, TypeOK
  <2>2. status[a] \in OpenStatus
    BY <2>1 DEF MayDecide
  <2>3. Latest(a, i) /\ log'[a][i] = log[a][i]
    <3>1. Decided(a)' = Decided(a)
      BY <1>3, LogsKept DEF DecisionStep
    <3>2. Latest(a, i) /\ i \in DOMAIN log[a]
      BY <3>1 DEF Latest, Decided
    <3>. QED BY <1>3, <3>2, LogsKept DEF DecisionStep
  <2>4. status[a] = kind[log[a][i]]
    <3>1. PICK j \in DOMAIN log[a] : Latest(a, j) /\ status[a] = kind[log[a][j]]
      BY <2>3 DEF DecisionsLogged, Latest
    <3>2. log[a] \in Seq(Sessions)
      BY DEF TypeOK
    <3>3. i = j
      BY <2>3, <3>1, <3>2 DEF Latest, Decided
    <3>. QED BY <3>1, <3>3
  <2>5. kind[log[a][i]] \in Decisions
    <3>1. log[a] \in Seq(Sessions) /\ i \in DOMAIN log[a]
      BY <2>3 DEF TypeOK, Latest, Decided
    <3>2. log[a][i] \in Sessions /\ Deciding(log[a][i])
      BY <3>1 DEF Shape, Logs
    <3>. QED BY <3>2, ApprovalSessionsOK DEF TypeOK, Deciding
  <2>. QED BY <1>1, <2>1, <2>2, <2>3, <2>4, <2>5 DEF OpenStatus, Decisions
<1>4. CASE ~Commit(s) /\ ~(LoadApproval(s) /\ t = s)
  <2>1. Underway(t) /\ about[t] = a
    BY <1>4 DEF Shape, Stage, TypeOK, RequestStep, DecisionStep, Crash, LoadOpen, InsertApproval, Notify, Begin, GoTo,
       InsertPreferences, LoadApproval, UpdateApproval, LogDecision, Deciding
  <2>. QED BY <1>2, <1>4, <2>1
<1>5. CASE Commit(s)
  <2>1. Underway(t) /\ about[t] = a /\ t # s
    BY <1>5, <1>1 DEF Commit, GoTo, TypeOK, Deciding
  <2>2. log' = log /\ overlap' = overlap /\ log[a] \in Seq(Sessions)
    BY <1>5, LogsDated DEF TypeOK
  <2>3. CASE Deciding(s) /\ a = about[s]
    <3>1. /\ Decided(a)' = Decided(a) \cup {Len(log[a])} /\ Len(log[a]) \in DOMAIN log[a]
          /\ log[a][Len(log[a])] = s
      BY <1>5, <2>3, LogsDated
    <3>2. Len(log[a]) <= i
      BY <3>1 DEF Latest
    <3>3. i = Len(log[a])
      BY <2>2, <3>2
    <3>4. {s, t} \in overlap
      BY <1>5, <2>1 DEF Commit, Shape, RunningOverlap, Running, Over
    <3>. QED BY <2>2, <3>1, <3>3, <3>4
  <2>4. CASE ~(Deciding(s) /\ a = about[s])
    <3>1. Decided(a)' = Decided(a)
      BY <1>5, <2>4, LogsDated
    <3>2. Latest(a, i) /\ i \in DOMAIN log[a]
      BY <3>1 DEF Latest, Decided
    <3>3. kind[log[a][i]] = "snoozed" \/ {log[a][i], t} \in overlap
      BY <2>1, <3>2 DEF LoadedOrOverlapped
    <3>. QED BY <1>1, <2>2, <3>3
  <2>. QED BY <2>3, <2>4
<1>. QED BY <1>4, <1>3, <1>5

\* What follows a final decision in the log had loaded the row before it.
LEMMA SecondDecisionInv ==
    ASSUME TypeOK, Shape, LoadedOrOverlapped, SecondDecisionOverlapped,
           NEW s \in Sessions, RequestStep(s) \/ DecisionStep(s) \/ Commit(s) \/ Crash(s)
    PROVE  SecondDecisionOverlapped'
<1> SUFFICES ASSUME NEW a \in Approvals, NEW i \in DOMAIN log'[a], NEW j \in DOMAIN log'[a],
                    Successive(a, i, j)', kind'[log'[a][i]] # "snoozed"
             PROVE  {log'[a][i], log'[a][j]} \in overlap'
  BY DEF SecondDecisionOverlapped
<1>1. CASE Successive(a, i, j) /\ ~Commit(s)
  BY <1>1, LogsKept DEF SecondDecisionOverlapped, Successive, Decided
<1>2. CASE ~Commit(s)
  <2>1. Successive(a, i, j)
    BY <1>2, LogsKept DEF Successive
  <2>. QED BY <1>1, <1>2, <2>1
<1>3. CASE Commit(s)
  <2>1. log' = log /\ kind' = kind /\ overlap' = overlap /\ log[a] \in Seq(Sessions)
    BY <1>3, LogsDated DEF TypeOK
  <2>2. /\ i \in Int /\ j \in Int /\ i <= Len(log[a]) /\ j <= Len(log[a]) /\ i < j
        /\ \A k \in Decided(a) : k \in Int /\ k <= Len(log[a])
    BY <2>1 DEF Successive, Decided
  <2>3. CASE Deciding(s) /\ a = about[s] /\ j = Len(log[a])
    <3>1. Latest(a, i)
      BY <1>3, <2>2, <2>3, LogsDated DEF Successive, Latest
    <3>2. \/ kind[log[a][i]] = "snoozed"
          \/ {log[a][i], s} \in overlap
      BY <1>3, <2>1, <2>3, <3>1 DEF Commit, LoadedOrOverlapped
    <3>. QED BY <1>3, <2>1, <2>3, <3>2, LogsDated
  <2>4. CASE ~(Deciding(s) /\ a = about[s] /\ j = Len(log[a]))
    <3>1. Successive(a, i, j)
      BY <1>3, <2>2, <2>4, LogsDated DEF Successive
    <3>. QED BY <2>1, <3>1 DEF SecondDecisionOverlapped
  <2>. QED BY <2>3, <2>4
<1>. QED BY <1>2, <1>3

\* What a request found closed is opened by nothing but what overlapped it.
LEMMA FoundClosedKept ==
    ASSUME TypeOK, Shape, NEW s \in Sessions,
           RequestStep(s) \/ DecisionStep(s) \/ Commit(s) \/ Crash(s),
           NEW x \in Sessions, NEW a \in Approvals, status[a] # "none", FoundClosed(x, a)
    PROVE  FoundClosed(x, a)'
<1>1. kind' = kind /\ overlap \subseteq overlap'
  BY LogsKept, LogsDated
<1>2. \A t \in Committed(a) : t \in Committed(a)'
  <2>1. CASE ~Commit(s)
    BY <2>1, LogsKept DEF Committed
  <2>2. CASE Commit(s)
    BY <2>2 DEF Commit, GoTo, Committed, TypeOK
  <2>. QED BY <2>1, <2>2
<1>3. MetCommitted(x, a) => MetCommitted(x, a)'
  BY <1>1, <1>2 DEF MetCommitted
<1>4. status'[a] \in OpenStatus => MetCommitted(x, a)'
  <2>1. CASE status'[a] = status[a]
    BY <1>3, <2>1 DEF FoundClosed
  <2>2. CASE Commit(s) /\ about[s] = a
    <3>1. Deciding(s) /\ Running(s)
      BY <2>2 DEF Commit, Shape, Created, Running, Over
    <3>2. {x, s} \in overlap \/ MetCommitted(x, a)
      BY <2>2, <3>1 DEF FoundClosed
    <3>3. s \in Committed(a)'
      BY <2>2 DEF Commit, GoTo, Committed, TypeOK
    <3>. QED BY <1>1, <1>3, <3>2, <3>3 DEF MetCommitted
  <2>3. Commit(s) /\ about[s] # a => status'[a] = status[a]
    BY DEF Commit, TypeOK
  <2>. QED BY <2>1, <2>2, <2>3, LogsKept
<1>5. ASSUME NEW t \in Sessions, Deciding(t), about'[t] = a, Running(t)'
      PROVE  {x, t} \in overlap' \/ MetCommitted(x, a)'
  <2>1. CASE Running(t) /\ about[t] = a
    BY <1>1, <1>3, <1>5, <2>1 DEF FoundClosed
  <2>2. CASE LoadApproval(s) /\ t = s
    <3>1. MayDecide(s, a)
      BY <1>5, <2>2 DEF LoadApproval, GoTo, Running, Over, TypeOK
    <3>. QED BY <1>3, <3>1 DEF FoundClosed, MayDecide
  <2>3. CASE ~(LoadApproval(s) /\ t = s)
    <3>1. Running(t) /\ about[t] = a
      BY <1>5, <2>3 DEF Shape, Stage, TypeOK, RequestStep, DecisionStep, Crash, Commit, LoadOpen, InsertApproval,
         Notify, Begin, GoTo, InsertPreferences, LoadApproval, UpdateApproval, LogDecision, Deciding,
         Running, Over
    <3>. QED BY <2>1, <3>1
  <2>. QED BY <2>2, <2>3
<1>. QED BY <1>1, <1>4, <1>5 DEF FoundClosed, Deciding

\* Of two requests that create a row each, the later found the earlier's row closed, or
\* they overlapped.
LEMMA CreatorsInv ==
    ASSUME TypeOK, Shape, CreatorsApart,
           NEW s \in Sessions, RequestStep(s) \/ DecisionStep(s) \/ Commit(s) \/ Crash(s)
    PROVE  CreatorsApart'
<1> SUFFICES ASSUME NEW t \in Sessions, NEW u \in Sessions, Creating(t)', Creating(u)', t # u
             PROVE  CreatedApart(t, u)'
  BY DEF CreatorsApart
<1>1. kind' = kind /\ overlap \subseteq overlap'
  BY LogsKept, LogsDated
<1>2. CASE Creating(t) /\ Creating(u)
  <2>1. ASSUME NEW x \in Sessions, NEW y \in Sessions, Creating(x), at[x] = "committed",
               FoundClosed(y, about[x])
        PROVE  at'[x] = "committed" /\ FoundClosed(y, about[x])' /\ about'[x] = about[x]
    <3>1. about[x] \in Approvals
      BY <2>1 DEF Creating, TypeOK
    <3>2. status[about[x]] # "none"
      BY <2>1, <3>1 DEF Creating, Shape, Created
    <3>3. at'[x] = "committed" /\ about'[x] = about[x]
      <4>1. CASE Commit(s)
        BY <2>1, <4>1 DEF Commit, GoTo, TypeOK
      <4>. QED BY <2>1, <4>1, LogsKept
    <3>. QED BY <2>1, <3>1, <3>2, <3>3, FoundClosedKept
  <2>2. CreatedApart(t, u)
    BY <1>2 DEF CreatorsApart
  <2>3. CASE at[t] = "committed" /\ FoundClosed(u, about[t])
    BY <1>2, <2>1, <2>3 DEF CreatedApart
  <2>4. CASE at[u] = "committed" /\ FoundClosed(t, about[u])
    BY <1>2, <2>1, <2>4 DEF CreatedApart
  <2>. QED BY <1>1, <2>2, <2>3, <2>4 DEF CreatedApart
<1>3. \A x \in Sessions : Creating(x)' => Creating(x) \/ (LoadOpen(s) /\ x = s)
  BY DEF TypeOK, Shape, Stage, RequestStep, DecisionStep, Crash, Commit, LoadOpen, InsertApproval,
     Notify, Begin, GoTo, InsertPreferences, LoadApproval, UpdateApproval, LogDecision, Deciding,
     Creating, Running, Over
<1>4. ASSUME LoadOpen(s), Creating(s)', NEW x \in Sessions, Creating(x), x # s
      PROVE  \/ {s, x} \in overlap' /\ {x, s} \in overlap'
             \/ at'[x] = "committed" /\ FoundClosed(s, about[x])'
  <2>1. /\ OpenRows = {} /\ about' = about /\ status' = status
        /\ \A y \in Sessions \ {s} : at'[y] = at[y]
    BY <1>4 DEF LoadOpen, GoTo, Begin, Creating, TypeOK, Shape, Stage
  <2>2. \A y \in Sessions : Running(y) => {s, y} \in overlap' /\ {y, s} \in overlap'
    <3>1. \A y : {s, y} = {y, s}
      OBVIOUS
    <3>. QED BY <1>4, <3>1, BeginOverlaps DEF LoadOpen, TypeOK
  <2>3. CASE Running(x)
    BY <2>2, <2>3
  <2>4. CASE ~Running(x)
    <3>1. at[x] = "committed" /\ about[x] \in Approvals
      BY <1>4, <2>4 DEF Creating, Running, Over, TypeOK
    <3>2. status'[about[x]] \notin OpenStatus
      BY <2>1, <3>1 DEF OpenRows
    <3>3. \A y \in Sessions : Deciding(y)' /\ Running(y)' => {s, y} \in overlap'
      BY <1>1, <1>4, <2>1, <2>2 DEF Running, Over, Deciding, LoadOpen
    <3>. QED BY <1>4, <2>1, <3>1, <3>2, <3>3 DEF FoundClosed
  <2>. QED BY <2>3, <2>4
<1>5. CASE t = s /\ LoadOpen(s) /\ Creating(u)
  BY <1>4, <1>5 DEF CreatedApart
<1>6. CASE u = s /\ LoadOpen(s) /\ Creating(t)
  BY <1>4, <1>6 DEF CreatedApart
<1>. QED BY <1>2, <1>3, <1>5, <1>6

-----------------------------------------------------------------------------
\* Every step of every session keeps the invariant.
LEMMA NextInv == IInv /\ [Next]_vars => IInv'
<1> SUFFICES ASSUME IInv, [Next]_vars PROVE IInv'
  OBVIOUS
<1>1. CASE UNCHANGED vars
  <2> USE <1>1 DEF vars
  <2>1. TypeOK' /\ Shape'
    BY DEF IInv, TypeOK, Shape, Stage, Created, Logs, OneWriter, WriterIsLast, Writing,
       RunningOverlap, Running, Over, Deciding
  <2>2. DecisionsLogged' /\ LoadedOrOverlapped' /\ SecondDecisionOverlapped'
    BY DEF IInv, DecisionsLogged, LoadedOrOverlapped, SecondDecisionOverlapped, Decided, Latest,
       Successive, Deciding
  <2>3. CreatorsApart'
    <3>1. \A x \in Sessions : \A a : MetCommitted(x, a)' <=> MetCommitted(x, a)
      BY DEF MetCommitted, Committed
    <3>2. \A x \in Sessions : \A a : FoundClosed(x, a)' <=> FoundClosed(x, a)
      BY <3>1 DEF FoundClosed, Running, Over, Deciding
    <3>. QED BY <3>2 DEF IInv, CreatorsApart, CreatedApart, Creating, Deciding
  <2>. QED BY <2>1, <2>2, <2>3 DEF IInv
<1>2. ASSUME NEW s \in Sessions, RequestStep(s) \/ DecisionStep(s) \/ Commit(s) \/ Crash(s)
      PROVE  IInv'
  <2>1. TypeOK' /\ \A t \in Sessions : Stage(t)'
    BY <1>2, TypeInv, StageInv DEF IInv, Shape
  <2>2. \A a \in Approvals : Created(a)' /\ Logs(a)'
    BY <1>2, CreatedInv, LogsInv DEF IInv, Shape
  <2>3. OneWriter' /\ WriterIsLast' /\ RunningOverlap'
    BY <1>2, WriterInv, WriterIsLastInv, RunningInv DEF IInv, Shape
  <2>4. Shape'
    BY <2>1, <2>2, <2>3 DEF Shape
  <2>5. DecisionsLogged' /\ LoadedOrOverlapped' /\ SecondDecisionOverlapped' /\ CreatorsApart'
    BY <1>2, DecisionsInv, LoadedInv, SecondDecisionInv, CreatorsInv DEF IInv
  <2>. QED BY <2>1, <2>4, <2>5 DEF IInv
<1>. QED BY <1>1, <1>2 DEF Next

\* The inductive invariant holds in every state of every behaviour.
LEMMA Invariance == Spec => []IInv
<1>. QED BY InitInv, NextInv, PTL DEF Spec

\* Sessions and rows keep to their enumerations, and a log names sessions only.
THEOREM ApprovalTypes == Spec => []TypeOK
<1>1. IInv => TypeOK
  BY DEF IInv
<1>. QED BY <1>1, Invariance, PTL

\* However many decisions overlap or are lost, the row of an approval shows the last
\* committed decision of its log (approval.py: decide writes both in one transaction).
THEOREM LogTellsStatus == Spec => []DecisionsLogged
<1>1. IInv => DecisionsLogged
  BY DEF IInv
<1>. QED BY <1>1, Invariance, PTL

\* Two open approvals of one target, and a decision that follows a final one, only come
\* of sessions that were running at one time.
THEOREM SecondsNeedOverlap == Spec => []SecondsOverlapped
<1>1. ASSUME IInv PROVE SecondOpenOverlapped
  <2> SUFFICES ASSUME NEW a \in Approvals, NEW b \in Approvals, a # b,
                      status[a] \in OpenStatus, status[b] \in OpenStatus
               PROVE  \E s, t \in Committed(a) \cup Committed(b) : s # t /\ {s, t} \in overlap
    BY DEF SecondOpenOverlapped
  <2>1. PICK s \in Sessions : ~Deciding(s) /\ about[s] = a /\ at[s] = "committed"
    BY <1>1 DEF IInv, Shape, Created, OpenStatus
  <2>2. PICK t \in Sessions : ~Deciding(t) /\ about[t] = b /\ at[t] = "committed"
    BY <1>1 DEF IInv, Shape, Created, OpenStatus
  <2>3. CreatedApart(s, t)
    BY <1>1, <2>1, <2>2, ApprovalSessionsOK DEF IInv, CreatorsApart, Creating
  <2>4. s \in Committed(a) /\ t \in Committed(b)
    BY <2>1, <2>2 DEF Committed
  <2>5. CASE {s, t} \in overlap
    BY <2>1, <2>2, <2>4, <2>5
  <2>6. CASE FoundClosed(t, a)
    <3>1. PICK v \in Committed(a) : {t, v} \in overlap
      BY <2>6 DEF FoundClosed, MetCommitted
    <3>. QED BY <2>2, <2>4, <3>1 DEF Committed
  <2>7. CASE FoundClosed(s, b)
    <3>1. PICK v \in Committed(b) : {s, v} \in overlap
      BY <2>7 DEF FoundClosed, MetCommitted
    <3>. QED BY <2>1, <2>4, <3>1 DEF Committed
  <2>. QED BY <2>1, <2>2, <2>3, <2>5, <2>6, <2>7 DEF CreatedApart
<1>2. IInv => SecondsOverlapped
  BY <1>1 DEF IInv, SecondsOverlapped
<1>. QED BY <1>2, Invariance, PTL
=============================================================================
