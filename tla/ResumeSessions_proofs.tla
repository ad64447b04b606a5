------------------------ MODULE ResumeSessions_proofs ------------------------
(***************************************************************************)
(* Proofs about overlapping requests on one resume, for any number of      *)
(* requests, versions and skills: which files follow their rows, and what  *)
(* a number given twice or a skill listed twice comes of.                  *)
(***************************************************************************)
EXTENDS ResumeSessions, FiniteSetTheorems, TLAPS

\* Where each kind of request may be.
PointsOf(k) ==
    {"start", "commit", "committed", "rolledBack"} \cup
    CASE k = "upload" -> {"file", "insert", "resume"}
      [] k = "delete" -> {"delete", "resume"}
      [] k = "restore" -> {"resume"}
      [] k = "parse" -> {"read", "parsed", "version"}
      [] k = "apply" -> {"profile", "skills", "mark"}

Types ==
    /\ status \in {"active", "deleted"} /\ active \in {Nothing} \cup Versions
    /\ number \in [Versions -> Nat]
    /\ parsed \in [Versions -> ParsedStatus] /\ copies \in [Skills -> Nat]
    /\ files \subseteq Versions /\ writers \subseteq Sessions
    /\ kind \in [Sessions -> Kinds] /\ at \in [Sessions -> Points]
    /\ about \in [Sessions -> {Nothing} \cup Versions]
    /\ DOMAIN seen = Sessions
    /\ next \in [Sessions -> Nat]
    /\ loaded \in [Sessions -> SUBSET Versions] /\ adds \in [Sessions -> SUBSET Skills]

Progress(s) ==
    /\ at[s] \in PointsOf(kind[s])
    /\ at[s] = "start" => about[s] = Nothing /\ loaded[s] = {}
    /\ loaded[s] # {} => kind[s] = "delete"
    /\ at[s] \in {"start", "profile", "skills"} => adds[s] = {}
    /\ kind[s] \in {"upload", "parse", "apply"} /\ Running(s) => about[s] \in Versions

\* Two uploads are about two versions; a version is committed with its upload.
Uploads ==
    /\ \A s, t \in Sessions : kind[s] = "upload" /\ kind[t] = "upload" /\ s # t
           /\ about[s] # Nothing => about[s] # about[t]
    /\ \A s \in Sessions : kind[s] = "upload" /\ about[s] # Nothing =>
           number[about[s]] = IF at[s] = "committed" THEN next[s] ELSE 0
    /\ \A s \in Sessions : kind[s] = "upload" /\ Running(s) => next[s] > 0

\* Overlaps are of requests that have begun; two that run overlap.
Overlaps ==
    /\ \A s, t \in Sessions : {s, t} \in overlap => at[s] # "start" /\ at[t] # "start"
    /\ \A s, t \in Sessions : s # t /\ Running(s) /\ Running(t) => {s, t} \in overlap

\* Some version has the highest number, and no number is higher than the versions are many.
Highest == \E m \in {0} \cup {number[v] : v \in Versions} : \A v \in Versions : number[v] <= m
Counted ==
    /\ \A v \in Versions : number[v] <= Cardinality(Committed)
    /\ \A s \in Sessions : kind[s] = "upload" /\ Running(s) => next[s] <= Cardinality(Committed) + 1

\* A deletion finds committed versions, and does not overlap their uploads.
Found ==
    \A d \in Sessions : \A v \in loaded[d] :
        number[v] # 0 /\ \A u \in UploadsOf(v) : {u, d} \notin overlap
Cleared ==
    \A d \in Sessions : kind[d] = "delete" /\ at[d] \in {"resume", "commit", "committed"} =>
        loaded[d] \cap files = {}

Missing == \A v \in Committed \ files : \E d \in Sessions : v \in loaded[d]
Written ==
    \A s \in Sessions : kind[s] = "upload" /\ at[s] \in {"insert", "resume", "commit"} =>
        about[s] \in files

\* Whoever took the number that a committed version has overlapped that version's upload.
Numbers ==
    /\ \A s \in Sessions, v \in Committed :
           kind[s] = "upload" /\ Running(s) /\ next[s] = number[v] =>
               \E t \in UploadsOf(v) : {t, s} \in overlap
    /\ \A v, w \in Committed : v # w /\ number[v] = number[w] =>
           \E s \in UploadsOf(v), t \in UploadsOf(w) : {s, t} \in overlap

\* Application t, which is committed, added skill k as s did, and one of them has not
\* written the candidate's row.
Both(s, t, k) ==
    /\ s # t /\ k \in adds[s] \cap adds[t] /\ at[t] = "committed"
    /\ {s, t} \in overlap /\ ~({s, t} \subseteq writers)

OneWriter == \A s, t \in writers : s # t => Over(s) \/ Over(t)
Copies ==
    \A k \in Skills :
        /\ \A s \in Sessions : Running(s) /\ k \in adds[s] /\ copies[k] > 0 =>
               \E t \in Sessions : Both(s, t, k)
        /\ copies[k] > 1 => \E s, t \in Sessions : Both(s, t, k) /\ at[s] = "committed"

IInv == /\ Types /\ (\A s \in Sessions : Progress(s)) /\ Uploads /\ Overlaps /\ Highest /\ Counted
        /\ Found /\ Cleared /\ Missing /\ Written /\ Numbers /\ OneWriter /\ Copies

-----------------------------------------------------------------------------
\* A step of s, which runs, that commits no version.
WorkStep(s) ==
    /\ Running(s) /\ at'[s] # "start" /\ at'[s] \in PointsOf(kind[s])
    /\ at'[s] = "committed" => kind[s] # "upload"
    /\ at' \in [Sessions -> Points] /\ \A t \in Sessions \ {s} : at'[t] = at[t]
    /\ DOMAIN seen' = Sessions
    /\ UNCHANGED <<number, kind, about, next, loaded, overlap>>

LEMMA NumbersKept ==
    ASSUME Numbers, UNCHANGED <<number, overlap, next, kind, about>>,
           \A t \in Sessions : Running(t)' => Running(t)
    PROVE  Numbers'
<1>1. Committed' = Committed /\ \A v : UploadsOf(v)' = UploadsOf(v)
  BY DEF Committed, UploadsOf
<1>2. ASSUME NEW t \in Sessions, NEW v \in Committed',
             (kind[t] = "upload" /\ Running(t) /\ next[t] = number[v])'
      PROVE  (\E u \in UploadsOf(v) : {u, t} \in overlap)'
  <2>1. \E u \in UploadsOf(v) : {u, t} \in overlap
    BY <1>1, <1>2 DEF Numbers
  <2>. QED BY <1>1, <2>1
<1>3. ASSUME NEW v \in Committed', NEW w \in Committed', v # w, (number[v] = number[w])'
      PROVE  (\E t \in UploadsOf(v), u \in UploadsOf(w) : {t, u} \in overlap)'
  <2>1. \E t \in UploadsOf(v), u \in UploadsOf(w) : {t, u} \in overlap
    BY <1>1, <1>3 DEF Numbers
  <2>. QED BY <1>1, <2>1
<1>4. (\A t \in Sessions, v \in Committed :
           kind[t] = "upload" /\ Running(t) /\ next[t] = number[v] =>
               \E u \in UploadsOf(v) : {u, t} \in overlap)'
  BY <1>2
<1>5. (\A v, w \in Committed : v # w /\ number[v] = number[w] =>
           \E t \in UploadsOf(v), u \in UploadsOf(w) : {t, u} \in overlap)'
  BY <1>3
<1>. QED BY <1>4, <1>5 DEF Numbers

LEMMA WorkKeeps ==
    ASSUME IInv, NEW s \in Sessions, WorkStep(s)
    PROVE  Uploads' /\ Overlaps' /\ Highest' /\ Counted' /\ Found' /\ Numbers'
<1>1. /\ \A t \in Sessions : kind[t] = "upload" => (at'[t] = "committed" <=> at[t] = "committed")
      /\ \A t \in Sessions : Running(t)' => Running(t)
      /\ \A t \in Sessions : at[t] # "start" => at'[t] # "start"
  BY DEF WorkStep, Running, Over
<1>2. Committed' = Committed /\ \A v : UploadsOf(v)' = UploadsOf(v)
  BY DEF WorkStep, Committed, UploadsOf, rows
<1>3. Uploads'
  BY <1>1 DEF IInv, Uploads, WorkStep
<1>4. Overlaps'
  BY <1>1 DEF IInv, Overlaps, WorkStep
<1>5. Highest' /\ Counted'
  BY <1>1, <1>2 DEF IInv, Highest, Counted, WorkStep, rows
<1>6. Found'
  BY <1>2 DEF IInv, Found, WorkStep, rows
<1>7. Numbers'
  BY <1>1, NumbersKept DEF IInv, WorkStep
<1>. QED BY <1>3, <1>4, <1>5, <1>6, <1>7

\* Where neither files nor what was written or added changes either.
LEMMA QuietKeeps ==
    ASSUME IInv, NEW s \in Sessions, WorkStep(s), UNCHANGED <<rows, files, adds, writers>>,
           at'[s] # "committed", at'[s] \in {"profile", "skills"} => adds[s] = {},
           kind[s] = "upload" /\ at'[s] \in {"insert", "resume", "commit"} =>
               at[s] \in {"insert", "resume", "commit"},
           kind[s] = "delete" /\ at'[s] \in {"resume", "commit"} =>
               loaded[s] \cap files = {}
    PROVE  IInv'
<1>1. Types'
  BY DEF IInv, Types, WorkStep, rows
<1>2. \A t \in Sessions : Progress(t)'
  BY DEF IInv, Progress, WorkStep, Running, Over
<1>3. Cleared' /\ Written'
  BY DEF IInv, Cleared, Written, WorkStep
<1>4. Missing'
  BY DEF IInv, Missing, Committed, WorkStep, rows
<1>5. OneWriter'
  BY DEF IInv, Types, OneWriter, WorkStep, Running, Over
<1>6. Copies'
  <2>1. \A t, u \in Sessions : \A k : Both(t, u, k) => Both(t, u, k)'
    BY DEF Both, WorkStep, Running, Over
  <2>2. \A t \in Sessions : Running(t)' => Running(t)
    BY DEF WorkStep, Running, Over
  <2>3. \A t \in Sessions : at[t] = "committed" => at'[t] = "committed"
    BY DEF WorkStep, Running, Over
  <2>. QED BY <2>1, <2>2, <2>3 DEF IInv, Copies, WorkStep, rows
<1>. QED BY <1>1, <1>2, <1>3, <1>4, <1>5, <1>6, WorkKeeps DEF IInv

LEMMA QuietActions ==
    ASSUME IInv, NEW s \in Sessions,
           InsertVersion(s) \/ UpdateResume(s) \/ ReadFile(s) \/ WriteParsed(s)
           \/ UpdateVersion(s) \/ MarkApplied(s) \/ Crash(s)
    PROVE  IInv'
<1>1. at[s] \in PointsOf(kind[s]) /\ kind[s] \in {"upload", "delete", "restore", "parse", "apply"}
  BY ResumeSessionsOK DEF IInv, Types, Progress
<1>2. ASSUME NEW p \in Points, GoTo(s, p), Running(s), p \notin {"start", "committed"},
             p \in PointsOf(kind[s]), DOMAIN seen' = Sessions,
             UNCHANGED <<rows, kind, about, next, loaded, overlap, files, adds, writers>>,
             p \notin {"profile", "skills", "file", "delete"},
             kind[s] = "upload" /\ p \in {"insert", "resume", "commit"} =>
                 at[s] \in {"insert", "resume", "commit"},
             kind[s] = "delete" => p = "rolledBack" \/ (at[s] \in {"resume", "commit"} /\ p = "commit")
      PROVE  IInv'
  <2>1. WorkStep(s) /\ at'[s] = p
    BY <1>2 DEF IInv, Types, GoTo, WorkStep, rows
  <2>2. kind[s] = "delete" /\ p \in {"resume", "commit"} => loaded[s] \cap files = {}
    BY <1>2 DEF IInv, Cleared
  <2>. QED BY <1>2, <2>1, <2>2, QuietKeeps
<1>3. CASE InsertVersion(s)
  BY <1>1, <1>2, <1>3 DEF InsertVersion, PointsOf, Points, local, Running, Over, IInv, Types
<1>4. CASE UpdateResume(s)
  BY <1>1, <1>2, <1>4 DEF UpdateResume, PointsOf, Points, local, Running, Over, IInv, Types
<1>5. CASE ReadFile(s)
  <2> DEFINE p == IF about[s] \in files THEN "parsed" ELSE "rolledBack"
  <2>1. GoTo(s, p) /\ p \in Points /\ at[s] = "read" /\ kind[s] = "parse"
    BY <1>1, <1>5 DEF ReadFile, Points, PointsOf
  <2>2. p \in PointsOf(kind[s]) /\ p \notin {"start", "committed", "profile", "skills", "file", "delete"}
    BY <2>1 DEF PointsOf
  <2> HIDE DEF p
  <2>. QED BY <1>2, <1>5, <2>1, <2>2 DEF ReadFile, Running, Over, IInv, Types
<1>6. CASE WriteParsed(s)
  <2>1. PICK p \in {"rolledBack", "version"} : GoTo(s, p)
    BY <1>6 DEF WriteParsed
  <2>2. at[s] = "parsed" /\ kind[s] = "parse"
    BY <1>1, <1>6 DEF WriteParsed, PointsOf
  <2>. QED BY <1>2, <1>6, <2>1, <2>2
           DEF WriteParsed, PointsOf, Points, local, Running, Over, IInv, Types
<1>7. CASE UpdateVersion(s)
  BY <1>1, <1>2, <1>7 DEF UpdateVersion, PointsOf, Points, local, Running, Over, IInv, Types
<1>8. CASE MarkApplied(s)
  BY <1>1, <1>2, <1>8 DEF MarkApplied, PointsOf, Points, local, Running, Over, IInv, Types
<1>9. CASE Crash(s)
  BY <1>1, <1>2, <1>9 DEF Crash, PointsOf, Points, local, Running, Over, IInv, Types
<1>. QED BY <1>3, <1>4, <1>5, <1>6, <1>7, <1>8, <1>9

-----------------------------------------------------------------------------
\* Files are written for versions that are not committed, and removed where a deletion
\* found their version.
LEMMA WriteFileKeeps ==
    ASSUME IInv, NEW s \in Sessions, WriteFile(s)
    PROVE  IInv'
<1>1. /\ at[s] = "file" /\ kind[s] = "upload" /\ Running(s)
      /\ about[s] \in Versions /\ about[s] # Nothing /\ number[about[s]] = 0
  BY ResumeSessionsOK DEF WriteFile, IInv, Types, Progress, Uploads, PointsOf, Running, Over
<1>2. /\ files' = files \cup {about[s]} /\ at'[s] = "insert"
      /\ at' \in [Sessions -> Points] /\ \A t \in Sessions \ {s} : at'[t] = at[t]
      /\ UNCHANGED <<rows, kind, about, seen, next, loaded, adds, writers, overlap>>
  BY DEF WriteFile, GoTo, IInv, Types, Points, local
<1>3. WorkStep(s)
  BY <1>1, <1>2 DEF WorkStep, PointsOf, IInv, Types, rows
<1>4. Types'
  BY <1>1, <1>2 DEF IInv, Types, rows
<1>5. \A t \in Sessions : Progress(t)'
  BY <1>1, <1>2, <1>3 DEF IInv, Progress, WorkStep, Running, Over
<1>6. Cleared'
  <2>1. \A d \in Sessions : about[s] \notin loaded[d]
    BY <1>1 DEF IInv, Found
  <2>. QED BY <1>1, <1>2, <2>1 DEF IInv, Cleared
<1>7. Missing' /\ Written'
  BY <1>1, <1>2 DEF IInv, Missing, Written, Committed, rows
<1>8. OneWriter'
  BY <1>1, <1>2 DEF IInv, Types, OneWriter, Running, Over
<1>9. Copies'
  <2>1. \A t, u \in Sessions : \A k : Both(t, u, k) => Both(t, u, k)'
    BY <1>1, <1>2 DEF Both
  <2>2. \A t \in Sessions : /\ Running(t)' => Running(t)
                            /\ at[t] = "committed" => at'[t] = "committed"
    BY <1>1, <1>2 DEF Running, Over
  <2>. QED BY <1>2, <2>1, <2>2 DEF IInv, Copies, rows
<1>. QED BY <1>3, <1>4, <1>5, <1>6, <1>7, <1>8, <1>9, WorkKeeps DEF IInv

LEMMA DeleteFileKeeps ==
    ASSUME IInv, NEW s \in Sessions, DeleteFile(s)
    PROVE  IInv'
<1>1. at[s] = "delete" /\ kind[s] = "delete" /\ Running(s)
  BY ResumeSessionsOK DEF DeleteFile, IInv, Types, Progress, PointsOf, Running, Over
<1>2. CASE loaded[s] \cap files # {}
  <2>1. PICK v \in loaded[s] \cap files : files' = files \ {v}
    BY <1>2 DEF DeleteFile
  <2>2. UNCHANGED <<rows, kind, about, seen, next, loaded, adds, writers, overlap, at>>
    BY <1>2 DEF DeleteFile, local
  <2>3. WorkStep(s)
    BY <1>1, <2>2 DEF WorkStep, PointsOf, IInv, Types, rows
  <2>4. Types' /\ \A t \in Sessions : Progress(t)'
    BY <2>1, <2>2 DEF IInv, Types, Progress, Running, Over, rows
  <2>5. Cleared'
    BY <2>1, <2>2 DEF IInv, Cleared
  <2>6. Missing'
    BY <2>1, <2>2 DEF IInv, Missing, Committed, rows
  <2>7. Written'
    <3>1. number[v] # 0 /\ v # Nothing
      BY <2>1, ResumeSessionsOK DEF IInv, Types, Found
    <3>2. ASSUME NEW t \in Sessions, kind[t] = "upload", at[t] \in {"insert", "resume", "commit"}
          PROVE  about[t] # v
      BY <3>1, <3>2 DEF IInv, Uploads
    <3>. QED BY <2>1, <2>2, <3>2 DEF IInv, Written
  <2>8. OneWriter' /\ Copies'
    BY <2>2 DEF IInv, OneWriter, Copies, Both, Running, Over, rows
  <2>. QED BY <2>3, <2>4, <2>5, <2>6, <2>7, <2>8, WorkKeeps DEF IInv
<1>3. CASE loaded[s] \cap files = {}
  <2>1. /\ at' = [at EXCEPT ![s] = WriteStatus(s)]
        /\ UNCHANGED <<rows, kind, about, seen, next, loaded, adds, writers, overlap, files>>
    BY <1>3 DEF DeleteFile, GoTo, local
  <2>2. WriteStatus(s) \in {"commit", "resume"}
    BY DEF WriteStatus
  <2>3. WorkStep(s)
    BY <1>1, <2>1, <2>2 DEF WorkStep, PointsOf, Points, IInv, Types, rows
  <2>. QED BY <1>1, <1>3, <2>1, <2>2, <2>3, QuietKeeps DEF IInv, Types
<1>. QED BY <1>2, <1>3

\* An application that writes the candidate's row waits until its other writers are over.
LEMMA UpdateProfileKeeps ==
    ASSUME IInv, NEW s \in Sessions, UpdateProfile(s)
    PROVE  IInv'
<1>1. at[s] = "profile" /\ kind[s] = "apply" /\ Running(s) /\ adds[s] = {}
  BY ResumeSessionsOK DEF UpdateProfile, IInv, Types, Progress, PointsOf, Running, Over
<1>2. /\ writers' = writers \cup {s} /\ at'[s] = "skills"
      /\ at' \in [Sessions -> Points] /\ \A t \in Sessions \ {s} : at'[t] = at[t]
      /\ UNCHANGED <<rows, files, kind, about, seen, next, loaded, adds, overlap>>
  BY DEF UpdateProfile, GoTo, IInv, Types, Points
<1>3. WorkStep(s)
  BY <1>1, <1>2 DEF WorkStep, PointsOf, IInv, Types, rows
<1>4. Types' /\ \A t \in Sessions : Progress(t)'
  BY <1>1, <1>2, <1>3 DEF IInv, Types, Progress, WorkStep, Running, Over, rows
<1>5. Cleared' /\ Written' /\ Missing'
  BY <1>1, <1>2 DEF IInv, Cleared, Written, Missing, Committed, rows
<1>6. OneWriter'
  <2>1. \A t \in writers : Over(t)
    BY DEF UpdateProfile, CandidateFree
  <2>. QED BY <1>1, <1>2, <2>1 DEF IInv, Types, OneWriter, Running, Over
<1>7. Copies'
  <2>1. \A t, u \in Sessions : \A k : Both(t, u, k) => Both(t, u, k)'
    <3>1. \A t, u \in Sessions : \A k : Both(t, u, k) => t # s /\ u # s
      BY <1>1 DEF Both
    <3>. QED BY <1>2, <3>1 DEF Both
  <2>2. \A t \in Sessions : /\ Running(t)' => Running(t)
                            /\ at[t] = "committed" => at'[t] = "committed"
    BY <1>1, <1>2 DEF Running, Over
  <2>. QED BY <1>2, <2>1, <2>2 DEF IInv, Copies, rows
<1>. QED BY <1>3, <1>4, <1>5, <1>6, <1>7, WorkKeeps DEF IInv

\* It adds the skills that no row names.
LEMMA InsertSkillsKeeps ==
    ASSUME IInv, NEW s \in Sessions, InsertSkills(s)
    PROVE  IInv'
<1>1. at[s] = "skills" /\ kind[s] = "apply" /\ Running(s) /\ adds[s] = {}
  BY ResumeSessionsOK DEF InsertSkills, IInv, Types, Progress, PointsOf, Running, Over
<1>2. /\ adds' = [adds EXCEPT ![s] = {k \in Skills : copies[k] = 0}] /\ at'[s] = "mark"
      /\ at' \in [Sessions -> Points] /\ \A t \in Sessions \ {s} : at'[t] = at[t]
      /\ UNCHANGED <<rows, files, kind, about, seen, next, loaded, writers, overlap>>
  BY DEF InsertSkills, GoTo, IInv, Types, Points
<1>3. WorkStep(s)
  BY <1>1, <1>2 DEF WorkStep, PointsOf, IInv, Types, rows
<1>4. Types' /\ \A t \in Sessions : Progress(t)'
  BY <1>1, <1>2, <1>3 DEF IInv, Types, Progress, WorkStep, Running, Over, rows
<1>5. Cleared' /\ Written' /\ Missing'
  BY <1>1, <1>2 DEF IInv, Cleared, Written, Missing, Committed, rows
<1>6. OneWriter'
  BY <1>1, <1>2 DEF IInv, Types, OneWriter, Running, Over
<1>7. Copies'
  <2>1. /\ adds'[s] = {k \in Skills : copies[k] = 0}
        /\ \A t \in Sessions \ {s} : adds'[t] = adds[t]
    BY <1>2 DEF IInv, Types
  <2>2. \A t, u \in Sessions : \A k : Both(t, u, k) => Both(t, u, k)'
    <3>1. \A t, u \in Sessions : \A k : Both(t, u, k) => t # s /\ u # s
      BY <1>1 DEF Both
    <3>. QED BY <1>2, <2>1, <3>1 DEF Both
  <2>3. \A t \in Sessions : /\ Running(t)' => Running(t)
                            /\ at[t] = "committed" => at'[t] = "committed"
    BY <1>1, <1>2 DEF Running, Over
  <2>4. copies' = copies /\ \A k \in adds'[s] : ~(copies[k] > 0)
    BY <1>2, <2>1 DEF rows
  <2>5. ASSUME NEW k \in Skills, NEW t \in Sessions, Running(t)', k \in adds'[t], copies[k] > 0
        PROVE  \E u \in Sessions : Both(t, u, k)'
    BY <2>1, <2>2, <2>3, <2>4, <2>5 DEF IInv, Copies
  <2>6. ASSUME NEW k \in Skills, copies[k] > 1
        PROVE  \E t, u \in Sessions : Both(t, u, k)' /\ at'[t] = "committed"
    BY <2>2, <2>3, <2>6 DEF IInv, Copies
  <2>. QED BY <2>4, <2>5, <2>6 DEF Copies
<1>. QED BY <1>3, <1>4, <1>5, <1>6, <1>7, WorkKeeps DEF IInv

-----------------------------------------------------------------------------
\* A request begins.  An upload takes a version of its own and a number above every
\* committed one; a deletion finds the committed versions.
BeginStep(s) ==
    /\ at[s] = "start" /\ at'[s] \in PointsOf(kind[s]) \ {"start", "committed"}
    /\ overlap' = overlap \cup {{s, t} : t \in {u \in Sessions : Running(u)}}
    /\ at' \in [Sessions -> Points] /\ \A t \in Sessions \ {s} : at'[t] = at[t]
    /\ about' \in [Sessions -> {Nothing} \cup Versions]
    /\ next' \in [Sessions -> Nat] /\ loaded' \in [Sessions -> SUBSET Versions]
    /\ \A t \in Sessions \ {s} : about'[t] = about[t] /\ next'[t] = next[t] /\ loaded'[t] = loaded[t]
    /\ DOMAIN seen' = Sessions
    /\ UNCHANGED <<rows, files, kind, adds, writers>>
    /\ kind[s] = "upload" =>
         /\ at'[s] = "file" /\ about'[s] \in Versions /\ number[about'[s]] = 0
         /\ \A t \in Sessions : about[t] # about'[s]
         /\ next'[s] <= Cardinality(Committed) + 1 /\ \A v \in Versions : number[v] < next'[s]
    /\ kind[s] \in {"parse", "apply"} => at'[s] = "rolledBack" \/ about'[s] \in Versions
    /\ IF kind[s] = "delete" THEN at'[s] = "delete" /\ loaded'[s] = Committed ELSE loaded'[s] = {}

LEMMA BeginKeeps ==
    ASSUME IInv, NEW s \in Sessions, BeginStep(s)
    PROVE  IInv'
<1>1. /\ about[s] = Nothing /\ loaded[s] = {} /\ adds[s] = {} /\ ~Running(s) /\ ~Over(s)
      /\ kind[s] \in {"upload", "delete", "restore", "parse", "apply"}
  BY ResumeSessionsOK DEF IInv, Types, Progress, BeginStep, Running, Over
<1>2. /\ \A t \in Sessions \ {s} : Running(t)' = Running(t) /\ Over(t)' = Over(t)
      /\ at'[s] \notin {"start", "committed"}
      /\ UNCHANGED <<number, copies, kind, adds, writers, files>>
      /\ Committed' = Committed /\ Committed \subseteq Versions
  BY DEF BeginStep, Running, Over, rows, Committed
<1>3. /\ \A v \in Versions, u \in Sessions : u \in UploadsOf(v) => u # s /\ u \in UploadsOf(v)'
      /\ \A v \in Versions, u \in Sessions : number[v] # 0 /\ u \in UploadsOf(v)' => u # s /\ u \in UploadsOf(v)
  BY <1>1, ResumeSessionsOK DEF BeginStep, UploadsOf
<1>4. /\ overlap \subseteq overlap'
      /\ \A t, u \in Sessions : {t, u} \in overlap' /\ {t, u} \notin overlap =>
           \/ t = s /\ Running(u)
           \/ u = s /\ Running(t)
      /\ \A t \in Sessions : Running(t) => {s, t} \in overlap' /\ {t, s} \in overlap'
  <2>1. ASSUME NEW t \in Sessions PROVE {s, t} = {t, s}
    OBVIOUS
  <2>2. ASSUME NEW t \in Sessions, NEW u \in Sessions, NEW r \in Sessions, {t, u} = {s, r}, Running(r)
        PROVE  (t = s /\ Running(u)) \/ (u = s /\ Running(t))
    BY <1>1, <2>2
  <2>3. overlap' = overlap \cup {{s, t} : t \in {u \in Sessions : Running(u)}}
    BY DEF BeginStep
  <2>. QED BY <2>1, <2>2, <2>3
<1>5. Types'
  BY DEF IInv, Types, BeginStep, rows
<1>6. \A t \in Sessions : Progress(t)'
  <2>1. Progress(s)'
    BY <1>1, <1>2 DEF Progress, BeginStep, Running, Over
  <2>2. ASSUME NEW t \in Sessions \ {s} PROVE Progress(t)'
    BY <1>2, <2>2 DEF IInv, Progress, BeginStep
  <2>. QED BY <2>1, <2>2
<1>7. Uploads'
  <2>1. ASSUME NEW t \in Sessions, kind[t] = "upload", about'[t] # Nothing
        PROVE  /\ number[about'[t]] = IF at'[t] = "committed" THEN next'[t] ELSE 0
               /\ \A u \in Sessions : kind[u] = "upload" /\ u # t => about'[u] # about'[t]
    <3>1. CASE t = s
      BY <1>2, <2>1, <3>1 DEF BeginStep
    <3>2. CASE t # s
      BY <2>1, <3>2 DEF BeginStep, IInv, Uploads
    <3>. QED BY <3>1, <3>2
  <2>2. ASSUME NEW t \in Sessions, kind[t] = "upload", Running(t)' PROVE next'[t] > 0
    <3>1. CASE t = s
      BY <2>2, <3>1 DEF BeginStep, IInv, Types
    <3>2. CASE t # s
      BY <1>2, <2>2, <3>2 DEF BeginStep, IInv, Uploads
    <3>. QED BY <3>1, <3>2
  <2>. QED BY <1>2, <2>1, <2>2 DEF Uploads
<1>8. Overlaps'
  <2>1. ASSUME NEW t \in Sessions, NEW u \in Sessions, {t, u} \in overlap'
        PROVE  at'[t] # "start" /\ at'[u] # "start"
    BY <1>2, <1>4, <2>1 DEF IInv, Overlaps, BeginStep, Running
  <2>2. ASSUME NEW t \in Sessions, NEW u \in Sessions, t # u, Running(t)', Running(u)'
        PROVE  {t, u} \in overlap'
    BY <1>2, <1>4, <2>2 DEF IInv, Overlaps
  <2>. QED BY <2>1, <2>2 DEF Overlaps
<1>9. Highest'
  BY <1>2 DEF IInv, Highest
<1>10. Counted'
  BY <1>2 DEF IInv, Counted, BeginStep
<1>11. Found'
  <2>1. ASSUME NEW d \in Sessions, NEW v \in loaded'[d]
        PROVE  v \in Versions /\ number[v] # 0 /\ \A u \in UploadsOf(v)' : {u, d} \notin overlap'
    <3>1. v \in Versions /\ number[v] # 0
      BY <1>2, <2>1 DEF BeginStep, IInv, Types, Found, Committed
    <3>2. ASSUME NEW u \in UploadsOf(v)' PROVE {u, d} \notin overlap'
      <4>1. u \in Sessions /\ u # s /\ u \in UploadsOf(v)
        BY <1>3, <3>1, <3>2 DEF UploadsOf
      <4>2. ~Running(u)
        BY <3>1, <4>1, ResumeSessionsOK DEF IInv, Uploads, UploadsOf, Running, Over
      <4>3. CASE d = s
        <5>1. {u, d} \notin overlap
          BY <4>1, <4>3 DEF IInv, Overlaps, BeginStep
        <5>. QED BY <1>4, <4>1, <4>2, <5>1
      <4>4. CASE d # s
        <5>1. {u, d} \notin overlap
          BY <4>1, <4>4 DEF IInv, Found, BeginStep
        <5>. QED BY <1>4, <4>1, <4>4, <5>1
      <4>. QED BY <4>3, <4>4
    <3>. QED BY <3>1, <3>2
  <2>. QED BY <1>2, <2>1 DEF Found
<1>12. Cleared'
  BY <1>2 DEF BeginStep, IInv, Cleared
<1>13. Missing'
  BY <1>1, <1>2 DEF BeginStep, IInv, Missing
<1>14. Written'
  <2>1. ASSUME NEW t \in Sessions, kind[t] = "upload", at'[t] \in {"insert", "resume", "commit"}
        PROVE  about'[t] \in files
    BY <2>1 DEF BeginStep, IInv, Written
  <2>. QED BY <1>2, <2>1 DEF Written
<1>15. Numbers'
  <2>1. ASSUME NEW t \in Sessions, NEW v \in Committed',
               (kind[t] = "upload" /\ Running(t) /\ next[t] = number[v])'
        PROVE  (\E u \in UploadsOf(v) : {u, t} \in overlap)'
    <3>1. t # s
      BY <1>2, <2>1 DEF BeginStep, IInv, Types
    <3>2. PICK u \in UploadsOf(v) : {u, t} \in overlap
      BY <1>2, <2>1, <3>1 DEF BeginStep, IInv, Numbers
    <3>3. u \in UploadsOf(v)'
      BY <1>2, <1>3, <3>2 DEF UploadsOf
    <3>. QED BY <1>4, <3>2, <3>3
  <2>2. ASSUME NEW v \in Committed', NEW w \in Committed', v # w, (number[v] = number[w])'
        PROVE  (\E t \in UploadsOf(v), u \in UploadsOf(w) : {t, u} \in overlap)'
    <3>1. PICK t \in UploadsOf(v), u \in UploadsOf(w) : {t, u} \in overlap
      BY <1>2, <2>2 DEF IInv, Numbers
    <3>2. t \in UploadsOf(v)' /\ u \in UploadsOf(w)'
      BY <1>2, <1>3, <3>1 DEF UploadsOf
    <3>. QED BY <1>4, <3>1, <3>2
  <2>. QED BY <2>1, <2>2 DEF Numbers
<1>16. OneWriter'
  BY <1>1, <1>2 DEF IInv, Types, OneWriter
<1>17. Copies'
  <2>1. \A t, u \in Sessions : \A k : Both(t, u, k) => Both(t, u, k)'
    BY <1>1, <1>2, <1>4 DEF Both, BeginStep
  <2>2. \A t \in Sessions : at[t] = "committed" => at'[t] = "committed"
    BY DEF BeginStep
  <2>3. ASSUME NEW k \in Skills, NEW t \in Sessions, Running(t)', k \in adds[t], copies[k] > 0
        PROVE  \E u \in Sessions : Both(t, u, k)'
    BY <1>1, <1>2, <2>1, <2>3 DEF IInv, Copies
  <2>4. ASSUME NEW k \in Skills, copies[k] > 1
        PROVE  \E t, u \in Sessions : Both(t, u, k)' /\ at'[t] = "committed"
    BY <2>1, <2>2, <2>4 DEF IInv, Copies
  <2>. QED BY <1>2, <2>3, <2>4 DEF Copies
<1>. QED BY <1>5, <1>6, <1>7, <1>8, <1>9, <1>10, <1>11, <1>12, <1>13, <1>14, <1>15, <1>16, <1>17
         DEF IInv

LEMMA CommittedCount == Types => /\ IsFiniteSet(Committed)
                                 /\ Cardinality(Committed) \in Nat
                                 /\ Cardinality(Committed) <= Cardinality(Versions)
<1>1. Committed \subseteq Versions
  BY DEF Committed
<1>. QED BY <1>1, FS_Subset, FS_CardinalityType, ResumeSessionsOK

LEMMA NextNumberIsNew ==
    ASSUME IInv
    PROVE  /\ NextNumber \in Nat /\ NextNumber <= Cardinality(Committed) + 1
           /\ \A v \in Versions : number[v] < NextNumber
<1> DEFINE S == {0} \cup {number[v] : v \in Versions}
<1>1. S \subseteq Nat /\ \A v \in Versions : number[v] \in S
  BY DEF IInv, Types
<1>2. \E m \in S : \A n \in S : m >= n
  <2>1. PICK m \in S : \A v \in Versions : number[v] <= m
    BY DEF IInv, Highest
  <2>2. \A n \in S : m >= n
    BY <1>1, <2>1
  <2>. QED BY <2>2
<1>3. Max(S) \in S /\ \A n \in S : Max(S) >= n
  BY <1>2 DEF Max
<1>4. \A n \in S : n <= Cardinality(Committed)
  BY CommittedCount DEF IInv, Counted
<1> HIDE DEF S
<1>5. NextNumber = 1 + Max(S)
  BY DEF NextNumber, S
<1>6. Max(S) \in Nat /\ Max(S) <= Cardinality(Committed) /\ Cardinality(Committed) \in Nat
  BY <1>1, <1>3, <1>4, CommittedCount DEF IInv
<1>7. \A v \in Versions : number[v] \in Nat /\ number[v] <= Max(S)
  BY <1>1, <1>3
<1>. QED BY <1>5, <1>6, <1>7

LEMMA BeginActions ==
    ASSUME IInv, NEW s \in Sessions,
           ReadNumber(s) \/ LoadVersions(s) \/ LoadResume(s) \/ LoadActive(s) \/ LoadParsed(s)
    PROVE  IInv'
<1>1. at[s] = "start" /\ about[s] = Nothing /\ loaded[s] = {}
  BY DEF ReadNumber, LoadVersions, LoadResume, LoadActive, LoadParsed, Begin, IInv, Progress
<1>2. CASE ReadNumber(s)
  <2>1. PICK v \in Versions : /\ number[v] = 0 /\ \A t \in Sessions : about[t] # v
                              /\ about' = [about EXCEPT ![s] = v]
    BY <1>2 DEF ReadNumber
  <2>2. next' = [next EXCEPT ![s] = NextNumber] /\ at' = [at EXCEPT ![s] = "file"]
    BY <1>2 DEF ReadNumber, GoTo
  <2>3. BeginStep(s)
    BY <1>1, <1>2, <2>1, <2>2, NextNumberIsNew
       DEF ReadNumber, Begin, BeginStep, PointsOf, Points, IInv, Types
  <2>. QED BY <2>3, BeginKeeps
<1>3. CASE LoadVersions(s)
  <2>1. Committed \subseteq Versions
    BY DEF Committed
  <2>2. BeginStep(s)
    BY <1>1, <1>3, <2>1
       DEF LoadVersions, Begin, BeginStep, PointsOf, Points, IInv, Types, GoTo, Removable
  <2>. QED BY <2>2, BeginKeeps
<1>4. CASE LoadResume(s)
  <2>1. PICK p \in {"commit", "resume"} : GoTo(s, p)
    BY <1>4 DEF LoadResume
  <2>2. BeginStep(s)
    BY <1>1, <1>4, <2>1 DEF LoadResume, Begin, BeginStep, PointsOf, Points, IInv, Types, GoTo
  <2>. QED BY <2>2, BeginKeeps
<1>5. CASE LoadActive(s)
  <2>1. PICK p \in {"rolledBack", "read"} : GoTo(s, p) /\ (p = "read" => active # Nothing)
    BY <1>5 DEF LoadActive
  <2>2. BeginStep(s)
    BY <1>1, <1>5, <2>1 DEF LoadActive, Begin, BeginStep, PointsOf, Points, IInv, Types, GoTo
  <2>. QED BY <2>2, BeginKeeps
<1>6. CASE LoadParsed(s)
  <2>1. PICK p \in {"rolledBack", "profile", "skills"} :
          GoTo(s, p) /\ (p # "rolledBack" => active # Nothing)
    BY <1>6 DEF LoadParsed
  <2>2. BeginStep(s)
    BY <1>1, <1>6, <2>1 DEF LoadParsed, Begin, BeginStep, PointsOf, Points, IInv, Types, GoTo
  <2>. QED BY <2>2, BeginKeeps
<1>. QED BY <1>2, <1>3, <1>4, <1>5, <1>6

-----------------------------------------------------------------------------
\* What every commit shows.
LEMMA CommitFacts ==
    ASSUME IInv, NEW s \in Sessions, Commit(s)
    PROVE  /\ at[s] = "commit" /\ Running(s) /\ at'[s] = "committed"
           /\ kind[s] \in {"upload", "delete", "restore", "parse", "apply"}
           /\ at' \in [Sessions -> Points] /\ \A t \in Sessions \ {s} : at'[t] = at[t]
           /\ UNCHANGED <<files, kind, about, seen, next, loaded, adds, writers, overlap>>
           /\ \A t \in Sessions : /\ Running(t)' => Running(t) /\ t # s
                                  /\ at[t] = "committed" => at'[t] = "committed"
           /\ \A t \in Sessions : Progress(t)'
           /\ Cleared' /\ Written' /\ OneWriter'
           /\ \A t, u \in Sessions : \A k : Both(t, u, k) => Both(t, u, k)'
<1>1. /\ at[s] = "commit" /\ Running(s) /\ at'[s] = "committed"
      /\ at' \in [Sessions -> Points] /\ \A t \in Sessions \ {s} : at'[t] = at[t]
      /\ UNCHANGED <<files, kind, about, seen, next, loaded, adds, writers, overlap>>
  BY DEF Commit, GoTo, IInv, Types, Points, local, Running, Over
<1>2. kind[s] \in {"upload", "delete", "restore", "parse", "apply"}
  BY ResumeSessionsOK DEF IInv, Types
<1>3. \A t \in Sessions : /\ Running(t)' => Running(t) /\ t # s
                          /\ at[t] = "committed" => at'[t] = "committed"
  BY <1>1 DEF Running, Over
<1>4. \A t \in Sessions : Progress(t)'
  <2>1. Progress(s)'
    BY <1>1 DEF IInv, Progress, PointsOf, Running, Over
  <2>2. ASSUME NEW t \in Sessions \ {s} PROVE Progress(t)'
    BY <1>1, <2>2 DEF IInv, Progress, Running, Over
  <2>. QED BY <2>1, <2>2
<1>5. Cleared' /\ Written'
  BY <1>1 DEF IInv, Cleared, Written
<1>6. OneWriter'
  BY <1>1 DEF IInv, Types, OneWriter, Over
<1>7. \A t, u \in Sessions : \A k : Both(t, u, k) => Both(t, u, k)'
  BY <1>1 DEF Both
<1>. QED BY <1>1, <1>2, <1>3, <1>4, <1>5, <1>6, <1>7

\* An upload is committed: its number was taken by uploads that it overlapped only.
LEMMA CommitUploadKeeps ==
    ASSUME IInv, NEW s \in Sessions, Commit(s), kind[s] = "upload"
    PROVE  IInv'
<1> DEFINE a == about[s]
<1>1. /\ number' = [number EXCEPT ![a] = next[s]] /\ active' = a
      /\ UNCHANGED <<status, parsed, copies>>
  BY DEF Commit
<1>2. a \in Versions /\ a # Nothing /\ number[a] = 0 /\ next[s] > 0 /\ next[s] \in Nat
      /\ next[s] <= Cardinality(Committed) + 1 /\ a \in files
  BY CommitFacts, ResumeSessionsOK DEF IInv, Types, Progress, Uploads, Counted, Written
<1>3. /\ number'[a] = next[s] /\ \A v \in Versions \ {a} : number'[v] = number[v]
      /\ Committed' = Committed \cup {a} /\ a \notin Committed /\ Committed \subseteq Versions
  BY <1>1, <1>2 DEF IInv, Types, Committed
<1>4. /\ at[s] = "commit" /\ Running(s) /\ at'[s] = "committed"
      /\ \A t \in Sessions \ {s} : at'[t] = at[t]
      /\ UNCHANGED <<files, kind, about, seen, next, loaded, adds, writers, overlap>>
      /\ \A t \in Sessions : Running(t)' => Running(t) /\ t # s
      /\ \A v : UploadsOf(v)' = UploadsOf(v)
  BY CommitFacts DEF UploadsOf
<1>5. Types'
  BY <1>1, <1>2, <1>4, CommitFacts DEF IInv, Types
<1>6. Uploads'
  <2>1. ASSUME NEW t \in Sessions, kind[t] = "upload", about[t] # Nothing
        PROVE  number'[about[t]] = IF at'[t] = "committed" THEN next[t] ELSE 0
    <3>1. CASE t = s
      BY <1>3, <1>4, <3>1
    <3>2. CASE t # s
      <4>1. about[t] # a /\ about[t] \in Versions
        BY <1>2, <2>1, <3>2 DEF IInv, Types, Uploads
      <4>. QED BY <1>3, <1>4, <2>1, <3>2, <4>1 DEF IInv, Uploads
    <3>. QED BY <3>1, <3>2
  <2>. QED BY <1>4, <2>1 DEF IInv, Uploads
<1>7. Overlaps'
  BY <1>4 DEF IInv, Overlaps
<1>8. Highest'
  <2>1. PICK m \in {0} \cup {number[v] : v \in Versions} : \A v \in Versions : number[v] <= m
    BY DEF IInv, Highest
  <2>2. m \in Nat
    BY <2>1 DEF IInv, Types
  <2>3. CASE next[s] <= m
    <3>1. m \in {0} \cup {number'[v] : v \in Versions}
      BY <1>2, <1>3, <2>1
    <3>2. \A v \in Versions : number'[v] <= m
      BY <1>3, <2>1, <2>3
    <3>. QED BY <3>1, <3>2 DEF Highest
  <2>4. CASE m < next[s]
    <3>1. next[s] \in {0} \cup {number'[v] : v \in Versions}
      BY <1>2, <1>3
    <3>2. \A v \in Versions : number'[v] <= next[s]
      BY <1>2, <1>3, <2>1, <2>2, <2>4 DEF IInv, Types
    <3>. QED BY <3>1, <3>2 DEF Highest
  <2>. QED BY <1>2, <2>2, <2>3, <2>4
<1>9. Counted'
  <2>1. Cardinality(Committed') = Cardinality(Committed) + 1 /\ Cardinality(Committed) \in Nat
    BY <1>3, CommittedCount, FS_AddElement DEF IInv
  <2>2. \A v \in Versions : number'[v] <= Cardinality(Committed')
    BY <1>2, <1>3, <2>1 DEF IInv, Types, Counted
  <2>3. \A t \in Sessions : kind[t] = "upload" /\ Running(t)' => next[t] <= Cardinality(Committed') + 1
    BY <1>4, <2>1 DEF IInv, Types, Counted
  <2>. QED BY <1>4, <2>2, <2>3 DEF Counted
<1>10. Found'
  <2>1. \A d \in Sessions : \A v \in loaded[d] : v \in Versions /\ v # a
    BY <1>2 DEF IInv, Types, Found
  <2>. QED BY <1>3, <1>4, <2>1 DEF IInv, Found
<1>11. Missing'
  BY <1>2, <1>3, <1>4 DEF IInv, Missing
<1>12. Numbers'
  <2>1. s \in UploadsOf(a)
    BY DEF UploadsOf
  <2>2. ASSUME NEW v \in Committed, number[v] = next[s]
        PROVE  \E t \in UploadsOf(v) : {t, s} \in overlap /\ {s, t} \in overlap
    <3>1. PICK t \in UploadsOf(v) : {t, s} \in overlap
      BY <1>4, <2>2 DEF IInv, Numbers
    <3>2. {t, s} = {s, t}
      OBVIOUS
    <3>. QED BY <3>1, <3>2
  <2>3. ASSUME NEW t \in Sessions, NEW v \in Committed',
               (kind[t] = "upload" /\ Running(t) /\ next[t] = number[v])'
        PROVE  (\E u \in UploadsOf(v) : {u, t} \in overlap)'
    <3>1. t # s /\ Running(t) /\ kind[t] = "upload"
      BY <1>4, <2>3
    <3>2. CASE v = a
      BY <1>4, <2>1, <3>1, <3>2 DEF IInv, Overlaps
    <3>3. CASE v # a
      <4>1. v \in Committed /\ next[t] = number[v]
        BY <1>3, <1>4, <2>3, <3>3
      <4>2. \E u \in UploadsOf(v) : {u, t} \in overlap
        BY <3>1, <4>1 DEF IInv, Numbers
      <4>. QED BY <1>4, <4>2
    <3>. QED BY <3>2, <3>3
  <2>4. ASSUME NEW v \in Committed', NEW w \in Committed', v # w, (number[v] = number[w])'
        PROVE  (\E t \in UploadsOf(v), u \in UploadsOf(w) : {t, u} \in overlap)'
    <3>1. CASE v = a
      <4>1. w \in Committed /\ number[w] = next[s]
        BY <1>3, <2>4, <3>1
      <4>. QED BY <1>4, <2>1, <2>2, <3>1, <4>1
    <3>2. CASE w = a
      <4>1. v \in Committed /\ number[v] = next[s]
        BY <1>3, <2>4, <3>2
      <4>. QED BY <1>4, <2>1, <2>2, <3>2, <4>1
    <3>3. CASE v # a /\ w # a
      <4>1. v \in Committed /\ w \in Committed /\ number[v] = number[w]
        BY <1>3, <2>4, <3>3
      <4>2. \E t \in UploadsOf(v), u \in UploadsOf(w) : {t, u} \in overlap
        BY <2>4, <4>1 DEF IInv, Numbers
      <4>. QED BY <1>4, <4>2
    <3>. QED BY <3>1, <3>2, <3>3
  <2>. QED BY <2>3, <2>4 DEF Numbers
<1>13. Copies'
  BY <1>1, <1>4, CommitFacts DEF IInv, Copies
<1>. QED BY <1>5, <1>6, <1>7, <1>8, <1>9, <1>10, <1>11, <1>12, <1>13, CommitFacts DEF IInv

\* An application is committed: whoever added one of its skills too had not seen it.
LEMMA CommitOtherKeeps ==
    ASSUME IInv, NEW s \in Sessions, Commit(s), kind[s] # "upload"
    PROVE  IInv'
<1>1. /\ at[s] = "commit" /\ Running(s) /\ at'[s] = "committed"
      /\ kind[s] \in {"delete", "restore", "parse", "apply"}
      /\ at' \in [Sessions -> Points] /\ \A t \in Sessions \ {s} : at'[t] = at[t]
      /\ UNCHANGED <<files, kind, about, seen, next, loaded, adds, writers, overlap>>
      /\ \A t \in Sessions : /\ Running(t)' => Running(t) /\ t # s
                             /\ at[t] = "committed" => at'[t] = "committed"
      /\ \A t, u \in Sessions : \A k : Both(t, u, k) => Both(t, u, k)'
  BY CommitFacts
<1>2. UNCHANGED <<active, number>>
  BY <1>1 DEF Commit
<1>3. /\ status' \in {"active", "deleted"} /\ parsed' \in [Versions -> ParsedStatus]
      /\ copies' \in [Skills -> Nat]
      /\ copies' = IF kind[s] = "apply"
                   THEN [k \in Skills |-> copies[k] + IF k \in adds[s] THEN 1 ELSE 0] ELSE copies
  <2>1. CASE kind[s] \in {"delete", "restore"}
    BY <2>1 DEF Commit, StatusAfter, IInv, Types
  <2>2. CASE kind[s] = "parse"
    BY <2>2 DEF Commit, IInv, Types, ParsedStatus
  <2>3. CASE kind[s] = "apply"
    BY <2>3 DEF Commit, IInv, Types, ParsedStatus
  <2>. QED BY <1>1, <2>1, <2>2, <2>3
<1>4. Types'
  BY <1>1, <1>2, <1>3 DEF IInv, Types
<1>5. WorkStep(s)
  BY <1>1, <1>2 DEF WorkStep, PointsOf, IInv, Types
<1>6. Missing'
  BY <1>1, <1>2 DEF IInv, Missing, Committed
<1>7. Copies'
  <2>1. ASSUME NEW k \in Skills
        PROVE  \/ copies'[k] = copies[k]
               \/ k \in adds[s] /\ copies'[k] = copies[k] + 1
    BY <1>3 DEF IInv, Types
  <2>2. ASSUME NEW k \in Skills, NEW t \in Sessions, Running(t)', k \in adds[t], copies'[k] > 0
        PROVE  \E u \in Sessions : Both(t, u, k)'
    <3>1. Running(t) /\ t # s
      BY <1>1, <2>2
    <3>2. CASE k \in adds[s]
      <4>1. {t, s} \in overlap
        BY <1>1, <3>1 DEF IInv, Overlaps
      <4>2. ~({t, s} \subseteq writers)
        BY <1>1, <3>1 DEF IInv, OneWriter, Running
      <4>3. Both(t, s, k)'
        BY <1>1, <2>2, <3>1, <3>2, <4>1, <4>2 DEF Both
      <4>. QED BY <4>3
    <3>3. CASE k \notin adds[s]
      BY <1>1, <2>1, <2>2, <3>1, <3>3 DEF IInv, Copies
    <3>. QED BY <3>2, <3>3
  <2>3. ASSUME NEW k \in Skills, copies'[k] > 1
        PROVE  \E t, u \in Sessions : Both(t, u, k)' /\ at'[t] = "committed"
    <3>1. CASE copies[k] > 1
      BY <1>1, <3>1 DEF IInv, Copies
    <3>2. CASE ~(copies[k] > 1)
      <4>1. k \in adds[s] /\ copies[k] > 0
        BY <2>1, <2>3, <3>2 DEF IInv, Types
      <4>2. \E t \in Sessions : Both(s, t, k)
        BY <1>1, <4>1 DEF IInv, Copies
      <4>. QED BY <1>1, <4>2
    <3>. QED BY <3>1, <3>2
  <2>. QED BY <1>1, <2>2, <2>3 DEF Copies
<1>. QED BY <1>4, <1>5, <1>6, <1>7, WorkKeeps, CommitFacts DEF IInv

LEMMA DeleteSkillKeeps ==
    ASSUME IInv, NEW k \in Skills, DeleteSkill(k)
    PROVE  IInv'
<1>1. /\ UNCHANGED <<status, active, number, parsed, files, kind, about, seen, next, loaded, adds,
                     writers, overlap, at>>
      /\ copies' \in [Skills -> Nat] /\ \A j \in Skills : copies'[j] <= copies[j]
  BY DEF DeleteSkill, IInv, Types, local
<1>2. Types' /\ \A s \in Sessions : Progress(s)'
  BY <1>1 DEF IInv, Types, Progress, Running, Over
<1>3. Uploads' /\ Overlaps' /\ Highest' /\ Counted'
  BY <1>1 DEF IInv, Uploads, Overlaps, Highest, Counted, Committed, Running, Over
<1>4. Found' /\ Cleared' /\ Missing' /\ Written'
  BY <1>1 DEF IInv, Found, Cleared, Missing, Written, Committed, UploadsOf
<1>5. Numbers' /\ OneWriter'
  BY <1>1, NumbersKept DEF IInv, OneWriter, Running, Over
<1>6. Copies'
  <2>1. \A s, t \in Sessions : \A j : Both(s, t, j)' <=> Both(s, t, j)
    BY <1>1 DEF Both
  <2>2. \A j \in Skills : (copies'[j] > 0 => copies[j] > 0) /\ (copies'[j] > 1 => copies[j] > 1)
    BY <1>1 DEF IInv, Types
  <2>3. \A s \in Sessions : Running(s)' <=> Running(s)
    BY <1>1 DEF Running, Over
  <2>. QED BY <1>1, <2>1, <2>2, <2>3 DEF IInv, Copies
<1>. QED BY <1>2, <1>3, <1>4, <1>5, <1>6 DEF IInv

-----------------------------------------------------------------------------
LEMMA InitInv == ASSUME Init PROVE IInv
<1>1. PICK first \in {Nothing} \cup Versions :
        /\ active = first
        /\ number = [v \in Versions |-> IF v = first THEN 1 ELSE 0]
        /\ files = Versions \cap {first}
        /\ parsed \in [Versions -> {"none", "pending", "applied"}]
  BY DEF Init
<1>2. /\ \A s \in Sessions : /\ at[s] = "start" /\ about[s] = Nothing /\ loaded[s] = {}
                             /\ adds[s] = {} /\ ~Running(s)
      /\ overlap = {} /\ writers = {}
  BY DEF Init, Running
<1>3. Types
  BY <1>1 DEF Init, Types, Points, ParsedStatus
<1>4. \A s \in Sessions : Progress(s)
  BY <1>2 DEF Progress, PointsOf
<1>5. Uploads /\ Overlaps
  BY <1>2 DEF Uploads, Overlaps
<1>6. Committed = Versions \cap {first}
  BY <1>1 DEF Committed
<1>7. Highest
  BY <1>1 DEF Highest
<1>8. Counted
  <2>1. ASSUME NEW v \in Versions PROVE number[v] <= Cardinality(Committed)
    <3>1. CASE v = first
      <4>1. Cardinality(Committed) # 0
        BY <1>3, <1>6, <3>1, CommittedCount, FS_EmptySet
      <4>. QED BY <1>1, <1>3, <3>1, <4>1, CommittedCount
    <3>2. CASE v # first
      BY <1>1, <1>3, <3>2, CommittedCount
    <3>. QED BY <3>1, <3>2
  <2>. QED BY <1>2, <2>1 DEF Counted
<1>9. Found /\ Cleared /\ Written
  BY <1>2 DEF Found, Cleared, Written
<1>10. Missing
  BY <1>1, <1>6 DEF Missing
<1>11. Numbers
  BY <1>2, <1>6 DEF Numbers
<1>12. OneWriter
  BY <1>2 DEF OneWriter
<1>13. Copies
  <2>1. \A k \in Skills : ~(copies[k] > 1)
    BY DEF Init
  <2>. QED BY <1>2, <2>1 DEF Copies
<1>. QED BY <1>3, <1>4, <1>5, <1>7, <1>8, <1>9, <1>10, <1>11, <1>12, <1>13 DEF IInv

LEMMA NextInv == ASSUME IInv, [Next]_vars PROVE IInv'
<1>1. ASSUME NEW s \in Sessions, UploadStep(s) \/ DeleteStep(s) \/ ParseStep(s) \/ ApplyStep(s)
      PROVE  IInv'
  BY <1>1, QuietActions, BeginActions, WriteFileKeeps, DeleteFileKeeps, UpdateProfileKeeps,
     InsertSkillsKeeps DEF UploadStep, DeleteStep, ParseStep, ApplyStep
<1>2. ASSUME NEW s \in Sessions, Commit(s)
      PROVE  IInv'
  BY <1>2, CommitUploadKeeps, CommitOtherKeeps
<1>3. ASSUME NEW s \in Sessions, Crash(s)
      PROVE  IInv'
  BY <1>3, QuietActions
<1>4. CASE UNCHANGED vars
  <2>1. Types' /\ \A s \in Sessions : Progress(s)'
    BY <1>4 DEF vars, rows, local, IInv, Types, Progress, Running, Over
  <2>2. Uploads' /\ Overlaps' /\ Highest' /\ Counted'
    BY <1>4 DEF vars, rows, local, IInv, Uploads, Overlaps, Highest, Counted, Committed, Running, Over
  <2>3. Found' /\ Cleared' /\ Missing' /\ Written'
    BY <1>4 DEF vars, rows, local, IInv, Found, Cleared, Missing, Written, Committed, UploadsOf
  <2>4. Numbers' /\ OneWriter' /\ Copies'
    BY <1>4, NumbersKept DEF vars, rows, local, IInv, OneWriter, Copies, Both, Running, Over
  <2>. QED BY <2>1, <2>2, <2>3, <2>4 DEF IInv
<1>. QED BY <1>1, <1>2, <1>3, <1>4, DeleteSkillKeeps DEF Next

LEMMA Invariance == Spec => []IInv
<1>. QED BY InitInv, NextInv, PTL DEF Spec

\* Rows, files and requests keep to their enumerations, and no version gets a number
\* higher than the versions are many.
THEOREM ResumeTypes == Spec => []TypeOK
<1>1. ASSUME IInv PROVE TypeOK
  <2>1. Cardinality(Versions) \in Nat
    BY FS_CardinalityType, ResumeSessionsOK
  <2>2. ASSUME NEW v \in Versions PROVE number[v] \in 0..Cardinality(Versions)
    <3>1. number[v] \in Nat /\ number[v] <= Cardinality(Committed)
      BY <1>1 DEF IInv, Types, Counted
    <3>2. Cardinality(Committed) \in Nat /\ Cardinality(Committed) <= Cardinality(Versions)
      BY <1>1, CommittedCount DEF IInv
    <3>. QED BY <2>1, <3>1, <3>2
  <2>. QED BY <1>1, <2>1, <2>2 DEF IInv, Types, TypeOK
<1>. QED BY <1>1, Invariance, PTL

\* A committed version lacks its file only where a deletion found it that came after its
\* upload, and a committed deletion leaves none of the files it found.
THEOREM FilesAfterRows == Spec => []FilesFollowRows
<1>1. ASSUME IInv PROVE FilesFollowRows
  <2>1. ASSUME NEW v \in Committed \ files
        PROVE  \E d \in Sessions : v \in loaded[d] /\ \A u \in UploadsOf(v) : {u, d} \notin overlap
    BY <1>1 DEF IInv, Missing, Found
  <2>2. \A d \in Sessions : kind[d] = "delete" /\ at[d] = "committed" => loaded[d] \cap files = {}
    BY <1>1 DEF IInv, Cleared
  <2>. QED BY <2>1, <2>2 DEF FilesFollowRows
<1>. QED BY <1>1, Invariance, PTL

\* A number is given twice, and a skill listed twice, only by requests that overlapped.
THEOREM RepeatsNeedOverlap == Spec => []RepeatsOverlapped
<1>1. ASSUME IInv PROVE RepeatsOverlapped
  <2>1. \A v, w \in Committed : v # w /\ number[v] = number[w] =>
            \E s \in UploadsOf(v), t \in UploadsOf(w) : {s, t} \in overlap
    BY <1>1 DEF IInv, Numbers
  <2>2. \A k \in Skills : copies[k] > 1 => \E s, t \in Sessions :
            /\ s # t /\ k \in adds[s] \cap adds[t] /\ at[s] = "committed" /\ at[t] = "committed"
            /\ {s, t} \in overlap /\ ~({s, t} \subseteq writers)
    BY <1>1 DEF IInv, Copies, Both
  <2>. QED BY <2>1, <2>2 DEF RepeatsOverlapped
<1>. QED BY <1>1, Invariance, PTL

=============================================================================
