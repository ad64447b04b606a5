---------------------------- MODULE ResumeSessions ----------------------------
(***************************************************************************)
(* Overlapping requests about one resume: uploads, parses, confirmed       *)
(* applications of what was parsed, deletion, and the update that restores *)
(* it.  Each session is one request in its own READ COMMITTED transaction; *)
(* the file storage is outside of it, so that a file written or removed    *)
(* stays so when the transaction is rolled back.                           *)
(***************************************************************************)
EXTENDS Integers, FiniteSetsExt

CONSTANTS
    Sessions,      \* the requests
    Versions,      \* identities of resume_versions rows and of their files
    Skills,        \* the skills the parser finds in every version
    Kinds          \* which requests

Points == {"start", "file", "insert", "delete", "resume", "read", "parsed", "version",
           "profile", "skills", "mark", "commit", "committed", "rolledBack"}

\* Of a parsed_resumes row: "reparsed" is pending again, with its fields applied before.
ParsedStatus == {"none", "pending", "applied", "reparsed"}

Nothing == "nothing"

ASSUME ResumeSessionsOK ==
    /\ IsFiniteSet(Sessions) /\ IsFiniteSet(Versions) /\ Nothing \notin Versions
    /\ Kinds \subseteq {"upload", "delete", "restore", "parse", "apply"}

VARIABLES
    status,     \* committed status of the resume
    active,     \* committed active version
    number,     \* version -> committed version number, 0 before it is committed
    parsed,     \* version -> committed status of its parsed_resumes row
    copies,     \* skill -> committed candidate_skills rows that name it
    files,      \* the versions whose file is in the storage
    kind,       \* session -> its request
    at,         \* session -> its next statement
    about,      \* session -> the version it uploads, parses or applies
    seen,       \* session -> the resume's or the parsed row's status it loaded
    next,       \* session -> the number its upload takes
    loaded,     \* session -> the versions its deletion found
    adds,       \* session -> the skills its application adds
    writers,    \* the sessions that wrote the candidate's row
    overlap     \* pairs of sessions that were running at one time (history)

rows == <<status, active, number, parsed, copies>>
local == <<kind, about, seen, next, loaded, adds, writers, overlap>>
vars == <<rows, files, local, at>>

-----------------------------------------------------------------------------
Over(s) == at[s] \in {"committed", "rolledBack"}
Running(s) == at[s] # "start" /\ ~Over(s)

\* Who else holds the rows that s is about to write.
ResumeFree(s) == \A t \in Sessions \ {s} :
    ~(kind[t] \in {"upload", "delete", "restore"} /\ at[t] = "commit" /\ seen[t] # "unchanged")
ParsedFree(s) == \A t \in Sessions \ {s} : about[t] = about[s] =>
    ~ \/ kind[t] = "parse" /\ at[t] \in {"version", "commit"}
         /\ seen[t] \in {"none", "applied"}
      \/ kind[t] = "apply" /\ at[t] = "commit"
VersionFree(s) == \A t \in Sessions \ {s} :
    ~(kind[t] = "parse" /\ at[t] = "commit" /\ about[t] = about[s])
CandidateFree(s) == \A t \in writers : Over(t)

\* A resume without a version, or with one.
Init ==
    /\ status = "active"
    /\ \E first \in {Nothing} \cup Versions :
        /\ active = first
        /\ number = [v \in Versions |-> IF v = first THEN 1 ELSE 0]
        /\ files = Versions \cap {first}
        /\ parsed \in {p \in [Versions -> {"none", "pending", "applied"}] :
                         \A v \in Versions \ {first} : p[v] = "none"}
    /\ copies \in [Skills -> {0, 1}]
    /\ kind \in [Sessions -> Kinds]
    /\ at = [s \in Sessions |-> "start"]
    /\ about = [s \in Sessions |-> Nothing]
    /\ seen = [s \in Sessions |-> Nothing]
    /\ next = [s \in Sessions |-> 0]
    /\ loaded = [s \in Sessions |-> {}] /\ adds = [s \in Sessions |-> {}]
    /\ writers = {} /\ overlap = {}

GoTo(s, point) == at' = [at EXCEPT ![s] = point]

Begin(s, request) ==
    /\ at[s] = "start" /\ kind[s] = request
    /\ overlap' = overlap \cup {{s, t} : t \in {u \in Sessions : Running(u)}}

-----------------------------------------------------------------------------
(* upload_resume                                                            *)

Committed == {v \in Versions : number[v] # 0}

\* Mutated form of NextNumber: versions are counted by their files.
NextNumberOfFiles == 1 + Cardinality(Committed \cap files)

\* next_version_number: the highest that is committed, and one.
NextNumber == 1 + Max({0} \cup {number[v] : v \in Versions})

\* The resume is loaded whatever its status.
ReadNumber(s) ==
    /\ Begin(s, "upload")
    /\ \E v \in Versions :
        /\ number[v] = 0 /\ \A t \in Sessions : about[t] # v
        /\ about' = [about EXCEPT ![s] = v]
    /\ next' = [next EXCEPT ![s] = NextNumber]
    /\ GoTo(s, "file")
    /\ UNCHANGED <<rows, files, kind, seen, loaded, adds, writers>>

WriteFile(s) ==
    /\ at[s] = "file"
    /\ files' = files \cup {about[s]}
    /\ GoTo(s, "insert")
    /\ UNCHANGED <<rows, local>>

\* No unique index guards the number: the insert waits for nobody.
InsertVersion(s) == at[s] = "insert" /\ GoTo(s, "resume") /\ UNCHANGED <<rows, files, local>>

\* The update waits for the row's writer.
UpdateResume(s) ==
    /\ at[s] = "resume" /\ ResumeFree(s)
    /\ GoTo(s, "commit")
    /\ UNCHANGED <<rows, files, local>>

-----------------------------------------------------------------------------
(* delete_resume and update_resume                                          *)

\* A status that is not changed is not written.
StatusAfter(s) == CASE kind[s] = "delete" -> "deleted" [] kind[s] = "restore" -> "active"
SeenStatus(s) == IF status = StatusAfter(s) THEN "unchanged" ELSE status
WriteStatus(s) == IF seen[s] = "unchanged" THEN "commit" ELSE "resume"

\* Mutated form of Removable: everything the storage holds for the resume.
RemovableFiles == files

\* get_with_active_version: the versions that are committed.
Removable == Committed

LoadVersions(s) ==
    /\ Begin(s, "delete")
    /\ loaded' = [loaded EXCEPT ![s] = Removable]
    /\ seen' = [seen EXCEPT ![s] = SeenStatus(s)]
    /\ GoTo(s, "delete")
    /\ UNCHANGED <<rows, files, kind, about, next, adds, writers>>

\* One file after the other; one that is gone already is passed over.
DeleteFile(s) ==
    /\ at[s] = "delete"
    /\ IF loaded[s] \cap files # {}
       THEN (\E v \in loaded[s] \cap files : files' = files \ {v}) /\ UNCHANGED at
       ELSE GoTo(s, WriteStatus(s)) /\ UNCHANGED files
    /\ UNCHANGED <<rows, local>>

\* update_resume accepts every status, for a deleted resume too.
LoadResume(s) ==
    /\ Begin(s, "restore")
    /\ seen' = [seen EXCEPT ![s] = SeenStatus(s)]
    /\ GoTo(s, IF status = "active" THEN "commit" ELSE "resume")
    /\ UNCHANGED <<rows, files, kind, about, next, loaded, adds, writers>>

-----------------------------------------------------------------------------
(* parse_resume and apply_parsed_resume                                     *)

LoadActive(s) ==
    /\ Begin(s, "parse")
    /\ about' = [about EXCEPT ![s] = active]
    /\ GoTo(s, IF active = Nothing THEN "rolledBack" ELSE "read")
    /\ UNCHANGED <<rows, files, kind, seen, next, loaded, adds, writers>>

\* Reads the file, which may be gone, and looks the version's parsed row up.
ReadFile(s) ==
    /\ at[s] = "read"
    /\ GoTo(s, IF about[s] \in files THEN "parsed" ELSE "rolledBack")
    /\ seen' = [seen EXCEPT ![s] = parsed[about[s]]]
    /\ UNCHANGED <<rows, files, kind, about, next, loaded, adds, writers, overlap>>

\* Inserts the row, which is unique for the version, or makes an applied one pending
\* again; a pending one stays as it is.
WriteParsed(s) ==
    /\ at[s] = "parsed"
    /\ seen[s] \in {"none", "applied"} => ParsedFree(s)
    /\ GoTo(s, IF seen[s] = "none" /\ parsed[about[s]] # "none" THEN "rolledBack" ELSE "version")
    /\ UNCHANGED <<rows, files, local>>

UpdateVersion(s) ==
    /\ at[s] = "version" /\ VersionFree(s)
    /\ GoTo(s, "commit")
    /\ UNCHANGED <<rows, files, local>>

\* Fields of the version that were applied before are not written again; the others
\* are, unless the profile says the same already.
LoadParsed(s) ==
    /\ Begin(s, "apply")
    /\ about' = [about EXCEPT ![s] = active]
    /\ IF active = Nothing THEN GoTo(s, "rolledBack")
       ELSE \/ parsed[active] = "none" /\ GoTo(s, "rolledBack")
            \/ parsed[active] = "pending" /\ GoTo(s, "profile")
            \/ parsed[active] # "none" /\ GoTo(s, "skills")
    /\ seen' = [seen EXCEPT ![s] = IF active = Nothing THEN Nothing ELSE parsed[active]]
    /\ UNCHANGED <<rows, files, kind, next, loaded, adds, writers>>

UpdateProfile(s) ==
    /\ at[s] = "profile" /\ CandidateFree(s)
    /\ writers' = writers \cup {s}
    /\ GoTo(s, "skills")
    /\ UNCHANGED <<rows, files, kind, about, seen, next, loaded, adds, overlap>>

\* _apply_extracted_skills: inserts those no committed row names; no index guards them.
InsertSkills(s) ==
    /\ at[s] = "skills"
    /\ adds' = [adds EXCEPT ![s] = {k \in Skills : copies[k] = 0}]
    /\ GoTo(s, "mark")
    /\ UNCHANGED <<rows, files, kind, about, seen, next, loaded, writers, overlap>>

\* A status that is applied already is not written, only the time.
MarkApplied(s) ==
    /\ at[s] = "mark" /\ ParsedFree(s)
    /\ GoTo(s, "commit")
    /\ UNCHANGED <<rows, files, local>>

-----------------------------------------------------------------------------
Commit(s) ==
    /\ at[s] = "commit" /\ GoTo(s, "committed")
    /\ CASE kind[s] = "upload" ->
              /\ number' = [number EXCEPT ![about[s]] = next[s]]
              /\ active' = about[s]
              /\ UNCHANGED <<status, parsed, copies>>
         [] kind[s] \in {"delete", "restore"} ->
              /\ status' = IF seen[s] = "unchanged" THEN status ELSE StatusAfter(s)
              /\ UNCHANGED <<active, number, parsed, copies>>
         [] kind[s] = "parse" ->
              /\ parsed' = [parsed EXCEPT ![about[s]] =
                              CASE seen[s] = "none" -> "pending"
                                [] seen[s] = "applied" -> "reparsed"
                                [] OTHER -> @]
              /\ UNCHANGED <<status, active, number, copies>>
         [] kind[s] = "apply" ->
              /\ parsed' = [parsed EXCEPT ![about[s]] =
                              IF seen[s] = "applied" THEN @ ELSE "applied"]
              /\ copies' = [k \in Skills |-> copies[k] + IF k \in adds[s] THEN 1 ELSE 0]
              /\ UNCHANGED <<status, active, number>>
    /\ UNCHANGED <<files, local>>

\* The process, its connection or the client goes away: the rows are rolled back, the
\* files stay as they are.
Crash(s) ==
    /\ Running(s)
    /\ GoTo(s, "rolledBack")
    /\ UNCHANGED <<rows, files, local>>

\* The candidate deletes a skill of hers.
DeleteSkill(k) ==
    /\ copies[k] > 0
    /\ copies' = [copies EXCEPT ![k] = @ - 1]
    /\ UNCHANGED <<status, active, number, parsed, files, local, at>>

UploadStep(s) == ReadNumber(s) \/ WriteFile(s) \/ InsertVersion(s) \/ UpdateResume(s)
DeleteStep(s) == LoadVersions(s) \/ DeleteFile(s) \/ LoadResume(s)
ParseStep(s) == LoadActive(s) \/ ReadFile(s) \/ WriteParsed(s) \/ UpdateVersion(s)
ApplyStep(s) == LoadParsed(s) \/ UpdateProfile(s) \/ InsertSkills(s) \/ MarkApplied(s)

Next ==
    \/ \E s \in Sessions :
        UploadStep(s) \/ DeleteStep(s) \/ ParseStep(s) \/ ApplyStep(s) \/ Commit(s) \/ Crash(s)
    \/ \E k \in Skills : DeleteSkill(k)

Spec == Init /\ [][Next]_vars

-----------------------------------------------------------------------------
(* Properties.                                                              *)

\* Rows, files and sessions keep to their enumerations.
TypeOK ==
    /\ status \in {"active", "deleted"} /\ active \in {Nothing} \cup Versions
    /\ number \in [Versions -> 0..Cardinality(Versions)]
    /\ parsed \in [Versions -> ParsedStatus] /\ copies \in [Skills -> Nat]
    /\ files \subseteq Versions /\ writers \subseteq Sessions
    /\ at \in [Sessions -> Points]

UploadsOf(v) == {u \in Sessions : kind[u] = "upload" /\ about[u] = v}

\* A committed version lacks its file only after a deletion that came when the version
\* was committed, though that deletion may have been rolled back; and a deletion that is
\* committed leaves none of the files it found.
FilesFollowRows ==
    /\ \A v \in Committed \ files : \E d \in Sessions :
         v \in loaded[d] /\ \A u \in UploadsOf(v) : {u, d} \notin overlap
    /\ \A d \in Sessions : kind[d] = "delete" /\ at[d] = "committed" =>
         loaded[d] \cap files = {}

\* Two versions have one number only when their uploads overlapped, and a skill two rows
\* only when two applications overlapped of which one left the candidate's row alone:
\* those that write it wait for each other before they look at her skills.
RepeatsOverlapped ==
    /\ \A v, w \in Committed : v # w /\ number[v] = number[w] =>
         \E s \in UploadsOf(v), t \in UploadsOf(w) : {s, t} \in overlap
    /\ \A k \in Skills : copies[k] > 1 => \E s, t \in Sessions :
         /\ s # t /\ k \in adds[s] \cap adds[t] /\ at[s] = "committed" /\ at[t] = "committed"
         /\ {s, t} \in overlap /\ ~({s, t} \subseteq writers)
=============================================================================
