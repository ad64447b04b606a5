------------------------------ MODULE JobStore ------------------------------
(***************************************************************************)
(* The jobs of one candidate, filled by discovery runs (scheduler ticks,   *)
(* trigger_now and API calls) and by ingested gate4e envelopes.  Each      *)
(* worker is one such call in a transaction of its own, and calls overlap: *)
(* a worker reads committed rows and its own; an insert waits for another  *)
(* transaction's uncommitted row with the same unique key, and fails once  *)
(* that row is committed; an update waits for whoever has updated the row. *)
(***************************************************************************)
EXTENDS JobPostings, FiniteSets

CONSTANTS
    Workers,        \* the calls, numbered in the order they begin
    Feed,           \* source -> the postings its page lists, in order
    SourceOrders,   \* the enabled sources of a run, in the order it visits them
    Envelopes,      \* the sequences of records producers send
    MaxTime,        \* bounds the clock
    MaxRunning      \* bounds the calls that run at one time

ASSUME JobStoreOK ==
    /\ Workers \subseteq Nat /\ MaxTime \in Nat /\ MaxRunning \in Nat
    /\ \A order \in SourceOrders : order \in Seq(DOMAIN Feed)
    /\ \A s \in DOMAIN Feed : Feed[s] \in Seq(Postings)
    /\ \A e \in Envelopes : e \in Seq(Records)

VARIABLES
    now,        \* the clock
    jobs,       \* committed jobs rows
    companies,  \* committed companies rows
    rows,       \* committed gate4e_ingestion_records rows
    unique,     \* committed unique keys of jobs, of the gate4e job source and of records
    report,     \* worker -> the counts of its committed agent task, None before
    call,       \* worker -> the program state of its call
    txn,        \* worker -> what its transaction wrote and has not committed
    overlap     \* pairs of workers that were running at one time (history)

jobVars == <<now, jobs, companies, rows, unique, report, call, txn, overlap>>
tables == <<now, jobs, companies, rows, unique, report, overlap>>

Over == {"committed", "rolledBack"}
Stages == {"idle", "source", "company", "lookup", "insert", "finish",
           "record", "gateSource", "newSource", "persist"} \cup Over

\* What a transaction inserted, and in `locks` the rows it updated: job sources it
\* visited, jobs it expired.
Txn(newJobs, newCompanies, newRows, keys, locks) ==
    [jobs |-> newJobs, companies |-> newCompanies, rows |-> newRows, keys |-> keys, locks |-> locks]
EmptyTxn == Txn({}, {}, {}, {}, {})

\* A call that starts: `employers` is the run's company_id_map, `found` the history of
\* the postings it stored or found stored.
NewCall(kind, stage, sources, items) ==
    [kind |-> kind, stage |-> stage, sources |-> sources, items |-> items, company |-> None,
     employers |-> {}, link |-> None, new |-> 0, duplicate |-> 0, found |-> {}]

\* A call that is over keeps nothing but the history of what it found.
Ended(stage, found) == [NewCall(None, stage, <<>>, <<>>) EXCEPT !.found = found]

JobInit ==
    /\ now = 0
    /\ jobs = {} /\ companies = {} /\ rows = {} /\ unique = {}
    /\ report = [w \in Workers |-> None]
    /\ call = [w \in Workers |-> NewCall(None, "idle", <<>>, <<>>)]
    /\ txn = [w \in Workers |-> EmptyTxn]
    /\ overlap = {}

-----------------------------------------------------------------------------
Stage(w) == call[w].stage
Running(w) == Stage(w) \notin Over \cup {"idle"}

Ingesting(w) == call[w].kind = "ingestion"

VisibleJobs(w) == jobs \cup txn[w].jobs
VisibleCompanies(w) == companies \cup txn[w].companies
VisibleKeys(w) == unique \cup txn[w].keys

\* The posting a worker is about, and the stage after it is done with.
Current(w) == IF Ingesting(w) THEN Record[Head(call[w].items)].posting ELSE Head(call[w].items)

Goto(c, stage) == [c EXCEPT !.stage = stage]

\* The posting that a discovery run turns to next, or the source once the page is done.
AtPage(c, page) ==
    [c EXCEPT !.items = page, !.company = None, !.stage = IF page = <<>> THEN "source" ELSE "company"]
Drop(c) == AtPage(c, Tail(c.items))
Stored(c, p) == [c EXCEPT !.found = @ \cup {p}]

\* The jobs that mark_expired updates.
Closing(w) == {j \in VisibleJobs(w) : /\ j.status = "discovered"
                                      /\ j.closesAt # -1 /\ j.closesAt < now}

\* The unique keys of the row worker w is about to insert, or the rows it is to update.
Wants(w) ==
    CASE Stage(w) = "insert" -> JobKeys(Current(w), call[w].company)
      [] Stage(w) = "newSource" -> {<<"gate4e">>}
      [] Stage(w) = "persist" -> {<<"record", Head(call[w].items)>>}
      [] Stage(w) = "source" -> IF call[w].sources # <<>>
                                THEN {<<"source", Head(call[w].sources)>>}
                                ELSE {<<"job", j.url>> : j \in Closing(w)}
      [] OTHER -> {}

\* It waits while another transaction holds one; a key that is taken makes it fail.
WaitsFor(w) == {v \in Workers \ {w} : (txn[v].keys \cup txn[v].locks) \cap Wants(w) # {}}
Conflicts(w) == WaitsFor(w) = {} /\ Wants(w) \cap VisibleKeys(w) # {}
Free(w) == WaitsFor(w) = {} /\ ~Conflicts(w)

\* Mutated form of RollBack: the connection is kept and its transaction stays open.
RollBackForgotten(w) ==
    call' = [call EXCEPT ![w] = Ended("rolledBack", {})] /\ UNCHANGED <<tables, txn>>

\* The rollback of a transaction: a unique violation or a deadlock, which leaves the
\* session unusable until the call has failed, or a call that is cut off.
RollBack(w) ==
    /\ call' = [call EXCEPT ![w] = Ended("rolledBack", {})]
    /\ txn' = [txn EXCEPT ![w] = EmptyTxn]
    /\ UNCHANGED tables

-----------------------------------------------------------------------------
\* What the transaction of w has written so far, and more.
Write(w, newJobs, newCompanies, newRows, keys, locks) ==
    txn' = [txn EXCEPT ![w] = Txn(txn[w].jobs \cup newJobs, txn[w].companies \cup newCompanies,
                                  txn[w].rows \cup newRows, txn[w].keys \cup keys,
                                  txn[w].locks \cup locks)]

\* run_discovery and ingest_gate4e_envelope begin; the envelope is well formed.
Begin(w, c) ==
    /\ Stage(w) = "idle" /\ \A v \in Workers : v < w => Stage(v) # "idle"
    /\ Cardinality({v \in Workers : Running(v)}) < MaxRunning
    /\ call' = [call EXCEPT ![w] = c]
    /\ overlap' = overlap \cup {{w, v} : v \in {u \in Workers : Running(u)}}
    /\ UNCHANGED <<now, jobs, companies, rows, unique, report, txn>>

BeginDiscovery(w) == \E order \in SourceOrders : Begin(w, NewCall("discovery", "source", order, <<>>))
BeginIngestion(w) == \E e \in Envelopes : Begin(w, NewCall("ingestion", "record", <<>>, e))

\* _process_source: robots.txt, the rate limit and the fetch, of a page or of nothing; a
\* source that is disallowed or fails is recorded and the next one is visited.  The source's
\* row is updated before anything is stored, and stays locked until the run ends.
VisitSource(w) ==
    /\ Stage(w) = "source" /\ call[w].sources # <<>> /\ Free(w)
    /\ \E page \in {<<>>, Feed[Head(call[w].sources)]} :
         call' = [call EXCEPT ![w] = AtPage([call[w] EXCEPT !.sources = Tail(@)], page)]
    /\ Write(w, {}, {}, {}, {}, Wants(w))
    /\ UNCHANGED tables

\* _store_jobs: a posting that is closed is skipped.
SkipClosed(w) ==
    /\ Stage(w) = "company" /\ ~Ingesting(w) /\ Closed(Current(w), now)
    /\ call' = [call EXCEPT ![w] = Drop(@)]
    /\ UNCHANGED <<tables, txn>>

\* The company the run has used for the domain, else those find_by_domain may return: it
\* takes the first, in no order.  A posting without a domain has none.
KnownCompanies(w, domain) ==
    LET cached == {c \in call[w].employers : c.domain = domain}
    IN  IF domain = None THEN {}
        ELSE IF cached # {} THEN cached
        ELSE {c \in VisibleCompanies(w) : c.domain = domain}

Employ(c, company) ==
    [c EXCEPT !.stage = "lookup", !.company = company,
              !.employers = IF c.kind = "ingestion" THEN @
                            ELSE {d \in @ : d.domain # company.domain} \cup {company}]

\* _company_for and get_or_create_by_domain: what is not found is created, and no unique
\* key makes the insert wait or fail.
FindCompany(w) ==
    /\ Stage(w) = "company" /\ (Ingesting(w) \/ ~Closed(Current(w), now))
    /\ LET known == KnownCompanies(w, Post[Current(w)].domain)
       IN  \E company \in IF known = {} THEN {Company(Current(w), w)} ELSE known :
             /\ call' = [call EXCEPT ![w] = Employ(call[w], company)]
             /\ IF known # {} THEN UNCHANGED txn ELSE Write(w, {}, {company}, {}, {}, {})
    /\ UNCHANGED tables

\* find_identical; a record is linked to what it finds.
LookUp(w) ==
    /\ Stage(w) = "lookup"
    /\ LET p == Current(w)
           same == Identical(VisibleJobs(w), p, call[w].company)
       IN  IF same = {}
           THEN call' = [call EXCEPT ![w] =
                           Goto(@, IF Ingesting(w) THEN "gateSource" ELSE "insert")]
           ELSE \E j \in same :
                  call' = [call EXCEPT ![w] =
                             IF Ingesting(w)
                             THEN [Stored(call[w], p) EXCEPT !.link = j.url, !.stage = "persist"]
                             ELSE [Drop(Stored(call[w], p)) EXCEPT !.duplicate = @ + 1]]
    /\ UNCHANGED <<tables, txn>>

\* _process_row: a record already stored is answered from its row; otherwise it is
\* classified, and an accepted one is given a job first.
NextRecord(w) ==
    /\ Stage(w) = "record" /\ call[w].items # <<>>
    /\ LET r == Head(call[w].items)
       IN  call' = [call EXCEPT ![w] =
                      IF <<"record", r>> \in VisibleKeys(w) THEN [call[w] EXCEPT !.items = Tail(@)]
                      ELSE Goto(call[w], IF Disposition(r) \in Accepted THEN "company" ELSE "persist")]
    /\ UNCHANGED <<tables, txn>>

\* _gate4e_source.
FindGateSource(w) ==
    /\ Stage(w) = "gateSource"
    /\ call' = [call EXCEPT ![w] =
                  Goto(@, IF <<"gate4e">> \in VisibleKeys(w) THEN "insert" ELSE "newSource")]
    /\ UNCHANGED <<tables, txn>>

-----------------------------------------------------------------------------
\* Inserts with unique keys: of the job source of gate4e, of a job, and of a record's row.
Insert(w, newJobs, newRows, c) ==
    /\ Free(w)
    /\ Write(w, newJobs, {}, newRows, Wants(w), {})
    /\ call' = [call EXCEPT ![w] = c]
    /\ UNCHANGED tables

CreateGateSource(w) ==
    Stage(w) = "newSource" /\ Insert(w, {}, {}, Goto(call[w], "insert"))

\* Discovery keeps the closing date; ingestion stores none.
CreateJob(w) ==
    /\ Stage(w) = "insert"
    /\ LET p == Current(w)
           closesAt == IF Ingesting(w) THEN -1 ELSE Post[p].closesAt
           c == Stored(call[w], p)
       IN  Insert(w, {JobFor(p, call[w].company, closesAt, w)}, {},
                  IF Ingesting(w) THEN [c EXCEPT !.link = Post[p].url, !.stage = "persist"]
                  ELSE [Drop(c) EXCEPT !.new = @ + 1])

PersistRow(w) ==
    /\ Stage(w) = "persist"
    /\ LET r == Head(call[w].items)
       IN  Insert(w, {}, {[record |-> r, status |-> Disposition(r), job |-> call[w].link]},
                  [call[w] EXCEPT !.items = Tail(@), !.company = None, !.link = None,
                                  !.stage = "record"])

\* Mutated form of Violate: the session is rolled back and the run goes on.
ViolateAndGoOn(w) ==
    /\ Conflicts(w)
    /\ call' = [call EXCEPT ![w] = [@ EXCEPT !.items = <<>>,
                                  !.stage = IF Ingesting(w) THEN "record" ELSE "source"]]
    /\ txn' = [txn EXCEPT ![w] = EmptyTxn]
    /\ UNCHANGED tables

\* A unique violation.  One source's errors are caught, but this one leaves the session
\* unusable: the next flush raises, mark_failed too, and the caller rolls back.
Violate(w) == Conflicts(w) /\ RollBack(w)

\* The database breaks a cycle of waiting transactions by failing one of them.
Deadlocked(w) ==
    WaitsFor(w) # {} /\ \E S \in SUBSET Workers :
        w \in S /\ \A v \in S : WaitsFor(v) \cap S # {} /\ \E u \in S : v \in WaitsFor(u)
BreakDeadlock(w) == Deadlocked(w) /\ RollBack(w)

\* The process stops, the scheduler is stopped or the client goes away.
CutOff(w) == Running(w) /\ RollBack(w)

\* JobRepository.mark_expired: one statement, which locks the rows it updates.
MarkExpired(w) ==
    /\ Stage(w) = "source" /\ call[w].sources = <<>> /\ Free(w)
    /\ Write(w, {}, {}, {}, {}, Wants(w))
    /\ call' = [call EXCEPT ![w] = Goto(@, "finish")]
    /\ UNCHANGED tables

\* The jobs as the transaction of w leaves them.
Updated(w) == {IF <<"job", j.url>> \in txn[w].locks THEN [j EXCEPT !.status = "expired"] ELSE j :
                 j \in VisibleJobs(w)}

\* The end of a call: the transaction is committed.
Commit(w, result) ==
    /\ jobs' = Updated(w)
    /\ companies' = VisibleCompanies(w)
    /\ rows' = rows \cup txn[w].rows
    /\ unique' = VisibleKeys(w)
    /\ report' = [report EXCEPT ![w] = result]
    /\ txn' = [txn EXCEPT ![w] = EmptyTxn]
    /\ call' = [call EXCEPT ![w] = Ended("committed", @.found)]
    /\ UNCHANGED <<now, overlap>>

\* Discovery records its task first.
FinishDiscovery(w) ==
    /\ Stage(w) = "finish"
    /\ Commit(w, [new |-> call[w].new, duplicate |-> call[w].duplicate])

FinishIngestion(w) ==
    /\ Stage(w) = "record" /\ call[w].items = <<>>
    /\ Commit(w, None)

Tick ==
    /\ now < MaxTime
    /\ now' = now + 1
    /\ UNCHANGED <<jobs, companies, rows, unique, report, call, txn, overlap>>

Step(w) ==
    \/ VisitSource(w) \/ SkipClosed(w) \/ FindCompany(w) \/ LookUp(w) \/ NextRecord(w)
    \/ FindGateSource(w) \/ CreateGateSource(w) \/ CreateJob(w) \/ PersistRow(w)
    \/ Violate(w) \/ BreakDeadlock(w) \/ MarkExpired(w) \/ FinishDiscovery(w) \/ FinishIngestion(w)

JobNext ==
    \/ Tick
    \/ \E w \in Workers : BeginDiscovery(w) \/ BeginIngestion(w) \/ CutOff(w) \/ Step(w)

JobSpec == JobInit /\ [][JobNext]_jobVars

\* The event loop runs every call on; the database answers every statement.
FairJobSpec == JobSpec /\ \A w \in Workers : WF_jobVars(Step(w))

-----------------------------------------------------------------------------
CompanyRow == {Company(p, w) : p \in Postings, w \in Workers}
JobRow == [url : {Post[p].url : p \in Postings}, company : CompanyRow,
           externalId : {Post[p].externalId : p \in Postings},
           content : {Post[p].content : p \in Postings}, closesAt : Int,
           status : {"discovered", "expired"}, by : Workers]
StoredRow == [record : Records, status : Dispositions,
              job : {None} \cup {Post[p].url : p \in Postings}]

JobTypeOK ==
    /\ now \in 0..MaxTime
    /\ jobs \subseteq JobRow /\ companies \subseteq CompanyRow /\ rows \subseteq StoredRow
    /\ DOMAIN report = Workers /\ DOMAIN call = Workers /\ DOMAIN txn = Workers
    /\ \A w \in Workers :
         /\ Stage(w) \in Stages
         /\ txn[w].jobs \subseteq JobRow /\ txn[w].companies \subseteq CompanyRow
         /\ txn[w].rows \subseteq StoredRow
         /\ Stage(w) \in Over \cup {"idle"} => txn[w] = EmptyTxn
    /\ overlap \subseteq SUBSET Workers

\* The counts a discovery task records are those of the jobs it really stored: no job
\* of a failed run survives, and none of a recorded run is missing.
ReportsAreTrue ==
    \A w \in Workers :
        LET stored == {j \in jobs : j.by = w}
        IN  /\ report[w] # None => Cardinality(stored) = report[w].new
            /\ Stage(w) # "committed" => stored = {}

\* A call that ended well leaves every posting it reported as stored or as a duplicate
\* in the jobs table.  A row of an accepted record names a job that is there and shares
\* the record's URL, employer id or content; the eligibility gate lets these rows
\* through to matching and no others.
FoundIsStored ==
    /\ \A w \in Workers : Stage(w) = "committed" =>
         \A p \in call[w].found : \E j \in jobs : Matches(j, p)
    /\ \A row \in rows :
         IF row.status \in Accepted
         THEN /\ \E j \in jobs : j.url = row.job /\ Matches(j, Record[row.record].posting)
              /\ Eligible(row.record, row, TRUE)
         ELSE ~Eligible(row.record, row, TRUE)

SameRequisition(i, j) ==
    /\ i.company.domain # None /\ i.company.domain = j.company.domain
    /\ i.externalId # None /\ i.externalId = j.externalId

\* One text is stored twice only by calls that overlapped: dedup by content is complete
\* between calls that follow one another, and within one call.  One employer's requisition
\* is stored twice only under two companies of that employer, whose creators overlapped;
\* the calls that stored it may follow one another, for find_by_domain takes either.
TwinsOverlapped ==
    \A i, j \in jobs : i # j =>
        /\ i.content = j.content => {i.by, j.by} \in overlap
        /\ SameRequisition(i, j) => {i.company.by, j.company.by} \in overlap

\* Every call that begins ends, also when calls wait for one another's rows.
EveryCallEnds == \A w \in Workers : Running(w) ~> Stage(w) \in Over
=============================================================================
