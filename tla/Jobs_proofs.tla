----------------------------- MODULE Jobs_proofs -----------------------------
(***************************************************************************)
(* Proofs about the jobs table, filled by any number of overlapping        *)
(* discovery runs and envelopes from any feeds, and about what is made of  *)
(* it for any profiles, jobs, applications and scoring weights: what a run *)
(* reports is what it stored, what it found is stored, and twins come of   *)
(* overlap; a better profile is no worse a match; applications are whole,  *)
(* documents are grounded and advice is given once.                        *)
(***************************************************************************)
EXTENDS JobStore, Recommendations, FiniteSetTheorems, TLAPS

-----------------------------------------------------------------------------
(* The jobs table.                                                          *)

Urls == {Post[p].url : p \in Postings}

CallRow == [kind : {None, "discovery", "ingestion"}, stage : Stages, sources : Seq(DOMAIN Feed),
            items : Seq(Postings \cup Records), company : {None} \cup CompanyRow,
            employers : SUBSET CompanyRow, link : {None} \cup Urls, new : Nat,
            duplicate : Nat, found : SUBSET Postings]

\* Where each kind of call is, and what it is about there.
Stage4e == {"record", "gateSource", "newSource", "persist"}
AtItem == {"company", "lookup", "insert", "gateSource", "newSource", "persist"}
CallOK(c) ==
    /\ c \in CallRow
    /\ IF c.kind = "ingestion" THEN c.items \in Seq(Records) ELSE c.items \in Seq(Postings)
    /\ c.stage \in {"source", "finish"} => c.kind = "discovery"
    /\ c.stage \in Stage4e => c.kind = "ingestion"
    /\ c.stage \in AtItem => c.items # <<>> /\ c.kind \in {"discovery", "ingestion"}
    /\ c.link # None => c.stage = "persist"
    /\ c.kind = "ingestion" /\ c.stage \in AtItem \ {"persist"} =>
         Disposition(Head(c.items)) \in Accepted

TxnOK(w) ==
    /\ txn[w] = Txn(txn[w].jobs, txn[w].companies, txn[w].rows, txn[w].keys, txn[w].locks)
    /\ IsFiniteSet(txn[w].jobs)
    /\ \A j \in txn[w].jobs : j.by = w
    /\ Running(w) /\ ~Ingesting(w) => Cardinality(txn[w].jobs) = call[w].new

Shape == JobTypeOK /\ \A w \in Workers : CallOK(call[w]) /\ TxnOK(w)

RunningOverlap == \A v, w \in Workers : Running(v) /\ Running(w) /\ v # w => {v, w} \in overlap

\* Rows in the table or in some transaction; two with one content come of an overlap.
AllJobs == jobs \cup UNION {txn[v].jobs : v \in Workers}
Twins == \A i, j \in AllJobs : i.content = j.content /\ i # j =>
             i.by # j.by /\ {i.by, j.by} \in overlap

\* Whoever has the content of the row that w is about to insert overlaps w.
NewContent(w) ==
    Stage(w) \in {"gateSource", "newSource", "insert"} =>
        \A j \in AllJobs : j.content = Post[Current(w)].content => j.by # w /\ {j.by, w} \in overlap

\* What a call counted as found, it can read.
FoundVisible(w) ==
    /\ Running(w) => \A p \in call[w].found : \E j \in VisibleJobs(w) : Matches(j, p)
    /\ Stage(w) = "committed" => \A p \in call[w].found : \E j \in jobs : Matches(j, p)

\* A row's disposition is that of its record, and it names a job exactly when it is accepted.
Names(r, link, js) ==
    IF Disposition(r) \in Accepted THEN \E j \in js : j.url = link /\ Matches(j, Record[r].posting)
    ELSE link = None
RowOK(row, js) ==
    row.record \in Records /\ row.status = Disposition(row.record) /\ Names(row.record, row.job, js)

LinksOK(w) ==
    /\ Stage(w) = "persist" => Names(Head(call[w].items), call[w].link, VisibleJobs(w))
    /\ \A row \in txn[w].rows : RowOK(row, VisibleJobs(w))

StoredBy(w) == {j \in jobs : j.by = w}
Reported ==
    \A w \in Workers :
        /\ IsFiniteSet(StoredBy(w))
        /\ report[w] # None => Stage(w) = "committed" /\ Cardinality(StoredBy(w)) = report[w].new
        /\ Stage(w) # "committed" => StoredBy(w) = {}

JobIInv ==
    /\ Shape /\ RunningOverlap /\ Twins /\ Reported
    /\ \A w \in Workers : NewContent(w) /\ FoundVisible(w) /\ LinksOK(w)
    /\ \A row \in rows : RowOK(row, jobs)

\* Companies in the table or in some transaction; two of one domain come of an overlap.
AllCompanies == companies \cup UNION {txn[v].companies : v \in Workers}
Rivals == \A c, d \in AllCompanies : c.domain = d.domain /\ c.domain # None /\ c # d =>
              c.by # d.by /\ {c.by, d.by} \in overlap

\* The company a posting has been given is one that its call can read, of the posting's
\* domain, and of the posting alone if it has none.
EmployerOf(w) ==
    Stage(w) \in {"lookup", "insert", "gateSource", "newSource"} =>
        LET c == call[w].company
        IN  /\ c \in VisibleCompanies(w) /\ c.domain = Post[Current(w)].domain
            /\ c.domain = None => c.of = Current(w)

\* A job's company is there, and is the job's alone if it has no domain.
Employed(j, cs) == j.company \in cs /\ (j.company.domain = None => j.url = Post[j.company.of].url)
IdKeys(j) == {<<"id", j.company, x>> : x \in {j.externalId} \ {None}}

\* An employer's id is the key of one row.
OneOfId == \A i, j \in AllJobs : IdKeys(i) \cap IdKeys(j) # {} => i = j

\* What a call made and uses is there.
WellEmployed(w) ==
    /\ EmployerOf(w)
    /\ Running(w) => call[w].employers \subseteq VisibleCompanies(w)
    /\ \A c \in txn[w].companies : c.by = w
    /\ \A j \in txn[w].jobs : Employed(j, VisibleCompanies(w)) /\ IdKeys(j) \subseteq txn[w].keys

Employers ==
    /\ Rivals /\ OneOfId
    /\ \A j \in jobs : Employed(j, companies) /\ IdKeys(j) \subseteq unique
    /\ \A w \in Workers : WellEmployed(w)

-----------------------------------------------------------------------------
\* Lemmas about postings, records and rows.
LEMMA DispositionType == \A r \in Records : Disposition(r) \in Dispositions
BY PostingsOK DEF Disposition, Dispositions, Accepted, Verification

LEMMA HeadAndTail ==
    ASSUME NEW S, NEW s \in Seq(S), s # <<>>
    PROVE  Head(s) \in S /\ Tail(s) \in Seq(S)
OBVIOUS

LEMMA CurrentIsPosting ==
    ASSUME NEW w \in Workers, CallOK(call[w]), call[w].items # <<>>
    PROVE  Current(w) \in Postings /\ (Ingesting(w) => Head(call[w].items) \in Records)
<1>1. CASE Ingesting(w)
  <2>1. call[w].items \in Seq(Records)
    BY <1>1 DEF CallOK, Ingesting
  <2>2. Head(call[w].items) \in Records
    BY <2>1
  <2>. QED BY <1>1, <2>2, PostingsOK DEF Current
<1>2. CASE ~Ingesting(w)
  <2>1. call[w].items \in Seq(Postings)
    BY <1>2 DEF CallOK, Ingesting
  <2>2. Head(call[w].items) \in Postings
    BY <2>1
  <2>. QED BY <1>2, <2>2 DEF Current
<1>. QED BY <1>1, <1>2

LEMMA CompanyType ==
    ASSUME NEW p \in Postings, NEW w \in Workers
    PROVE  /\ Company(p, w) \in CompanyRow /\ Company(p, w).domain = Post[p].domain
           /\ Company(p, w).by = w /\ Company(p, w).of = p
<1>1. Company(p, w) \in CompanyRow
  BY DEF CompanyRow
<1>. QED BY <1>1 DEF Company

LEMMA JobForType ==
    ASSUME NEW p \in Postings, NEW company \in CompanyRow, NEW closesAt \in Int, NEW w \in Workers
    PROVE  JobFor(p, company, closesAt, w) \in JobRow
BY DEF JobFor, JobRow

\* A run turns to the postings of a page with what it has counted and found so far.
LEMMA PageType ==
    ASSUME NEW c \in CallRow, NEW page \in Seq(Postings)
    PROVE  LET d == AtPage(c, page)
           IN  /\ d \in CallRow /\ d.kind = c.kind /\ d.new = c.new /\ d.found = c.found
               /\ d.items = page /\ d.employers = c.employers /\ d.link = c.link
               /\ d.stage \in {"source", "company"}
               /\ d.stage = "company" => page # <<>>
<1>1. page \in Seq(Postings \cup Records)
  OBVIOUS
<1>. QED BY <1>1 DEF AtPage, CallRow, Stages

\* find_identical finds what matches the posting, and whatever has its content.
LEMMA IdenticalMatches ==
    ASSUME NEW js, NEW p, NEW company, company.domain = Post[p].domain,
           company.domain = None => company.of = p,
           \A j \in js : j.company.domain = None => j.url = Post[j.company.of].url
    PROVE  /\ \A j \in Identical(js, p, company) : j \in js /\ Matches(j, p)
           /\ Identical(js, p, company) = {} => \A j \in js : j.content # Post[p].content
<1>1. \A j \in js : SameEmployerId(j, p, company) => Matches(j, p)
  BY DEF SameEmployerId, Matches
<1>. QED BY <1>1 DEF Identical, Matches

\* Rows that differ in their status or closing date only match the same postings.
SameJob(j, k) ==
    /\ j.url = k.url /\ j.company = k.company /\ j.externalId = k.externalId
    /\ j.content = k.content /\ j.by = k.by

LEMMA SameMatches ==
    ASSUME NEW j, NEW k, SameJob(j, k), NEW p
    PROVE  Matches(j, p) <=> Matches(k, p)
BY DEF SameJob, Matches

LEMMA NamesKept ==
    ASSUME NEW js, NEW ks, \A j \in js : \E k \in ks : SameJob(j, k), NEW r, NEW link,
           Names(r, link, js)
    PROVE  Names(r, link, ks)
BY SameMatches DEF Names, SameJob

\* What becomes of a call whose posting was found or stored: a record's row is next, or
\* the next posting of the page.
Linked(c, p, u) == [Stored(c, p) EXCEPT !.link = u, !.stage = "persist"]
Found(c, p) == [Drop(Stored(c, p)) EXCEPT !.duplicate = @ + 1]
Added(c, p) == [Drop(Stored(c, p)) EXCEPT !.new = @ + 1]

LEMMA Counted ==
    ASSUME NEW q \in CallRow
    PROVE  /\ [q EXCEPT !.duplicate = q.duplicate + 1] \in CallRow
           /\ [q EXCEPT !.new = q.new + 1] \in CallRow
<1>1. q.duplicate + 1 \in Nat /\ q.new + 1 \in Nat
  BY DEF CallRow
<1>. QED BY <1>1 DEF CallRow

\* d is what c becomes, one posting further.
After(d, c, p) ==
    CallOK(d) /\ d.kind = c.kind /\ d.found = c.found \cup {p} /\ d.employers = c.employers
Turned(d, c, p) == After(d, c, p) /\ d.stage \in {"source", "company"}

LEMMA ItemDone ==
    ASSUME NEW c, CallOK(c), c.items # <<>>, c.link = None, NEW p \in Postings, NEW u \in Urls,
           c.kind = "ingestion" => Disposition(Head(c.items)) \in Accepted,
           c.kind # "ingestion" => c.kind = "discovery"
    PROVE  /\ c.kind = "ingestion" =>
                /\ After(Linked(c, p, u), c, p) /\ Linked(c, p, u).new = c.new
                /\ Linked(c, p, u).stage = "persist" /\ Linked(c, p, u).link = u
                /\ Linked(c, p, u).items = c.items
           /\ c.kind # "ingestion" =>
                /\ Turned(Found(c, p), c, p) /\ Found(c, p).new = c.new
                /\ Turned(Added(c, p), c, p) /\ Added(c, p).new = c.new + 1
<1> DEFINE e == Stored(c, p)
           d == Linked(c, p, u)
           q == AtPage(e, Tail(c.items))
<1>1. c \in CallRow
  BY DEF CallOK
<1>2. /\ e \in CallRow /\ e.kind = c.kind /\ e.new = c.new /\ e.found = c.found \cup {p}
      /\ e.items = c.items /\ e.link = None /\ e.employers = c.employers
  BY <1>1 DEF CallRow, Stored
<1>3. CASE c.kind = "ingestion"
  <2>1. /\ d \in CallRow /\ d.kind = c.kind /\ d.new = c.new /\ d.found = c.found \cup {p}
        /\ d.stage = "persist" /\ d.link = u /\ d.items = c.items /\ d.employers = c.employers
    BY <1>2 DEF Linked, CallRow, Stages
  <2> HIDE DEF d
  <2>2. CallOK(d)
    BY <1>3, <2>1 DEF CallOK, AtItem, Stage4e
  <2>. QED BY <1>3, <2>1, <2>2 DEF d, After
<1>4. CASE c.kind # "ingestion"
  <2>1. Tail(c.items) \in Seq(Postings)
    BY <1>4, HeadAndTail DEF CallOK
  <2>2. /\ q \in CallRow /\ q.kind = c.kind /\ q.new = c.new /\ q.found = c.found \cup {p}
        /\ q.items = Tail(c.items) /\ q.link = None /\ q.stage \in {"source", "company"}
        /\ q.stage = "company" => Tail(c.items) # <<>>
        /\ q.employers = c.employers
    BY <1>2, <2>1, PageType
  <2>3. /\ Found(c, p) = [q EXCEPT !.duplicate = q.duplicate + 1]
        /\ Added(c, p) = [q EXCEPT !.new = q.new + 1]
    BY <1>2 DEF Drop, Found, Added
  <2> HIDE DEF q
  <2>4. ASSUME NEW x, x \in CallRow, x.kind = c.kind, x.found = c.found \cup {p},
               x.items = Tail(c.items), x.link = None, x.stage = q.stage, x.employers = c.employers
        PROVE  Turned(x, c, p)
    BY <1>4, <2>1, <2>2, <2>4 DEF Turned, After, CallOK, AtItem, Stage4e
  <2>5. Turned([q EXCEPT !.duplicate = q.duplicate + 1], c, p)
        /\ [q EXCEPT !.duplicate = q.duplicate + 1].new = c.new
    <3> DEFINE x == [q EXCEPT !.duplicate = q.duplicate + 1]
    <3>0. x \in CallRow
      BY <2>2, Counted
    <3>1. /\ x.kind = c.kind /\ x.found = c.found \cup {p} /\ x.new = c.new
          /\ x.items = Tail(c.items) /\ x.link = None /\ x.stage = q.stage /\ x.employers = c.employers
      BY <2>2 DEF CallRow
    <3> HIDE DEF x
    <3>2. Turned(x, c, p)
      BY <2>4, <3>0, <3>1
    <3>. QED BY <3>1, <3>2 DEF x
  <2>6. Turned([q EXCEPT !.new = q.new + 1], c, p) /\ [q EXCEPT !.new = q.new + 1].new = c.new + 1
    <3> DEFINE x == [q EXCEPT !.new = q.new + 1]
    <3>0. x \in CallRow
      BY <2>2, Counted
    <3>1. /\ x.kind = c.kind /\ x.found = c.found \cup {p} /\ x.new = c.new + 1
          /\ x.items = Tail(c.items) /\ x.link = None /\ x.stage = q.stage /\ x.employers = c.employers
      BY <2>2 DEF CallRow
    <3> HIDE DEF x
    <3>2. Turned(x, c, p)
      BY <2>4, <3>0, <3>1
    <3>. QED BY <3>1, <3>2 DEF x
  <2>. QED BY <1>4, <2>3, <2>5, <2>6
<1>. QED BY <1>3, <1>4

-----------------------------------------------------------------------------
\* The parts of a transaction.
LEMMA TxnParts ==
    ASSUME NEW js, NEW cs, NEW rs, NEW ks, NEW ls
    PROVE  LET t == Txn(js, cs, rs, ks, ls)
           IN  /\ t.jobs = js /\ t.companies = cs /\ t.rows = rs /\ t.keys = ks /\ t.locks = ls
               /\ t = Txn(t.jobs, t.companies, t.rows, t.keys, t.locks)
BY DEF Txn

\* Only w's call and transaction change.
Others(w) ==
    /\ DOMAIN call' = Workers /\ DOMAIN txn' = Workers
    /\ \A v \in Workers \ {w} : call'[v] = call[v] /\ txn'[v] = txn[v]

\* A step of w that stores no job and no record and reports nothing: it changes w's program
\* state, its companies and what it locks.  A row is about to be inserted, or a record's
\* row, as before, or for a record that is not accepted.
QuietStep(w) ==
    /\ Running(w) /\ Running(w)' /\ CallOK(call[w])'
    /\ call'[w].kind = call[w].kind /\ call'[w].new = call[w].new /\ call'[w].found = call[w].found
    /\ Stage(w)' \in {"gateSource", "newSource", "insert"} =>
         /\ Stage(w) \in {"gateSource", "newSource"} /\ call'[w].items = call[w].items
    /\ Stage(w)' = "persist" => /\ call'[w].link = None
                                /\ Disposition(Head(call'[w].items)) \notin Accepted
    /\ Others(w)
    /\ \E cs, keys, locks : /\ cs \subseteq CompanyRow
                            /\ txn'[w] = Txn(txn[w].jobs, cs, txn[w].rows, keys, locks)
    /\ UNCHANGED tables

LEMMA ActionsAreQuiet ==
    ASSUME Shape, NEW w \in Workers,
           VisitSource(w) \/ SkipClosed(w) \/ FindCompany(w) \/ NextRecord(w)
           \/ FindGateSource(w) \/ CreateGateSource(w) \/ MarkExpired(w)
    PROVE  QuietStep(w)
<1> DEFINE c == call[w]
           t == txn[w]
           Moved(d) == /\ Running(w) /\ CallOK(d)
                       /\ d.stage \notin Over \cup {"idle"} /\ d.kind = c.kind /\ d.new = c.new /\ d.found = c.found
                       /\ d.stage \in {"gateSource", "newSource", "insert"} =>
                            c.stage \in {"gateSource", "newSource"} /\ d.items = c.items
                       /\ d.stage = "persist" => d.link = None /\ Disposition(Head(d.items)) \notin Accepted
                       /\ call' = [call EXCEPT ![w] = d]
           Wrote(u) == \E cs, keys, locks : cs \subseteq CompanyRow /\ u = Txn(t.jobs, cs, t.rows, keys, locks)
           Put(u) == txn'[w] = u /\ DOMAIN txn' = Workers /\ \A v \in Workers \ {w} : txn'[v] = txn[v]
<1>1. /\ CallOK(c) /\ c \in CallRow /\ DOMAIN call = Workers /\ DOMAIN txn = Workers
      /\ t = Txn(t.jobs, t.companies, t.rows, t.keys, t.locks) /\ t.companies \subseteq CompanyRow
  BY DEF Shape, JobTypeOK, CallOK, TxnOK
<1>2. ASSUME NEW d, Moved(d), UNCHANGED tables, NEW u, Wrote(u), Put(u)
      PROVE  QuietStep(w)
  <2>2. call'[w] = d /\ DOMAIN call' = Workers /\ \A v \in Workers \ {w} : call'[v] = call[v]
    BY <1>1, <1>2
  <2>. QED BY <1>2, <2>2 DEF QuietStep, Others, Running, Stage, Over
<1>3. ASSUME UNCHANGED txn PROVE Wrote(t) /\ Put(t)
  BY <1>1, <1>3
<1>4. ASSUME NEW cs \in SUBSET CompanyRow, NEW ks, NEW ls, Write(w, {}, cs, {}, ks, ls)
      PROVE  \E u : Wrote(u) /\ Put(u)
  <2> DEFINE u == Txn(t.jobs \cup {}, t.companies \cup cs, t.rows \cup {}, t.keys \cup ks, t.locks \cup ls)
  <2>1. Put(u)
    BY <1>1, <1>4 DEF Write
  <2>2. u = Txn(t.jobs, t.companies \cup cs, t.rows, t.keys \cup ks, t.locks \cup ls)
        /\ t.companies \cup cs \subseteq CompanyRow
    BY <1>1
  <2>3. Wrote(u)
    BY <2>2
  <2>. QED BY <2>1, <2>3
<1> HIDE DEF Wrote, Put
<1>4a. {} \in SUBSET CompanyRow
  OBVIOUS
<1>5. CASE VisitSource(w)
  <2>1. c.sources \in Seq(DOMAIN Feed) /\ c.sources # <<>> /\ c.stage = "source" /\ c.kind = "discovery"
    BY <1>1, <1>5 DEF VisitSource, CallRow, Stage, CallOK
  <2>2. PICK page \in {<<>>, Feed[Head(c.sources)]} :
          call' = [call EXCEPT ![w] = AtPage([call[w] EXCEPT !.sources = Tail(@)], page)]
    BY <1>5 DEF VisitSource
  <2> DEFINE e == [c EXCEPT !.sources = Tail(@)]
             d == AtPage(e, page)
  <2>3. page \in Seq(Postings) /\ Tail(c.sources) \in Seq(DOMAIN Feed)
    <3>1. Head(c.sources) \in DOMAIN Feed /\ Tail(c.sources) \in Seq(DOMAIN Feed)
      BY <2>1, HeadAndTail
    <3>2. <<>> \in Seq(Postings)
      OBVIOUS
    <3>3. Feed[Head(c.sources)] \in Seq(Postings)
      BY <3>1, JobStoreOK
    <3>. QED BY <3>1, <3>2, <3>3
  <2>4. e \in CallRow /\ e.kind = "discovery" /\ e.new = c.new /\ e.found = c.found /\ e.link = None
    BY <1>1, <2>1, <2>3 DEF CallRow, CallOK
  <2> HIDE DEF e
  <2>5. /\ d \in CallRow /\ d.kind = "discovery" /\ d.new = c.new /\ d.found = c.found
        /\ d.items = page /\ d.stage \in {"source", "company"} /\ (d.stage = "company" => page # <<>>)
        /\ d.link = None
    BY <2>3, <2>4, PageType
  <2>6. call' = [call EXCEPT ![w] = d]
    BY <2>2 DEF e
  <2> HIDE DEF d
  <2>7. CallOK(d)
    BY <2>3, <2>5 DEF CallOK, AtItem, Stage4e
  <2>8. Moved(d)
    BY <2>1, <2>5, <2>6, <2>7 DEF Running, Stage, Over
  <2>. QED BY <1>2, <1>4, <1>4a, <1>5, <2>8 DEF VisitSource
<1>6. CASE SkipClosed(w)
  <2>1. c.stage = "company" /\ c.kind # "ingestion" /\ c.items \in Seq(Postings) /\ c.items # <<>>
    BY <1>1, <1>6 DEF SkipClosed, CallOK, Stage, Ingesting, AtItem
  <2> DEFINE d == AtPage(c, Tail(c.items))
  <2>2. Tail(c.items) \in Seq(Postings)
    BY <2>1, HeadAndTail
  <2>3. /\ d \in CallRow /\ d.kind = c.kind /\ d.new = c.new /\ d.found = c.found
        /\ d.items = Tail(c.items) /\ d.stage \in {"source", "company"}
        /\ d.stage = "company" => Tail(c.items) # <<>>
        /\ d.link = None
    BY <1>1, <2>1, <2>2, PageType DEF CallOK
  <2>4. call' = [call EXCEPT ![w] = d]
    BY <1>6 DEF SkipClosed, Drop
  <2> HIDE DEF d
  <2>5. c.kind = "discovery"
    BY <1>1, <2>1 DEF CallOK, AtItem
  <2>6. Moved(d)
    BY <2>1, <2>2, <2>3, <2>4, <2>5 DEF CallOK, AtItem, Stage4e, Running, Stage, Over
  <2>. QED BY <1>2, <1>3, <1>6, <2>6 DEF SkipClosed
<1>7. CASE FindCompany(w)
  <2> DEFINE p == Current(w)
             known == KnownCompanies(w, Post[p].domain)
  <2>1. c.stage = "company" /\ c.items # <<>> /\ p \in Postings
    BY <1>1, <1>7, CurrentIsPosting DEF FindCompany, CallOK, Stage, AtItem
  <2>2. PICK company \in IF known = {} THEN {Company(p, w)} ELSE known :
          /\ call' = [call EXCEPT ![w] = Employ(c, company)]
          /\ IF known # {} THEN UNCHANGED txn ELSE Write(w, {}, {company}, {}, {}, {})
    BY <1>7 DEF FindCompany
  <2>3. company \in CompanyRow
    <3>1. known \subseteq CompanyRow
      BY <1>1 DEF KnownCompanies, CallRow, VisibleCompanies, Shape, JobTypeOK
    <3>. QED BY <2>1, <2>2, <3>1, CompanyType
  <2> DEFINE d == Employ(c, company)
  <2>4. /\ d \in CallRow /\ d.stage = "lookup" /\ d.kind = c.kind /\ d.new = c.new
        /\ d.found = c.found /\ d.items = c.items /\ d.link = c.link
    BY <1>1, <2>3 DEF Employ, CallRow, Stages
  <2>5. call' = [call EXCEPT ![w] = d]
    BY <2>2
  <2> HIDE DEF d
  <2>6. Moved(d)
    BY <1>1, <2>1, <2>4, <2>5 DEF CallOK, AtItem, Stage4e, Running, Stage, Over
  <2>8. UNCHANGED tables
    BY <1>7 DEF FindCompany
  <2>9. CASE known # {}
    BY <1>2, <1>3, <2>2, <2>6, <2>8, <2>9
  <2>10. CASE known = {}
    BY <1>2, <1>4, <2>2, <2>3, <2>6, <2>8, <2>10
  <2>. QED BY <2>9, <2>10
<1>8. CASE NextRecord(w)
  <2>1. c.stage = "record" /\ c.items # <<>> /\ c.items \in Seq(Records) /\ c.kind = "ingestion"
    BY <1>1, <1>8 DEF NextRecord, CallOK, Stage, Stage4e
  <2> DEFINE r == Head(c.items)
             d == IF <<"record", r>> \in VisibleKeys(w) THEN [c EXCEPT !.items = Tail(@)]
                  ELSE Goto(c, IF Disposition(r) \in Accepted THEN "company" ELSE "persist")
  <2>2. call' = [call EXCEPT ![w] = d]
    BY <1>1, <1>8 DEF NextRecord, VisibleKeys
  <2>3. Tail(c.items) \in Seq(Records)
    BY <2>1
  <2>4. Tail(c.items) \in Seq(Postings \cup Records)
    BY <2>3
  <2>5. d \in CallRow
    BY <1>1, <2>4 DEF CallRow, Stages, Goto
  <2>6. c.link = None
    BY <1>1, <2>1 DEF CallOK
  <2>7. Moved(d)
    BY <1>1, <2>1, <2>2, <2>3, <2>5, <2>6 DEF CallOK, CallRow, AtItem, Stage4e, Running, Stage, Over, Goto
  <2>. QED BY <1>2, <1>3, <1>8, <2>7 DEF NextRecord
<1>9. CASE FindGateSource(w)
  <2>1. PICK stage \in {"insert", "newSource"} : call' = [call EXCEPT ![w] = Goto(@, stage)]
    BY <1>9 DEF FindGateSource
  <2>2. Goto(c, stage) \in CallRow
    BY <1>1 DEF CallRow, Stages, Goto
  <2>3. Moved(Goto(c, stage))
    BY <1>1, <1>9, <2>1, <2>2 DEF FindGateSource, CallOK, CallRow, AtItem, Stage4e, Running, Stage, Over, Goto
  <2>. QED BY <1>2, <1>3, <1>9, <2>3 DEF FindGateSource
<1>10. CASE CreateGateSource(w)
  <2>1. call' = [call EXCEPT ![w] = Goto(c, "insert")]
    BY <1>10 DEF CreateGateSource, Insert
  <2>2. Goto(c, "insert") \in CallRow
    BY <1>1 DEF CallRow, Stages, Goto
  <2>3. Moved(Goto(c, "insert"))
    BY <1>1, <1>10, <2>1, <2>2 DEF CreateGateSource, CallOK, CallRow, AtItem, Stage4e, Running, Stage, Over, Goto
  <2>4. Write(w, {}, {}, {}, Wants(w), {}) /\ UNCHANGED tables
    BY <1>10 DEF CreateGateSource, Insert
  <2>. QED BY <1>2, <1>4, <1>4a, <2>3, <2>4
<1>11. CASE MarkExpired(w)
  <2>1. c.stage = "source" /\ call' = [call EXCEPT ![w] = Goto(c, "finish")]
    BY <1>11 DEF MarkExpired, Stage
  <2>2. Goto(c, "finish") \in CallRow
    BY <1>1 DEF CallRow, Stages, Goto
  <2>3. Moved(Goto(c, "finish"))
    BY <1>1, <2>1, <2>2 DEF CallOK, CallRow, AtItem, Stage4e, Running, Stage, Over, Goto
  <2>. QED BY <1>2, <1>4, <1>4a, <1>11, <2>3 DEF MarkExpired
<1>. QED BY <1>5, <1>6, <1>7, <1>8, <1>9, <1>10, <1>11

-----------------------------------------------------------------------------
\* A step inside a call: what w inserts only grows, and nothing is committed.
WorkStep(w) ==
    /\ Running(w) /\ Running(w)' /\ CallOK(call[w])' /\ TxnOK(w)'
    /\ call'[w].kind = call[w].kind
    /\ Others(w)
    /\ txn[w].jobs \subseteq txn'[w].jobs
    /\ txn'[w].jobs \subseteq JobRow /\ txn'[w].companies \subseteq CompanyRow
    /\ txn'[w].rows \subseteq StoredRow
    /\ UNCHANGED tables

LEMMA WorkKeeps ==
    ASSUME JobIInv, NEW w \in Workers, WorkStep(w)
    PROVE  /\ Shape' /\ RunningOverlap' /\ Reported'
           /\ \A row \in rows' : RowOK(row, jobs)'
           /\ \A v \in Workers \ {w} : FoundVisible(v)' /\ LinksOK(v)'
<1>1. \A v \in Workers \ {w} : /\ call'[v] = call[v] /\ txn'[v] = txn[v]
                               /\ Stage(v)' = Stage(v) /\ Running(v)' = Running(v)
                               /\ Ingesting(v)' = Ingesting(v)
                               /\ VisibleJobs(v)' = VisibleJobs(v)
  BY DEF WorkStep, tables, Others, Stage, Running, Ingesting, VisibleJobs
<1>2. Stage(w)' \in Stages /\ Stage(w)' \notin Over \cup {"idle"} /\ Stage(w) \notin Over \cup {"idle"}
  BY DEF WorkStep, CallOK, CallRow, Stage, Running
<1>3. JobTypeOK'
  BY <1>1, <1>2 DEF JobIInv, Shape, JobTypeOK, WorkStep, tables, Others
<1>4. Shape'
  <2>1. ASSUME NEW v \in Workers PROVE CallOK(call[v])' /\ TxnOK(v)'
    <3>1. CASE v = w
      BY <3>1 DEF WorkStep
    <3>2. CASE v # w
      BY <1>1, <3>2 DEF JobIInv, Shape, TxnOK
    <3>. QED BY <3>1, <3>2
  <2>. QED BY <1>3, <2>1 DEF Shape
<1>5. RunningOverlap'
  BY <1>1 DEF JobIInv, RunningOverlap, WorkStep, tables
<1>6. Reported'
  <2>1. \A v \in Workers : StoredBy(v)' = StoredBy(v) /\ report'[v] = report[v]
    BY DEF StoredBy, WorkStep, tables
  <2>. QED BY <1>1, <1>2, <2>1 DEF JobIInv, Reported, Over
<1>7. \A row \in rows' : RowOK(row, jobs)'
  BY DEF JobIInv, WorkStep, tables, RowOK, Names
<1>8. \A v \in Workers \ {w} : FoundVisible(v)' /\ LinksOK(v)'
  BY <1>1 DEF JobIInv, FoundVisible, LinksOK, WorkStep, tables, RowOK, Names
<1>. QED BY <1>4, <1>5, <1>6, <1>7, <1>8

\* Where no job is inserted the rows, and what is known of them, stay as they are.
LEMMA SameJobsKeep ==
    ASSUME JobIInv, NEW w \in Workers, WorkStep(w), txn'[w].jobs = txn[w].jobs
    PROVE  /\ AllJobs' = AllJobs /\ VisibleJobs(w)' = VisibleJobs(w)
           /\ Twins' /\ \A v \in Workers \ {w} : NewContent(v)'
<1>1. \A v \in Workers : txn'[v].jobs = txn[v].jobs
  BY DEF WorkStep, Others
<1>2. AllJobs' = AllJobs /\ VisibleJobs(w)' = VisibleJobs(w)
  BY <1>1 DEF AllJobs, VisibleJobs, WorkStep, tables
<1>3. Twins'
  BY <1>2 DEF JobIInv, Twins, WorkStep, tables
<1>4. \A v \in Workers \ {w} : Stage(v)' = Stage(v) /\ Current(v)' = Current(v)
  BY DEF WorkStep, Others, Stage, Current, Ingesting
<1>5. \A v \in Workers \ {w} : NewContent(v)'
  BY <1>2, <1>4 DEF JobIInv, NewContent, WorkStep, tables
<1>. QED BY <1>2, <1>3, <1>5

LEMMA QuietIsWork ==
    ASSUME Shape, NEW w \in Workers, QuietStep(w)
    PROVE  WorkStep(w) /\ txn'[w].jobs = txn[w].jobs /\ txn'[w].rows = txn[w].rows
<1>1. PICK cs, keys, locks : /\ cs \subseteq CompanyRow
                             /\ txn'[w] = Txn(txn[w].jobs, cs, txn[w].rows, keys, locks)
  BY DEF QuietStep
<1>2. /\ txn'[w].jobs = txn[w].jobs /\ txn'[w].rows = txn[w].rows /\ txn'[w].keys = keys
      /\ txn'[w].companies = cs /\ txn'[w].locks = locks
  BY <1>1 DEF Txn
<1>3. TxnOK(w)'
  BY <1>1, <1>2 DEF Shape, TxnOK, QuietStep, Ingesting
<1>. QED BY <1>1, <1>2, <1>3 DEF QuietStep, WorkStep, Shape, JobTypeOK

LEMMA QuietKeeps ==
    ASSUME JobIInv, NEW w \in Workers, QuietStep(w)
    PROVE  JobIInv'
<1>1. WorkStep(w) /\ txn'[w].jobs = txn[w].jobs /\ txn'[w].rows = txn[w].rows
  BY QuietIsWork DEF JobIInv
<1>2. AllJobs' = AllJobs /\ VisibleJobs(w)' = VisibleJobs(w) /\ Twins'
  BY <1>1, SameJobsKeep
<1>3. NewContent(w)'
  <2>1. ASSUME Stage(w)' \in {"gateSource", "newSource", "insert"}
        PROVE  Stage(w) \in {"gateSource", "newSource"} /\ Current(w)' = Current(w)
    BY <2>1 DEF QuietStep, Current, Ingesting
  <2>. QED BY <1>2, <2>1 DEF JobIInv, NewContent, QuietStep, tables
<1>4. FoundVisible(w)'
  BY <1>2 DEF JobIInv, FoundVisible, QuietStep, tables, Running, Over
<1>5. LinksOK(w)'
  BY <1>1, <1>2 DEF JobIInv, LinksOK, QuietStep, tables, Names, RowOK, Stage
<1>. QED BY <1>1, <1>2, <1>3, <1>4, <1>5, WorkKeeps, SameJobsKeep DEF JobIInv

-----------------------------------------------------------------------------
\* Rows that w cannot read are of calls that run.
LEMMA UnseenOverlaps ==
    ASSUME JobIInv, NEW w \in Workers, Running(w), NEW j \in AllJobs \ VisibleJobs(w)
    PROVE  j.by # w /\ {j.by, w} \in overlap
<1>1. PICK v \in Workers : j \in txn[v].jobs /\ v # w
  BY DEF AllJobs, VisibleJobs
<1>2. j.by = v
  BY <1>1 DEF JobIInv, Shape, TxnOK
<1>3. Running(v)
  BY <1>1 DEF JobIInv, Shape, JobTypeOK, Running, EmptyTxn, Txn
<1>. QED BY <1>1, <1>2, <1>3 DEF JobIInv, RunningOverlap

LEMMA LookUpKeeps ==
    ASSUME JobIInv, Employers, NEW w \in Workers, LookUp(w)
    PROVE  JobIInv'
<1> DEFINE c == call[w]
           p == Current(w)
           same == Identical(VisibleJobs(w), p, c.company)
<1>1. /\ CallOK(c) /\ c \in CallRow /\ DOMAIN call = Workers /\ DOMAIN txn = Workers
      /\ c.stage = "lookup" /\ c.items # <<>> /\ Running(w)
      /\ Ingesting(w) => Disposition(Head(c.items)) \in Accepted
      /\ ~Ingesting(w) => c.kind = "discovery"
      /\ c.link = None
  BY DEF JobIInv, Shape, JobTypeOK, CallOK, LookUp, AtItem, Running, Stage, Over, Ingesting
<1>2. p \in Postings /\ (Ingesting(w) => Head(c.items) \in Records)
  BY <1>1, CurrentIsPosting
<1>3. UNCHANGED <<now, jobs, companies, rows, unique, report, txn, overlap>>
  BY DEF LookUp, tables
<1>3a. /\ \A j \in same : j \in VisibleJobs(w) /\ Matches(j, p)
       /\ same = {} => \A j \in VisibleJobs(w) : j.content # Post[p].content
  <2>1. c.company.domain = Post[p].domain /\ (c.company.domain = None => c.company.of = p)
    BY <1>1 DEF Employers, WellEmployed, EmployerOf, Stage
  <2>2. \A j \in VisibleJobs(w) : j.company.domain = None => j.url = Post[j.company.of].url
    BY DEF Employers, WellEmployed, Employed, VisibleJobs
  <2>. QED BY <2>1, <2>2, IdenticalMatches
\* What every case shows of the call that results.
<1> DEFINE Moved(d) == /\ CallOK(d) /\ d.stage \notin Over \cup {"idle"} /\ d.kind = c.kind
                       /\ d.new = c.new /\ call' = [call EXCEPT ![w] = d]
<1>4. ASSUME NEW d, Moved(d)
      PROVE  /\ WorkStep(w) /\ txn'[w].jobs = txn[w].jobs /\ call'[w] = d
             /\ AllJobs' = AllJobs /\ VisibleJobs(w)' = VisibleJobs(w)
  <2>1. call'[w] = d /\ DOMAIN call' = Workers /\ \A v \in Workers \ {w} : call'[v] = call[v]
    BY <1>1, <1>4
  <2>2. TxnOK(w)'
    BY <1>1, <1>3, <1>4, <2>1 DEF JobIInv, Shape, TxnOK, Running, Ingesting, Stage
  <2>3. WorkStep(w) /\ txn'[w].jobs = txn[w].jobs
    BY <1>1, <1>3, <1>4, <2>1, <2>2
       DEF WorkStep, tables, Others, JobIInv, Shape, JobTypeOK, Running, Stage, Over
  <2>. QED BY <2>1, <2>3, SameJobsKeep
<1>5. ASSUME NEW d, Moved(d), NewContent(w)', FoundVisible(w)', LinksOK(w)'
      PROVE  JobIInv'
  BY <1>4, <1>5, WorkKeeps, SameJobsKeep DEF JobIInv
<1>6. CASE same = {}
  <2> DEFINE d == Goto(c, IF Ingesting(w) THEN "gateSource" ELSE "insert")
  <2>1. /\ d.stage \in {"gateSource", "insert"} /\ d.kind = c.kind /\ d.new = c.new
        /\ d.items = c.items /\ d.found = c.found
    BY <1>1 DEF CallRow, Goto
  <2>2. CallOK(d)
    BY <1>1, <2>1 DEF CallOK, CallRow, Stages, AtItem, Stage4e, Goto, Ingesting
  <2>3. Moved(d)
    BY <1>6, <2>1, <2>2 DEF LookUp, Over
  <2>4. call'[w] = d /\ AllJobs' = AllJobs /\ VisibleJobs(w)' = VisibleJobs(w)
    BY <1>4, <2>3
  <2>5. \A j \in VisibleJobs(w) : j.content # Post[p].content
    BY <1>6, <1>3a
  <2>6. Current(w)' = p
    BY <2>1, <2>4 DEF Current, Ingesting
  <2>7. NewContent(w)'
    <3>1. ASSUME NEW j \in AllJobs, j.content = Post[p].content
          PROVE  j.by # w /\ {j.by, w} \in overlap
      BY <1>1, <2>5, <3>1, UnseenOverlaps
    <3>. QED BY <1>3, <2>4, <2>6, <3>1 DEF NewContent
  <2>8. FoundVisible(w)'
    BY <1>1, <2>1, <2>4 DEF JobIInv, FoundVisible, Stage, Over
  <2>9. LinksOK(w)'
    BY <1>3, <2>1, <2>4 DEF JobIInv, LinksOK, RowOK, Names, Stage
  <2>. QED BY <1>5, <2>3, <2>7, <2>8, <2>9
<1>7. CASE same # {}
  <2>1. PICK j \in same :
          call' = [call EXCEPT ![w] =
                     IF Ingesting(w) THEN [Stored(call[w], p) EXCEPT !.link = j.url, !.stage = "persist"]
                     ELSE [Drop(Stored(call[w], p)) EXCEPT !.duplicate = @ + 1]]
    BY <1>7 DEF LookUp
  <2>2. j \in VisibleJobs(w) /\ Matches(j, p) /\ j.url \in Urls
    <3>0. j \in same
      OBVIOUS
    <3> HIDE DEF same, p
    <3>1. j \in VisibleJobs(w) /\ Matches(j, p)
      BY <3>0, <1>3a
    <3>2. VisibleJobs(w) \subseteq JobRow
      BY DEF JobIInv, Shape, JobTypeOK, VisibleJobs
    <3>. QED BY <3>1, <3>2 DEF JobRow, Urls
  <2> DEFINE d == IF Ingesting(w) THEN Linked(c, p, j.url) ELSE Found(c, p)
  <2>3. call' = [call EXCEPT ![w] = d]
    BY <2>1 DEF Linked, Found
  <2>4. /\ CallOK(d) /\ d.kind = c.kind /\ d.new = c.new /\ d.found = c.found \cup {p}
        /\ d.stage \in {"persist", "source", "company"} /\ (d.stage = "persist" => Ingesting(w))
        /\ Ingesting(w) => d.items = c.items /\ d.link = j.url
    BY <1>1, <1>2, <2>2, ItemDone DEF Ingesting, After, Turned
  <2> HIDE DEF d
  <2>5. Moved(d)
    BY <2>3, <2>4 DEF Over
  <2>6. call'[w] = d /\ AllJobs' = AllJobs /\ VisibleJobs(w)' = VisibleJobs(w)
    BY <1>4, <2>5
  <2>7. NewContent(w)'
    BY <2>4, <2>6 DEF NewContent, Stage
  <2>8. FoundVisible(w)'
    BY <1>1, <2>2, <2>4, <2>6 DEF JobIInv, FoundVisible, Stage, Over
  <2>9. LinksOK(w)'
    <3>1. Ingesting(w) => p = Record[Head(c.items)].posting /\ Disposition(Head(c.items)) \in Accepted
      BY <1>1 DEF Current, Ingesting
    <3>. QED BY <1>3, <2>2, <2>4, <2>6, <3>1 DEF JobIInv, LinksOK, RowOK, Names, Stage
  <2>. QED BY <1>5, <2>5, <2>7, <2>8, <2>9
<1>. QED BY <1>6, <1>7

LEMMA CreateJobKeeps ==
    ASSUME JobIInv, Employers, NEW w \in Workers, CreateJob(w)
    PROVE  JobIInv'
<1> DEFINE c == call[w]
           p == Current(w)
           closesAt == IF Ingesting(w) THEN -1 ELSE Post[p].closesAt
           k == JobFor(p, c.company, closesAt, w)
           d == IF Ingesting(w) THEN Linked(c, p, Post[p].url) ELSE Added(c, p)
<1>1. /\ CallOK(c) /\ c \in CallRow /\ DOMAIN call = Workers /\ DOMAIN txn = Workers
      /\ c.stage = "insert" /\ c.items # <<>> /\ Running(w)
      /\ Ingesting(w) => Disposition(Head(c.items)) \in Accepted
      /\ ~Ingesting(w) => c.kind = "discovery"
      /\ c.link = None
      /\ txn[w] = Txn(txn[w].jobs, txn[w].companies, txn[w].rows, txn[w].keys, txn[w].locks)
      /\ IsFiniteSet(txn[w].jobs) /\ \A j \in txn[w].jobs : j.by = w
  BY DEF JobIInv, Shape, JobTypeOK, CallOK, CreateJob, AtItem, Running, Stage, Over, TxnOK, Ingesting
<1>2. p \in Postings /\ (Ingesting(w) => Head(c.items) \in Records)
  BY <1>1, CurrentIsPosting
<1>3. closesAt \in Int
  BY <1>2, PostingsOK
<1>4. /\ k \in JobRow /\ k.by = w /\ k.url = Post[p].url /\ k.content = Post[p].content
      /\ Matches(k, p)
  <2>1. c.company \in CompanyRow
    <3>1. c.company \in VisibleCompanies(w)
      BY <1>1 DEF Employers, WellEmployed, EmployerOf, Stage
    <3>. QED BY <3>1 DEF VisibleCompanies, JobIInv, Shape, JobTypeOK
  <2>. QED BY <1>2, <1>3, <2>1, JobForType DEF JobFor, Matches
<1>5. /\ UNCHANGED tables
      /\ call' = [call EXCEPT ![w] = d]
      /\ Write(w, {k}, {}, {}, Wants(w), {})
  BY <1>1 DEF CreateJob, Insert, Linked, Added
<1>6. /\ txn'[w] = Txn(txn[w].jobs \cup {k}, txn[w].companies \cup {}, txn[w].rows \cup {},
                       txn[w].keys \cup Wants(w), txn[w].locks \cup {})
      /\ DOMAIN txn' = Workers /\ \A v \in Workers \ {w} : txn'[v] = txn[v]
  BY <1>1, <1>5 DEF Write
<1>7. /\ txn'[w].jobs = txn[w].jobs \cup {k} /\ txn'[w].rows = txn[w].rows
      /\ txn'[w].companies = txn[w].companies
      /\ txn'[w] = Txn(txn'[w].jobs, txn'[w].companies, txn'[w].rows, txn'[w].keys, txn'[w].locks)
  BY <1>6, TxnParts
<1>8. /\ call'[w] = d /\ DOMAIN call' = Workers /\ \A v \in Workers \ {w} : call'[v] = call[v]
      /\ DOMAIN txn' = Workers /\ \A v \in Workers \ {w} : txn'[v] = txn[v]
  BY <1>1, <1>5, <1>6
<1>9. \A j \in AllJobs : j.content = k.content => j.by # w /\ {j.by, w} \in overlap
  BY <1>1, <1>4 DEF JobIInv, NewContent, Stage
<1>10. k \notin AllJobs /\ k \notin txn[w].jobs
  BY <1>4, <1>9 DEF AllJobs
<1>11. /\ d.kind = c.kind /\ d.new = (IF Ingesting(w) THEN c.new ELSE c.new + 1)
       /\ d.found = c.found \cup {p}
       /\ d.stage \in {"persist", "source", "company"} /\ (d.stage = "persist" => Ingesting(w))
       /\ Ingesting(w) => d.items = c.items /\ d.link = Post[p].url
       /\ CallOK(d)
  <2>1. Post[p].url \in Urls
    BY <1>2 DEF Urls
  <2>. QED BY <1>1, <1>2, <2>1, ItemDone DEF Ingesting, After, Turned
<1>12. TxnOK(w)'
  <2>1. /\ IsFiniteSet(txn[w].jobs \cup {k})
        /\ Cardinality(txn[w].jobs \cup {k}) = Cardinality(txn[w].jobs) + 1
    BY <1>1, <1>10, FS_AddElement
  <2>2. ~Ingesting(w) => Cardinality(txn[w].jobs) = c.new
    BY <1>1 DEF JobIInv, Shape, TxnOK
  <2>3. \A j \in txn'[w].jobs : j.by = w
    BY <1>1, <1>4, <1>7
  <2>4. Ingesting(w)' = Ingesting(w)
    BY <1>8, <1>11 DEF Ingesting
  <2>. QED BY <1>7, <1>8, <1>11, <2>1, <2>2, <2>3, <2>4 DEF TxnOK
<1>13. WorkStep(w)
  <2>1. Running(w)'
    BY <1>8, <1>11 DEF Running, Stage, Over
  <2>2. txn'[w].jobs \subseteq JobRow /\ txn'[w].rows \subseteq StoredRow
    BY <1>4, <1>7 DEF JobIInv, Shape, JobTypeOK
  <2>. QED BY <1>1, <1>5, <1>7, <1>8, <1>11, <1>12, <2>1, <2>2 DEF WorkStep, Others, JobIInv, Shape, JobTypeOK
<1>14. AllJobs' = AllJobs \cup {k} /\ VisibleJobs(w)' = VisibleJobs(w) \cup {k}
  BY <1>5, <1>7, <1>8 DEF tables, AllJobs, VisibleJobs
<1>15. Twins'
  <2>1. ASSUME NEW i \in AllJobs', NEW j \in AllJobs', i.content = j.content, i # j
        PROVE  i.by # j.by /\ {i.by, j.by} \in overlap
    <3>1. CASE i = k
      BY <1>4, <1>9, <1>14, <2>1, <3>1
    <3>2. CASE j = k
      <4>1. i.by # w /\ {i.by, w} \in overlap
        BY <1>9, <1>14, <2>1, <3>2
      <4>. QED BY <1>4, <3>2, <4>1
    <3>3. CASE i # k /\ j # k
      BY <1>14, <2>1, <3>3 DEF JobIInv, Twins
    <3>. QED BY <3>1, <3>2, <3>3
  <2>. QED BY <1>5, <2>1 DEF Twins, tables
<1>16. \A v \in Workers : NewContent(v)'
  <2>1. NewContent(w)'
    BY <1>8, <1>11 DEF NewContent, Stage
  <2>2. ASSUME NEW v \in Workers \ {w} PROVE NewContent(v)'
    <3>1. Stage(v)' = Stage(v) /\ Current(v)' = Current(v)
      BY <1>8 DEF Stage, Current, Ingesting
    <3>2. Stage(v) \in {"gateSource", "newSource", "insert"} => {w, v} \in overlap
      BY <1>1 DEF JobIInv, RunningOverlap, Running, Over
    <3>. QED BY <1>4, <1>5, <1>14, <2>2, <3>1, <3>2 DEF JobIInv, NewContent, tables
  <2>. QED BY <2>1, <2>2
<1>17. FoundVisible(w)'
  BY <1>1, <1>4, <1>5, <1>8, <1>11, <1>14 DEF JobIInv, FoundVisible, Stage, Over, tables
<1>18. LinksOK(w)'
  <2>1. Stage(w)' = "persist" => Names(Head(d.items), d.link, VisibleJobs(w)')
    <3>1. Stage(w)' = "persist" => Ingesting(w)
      BY <1>8, <1>11 DEF Stage
    <3>2. Ingesting(w) => p = Record[Head(d.items)].posting /\ Disposition(Head(d.items)) \in Accepted
      BY <1>1, <1>11 DEF Current, Ingesting
    <3>3. Ingesting(w) => k \in VisibleJobs(w)' /\ k.url = d.link
      BY <1>4, <1>11, <1>14
    <3>. QED BY <1>4, <3>1, <3>2, <3>3 DEF Names
  <2>2. \A row \in txn[w].rows : RowOK(row, VisibleJobs(w))
    BY DEF JobIInv, LinksOK
  <2>3. \A row \in txn[w].rows : RowOK(row, VisibleJobs(w)')
    BY <1>14, <2>2 DEF RowOK, Names
  <2>. QED BY <1>7, <1>8, <2>1, <2>3 DEF LinksOK, RowOK, Names
<1>. QED BY <1>13, <1>15, <1>16, <1>17, <1>18, WorkKeeps DEF JobIInv

LEMMA PersistRowKeeps ==
    ASSUME JobIInv, NEW w \in Workers, PersistRow(w)
    PROVE  JobIInv'
<1> DEFINE c == call[w]
           r == Head(c.items)
           row == [record |-> r, status |-> Disposition(r), job |-> c.link]
           d == [c EXCEPT !.items = Tail(@), !.company = None, !.link = None, !.stage = "record"]
<1>1. /\ CallOK(c) /\ c \in CallRow /\ DOMAIN call = Workers /\ DOMAIN txn = Workers
      /\ c.stage = "persist" /\ c.items # <<>> /\ Running(w) /\ c.kind = "ingestion"
      /\ c.items \in Seq(Records)
  BY DEF JobIInv, Shape, JobTypeOK, CallOK, PersistRow, AtItem, Stage4e, Running, Stage, Over
<1>2. r \in Records /\ Tail(c.items) \in Seq(Records)
  BY <1>1, HeadAndTail
<1>3. /\ UNCHANGED tables
      /\ call' = [call EXCEPT ![w] = d]
      /\ Write(w, {}, {}, {row}, Wants(w), {})
  BY <1>1 DEF PersistRow, Insert
<1>4. /\ call'[w] = d /\ DOMAIN call' = Workers /\ \A v \in Workers \ {w} : call'[v] = call[v]
      /\ DOMAIN txn' = Workers /\ \A v \in Workers \ {w} : txn'[v] = txn[v]
  BY <1>1, <1>3 DEF Write
<1>5. /\ txn'[w].jobs = txn[w].jobs /\ txn'[w].rows = txn[w].rows \cup {row}
      /\ txn'[w].companies = txn[w].companies
      /\ txn'[w] = Txn(txn'[w].jobs, txn'[w].companies, txn'[w].rows, txn'[w].keys, txn'[w].locks)
  <2>1. txn'[w] = Txn(txn[w].jobs \cup {}, txn[w].companies \cup {}, txn[w].rows \cup {row},
                      txn[w].keys \cup Wants(w), txn[w].locks \cup {})
    BY <1>1, <1>3 DEF Write
  <2>. QED BY <2>1, TxnParts
<1>6. d.kind = "ingestion" /\ d.stage = "record" /\ d.found = c.found /\ d.items = Tail(c.items)
      /\ d.link = None
  BY <1>1 DEF CallRow
<1>7. CallOK(d)
  <2>1. d.items \in Seq(Postings \cup Records)
    BY <1>2, <1>6
  <2>2. d \in CallRow
    BY <1>1, <1>6, <2>1 DEF CallRow, Stages
  <2>. QED BY <1>2, <1>6, <2>2 DEF CallOK, AtItem
<1>8. row \in StoredRow
  BY <1>1, <1>2, DispositionType DEF StoredRow, CallRow, Urls
<1>9. Running(w)' /\ Ingesting(w)'
  BY <1>4, <1>6 DEF Running, Ingesting, Stage, Over
<1>10. TxnOK(w)'
  BY <1>4, <1>5, <1>9 DEF JobIInv, Shape, TxnOK
<1>11. WorkStep(w)
  BY <1>1, <1>3, <1>4, <1>5, <1>6, <1>7, <1>8, <1>9, <1>10
     DEF WorkStep, tables, Others, JobIInv, Shape, JobTypeOK
<1>12. AllJobs' = AllJobs /\ VisibleJobs(w)' = VisibleJobs(w)
  BY <1>5, <1>11, SameJobsKeep
<1>13. NewContent(w)'
  BY <1>4, <1>6 DEF NewContent, Stage
<1>14. FoundVisible(w)'
  BY <1>1, <1>3, <1>4, <1>6, <1>12 DEF JobIInv, FoundVisible, Stage, Over, tables
<1>15. LinksOK(w)'
  <2>1. RowOK(row, VisibleJobs(w))
    BY <1>1, <1>2 DEF JobIInv, LinksOK, RowOK, Stage
  <2>2. \A s \in txn[w].rows : RowOK(s, VisibleJobs(w))
    BY DEF JobIInv, LinksOK
  <2>3. \A s \in txn'[w].rows : RowOK(s, VisibleJobs(w)')
    BY <1>5, <1>12, <2>1, <2>2
  <2>. QED BY <1>4, <1>6, <2>3 DEF LinksOK, RowOK, Names, Stage
<1>. QED BY <1>5, <1>11, <1>12, <1>13, <1>14, <1>15, WorkKeeps, SameJobsKeep DEF JobIInv

\* A call that is over is about nothing.
LEMMA EndedType ==
    ASSUME NEW stage \in Over, NEW found \in SUBSET Postings
    PROVE  LET c == Ended(stage, found)
           IN  CallOK(c) /\ c.stage = stage /\ c.found = found /\ c.items = <<>>
<1> DEFINE n == NewCall(None, stage, <<>>, <<>>)
           c == Ended(stage, found)
<1>1. <<>> \in Seq(DOMAIN Feed) /\ <<>> \in Seq(Postings \cup Records) /\ <<>> \in Seq(Postings) /\ <<>> \in Seq(Records)
  OBVIOUS
<1>2. n \in CallRow /\ n.kind = None /\ n.stage = stage /\ n.items = <<>> /\ n.link = None
  BY <1>1 DEF NewCall, CallRow, Stages
<1>3. c = [n EXCEPT !.found = found]
  BY DEF Ended
<1> HIDE DEF n, c
<1>4. /\ c \in CallRow /\ c.kind = None /\ c.stage = stage /\ c.items = <<>> /\ c.link = None
      /\ c.found = found
  BY <1>2, <1>3 DEF CallRow
<1>5. CallOK(c)
  BY <1>1, <1>4 DEF CallOK, AtItem, Stage4e, Over
<1>. QED BY <1>4, <1>5 DEF c

\* A call that is rolled back takes with it what it inserted.
LEMMA RollBackKeeps ==
    ASSUME JobIInv, NEW w \in Workers, Running(w), RollBack(w)
    PROVE  JobIInv'
<1>1. /\ CallOK(call[w]) /\ call[w] \in CallRow /\ DOMAIN call = Workers /\ DOMAIN txn = Workers
  BY DEF JobIInv, Shape, JobTypeOK, CallOK
<1>2. /\ UNCHANGED <<now, jobs, companies, rows, unique, report, overlap>>
      /\ call'[w] = Ended("rolledBack", {}) /\ txn'[w] = EmptyTxn
      /\ DOMAIN call' = Workers /\ DOMAIN txn' = Workers
      /\ \A v \in Workers \ {w} : call'[v] = call[v] /\ txn'[v] = txn[v]
  BY <1>1 DEF RollBack, tables
<1>3. /\ call'[w].stage = "rolledBack" /\ call'[w].found = {} /\ CallOK(call'[w])
      /\ txn'[w].jobs = {} /\ txn'[w].rows = {} /\ txn'[w].companies = {}
  BY <1>2, EndedType DEF EmptyTxn, Txn, Over
<1>4. \A v \in Workers \ {w} : /\ Stage(v)' = Stage(v) /\ Running(v)' = Running(v)
                               /\ Ingesting(v)' = Ingesting(v) /\ Current(v)' = Current(v)
                               /\ VisibleJobs(v)' = VisibleJobs(v)
  BY <1>2 DEF Stage, Running, Ingesting, Current, VisibleJobs
<1>5. ~Running(w)' /\ Stage(w)' = "rolledBack" /\ VisibleJobs(w)' = jobs
  BY <1>2, <1>3 DEF Running, Stage, Over, VisibleJobs
<1>6. AllJobs' \subseteq AllJobs
  BY <1>2, <1>3 DEF AllJobs
<1>7. Shape'
  <2>1. JobTypeOK'
    BY <1>2, <1>3, <1>4, <1>5 DEF JobIInv, Shape, JobTypeOK, Stages, Over
  <2>2. TxnOK(w)'
    BY <1>2, <1>3, <1>5, FS_EmptySet DEF TxnOK, EmptyTxn, Txn
  <2>3. \A v \in Workers \ {w} : CallOK(call[v])' /\ TxnOK(v)'
    BY <1>2, <1>4 DEF JobIInv, Shape, TxnOK
  <2>. QED BY <1>3, <2>1, <2>2, <2>3 DEF Shape
<1>8. RunningOverlap'
  BY <1>2, <1>4, <1>5 DEF JobIInv, RunningOverlap
<1>9. Twins'
  BY <1>2, <1>6 DEF JobIInv, Twins
<1>10. Reported'
  <2>1. \A v \in Workers : StoredBy(v)' = StoredBy(v)
    BY <1>2 DEF StoredBy
  <2>2. Stage(w) # "committed"
    BY DEF Running, Over
  <2>. QED BY <1>2, <1>4, <1>5, <2>1, <2>2 DEF JobIInv, Reported
<1>11. ASSUME NEW v \in Workers PROVE NewContent(v)' /\ FoundVisible(v)' /\ LinksOK(v)'
  <2>1. CASE v = w
    BY <1>3, <1>5, <2>1 DEF NewContent, FoundVisible, LinksOK
  <2>2. CASE v # w
    <3>1. NewContent(v)'
      BY <1>2, <1>4, <1>6, <2>2 DEF JobIInv, NewContent
    <3>2. FoundVisible(v)'
      BY <1>2, <1>4, <2>2 DEF JobIInv, FoundVisible
    <3>3. LinksOK(v)'
      BY <1>2, <1>4, <2>2 DEF JobIInv, LinksOK, RowOK, Names
    <3>. QED BY <3>1, <3>2, <3>3
  <2>. QED BY <2>1, <2>2
<1>12. \A row \in rows' : RowOK(row, jobs)'
  BY <1>2 DEF JobIInv, RowOK, Names
<1>. QED BY <1>7, <1>8, <1>9, <1>10, <1>11, <1>12 DEF JobIInv

\* A call begins: it overlaps every call that runs.
LEMMA BeginKeeps ==
    ASSUME JobIInv, NEW w \in Workers, NEW c, Begin(w, c), CallOK(c), c.found = {}, c.new = 0,
           c.stage \in {"source", "record"}
    PROVE  JobIInv'
<1>1. /\ DOMAIN call = Workers /\ DOMAIN txn = Workers /\ Stage(w) = "idle" /\ txn[w] = EmptyTxn
  BY DEF JobIInv, Shape, JobTypeOK, Begin
<1>2. /\ UNCHANGED <<now, jobs, companies, rows, unique, report, txn>>
      /\ call'[w] = c /\ DOMAIN call' = Workers /\ \A v \in Workers \ {w} : call'[v] = call[v]
      /\ overlap \subseteq overlap'
      /\ \A v \in Workers : Running(v) => {w, v} \in overlap'
      /\ overlap' \subseteq SUBSET Workers
  BY <1>1 DEF Begin, JobIInv, Shape, JobTypeOK
<1>3. \A v \in Workers \ {w} : /\ Stage(v)' = Stage(v) /\ Running(v)' = Running(v)
                               /\ Ingesting(v)' = Ingesting(v) /\ Current(v)' = Current(v)
  BY <1>2 DEF Stage, Running, Ingesting, Current
<1>4. Running(w)' /\ Stage(w)' = c.stage /\ AllJobs' = AllJobs
      /\ \A v \in Workers : VisibleJobs(v)' = VisibleJobs(v)
  BY <1>2 DEF Running, Stage, Over, AllJobs, VisibleJobs
<1>5. Shape'
  <2>1. JobTypeOK'
    BY <1>2, <1>3, <1>4 DEF JobIInv, Shape, JobTypeOK, Stages, Over
  <2>2. TxnOK(w)'
    BY <1>1, <1>2, FS_EmptySet DEF JobIInv, Shape, TxnOK, EmptyTxn, Txn
  <2>3. \A v \in Workers \ {w} : CallOK(call[v])' /\ TxnOK(v)'
    BY <1>2, <1>3 DEF JobIInv, Shape, TxnOK
  <2>. QED BY <1>2, <2>1, <2>2, <2>3 DEF Shape
<1>6. RunningOverlap'
  <2>1. ASSUME NEW u \in Workers, NEW v \in Workers, Running(u)', Running(v)', u # v
        PROVE  {u, v} \in overlap'
    <3>1. CASE u = w
      BY <1>2, <1>3, <2>1, <3>1
    <3>2. CASE v = w
      <4>1. {w, u} \in overlap'
        BY <1>2, <1>3, <2>1, <3>2
      <4>2. {u, v} = {w, u}
        BY <3>2
      <4>. QED BY <4>1, <4>2
    <3>3. CASE u # w /\ v # w
      BY <1>2, <1>3, <2>1, <3>3 DEF JobIInv, RunningOverlap
    <3>. QED BY <3>1, <3>2, <3>3
  <2>. QED BY <2>1 DEF RunningOverlap
<1>7. Twins'
  BY <1>2, <1>4 DEF JobIInv, Twins
<1>8. Reported'
  <2>1. \A v \in Workers : StoredBy(v)' = StoredBy(v)
    BY <1>2 DEF StoredBy
  <2>. QED BY <1>1, <1>2, <1>3, <1>4, <2>1 DEF JobIInv, Reported
<1>9. ASSUME NEW v \in Workers PROVE NewContent(v)' /\ FoundVisible(v)' /\ LinksOK(v)'
  <2>1. CASE v = w
    <3>1. txn'[w].rows = {}
      BY <1>1, <1>2 DEF EmptyTxn, Txn
    <3>. QED BY <1>2, <1>4, <2>1, <3>1 DEF NewContent, FoundVisible, LinksOK
  <2>2. CASE v # w
    <3>1. NewContent(v)'
      BY <1>2, <1>3, <1>4, <2>2 DEF JobIInv, NewContent
    <3>2. FoundVisible(v)'
      BY <1>2, <1>3, <1>4, <2>2 DEF JobIInv, FoundVisible
    <3>3. LinksOK(v)'
      BY <1>2, <1>3, <1>4, <2>2 DEF JobIInv, LinksOK, RowOK, Names
    <3>. QED BY <3>1, <3>2, <3>3
  <2>. QED BY <2>1, <2>2
<1>10. \A row \in rows' : RowOK(row, jobs)'
  BY <1>2 DEF JobIInv, RowOK, Names
<1>. QED BY <1>5, <1>6, <1>7, <1>8, <1>9, <1>10 DEF JobIInv

LEMMA TickKeeps == ASSUME JobIInv, Tick PROVE JobIInv'
<1>1. now' \in 0..MaxTime /\ UNCHANGED <<jobs, companies, rows, report, call, txn, overlap>>
  BY JobStoreOK DEF Tick, JobIInv, Shape, JobTypeOK
<1>2. \A w \in Workers : /\ Stage(w)' = Stage(w) /\ Running(w)' = Running(w)
                         /\ Ingesting(w)' = Ingesting(w) /\ Current(w)' = Current(w)
                         /\ VisibleJobs(w)' = VisibleJobs(w) /\ StoredBy(w)' = StoredBy(w)
  BY <1>1 DEF Stage, Running, Ingesting, Current, VisibleJobs, StoredBy
<1>3. Shape'
  BY <1>1, <1>2 DEF JobIInv, Shape, JobTypeOK, TxnOK
<1>4. RunningOverlap' /\ Reported'
  BY <1>1, <1>2 DEF JobIInv, RunningOverlap, Reported
<1>5. AllJobs' = AllJobs
  BY <1>1 DEF AllJobs
<1>6. Twins' /\ \A w \in Workers : NewContent(w)' /\ FoundVisible(w)' /\ LinksOK(w)'
  BY <1>1, <1>2, <1>5 DEF JobIInv, Twins, NewContent, FoundVisible, LinksOK, RowOK, Names
<1>7. \A row \in rows' : RowOK(row, jobs)'
  BY <1>1 DEF JobIInv, RowOK, Names
<1>. QED BY <1>3, <1>4, <1>6, <1>7 DEF JobIInv


-----------------------------------------------------------------------------
\* Rows of one call have contents of their own, so nothing that keeps the content of
\* rows makes fewer of them.
LEMMA OneCallsRows ==
    ASSUME Twins, NEW S \in SUBSET AllJobs, IsFiniteSet(S), \A i, j \in S : i.by = j.by,
           NEW g, \A j \in S : SameJob(j, g[j])
    PROVE  LET T == {g[j] : j \in S} IN IsFiniteSet(T) /\ Cardinality(T) = Cardinality(S)
<1> DEFINE T == {g[j] : j \in S}
           f == [j \in S |-> g[j]]
<1>1. f \in [S -> T]
  OBVIOUS
<1>2. f \in Surjection(S, T)
  BY <1>1 DEF Surjection
<1>3. ASSUME NEW i \in S, NEW j \in S, g[i] = g[j] PROVE i = j
  <2>1. SameJob(i, g[i]) /\ SameJob(j, g[i])
    BY <1>3
  <2>2. i.content = j.content /\ i.by = j.by
    BY <2>1 DEF SameJob
  <2>. QED BY <2>2 DEF Twins
<1>4. f \in Injection(S, T)
  BY <1>1, <1>3 DEF Injection, IsInjective
<1>. QED BY <1>2, <1>4, FS_Surjection

\* The jobs as w commits them: those that it expired have another status.
Aged(w) ==
    [j \in VisibleJobs(w) |->
       IF <<"job", j.url>> \in txn[w].locks THEN [j EXCEPT !.status = "expired"] ELSE j]

LEMMA UpdatedType ==
    ASSUME Shape, NEW w \in Workers
    PROVE  /\ \A j \in VisibleJobs(w) : Aged(w)[j] \in JobRow /\ SameJob(j, Aged(w)[j])
           /\ Updated(w) = {Aged(w)[j] : j \in VisibleJobs(w)}
<1>1. VisibleJobs(w) \subseteq JobRow
  BY DEF Shape, JobTypeOK, VisibleJobs
<1>2. ASSUME NEW j \in JobRow
      PROVE  [j EXCEPT !.status = "expired"] \in JobRow /\ SameJob(j, [j EXCEPT !.status = "expired"])
             /\ SameJob(j, j)
  BY DEF JobRow, SameJob
<1>. QED BY <1>1, <1>2 DEF Aged, Updated

\* A commit makes one row of none: rows that differ after it differed before.
LEMMA CommitKeepsApart ==
    ASSUME JobIInv, NEW w \in Workers, Running(w), NEW result, Commit(w, result),
           NEW i \in AllJobs', NEW j \in AllJobs', i # j
    PROVE  \E a, b \in AllJobs : SameJob(a, i) /\ SameJob(b, j) /\ a # b
<1> DEFINE V == VisibleJobs(w)
           g == Aged(w)
           Pending(k) == \E v \in Workers \ {w} : k \in txn[v].jobs
<1>1. /\ \A k \in V : SameJob(k, g[k])
      /\ jobs' = {g[k] : k \in V}
  BY UpdatedType DEF JobIInv, Commit
<1> HIDE DEF g
<1>2. /\ DOMAIN txn = Workers /\ txn'[w].jobs = {}
      /\ \A v \in Workers \ {w} : txn'[v] = txn[v]
  BY DEF JobIInv, Shape, JobTypeOK, Commit, EmptyTxn, Txn
<1>3. \A k \in AllJobs' : Pending(k) \/ \E a \in V : k = g[a]
  BY <1>1, <1>2 DEF AllJobs
<1>4. V \subseteq AllJobs /\ \A k : Pending(k) => k \in AllJobs
  BY DEF AllJobs, VisibleJobs
<1>5. ASSUME NEW k, Pending(k), NEW a \in V PROVE a # k
  <2>1. PICK v \in Workers \ {w} : k \in txn[v].jobs
    BY <1>5
  <2>2. k.by = v /\ k \notin txn[w].jobs
    BY <2>1 DEF JobIInv, Shape, TxnOK
  <2>3. Stage(v) # "committed"
    BY <2>1 DEF JobIInv, Shape, JobTypeOK, EmptyTxn, Txn, Over
  <2>4. k \notin jobs
    BY <2>2, <2>3 DEF JobIInv, Reported, StoredBy
  <2>. QED BY <2>2, <2>4 DEF VisibleJobs
<1>6. \A k : SameJob(k, k)
  BY DEF SameJob
<1>7. CASE Pending(i) /\ Pending(j)
  BY <1>4, <1>6, <1>7
<1>8. ASSUME NEW a \in V, i = g[a], Pending(j) PROVE SameJob(a, i) /\ SameJob(j, j) /\ a # j
  BY <1>1, <1>5, <1>6, <1>8
<1>9. ASSUME NEW b \in V, j = g[b], Pending(i) PROVE SameJob(i, i) /\ SameJob(b, j) /\ i # b
  BY <1>1, <1>5, <1>6, <1>9
<1>10. ASSUME NEW a \in V, i = g[a], NEW b \in V, j = g[b] PROVE SameJob(a, i) /\ SameJob(b, j) /\ a # b
  BY <1>1, <1>10
<1>. QED BY <1>3, <1>4, <1>7, <1>8, <1>9, <1>10

\* The end of a call: its rows join the table, some with another status.
LEMMA CommitKeeps ==
    ASSUME JobIInv, NEW w \in Workers, Running(w), NEW result, Commit(w, result),
           result # None => result.new = call[w].new /\ ~Ingesting(w)
    PROVE  JobIInv'
<1> DEFINE V == VisibleJobs(w)
           g == Aged(w)
<1>0. /\ \A j \in V : g[j] \in JobRow /\ SameJob(j, g[j])
      /\ jobs' = {g[j] : j \in V}
  BY UpdatedType DEF JobIInv, Commit
<1> HIDE DEF g
<1>1. /\ CallOK(call[w]) /\ call[w] \in CallRow /\ DOMAIN call = Workers /\ DOMAIN txn = Workers
      /\ DOMAIN report = Workers /\ Stage(w) \notin Over
      /\ jobs \subseteq JobRow /\ \A v \in Workers : txn[v].jobs \subseteq JobRow
  BY DEF JobIInv, Shape, JobTypeOK, CallOK, Running
<1>2. /\ UNCHANGED <<now, overlap>>
      /\ jobs' = {g[j] : j \in V} /\ rows' = rows \cup txn[w].rows
      /\ companies' = VisibleCompanies(w)
      /\ call'[w] = Ended("committed", call[w].found) /\ txn'[w] = EmptyTxn /\ report'[w] = result
      /\ DOMAIN call' = Workers /\ DOMAIN txn' = Workers /\ DOMAIN report' = Workers
      /\ \A v \in Workers \ {w} : call'[v] = call[v] /\ txn'[v] = txn[v] /\ report'[v] = report[v]
  BY <1>0, <1>1 DEF Commit
<1>3. /\ call'[w].stage = "committed" /\ call'[w].found = call[w].found /\ CallOK(call'[w])
      /\ txn'[w].jobs = {} /\ txn'[w].rows = {}
  <2>1. call[w].found \in SUBSET Postings
    BY <1>1 DEF CallRow
  <2>. QED BY <1>2, <2>1, EndedType DEF EmptyTxn, Txn, Over
<1>4. \A v \in Workers \ {w} : /\ Stage(v)' = Stage(v) /\ Running(v)' = Running(v)
                               /\ Ingesting(v)' = Ingesting(v) /\ Current(v)' = Current(v)
  BY <1>2 DEF Stage, Running, Ingesting, Current
<1>5. ~Running(w)' /\ Stage(w)' = "committed" /\ VisibleJobs(w)' = jobs'
  BY <1>2, <1>3 DEF Running, Stage, Over, VisibleJobs
<1>6. \A j \in V : \E k \in jobs' : SameJob(j, k)
  BY <1>0
<1>7. \A v \in Workers \ {w} : \A j \in VisibleJobs(v) : \E k \in VisibleJobs(v)' : SameJob(j, k)
  BY <1>2, <1>6 DEF VisibleJobs, SameJob
<1>8. \A k \in AllJobs' : \E j \in AllJobs : SameJob(j, k)
  BY <1>0, <1>2, <1>3 DEF AllJobs, VisibleJobs, SameJob
<1>9. Shape'
  <2>1. jobs' \subseteq JobRow /\ companies' \subseteq CompanyRow /\ rows' \subseteq StoredRow
    BY <1>0, <1>2 DEF JobIInv, Shape, JobTypeOK, VisibleCompanies
  <2>2. \A v \in Workers : /\ Stage(v)' \in Stages
                           /\ txn'[v].jobs \subseteq JobRow /\ txn'[v].companies \subseteq CompanyRow
                           /\ txn'[v].rows \subseteq StoredRow
                           /\ Stage(v)' \in Over \cup {"idle"} => txn'[v] = EmptyTxn
    BY <1>2, <1>3, <1>4, <1>5 DEF JobIInv, Shape, JobTypeOK, Stages, Over, EmptyTxn, Txn
  <2>3. JobTypeOK'
    BY <1>2, <2>1, <2>2 DEF JobIInv, Shape, JobTypeOK
  <2>4. TxnOK(w)'
    BY <1>2, <1>3, <1>5, FS_EmptySet DEF TxnOK, EmptyTxn, Txn
  <2>5. \A v \in Workers \ {w} : CallOK(call[v])' /\ TxnOK(v)'
    BY <1>2, <1>4 DEF JobIInv, Shape, TxnOK
  <2>. QED BY <1>3, <2>3, <2>4, <2>5 DEF Shape
<1>10. RunningOverlap'
  BY <1>2, <1>4, <1>5 DEF JobIInv, RunningOverlap
<1>12. Twins'
  <2>1. ASSUME NEW i \in AllJobs', NEW j \in AllJobs', i.content = j.content, i # j
        PROVE  i.by # j.by /\ {i.by, j.by} \in overlap
    <3>1. PICK a \in AllJobs, b \in AllJobs : SameJob(a, i) /\ SameJob(b, j) /\ a # b
      BY <2>1, CommitKeepsApart
    <3>. QED BY <2>1, <3>1 DEF JobIInv, Twins, SameJob
  <2>. QED BY <1>2, <2>1 DEF Twins
<1>13. Reported'
  <2>1. ASSUME NEW v \in Workers
        PROVE  LET S == IF v = w THEN txn[w].jobs ELSE StoredBy(v)
               IN  StoredBy(v)' = {g[j] : j \in S} /\ IsFiniteSet(StoredBy(v)')
                   /\ Cardinality(StoredBy(v)') = Cardinality(S)
    <3> DEFINE S == IF v = w THEN txn[w].jobs ELSE StoredBy(v)
    <3>1. StoredBy(w) = {}
      BY <1>1 DEF JobIInv, Reported, Over
    <3>2. \A j \in txn[w].jobs : j.by = w
      BY DEF JobIInv, Shape, TxnOK
    <3>3. S = {j \in V : j.by = v}
      BY <3>1, <3>2 DEF StoredBy, VisibleJobs
    <3>4. StoredBy(v)' = {g[j] : j \in S}
      <4>1. \A j \in V : g[j].by = j.by
        BY <1>0 DEF SameJob
      <4>. QED BY <1>0, <3>3, <4>1 DEF StoredBy
    <3>5. IsFiniteSet(S)
      BY DEF JobIInv, Shape, TxnOK, Reported
    <3>6. S \subseteq AllJobs /\ \A j \in S : SameJob(j, g[j])
      BY <1>0, <3>3 DEF AllJobs, VisibleJobs
    <3>7. \A i, j \in S : i.by = j.by
      BY <3>3
    <3> HIDE DEF S
    <3>8. IsFiniteSet({g[j] : j \in S}) /\ Cardinality({g[j] : j \in S}) = Cardinality(S)
      BY <3>5, <3>6, <3>7, OneCallsRows DEF JobIInv
    <3>. QED BY <3>4, <3>8 DEF S
  <2>2. /\ IsFiniteSet(StoredBy(w)')
        /\ report'[w] # None => Stage(w)' = "committed" /\ Cardinality(StoredBy(w)') = report'[w].new
    <3>1. IsFiniteSet(StoredBy(w)') /\ Cardinality(StoredBy(w)') = Cardinality(txn[w].jobs)
      BY <2>1
    <3>2. ~Ingesting(w) => Cardinality(txn[w].jobs) = call[w].new
      BY DEF JobIInv, Shape, TxnOK
    <3>. QED BY <1>2, <1>5, <3>1, <3>2
  <2>3. ASSUME NEW v \in Workers \ {w}
        PROVE  /\ IsFiniteSet(StoredBy(v)')
               /\ report'[v] # None =>
                    Stage(v)' = "committed" /\ Cardinality(StoredBy(v)') = report'[v].new
               /\ Stage(v)' # "committed" => StoredBy(v)' = {}
    <3>1. /\ IsFiniteSet(StoredBy(v)') /\ StoredBy(v)' = {g[j] : j \in StoredBy(v)}
          /\ Cardinality(StoredBy(v)') = Cardinality(StoredBy(v))
      BY <2>1
    <3>. QED BY <1>2, <1>4, <3>1 DEF JobIInv, Reported
  <2>. QED BY <1>5, <2>2, <2>3 DEF Reported
<1>14. ASSUME NEW v \in Workers PROVE NewContent(v)' /\ FoundVisible(v)' /\ LinksOK(v)'
  <2>1. CASE v = w
    <3>1. \A p \in call[w].found : \E j \in V : Matches(j, p)
      BY DEF JobIInv, FoundVisible
    <3>2. \A p \in call[w].found : \E k \in jobs' : Matches(k, p)
      BY <1>6, <3>1, SameMatches
    <3>3. FoundVisible(v)'
      BY <1>2, <1>3, <1>5, <2>1, <3>2 DEF FoundVisible
    <3>. QED BY <1>3, <1>5, <2>1, <3>3 DEF NewContent, LinksOK
  <2>2. CASE v # w
    <3>1. NewContent(v)'
      <4> SUFFICES ASSUME Stage(v) \in {"gateSource", "newSource", "insert"}, NEW k \in AllJobs',
                          k.content = Post[Current(v)].content
                   PROVE  k.by # v /\ {k.by, v} \in overlap
        BY <1>2, <1>4, <2>2 DEF NewContent
      <4>1. PICK j \in AllJobs : SameJob(j, k)
        BY <1>8
      <4>2. j.by # v /\ {j.by, v} \in overlap
        BY <4>1 DEF JobIInv, NewContent, SameJob
      <4>. QED BY <4>1, <4>2 DEF SameJob
    <3>2. FoundVisible(v)'
      <4>1. Running(v) => \A p \in call[v].found : \E j \in VisibleJobs(v) : Matches(j, p)
        BY DEF JobIInv, FoundVisible
      <4>2. Running(v) => \A p \in call[v].found : \E k \in VisibleJobs(v)' : Matches(k, p)
        BY <1>7, <2>2, <4>1, SameMatches
      <4>3. Stage(v) = "committed" => \A p \in call[v].found : \E j \in jobs : Matches(j, p)
        BY DEF JobIInv, FoundVisible
      <4>4. Stage(v) = "committed" => \A p \in call[v].found : \E k \in jobs' : Matches(k, p)
        BY <1>6, <4>3, SameMatches DEF VisibleJobs
      <4>. QED BY <1>2, <1>4, <2>2, <4>2, <4>4 DEF FoundVisible
    <3>3. LinksOK(v)'
      <4>1. /\ Stage(v) = "persist" => Names(Head(call[v].items), call[v].link, VisibleJobs(v)')
            /\ \A row \in txn[v].rows : RowOK(row, VisibleJobs(v)')
        BY <1>7, <2>2, NamesKept DEF JobIInv, LinksOK, RowOK
      <4>. QED BY <1>2, <1>4, <2>2, <4>1 DEF LinksOK, RowOK, Names
    <3>. QED BY <3>1, <3>2, <3>3
  <2>. QED BY <2>1, <2>2
<1>15. \A row \in rows' : RowOK(row, jobs)'
  <2>1. \A row \in rows' : RowOK(row, V) \/ RowOK(row, jobs)
    BY <1>2 DEF JobIInv, LinksOK
  <2>2. \A row \in rows' : RowOK(row, V)
    BY <2>1 DEF RowOK, Names, VisibleJobs
  <2>3. \A row \in rows' : RowOK(row, jobs')
    BY <1>6, <2>2, NamesKept DEF RowOK
  <2>. QED BY <2>3 DEF RowOK, Names
<1>. QED BY <1>9, <1>10, <1>12, <1>13, <1>14, <1>15 DEF JobIInv

LEMMA FinishesKeep ==
    ASSUME JobIInv, NEW w \in Workers, FinishDiscovery(w) \/ FinishIngestion(w)
    PROVE  JobIInv'
<1>1. CASE FinishDiscovery(w)
  <2>1. Running(w) /\ ~Ingesting(w)
    BY <1>1 DEF FinishDiscovery, Running, Over, JobIInv, Shape, CallOK, Ingesting, Stage
  <2>. QED BY <1>1, <2>1, CommitKeeps DEF FinishDiscovery
<1>2. CASE FinishIngestion(w)
  <2>1. Running(w)
    BY <1>2 DEF FinishIngestion, Running, Over
  <2>. QED BY <1>2, <2>1, CommitKeeps DEF FinishIngestion
<1>. QED BY <1>1, <1>2

-----------------------------------------------------------------------------
\* The invariant holds at the start and is kept by every step.
LEMMA JobIInvInit == ASSUME JobInit PROVE JobIInv
<1> DEFINE c == NewCall(None, "idle", <<>>, <<>>)
<1>1. \A w \in Workers : call[w] = c /\ txn[w] = EmptyTxn /\ report[w] = None
  BY DEF JobInit
<1>2. CallOK(c)
  <2>1. <<>> \in Seq(DOMAIN Feed) /\ <<>> \in Seq(Postings \cup Records) /\ <<>> \in Seq(Postings) /\ <<>> \in Seq(Records)
    OBVIOUS
  <2>2. c \in CallRow
    BY <2>1 DEF NewCall, CallRow, Stages
  <2>. QED BY <2>1, <2>2 DEF NewCall, CallOK, AtItem, Stage4e
<1>3. c.stage = "idle" /\ c.found = {} /\ c.new = 0
  BY DEF NewCall
<1>4. \A w \in Workers : Stage(w) = "idle" /\ ~Running(w)
  BY <1>1, <1>3 DEF Stage, Running
<1>5. JobTypeOK
  BY <1>1, <1>4, JobStoreOK DEF JobInit, JobTypeOK, EmptyTxn, Txn, Stages
<1>6. ASSUME NEW w \in Workers PROVE TxnOK(w)
  <2>1. txn[w] = Txn({}, {}, {}, {}, {})
    BY <1>1 DEF EmptyTxn
  <2>2. txn[w] = Txn(txn[w].jobs, txn[w].companies, txn[w].rows, txn[w].keys, txn[w].locks)
        /\ txn[w].jobs = {}
    BY <2>1, TxnParts
  <2>. QED BY <1>4, <2>2, FS_EmptySet DEF TxnOK
<1>7. AllJobs = {} /\ \A w \in Workers : StoredBy(w) = {}
  BY <1>1 DEF JobInit, AllJobs, EmptyTxn, Txn, StoredBy
<1>8. Reported
  BY <1>1, <1>7, FS_EmptySet DEF Reported
<1>9. \A w \in Workers : NewContent(w) /\ FoundVisible(w) /\ LinksOK(w)
  BY <1>1, <1>4 DEF NewContent, FoundVisible, LinksOK, EmptyTxn, Txn
<1>. QED BY <1>1, <1>2, <1>4, <1>5, <1>6, <1>7, <1>8, <1>9
         DEF JobInit, JobIInv, Shape, RunningOverlap, Twins

\* Whoever is to insert or to update a row runs.
LEMMA WaitersRun ==
    ASSUME NEW w \in Workers, Wants(w) # {}
    PROVE  Running(w)
BY DEF Wants, Running, Over

LEMMA JobIInvNext == ASSUME JobIInv, Employers, [JobNext]_jobVars PROVE JobIInv'
<1>1. CASE Tick
  BY <1>1, TickKeeps
<1>2. ASSUME NEW w \in Workers, BeginDiscovery(w) \/ BeginIngestion(w)
      PROVE  JobIInv'
  <2>1. ASSUME NEW order \in SourceOrders, Begin(w, NewCall("discovery", "source", order, <<>>))
        PROVE  JobIInv'
    <3> DEFINE c == NewCall("discovery", "source", order, <<>>)
    <3>1. order \in Seq(DOMAIN Feed) /\ <<>> \in Seq(Postings) /\ <<>> \in Seq(Postings \cup Records)
      BY JobStoreOK
    <3>2. CallOK(c)
      BY <3>1 DEF NewCall, CallRow, CallOK, Stages, AtItem, Stage4e
    <3>3. c.found = {} /\ c.new = 0 /\ c.stage = "source"
      BY DEF NewCall
    <3> HIDE DEF c
    <3>. QED BY <2>1, <3>2, <3>3, BeginKeeps DEF c
  <2>2. ASSUME NEW e \in Envelopes, Begin(w, NewCall("ingestion", "record", <<>>, e))
        PROVE  JobIInv'
    <3> DEFINE c == NewCall("ingestion", "record", <<>>, e)
    <3>1. e \in Seq(Records) /\ <<>> \in Seq(DOMAIN Feed)
      BY JobStoreOK
    <3>2. e \in Seq(Postings \cup Records)
      BY <3>1
    <3>3. CallOK(c)
      BY <3>1, <3>2 DEF NewCall, CallRow, CallOK, Stages, AtItem, Stage4e
    <3>4. c.found = {} /\ c.new = 0 /\ c.stage = "record"
      BY DEF NewCall
    <3> HIDE DEF c
    <3>. QED BY <2>2, <3>3, <3>4, BeginKeeps DEF c
  <2>. QED BY <1>2, <2>1, <2>2 DEF BeginDiscovery, BeginIngestion
<1>3. ASSUME NEW w \in Workers, CutOff(w) \/ Violate(w) \/ BreakDeadlock(w)
      PROVE  JobIInv'
  <2>1. Deadlocked(w) \/ Conflicts(w) => Running(w)
    BY WaitersRun DEF Deadlocked, Conflicts, WaitsFor
  <2>. QED BY <1>3, <2>1, RollBackKeeps DEF CutOff, Violate, BreakDeadlock
<1>4. ASSUME NEW w \in Workers, Step(w), ~Violate(w), ~BreakDeadlock(w)
      PROVE  JobIInv'
  BY <1>4, ActionsAreQuiet, QuietKeeps, LookUpKeeps, CreateJobKeeps, PersistRowKeeps,
     FinishesKeep DEF Step, JobIInv
<1>5. CASE UNCHANGED jobVars
  <2>1. \A w \in Workers : /\ Stage(w)' = Stage(w) /\ Running(w)' = Running(w)
                           /\ Ingesting(w)' = Ingesting(w) /\ Current(w)' = Current(w)
                           /\ VisibleJobs(w)' = VisibleJobs(w) /\ StoredBy(w)' = StoredBy(w)
    BY <1>5 DEF jobVars, Stage, Running, Ingesting, Current, VisibleJobs, StoredBy
  <2>2. AllJobs' = AllJobs
    BY <1>5 DEF jobVars, AllJobs
  <2>3. Shape' /\ RunningOverlap' /\ Reported'
    BY <1>5, <2>1 DEF jobVars, JobIInv, Shape, JobTypeOK, TxnOK, RunningOverlap, Reported
  <2>4. Twins' /\ \A w \in Workers : NewContent(w)' /\ FoundVisible(w)' /\ LinksOK(w)'
    <3>1. Twins'
      BY <1>5, <2>2 DEF jobVars, JobIInv, Twins
    <3>2. \A w \in Workers : NewContent(w)'
      BY <1>5, <2>1, <2>2 DEF jobVars, JobIInv, NewContent
    <3>3. \A w \in Workers : FoundVisible(w)' /\ LinksOK(w)'
      BY <1>5, <2>1 DEF jobVars, JobIInv, FoundVisible, LinksOK, RowOK, Names
    <3>. QED BY <3>1, <3>2, <3>3
  <2>5. \A row \in rows' : RowOK(row, jobs)'
    BY <1>5 DEF jobVars, JobIInv, RowOK, Names
  <2>. QED BY <2>3, <2>4, <2>5 DEF JobIInv
<1>. QED BY <1>1, <1>2, <1>3, <1>4, <1>5 DEF JobNext

-----------------------------------------------------------------------------
\* Companies: an employer's id is the key of one row, and two companies of one domain are
\* made by calls that overlap.
Given == {"lookup", "insert", "gateSource", "newSource"}

LEMMA EmployersInit == ASSUME JobInit PROVE Employers
<1>1. \A w \in Workers : /\ Stage(w) = "idle" /\ ~Running(w)
                         /\ txn[w].jobs = {} /\ txn[w].companies = {}
  BY DEF JobInit, NewCall, EmptyTxn, Txn, Stage, Running
<1>2. AllJobs = {} /\ AllCompanies = {} /\ jobs = {}
  BY <1>1 DEF JobInit, AllJobs, AllCompanies
<1>. QED BY <1>1, <1>2 DEF Employers, WellEmployed, Rivals, OneOfId, EmployerOf

\* A step that stores neither a job nor a company, and turns no call to another company.
PlainStep ==
    /\ UNCHANGED <<jobs, companies, unique>> /\ overlap \subseteq overlap'
    /\ \A v \in Workers :
         /\ txn'[v].jobs = txn[v].jobs /\ txn'[v].companies = txn[v].companies
         /\ txn[v].keys \subseteq txn'[v].keys
         /\ Running(v)' => \/ call'[v].employers = {}
                           \/ Running(v) /\ call'[v].employers = call[v].employers
         /\ Stage(v)' \in Given => /\ Stage(v) \in Given /\ call'[v].company = call[v].company
                                   /\ Current(v)' = Current(v)

LEMMA PlainKeeps == ASSUME Employers, PlainStep PROVE Employers'
<1>1. AllJobs' = AllJobs /\ AllCompanies' = AllCompanies
  BY DEF PlainStep, AllJobs, AllCompanies
<1>2. \A v \in Workers : VisibleCompanies(v)' = VisibleCompanies(v)
  BY DEF PlainStep, VisibleCompanies
<1>3. Rivals' /\ OneOfId'
  BY <1>1 DEF PlainStep, Employers, Rivals, OneOfId
<1>4. \A j \in jobs' : Employed(j, companies') /\ IdKeys(j) \subseteq unique'
  BY DEF PlainStep, Employers
<1>5. ASSUME NEW v \in Workers PROVE WellEmployed(v)'
  <2>1. EmployerOf(v)'
    BY <1>2 DEF PlainStep, Employers, WellEmployed, EmployerOf, Given
  <2>2. Running(v)' => call'[v].employers \subseteq VisibleCompanies(v)'
    BY <1>2 DEF PlainStep, Employers, WellEmployed
  <2>3. \A c \in txn'[v].companies : c.by = v
    BY DEF PlainStep, Employers, WellEmployed
  <2>4. \A j \in txn'[v].jobs : Employed(j, VisibleCompanies(v)') /\ IdKeys(j) \subseteq txn'[v].keys
    BY <1>2 DEF PlainStep, Employers, WellEmployed
  <2>. QED BY <2>1, <2>2, <2>3, <2>4 DEF WellEmployed, Employed, IdKeys
<1>. QED BY <1>3, <1>4, <1>5 DEF Employers, Employed, IdKeys

\* Where only w's call and transaction change, the others are as they were.
LEMMA OthersAsBefore ==
    ASSUME NEW w \in Workers, Others(w), NEW v \in Workers \ {w}
    PROVE  /\ txn'[v] = txn[v] /\ call'[v] = call[v] /\ Stage(v)' = Stage(v)
           /\ Running(v)' = Running(v) /\ Current(v)' = Current(v)
BY DEF Others, Stage, Running, Current, Ingesting

LEMMA StepsArePlain ==
    ASSUME JobIInv, NEW w \in Workers,
           VisitSource(w) \/ SkipClosed(w) \/ LookUp(w) \/ NextRecord(w) \/ FindGateSource(w)
           \/ CreateGateSource(w) \/ PersistRow(w) \/ MarkExpired(w)
    PROVE  PlainStep
<1> DEFINE c == call[w]
           t == txn[w]
<1>1. /\ CallOK(c) /\ c \in CallRow /\ DOMAIN call = Workers /\ DOMAIN txn = Workers
      /\ t = Txn(t.jobs, t.companies, t.rows, t.keys, t.locks) /\ Stage(w) = c.stage
  BY DEF JobIInv, Shape, JobTypeOK, CallOK, TxnOK, Stage
<1>2. ASSUME NEW d, call' = [call EXCEPT ![w] = d], d.employers = c.employers, Running(w),
             d.stage \in Given => c.stage \in Given /\ d.company = c.company /\ d.items = c.items
                                  /\ d.kind = c.kind,
             txn'[w].jobs = t.jobs, txn'[w].companies = t.companies, t.keys \subseteq txn'[w].keys,
             DOMAIN txn' = Workers, \A v \in Workers \ {w} : txn'[v] = txn[v], UNCHANGED tables
      PROVE  PlainStep
  <2>1. call'[w] = d /\ Others(w)
    BY <1>1, <1>2 DEF Others
  <2>2. d.stage \in Given => Current(w)' = Current(w)
    BY <1>2, <2>1 DEF Current, Ingesting
  <2>3. UNCHANGED <<jobs, companies, unique>> /\ overlap \subseteq overlap'
    BY <1>2 DEF tables
  <2>4. ASSUME NEW v \in Workers
        PROVE  /\ txn'[v].jobs = txn[v].jobs /\ txn'[v].companies = txn[v].companies
               /\ txn[v].keys \subseteq txn'[v].keys
               /\ Running(v)' => \/ call'[v].employers = {}
                                 \/ Running(v) /\ call'[v].employers = call[v].employers
               /\ Stage(v)' \in Given => /\ Stage(v) \in Given /\ call'[v].company = call[v].company
                                         /\ Current(v)' = Current(v)
    <3>1. CASE v = w
      BY <1>1, <1>2, <2>1, <2>2, <3>1 DEF Stage
    <3>2. CASE v # w
      BY <2>1, <3>2, OthersAsBefore
    <3>. QED BY <3>1, <3>2
  <2>. QED BY <2>3, <2>4 DEF PlainStep
<1> DEFINE Kept == /\ txn'[w].jobs = t.jobs /\ txn'[w].companies = t.companies /\ t.keys \subseteq txn'[w].keys
                   /\ DOMAIN txn' = Workers /\ \A v \in Workers \ {w} : txn'[v] = txn[v]
<1>3. UNCHANGED txn => Kept
  BY <1>1
<1>4. ASSUME NEW rs, NEW ks, NEW ls, Write(w, {}, {}, rs, ks, ls)
      PROVE  Kept
  <2>1. /\ txn'[w] = Txn(t.jobs \cup {}, t.companies \cup {}, t.rows \cup rs, t.keys \cup ks, t.locks \cup ls)
        /\ DOMAIN txn' = Workers /\ \A v \in Workers \ {w} : txn'[v] = txn[v]
    BY <1>1, <1>4 DEF Write
  <2>. QED BY <2>1, TxnParts
<1>6. ASSUME NEW e \in CallRow, NEW page
      PROVE  /\ AtPage(e, page).employers = e.employers
             /\ AtPage(e, page).stage \in {"source", "company"}
  BY DEF AtPage, CallRow
<1>7. CASE VisitSource(w)
  <2>1. PICK page : call' = [call EXCEPT ![w] = AtPage([c EXCEPT !.sources = Tail(@)], page)]
    BY <1>7 DEF VisitSource
  <2> DEFINE e == [c EXCEPT !.sources = Tail(@)]
             d == AtPage(e, page)
  <2>2. e \in CallRow /\ e.employers = c.employers
    <3>1. c.sources \in Seq(DOMAIN Feed) /\ c.sources # <<>>
      BY <1>1, <1>7 DEF VisitSource, CallRow
    <3>. QED BY <1>1, <3>1, HeadAndTail DEF CallRow
  <2> HIDE DEF e
  <2>3. d.employers = c.employers /\ d.stage \in {"source", "company"}
    BY <1>6, <2>2
  <2>4. call' = [call EXCEPT ![w] = d]
    BY <2>1 DEF e
  <2> HIDE DEF d
  <2>5. Running(w) /\ Kept /\ UNCHANGED tables
    BY <1>4, <1>7 DEF VisitSource, Running, Over
  <2>. QED BY <1>2, <2>3, <2>4, <2>5 DEF Given
<1>8. CASE SkipClosed(w)
  <2> DEFINE d == AtPage(c, Tail(c.items))
  <2>1. call' = [call EXCEPT ![w] = d] /\ Running(w) /\ UNCHANGED tables /\ UNCHANGED txn
    BY <1>8 DEF SkipClosed, Drop, Running, Over
  <2>2. d.employers = c.employers /\ d.stage \in {"source", "company"}
    BY <1>1, <1>6
  <2> HIDE DEF d
  <2>. QED BY <1>2, <1>3, <2>1, <2>2 DEF Given
<1>9. CASE LookUp(w)
  <2> DEFINE p == Current(w)
  <2>1. Running(w) /\ UNCHANGED tables /\ UNCHANGED txn /\ c.stage = "lookup"
    BY <1>1, <1>9 DEF LookUp, Running, Over
  <2>2. PICK d : /\ call' = [call EXCEPT ![w] = d] /\ d.employers = c.employers
                 /\ d.stage \in Given => d.company = c.company /\ d.items = c.items /\ d.kind = c.kind
    <3>1. CASE \E stage : call' = [call EXCEPT ![w] = Goto(@, stage)]
      <4>1. PICK stage : call' = [call EXCEPT ![w] = Goto(c, stage)]
        BY <3>1
      <4>2. /\ Goto(c, stage).employers = c.employers /\ Goto(c, stage).company = c.company
            /\ Goto(c, stage).items = c.items /\ Goto(c, stage).kind = c.kind
        BY <1>1 DEF Goto, CallRow
      <4>. QED BY <4>1, <4>2
    <3>2. CASE \E u : call' = [call EXCEPT ![w] = Linked(c, p, u)]
      <4>1. \A u : Linked(c, p, u).employers = c.employers /\ Linked(c, p, u).stage = "persist"
        BY <1>1 DEF Linked, Stored, CallRow
      <4>. QED BY <3>2, <4>1 DEF Given
    <3>3. CASE call' = [call EXCEPT ![w] = Found(c, p)]
      <4>1. Found(c, p).employers = c.employers /\ Found(c, p).stage \in {"source", "company"}
        BY <1>1 DEF Found, Drop, AtPage, Stored, CallRow
      <4>. QED BY <3>3, <4>1 DEF Given
    <3>. QED BY <1>9, <3>1, <3>2, <3>3 DEF LookUp, Linked, Found
  <2>. QED BY <1>2, <1>3, <2>1, <2>2 DEF Given
<1>10. CASE NextRecord(w)
  <2> DEFINE r == Head(c.items)
             d == IF <<"record", r>> \in VisibleKeys(w) THEN [c EXCEPT !.items = Tail(@)]
                  ELSE Goto(c, IF Disposition(r) \in Accepted THEN "company" ELSE "persist")
  <2>1. call' = [call EXCEPT ![w] = d] /\ Running(w) /\ UNCHANGED tables /\ UNCHANGED txn /\ c.stage = "record"
    BY <1>1, <1>10 DEF NextRecord, VisibleKeys, Running, Over
  <2>2. d.employers = c.employers /\ d.stage \in {"record", "company", "persist"}
    BY <1>1, <2>1 DEF Goto, CallRow
  <2> HIDE DEF d
  <2>. QED BY <1>2, <1>3, <2>1, <2>2 DEF Given
<1>11. CASE FindGateSource(w)
  <2>1. PICK stage : call' = [call EXCEPT ![w] = Goto(c, stage)]
    BY <1>11 DEF FindGateSource
  <2>2. Running(w) /\ UNCHANGED tables /\ UNCHANGED txn /\ c.stage = "gateSource"
    BY <1>1, <1>11 DEF FindGateSource, Running, Over
  <2>3. /\ Goto(c, stage).employers = c.employers /\ Goto(c, stage).company = c.company
        /\ Goto(c, stage).items = c.items /\ Goto(c, stage).kind = c.kind
    BY <1>1 DEF Goto, CallRow
  <2>. QED BY <1>2, <1>3, <2>1, <2>2, <2>3 DEF Given
<1>12. CASE CreateGateSource(w)
  <2> DEFINE d == Goto(c, "insert")
  <2>1. /\ call' = [call EXCEPT ![w] = d] /\ Running(w) /\ UNCHANGED tables /\ c.stage = "newSource"
        /\ Write(w, {}, {}, {}, Wants(w), {})
    BY <1>1, <1>12 DEF CreateGateSource, Insert, Running, Over
  <2>2. d.employers = c.employers /\ d.company = c.company /\ d.items = c.items /\ d.kind = c.kind
    BY <1>1 DEF Goto, CallRow
  <2> HIDE DEF d
  <2>3. Kept
    BY <1>4, <2>1
  <2>. QED BY <1>2, <2>1, <2>2, <2>3 DEF Given
<1>13. CASE PersistRow(w)
  <2> DEFINE d == [c EXCEPT !.items = Tail(@), !.company = None, !.link = None, !.stage = "record"]
  <2>1. PICK rs : /\ call' = [call EXCEPT ![w] = d] /\ Running(w) /\ UNCHANGED tables
                  /\ Write(w, {}, {}, rs, Wants(w), {})
    BY <1>1, <1>13 DEF PersistRow, Insert, Running, Over
  <2>2. d.employers = c.employers /\ d.stage = "record"
    BY <1>1 DEF CallRow
  <2> HIDE DEF d
  <2>3. Kept
    BY <1>4, <2>1
  <2>. QED BY <1>2, <2>1, <2>2, <2>3 DEF Given
<1>14. CASE MarkExpired(w)
  <2> DEFINE d == Goto(c, "finish")
  <2>1. /\ call' = [call EXCEPT ![w] = d] /\ Running(w) /\ UNCHANGED tables
        /\ Kept
    BY <1>4, <1>14 DEF MarkExpired, Running, Over
  <2>2. d.employers = c.employers /\ d.stage = "finish"
    BY <1>1 DEF Goto, CallRow
  <2> HIDE DEF d
  <2>. QED BY <1>2, <2>1, <2>2 DEF Given
<1>. QED BY <1>7, <1>8, <1>9, <1>10, <1>11, <1>12, <1>13, <1>14

\* The other calls are none the worse for a step that takes no company away.
LEMMA OthersEmploy ==
    ASSUME Employers, NEW w \in Workers, Others(w), companies \subseteq companies',
           NEW v \in Workers \ {w}
    PROVE  WellEmployed(v)'
<1>1. /\ txn'[v] = txn[v] /\ call'[v] = call[v] /\ Stage(v)' = Stage(v)
      /\ Running(v)' = Running(v) /\ Current(v)' = Current(v)
  BY OthersAsBefore
<1>2. VisibleCompanies(v) \subseteq VisibleCompanies(v)'
  BY <1>1 DEF VisibleCompanies
<1>3. EmployerOf(v)'
  BY <1>1, <1>2 DEF Employers, WellEmployed, EmployerOf
<1>. QED BY <1>1, <1>2, <1>3 DEF Employers, WellEmployed, Employed, IdKeys

\* A company that w cannot read is of a call that runs.
LEMMA UnseenRivals ==
    ASSUME JobIInv, Employers, NEW w \in Workers, Running(w),
           NEW d \in AllCompanies \ VisibleCompanies(w)
    PROVE  d.by # w /\ {d.by, w} \in overlap
<1>1. PICK v \in Workers : d \in txn[v].companies /\ v # w
  BY DEF AllCompanies, VisibleCompanies
<1>2. d.by = v
  BY <1>1 DEF Employers, WellEmployed
<1>3. Running(v)
  BY <1>1 DEF JobIInv, Shape, JobTypeOK, Running, EmptyTxn, Txn
<1>. QED BY <1>1, <1>2, <1>3 DEF JobIInv, RunningOverlap

LEMMA FindCompanyEmploys ==
    ASSUME JobIInv, Employers, NEW w \in Workers, FindCompany(w)
    PROVE  Employers'
<1> DEFINE c == call[w]
           t == txn[w]
           p == Current(w)
           known == KnownCompanies(w, Post[p].domain)
<1>1. /\ CallOK(c) /\ c \in CallRow /\ DOMAIN call = Workers /\ DOMAIN txn = Workers
      /\ t = Txn(t.jobs, t.companies, t.rows, t.keys, t.locks) /\ c.stage = "company"
      /\ Running(w) /\ p \in Postings
  <2>1. c.stage = "company" /\ c.items # <<>> /\ CallOK(c)
    BY DEF JobIInv, Shape, CallOK, FindCompany, AtItem, Stage
  <2>. QED BY <2>1, CurrentIsPosting
           DEF JobIInv, Shape, JobTypeOK, TxnOK, CallOK, Running, Over, Stage
<1>2. PICK company \in IF known = {} THEN {Company(p, w)} ELSE known :
        /\ call' = [call EXCEPT ![w] = Employ(c, company)]
        /\ IF known # {} THEN UNCHANGED txn ELSE Write(w, {}, {company}, {}, {}, {})
  BY DEF FindCompany
<1>3. /\ Employ(c, company).stage = "lookup" /\ Employ(c, company).company = company
      /\ Employ(c, company).items = c.items /\ Employ(c, company).kind = c.kind
      /\ Employ(c, company).employers \subseteq c.employers \cup {company}
  BY <1>1 DEF Employ, CallRow
<1>4. /\ UNCHANGED tables /\ Others(w) /\ call'[w] = Employ(c, company)
      /\ txn'[w].jobs = t.jobs /\ txn'[w].keys = t.keys
      /\ txn'[w].companies = IF known # {} THEN t.companies ELSE t.companies \cup {company}
  <2>1. DOMAIN call' = Workers /\ call'[w] = Employ(c, company) /\ UNCHANGED tables
        /\ \A v \in Workers \ {w} : call'[v] = call[v]
    BY <1>1, <1>2 DEF FindCompany
  <2>2. CASE known # {}
    BY <1>1, <1>2, <2>1, <2>2 DEF Others
  <2>3. CASE known = {}
    <3>1. /\ txn'[w] = Txn(t.jobs \cup {}, t.companies \cup {company}, t.rows \cup {}, t.keys \cup {}, t.locks \cup {})
          /\ DOMAIN txn' = Workers /\ \A v \in Workers \ {w} : txn'[v] = txn[v]
      BY <1>1, <1>2, <2>3 DEF Write
    <3>2. txn'[w].jobs = t.jobs /\ txn'[w].keys = t.keys /\ txn'[w].companies = t.companies \cup {company}
      BY <3>1, TxnParts
    <3>. QED BY <2>1, <2>3, <3>1, <3>2 DEF Others
  <2>. QED BY <2>2, <2>3
<1>5. \A v \in Workers \ {w} : txn'[v] = txn[v]
  BY <1>4 DEF Others
<1>6. VisibleCompanies(w)' = VisibleCompanies(w) \cup {company}
      /\ AllCompanies' = AllCompanies \cup {company}
      /\ company.domain = Post[p].domain /\ (company.domain = None => company.of = p)
      /\ \/ company \in AllCompanies
         \/ company.by = w /\ known = {}
  <2>1. CASE known # {}
    <3>1. company \in VisibleCompanies(w) /\ company.domain = Post[p].domain /\ company.domain # None
      BY <1>1, <1>2, <2>1 DEF KnownCompanies, Employers, WellEmployed
    <3>2. VisibleCompanies(w)' = VisibleCompanies(w) /\ AllCompanies' = AllCompanies
      BY <1>4, <1>5, <2>1 DEF VisibleCompanies, AllCompanies, tables
    <3>3. company \in AllCompanies
      BY <3>1 DEF VisibleCompanies, AllCompanies
    <3>. QED BY <3>1, <3>2, <3>3
  <2>2. CASE known = {}
    <3>1. company = Company(p, w)
      BY <1>2, <2>2
    <3>2. company.domain = Post[p].domain /\ company.by = w /\ company.of = p
      BY <1>1, <3>1, CompanyType
    <3>3. VisibleCompanies(w)' = VisibleCompanies(w) \cup {company}
          /\ AllCompanies' = AllCompanies \cup {company}
      BY <1>4, <1>5, <2>2 DEF VisibleCompanies, AllCompanies, tables
    <3>. QED BY <2>2, <3>2, <3>3
  <2>. QED BY <2>1, <2>2
<1>7. Rivals'
  <2>1. ASSUME known = {}, company.by = w, NEW d \in AllCompanies, d.domain = company.domain, d.domain # None
        PROVE  d.by # w /\ {d.by, w} \in overlap
    <3>1. d \notin VisibleCompanies(w)
      BY <1>6, <2>1 DEF KnownCompanies
    <3>. QED BY <1>1, <2>1, <3>1, UnseenRivals
  <2>2. ASSUME NEW e \in AllCompanies', NEW d \in AllCompanies', e.domain = d.domain, e.domain # None, e # d
        PROVE  e.by # d.by /\ {e.by, d.by} \in overlap
    <3>1. CASE e \in AllCompanies /\ d \in AllCompanies
      BY <2>2, <3>1 DEF Employers, Rivals
    <3>2. CASE e \notin AllCompanies
      <4>1. e = company /\ company.by = w /\ known = {} /\ d \in AllCompanies
        BY <1>6, <2>2, <3>2
      <4>2. d.by # w /\ {d.by, w} \in overlap
        BY <2>1, <2>2, <4>1
      <4>3. {w, d.by} = {d.by, w}
        OBVIOUS
      <4>. QED BY <4>1, <4>2, <4>3
    <3>3. CASE d \notin AllCompanies
      <4>1. d = company /\ company.by = w /\ known = {} /\ e \in AllCompanies
        BY <1>6, <2>2, <3>3
      <4>. QED BY <2>1, <2>2, <4>1
    <3>. QED BY <3>1, <3>2, <3>3
  <2>. QED BY <1>4, <2>2 DEF Rivals, tables
<1>8. OneOfId'
  <2>1. AllJobs' = AllJobs
    BY <1>4, <1>5 DEF AllJobs, tables
  <2>. QED BY <2>1 DEF Employers, OneOfId, IdKeys
<1>9. \A j \in jobs' : Employed(j, companies') /\ IdKeys(j) \subseteq unique'
  BY <1>4 DEF Employers, tables
<1>10. WellEmployed(w)'
  <2>1. Current(w)' = p
    BY <1>3, <1>4 DEF Current, Ingesting
  <2>2. EmployerOf(w)'
    BY <1>3, <1>4, <1>6, <2>1 DEF EmployerOf
  <2>3. call'[w].employers \subseteq VisibleCompanies(w)'
    BY <1>1, <1>3, <1>4, <1>6 DEF Employers, WellEmployed
  <2>4. \A d \in txn'[w].companies : d.by = w
    <3>1. CASE known = {}
      <4>1. company.by = w
        BY <1>1, <1>2, <3>1, CompanyType
      <4>. QED BY <1>4, <3>1, <4>1 DEF Employers, WellEmployed
    <3>2. CASE known # {}
      BY <1>4, <3>2 DEF Employers, WellEmployed
    <3>. QED BY <3>1, <3>2
  <2>5. \A j \in txn'[w].jobs : Employed(j, VisibleCompanies(w)') /\ IdKeys(j) \subseteq txn'[w].keys
    BY <1>4, <1>6 DEF Employers, WellEmployed, Employed
  <2>. QED BY <2>2, <2>3, <2>4, <2>5 DEF WellEmployed, Employed, IdKeys
<1>11. \A v \in Workers \ {w} : WellEmployed(v)'
  BY <1>4, OthersEmploy DEF tables
<1>. QED BY <1>7, <1>8, <1>9, <1>10, <1>11 DEF Employers, Employed, IdKeys

\* Nobody holds the employer's id of the row that is inserted.
LEMMA CreateJobEmploys ==
    ASSUME JobIInv, Employers, NEW w \in Workers, CreateJob(w)
    PROVE  Employers'
<1> DEFINE c == call[w]
           t == txn[w]
           p == Current(w)
           closesAt == IF Ingesting(w) THEN -1 ELSE Post[p].closesAt
           k == JobFor(p, c.company, closesAt, w)
           d == IF Ingesting(w) THEN Linked(c, p, Post[p].url) ELSE Added(c, p)
<1>1. /\ c \in CallRow /\ DOMAIN call = Workers /\ DOMAIN txn = Workers
      /\ t = Txn(t.jobs, t.companies, t.rows, t.keys, t.locks) /\ Stage(w) = "insert" /\ Running(w)
  BY DEF JobIInv, Shape, JobTypeOK, TxnOK, CallOK, CreateJob, Running, Over
<1>2. /\ UNCHANGED tables /\ Free(w)
      /\ call' = [call EXCEPT ![w] = d]
      /\ Write(w, {k}, {}, {}, Wants(w), {})
  BY <1>1 DEF CreateJob, Insert, Linked, Added
<1>3. /\ txn'[w] = Txn(t.jobs \cup {k}, t.companies \cup {}, t.rows \cup {}, t.keys \cup Wants(w), t.locks \cup {})
      /\ DOMAIN txn' = Workers /\ \A v \in Workers \ {w} : txn'[v] = txn[v]
  BY <1>1, <1>2 DEF Write
<1>4. /\ txn'[w].jobs = t.jobs \cup {k} /\ txn'[w].companies = t.companies
      /\ txn'[w].keys = t.keys \cup Wants(w)
  BY <1>3, TxnParts
<1>5. d.employers = c.employers /\ d.stage \in {"persist", "source", "company"}
  BY <1>1 DEF Linked, Added, Stored, Drop, AtPage, CallRow
<1>6. Others(w) /\ call'[w] = d
  BY <1>1, <1>2, <1>3 DEF Others
<1> HIDE DEF d
<1>7. /\ k.company = c.company /\ k.url = Post[p].url /\ k.externalId = Post[p].externalId
      /\ IdKeys(k) \subseteq Wants(w)
  BY <1>1 DEF JobFor, IdKeys, Wants, JobKeys, Stage
<1>8. Employed(k, VisibleCompanies(w))
  BY <1>1, <1>7 DEF Employers, WellEmployed, EmployerOf, Employed
<1> HIDE DEF k
<1>9. VisibleCompanies(w)' = VisibleCompanies(w) /\ AllCompanies' = AllCompanies
      /\ AllJobs' = AllJobs \cup {k}
  BY <1>2, <1>4, <1>6 DEF VisibleCompanies, AllCompanies, AllJobs, Others, tables
<1>10. Rivals'
  BY <1>2, <1>9 DEF Employers, Rivals, tables
<1>11. OneOfId'
  <2>1. \A j \in AllJobs : IdKeys(j) \cap Wants(w) = {}
    <3>1. \A j \in jobs : IdKeys(j) \cap Wants(w) = {}
      BY <1>2 DEF Employers, Free, Conflicts, VisibleKeys
    <3>2. \A j \in txn[w].jobs : IdKeys(j) \cap Wants(w) = {}
      BY <1>2 DEF Employers, WellEmployed, Free, Conflicts, VisibleKeys
    <3>3. ASSUME NEW v \in Workers \ {w}, NEW j \in txn[v].jobs PROVE IdKeys(j) \cap Wants(w) = {}
      BY <1>2 DEF Employers, WellEmployed, Free, WaitsFor
    <3>. QED BY <3>1, <3>2, <3>3 DEF AllJobs
  <2>2. \A j \in AllJobs : IdKeys(j) \cap IdKeys(k) = {}
    BY <1>7, <2>1
  <2>. QED BY <1>9, <2>2 DEF Employers, OneOfId, IdKeys
<1>12. \A j \in jobs' : Employed(j, companies') /\ IdKeys(j) \subseteq unique'
  BY <1>2 DEF Employers, tables
<1>13. WellEmployed(w)'
  <2>1. EmployerOf(w)'
    BY <1>5, <1>6 DEF EmployerOf, Stage
  <2>2. call'[w].employers \subseteq VisibleCompanies(w)'
    BY <1>1, <1>5, <1>6, <1>9 DEF Employers, WellEmployed
  <2>3. \A e \in txn'[w].companies : e.by = w
    BY <1>4 DEF Employers, WellEmployed
  <2>4. \A j \in txn'[w].jobs : Employed(j, VisibleCompanies(w)') /\ IdKeys(j) \subseteq txn'[w].keys
    BY <1>4, <1>7, <1>8, <1>9 DEF Employers, WellEmployed
  <2>. QED BY <2>1, <2>2, <2>3, <2>4 DEF WellEmployed, Employed, IdKeys
<1>14. \A v \in Workers \ {w} : WellEmployed(v)'
  BY <1>2, <1>6, OthersEmploy DEF tables
<1>. QED BY <1>10, <1>11, <1>12, <1>13, <1>14 DEF Employers, Employed, IdKeys

LEMMA RollBackEmploys ==
    ASSUME JobIInv, Employers, NEW w \in Workers, RollBack(w)
    PROVE  Employers'
<1>1. /\ UNCHANGED tables /\ Others(w) /\ txn'[w] = EmptyTxn /\ call'[w].stage = "rolledBack"
  BY DEF JobIInv, Shape, JobTypeOK, RollBack, Others, Ended, NewCall
<1>2. AllJobs' \subseteq AllJobs /\ AllCompanies' \subseteq AllCompanies
  BY <1>1 DEF AllJobs, AllCompanies, EmptyTxn, Txn, Others, tables
<1>3. Rivals' /\ OneOfId'
  <2>1. Rivals'
    BY <1>1, <1>2 DEF Employers, Rivals, tables
  <2>2. OneOfId'
    BY <1>2 DEF Employers, OneOfId, IdKeys
  <2>. QED BY <2>1, <2>2
<1>4. \A j \in jobs' : Employed(j, companies') /\ IdKeys(j) \subseteq unique'
  BY <1>1 DEF Employers, tables
<1>5. WellEmployed(w)'
  BY <1>1 DEF WellEmployed, EmployerOf, Running, Stage, Over, EmptyTxn, Txn
<1>6. \A v \in Workers \ {w} : WellEmployed(v)'
  BY <1>1, OthersEmploy DEF tables
<1>. QED BY <1>3, <1>4, <1>5, <1>6 DEF Employers, Employed, IdKeys

\* What a transaction made becomes everyone's.
LEMMA CommitEmploys ==
    ASSUME JobIInv, Employers, NEW w \in Workers, Running(w), NEW result, Commit(w, result)
    PROVE  Employers'
<1> DEFINE V == VisibleJobs(w)
           g == Aged(w)
<1>1. /\ \A j \in V : SameJob(j, g[j])
      /\ jobs' = {g[i] : i \in V}
  BY UpdatedType DEF JobIInv, Commit
<1> HIDE DEF g
<1>2. /\ Others(w) /\ txn'[w] = EmptyTxn /\ call'[w].stage = "committed"
      /\ companies' = VisibleCompanies(w) /\ unique' = VisibleKeys(w) /\ overlap' = overlap
  BY DEF JobIInv, Shape, JobTypeOK, Commit, Others, Ended, NewCall
<1>3. companies \subseteq companies' /\ unique \subseteq unique' /\ AllCompanies' \subseteq AllCompanies
  BY <1>2 DEF VisibleCompanies, VisibleKeys, AllCompanies, EmptyTxn, Txn, Others
<1>4. Rivals'
  BY <1>2, <1>3 DEF Employers, Rivals
<1>5. \A i, j : SameJob(i, j) => /\ IdKeys(i) = IdKeys(j)
                                /\ \A cs : Employed(i, cs) <=> Employed(j, cs)
  BY DEF SameJob, IdKeys, Employed
<1>6. OneOfId'
  <2>1. ASSUME NEW i \in AllJobs', NEW j \in AllJobs', i # j PROVE IdKeys(i) \cap IdKeys(j) = {}
    <3>1. PICK a \in AllJobs, b \in AllJobs : SameJob(a, i) /\ SameJob(b, j) /\ a # b
      BY <2>1, CommitKeepsApart
    <3>. QED BY <1>5, <3>1 DEF Employers, OneOfId
  <2>. QED BY <2>1 DEF OneOfId, IdKeys
<1>7. \A j \in V : Employed(j, companies') /\ IdKeys(j) \subseteq unique'
  BY <1>2, <1>3 DEF Employers, WellEmployed, Employed, VisibleJobs, VisibleCompanies, VisibleKeys
<1>8. \A j \in jobs' : Employed(j, companies') /\ IdKeys(j) \subseteq unique'
  BY <1>1, <1>5, <1>7
<1>9. WellEmployed(w)'
  BY <1>2 DEF WellEmployed, EmployerOf, Running, Stage, Over, EmptyTxn, Txn
<1>10. \A v \in Workers \ {w} : WellEmployed(v)'
  BY <1>2, <1>3, OthersEmploy
<1>. QED BY <1>4, <1>6, <1>8, <1>9, <1>10 DEF Employers, Employed, IdKeys

LEMMA EmployersNext == ASSUME JobIInv, Employers, [JobNext]_jobVars PROVE Employers'
<1>1. ASSUME NEW w \in Workers, NEW c, Begin(w, c), c.employers = {}, c.stage \in {"source", "record"}
      PROVE  PlainStep
  <2>1. /\ UNCHANGED <<jobs, companies, unique, txn>> /\ overlap \subseteq overlap' /\ call'[w] = c
        /\ \A v \in Workers \ {w} : call'[v] = call[v]
    BY <1>1 DEF Begin, JobIInv, Shape, JobTypeOK
  <2>2. Stage(w)' \notin Given
    BY <1>1, <2>1 DEF Stage, Given
  <2>3. \A v \in Workers \ {w} : /\ Stage(v)' = Stage(v) /\ Running(v)' = Running(v)
                                 /\ Current(v)' = Current(v)
    BY <2>1 DEF Stage, Running, Current, Ingesting
  <2>. QED BY <1>1, <2>1, <2>2, <2>3 DEF PlainStep
<1>2. ASSUME NEW w \in Workers, BeginDiscovery(w) \/ BeginIngestion(w)
      PROVE  Employers'
  BY <1>1, <1>2, PlainKeeps DEF BeginDiscovery, BeginIngestion, NewCall
<1>3. ASSUME UNCHANGED <<jobs, companies, unique, call, txn, overlap>> PROVE Employers'
  <2>1. \A v \in Workers : Stage(v)' = Stage(v) /\ Running(v)' = Running(v) /\ Current(v)' = Current(v)
    BY <1>3 DEF Stage, Running, Current, Ingesting
  <2>2. PlainStep
    BY <1>3, <2>1 DEF PlainStep
  <2>. QED BY <2>2, PlainKeeps
<1>4. CASE Tick
  BY <1>3, <1>4 DEF Tick
<1>5. CASE UNCHANGED jobVars
  BY <1>3, <1>5 DEF jobVars
<1>6. ASSUME NEW w \in Workers, CutOff(w) \/ Violate(w) \/ BreakDeadlock(w)
      PROVE  Employers'
  BY <1>6, RollBackEmploys DEF CutOff, Violate, BreakDeadlock
<1>7. ASSUME NEW w \in Workers, FinishDiscovery(w) \/ FinishIngestion(w)
      PROVE  Employers'
  <2>1. Running(w)
    BY <1>7 DEF FinishDiscovery, FinishIngestion, Running, Over
  <2>. QED BY <1>7, <2>1, CommitEmploys DEF FinishDiscovery, FinishIngestion
<1>8. ASSUME NEW w \in Workers, Step(w) PROVE Employers'
  BY <1>6, <1>7, <1>8, StepsArePlain, PlainKeeps, FindCompanyEmploys, CreateJobEmploys DEF Step
<1>. QED BY <1>2, <1>4, <1>5, <1>6, <1>8 DEF JobNext

LEMMA JobInvariance == JobSpec => [](JobIInv /\ Employers)
<1>. QED BY JobIInvInit, EmployersInit, JobIInvNext, EmployersNext, PTL DEF JobSpec

\* Rows, calls and transactions of any number of workers are what they should be, and a
\* call that is over or has not begun holds no transaction.
THEOREM JobTypes == JobSpec => []JobTypeOK
<1>1. JobIInv => JobTypeOK
  BY DEF JobIInv, Shape
<1>. QED BY <1>1, JobInvariance, PTL

\* What a run reports as new is what it stored, whatever is rolled back, expires or is
\* stored by others meanwhile.
THEOREM ReportsMatchRows == JobSpec => []ReportsAreTrue
<1>1. JobIInv => ReportsAreTrue
  BY DEF JobIInv, Reported, ReportsAreTrue, StoredBy
<1>. QED BY <1>1, JobInvariance, PTL

\* What a run found is in the table, and a record's row names a job that is there.
THEOREM FoundStays == JobSpec => []FoundIsStored
<1>1. ASSUME JobIInv PROVE FoundIsStored
  <2>1. ASSUME NEW w \in Workers, Stage(w) = "committed", NEW p \in call[w].found
        PROVE  \E j \in jobs : Matches(j, p)
    BY <1>1, <2>1 DEF JobIInv, FoundVisible
  <2>2. ASSUME NEW row \in rows
        PROVE  IF row.status \in Accepted
               THEN /\ \E j \in jobs : j.url = row.job /\ Matches(j, Record[row.record].posting)
                    /\ Eligible(row.record, row, TRUE)
               ELSE ~Eligible(row.record, row, TRUE)
    <3>1. row.record \in Records /\ row.status = Disposition(row.record)
          /\ Names(row.record, row.job, jobs)
      BY <1>1 DEF JobIInv, RowOK
    <3>2. \A j \in jobs : j.url # None
      BY <1>1, PostingsOK DEF JobIInv, Shape, JobTypeOK, JobRow
    <3>3. CASE row.status \in Accepted
      <4>1. PICK j \in jobs : j.url = row.job /\ Matches(j, Record[row.record].posting)
        BY <3>1, <3>3 DEF Names
      <4>2. /\ Record[row.record].url # "missing"
            /\ row.status = "ACCEPTED_VERIFIED" => HasIdentity(Record[row.record].posting)
        BY <3>1, <3>3, PostingsOK DEF Disposition, Accepted, Verification
      <4>3. Eligible(row.record, row, TRUE)
        BY <3>2, <3>3, <4>1, <4>2 DEF Eligible, Accepted
      <4>. QED BY <3>3, <4>1, <4>3
    <3>4. CASE row.status \notin Accepted
      BY <3>4 DEF Eligible, Accepted
    <3>. QED BY <3>3, <3>4
  <2>. QED BY <2>1, <2>2 DEF FoundIsStored
<1>. QED BY <1>1, JobInvariance, PTL

\* Two rows with one content come of two calls that overlapped; two rows of one employer's
\* requisition are of two companies, whose creators overlapped.
THEOREM TwinsNeedOverlap == JobSpec => []TwinsOverlapped
<1>1. ASSUME JobIInv, Employers, NEW i \in jobs, NEW j \in jobs, i # j
      PROVE  /\ i.content = j.content => {i.by, j.by} \in overlap
             /\ SameRequisition(i, j) => {i.company.by, j.company.by} \in overlap
  <2>1. i \in AllJobs /\ j \in AllJobs
    BY DEF AllJobs
  <2>2. i.content = j.content => {i.by, j.by} \in overlap
    BY <1>1, <2>1 DEF JobIInv, Twins
  <2>3. ASSUME SameRequisition(i, j) PROVE {i.company.by, j.company.by} \in overlap
    <3>1. i.company # j.company
      <4>1. ASSUME i.company = j.company PROVE IdKeys(i) \cap IdKeys(j) # {}
        <5>1. <<"id", i.company, i.externalId>> \in IdKeys(i) \cap IdKeys(j)
          BY <2>3, <4>1 DEF IdKeys, SameRequisition
        <5>. QED BY <5>1
      <4>. QED BY <1>1, <2>1, <4>1 DEF Employers, OneOfId
    <3>2. i.company \in AllCompanies /\ j.company \in AllCompanies
      BY <1>1 DEF Employers, Employed, AllCompanies
    <3>. QED BY <1>1, <2>3, <3>1, <3>2 DEF Employers, Rivals, SameRequisition
  <2>. QED BY <2>2, <2>3
<1>2. JobIInv /\ Employers => TwinsOverlapped
  BY <1>1 DEF TwinsOverlapped
<1>. QED BY <1>2, JobInvariance, PTL

-----------------------------------------------------------------------------
(* A better profile is no worse a match.                                    *)

\* Rounding down is monotone.
LEMMA DivMonotone ==
    ASSUME NEW a \in Int, NEW b \in Int, NEW d \in Nat, d > 0, a <= b
    PROVE  a \div d \in Int /\ b \div d \in Int /\ a \div d <= b \div d
  <1> DEFINE m == a \div d
             n == b \div d
  <1>1. m \in Int /\ n \in Int /\ d * m <= a /\ b < d * n + d
    BY SMTT(20)
  <1> HIDE DEF m, n
  <1>2. SUFFICES ASSUME n < m PROVE FALSE
    BY <1>1 DEF m, n
  <1>3. d * (m - (n + 1)) >= 0
    BY <1>1, <1>2, SMTT(20)
  <1>4. d * (m - (n + 1)) = d * m - d * n - d
    BY <1>1, SMTT(20)
  <1> QED BY <1>1, <1>3, <1>4

LEMMA TimesMonotone ==
    ASSUME NEW w \in Nat, NEW a \in Int, NEW b \in Int, a <= b
    PROVE  w * a \in Int /\ w * b \in Int /\ w * a <= w * b
  <1>1. w * (b - a) >= 0
    BY SMTT(20)
  <1>2. w * (b - a) = w * b - w * a
    BY SMTT(20)
  <1> QED BY <1>1, <1>2

\* Raising component scores raises their weighted sum.
LEMMA TotalMonotone ==
    ASSUME NEW low \in [Components -> Int], NEW high \in [Components -> Int],
           \A c \in Components : low[c] <= high[c]
    PROVE  LET points(of) == Total([c \in Components |-> Weights[c] * of[c]])
           IN  points(low) \in Int /\ points(high) \in Int /\ points(low) <= points(high)
  <1> DEFINE l == [c \in Components |-> Weights[c] * low[c]]
             h == [c \in Components |-> Weights[c] * high[c]]
  <1>1. ASSUME NEW c \in Components PROVE l[c] \in Int /\ h[c] \in Int /\ l[c] <= h[c]
    <2>1. Weights[c] \in Nat /\ low[c] \in Int /\ high[c] \in Int
      BY MatchingOK
    <2> QED BY <2>1, TimesMonotone
  <1> HIDE DEF l, h
  <1>2. Total(l) \in Int /\ Total(h) \in Int /\ Total(l) <= Total(h)
    BY <1>1 DEF Total, Components
  <1> QED BY <1>2 DEF l, h

\* What Better may change of a profile, and in which direction.
AtLeast(q, p) ==
    /\ p.skills \subseteq q.skills
    /\ q.role = p.role /\ q.rank = p.rank /\ q.wanted = p.wanted /\ q.excluded = p.excluded
    /\ q.mode = p.mode /\ q.pay = p.pay
    /\ q.years = p.years \/ (p.years # Absent /\ q.years = p.years + 1)
    /\ p.domain => q.domain
    /\ p.leader => q.leader

LEMMA BetterIsAtLeast ==
    ASSUME NEW p \in Profile, NEW q \in Better(p)
    PROVE  AtLeast(q, p)
  <1>1. CASE \E s \in Skills : q = [p EXCEPT !.skills = @ \cup {s}]
    BY <1>1 DEF Profile, AtLeast
  <1>2. CASE q = [p EXCEPT !.leader = TRUE]
    BY <1>2 DEF Profile, AtLeast
  <1>3. CASE q = [p EXCEPT !.domain = TRUE]
    BY <1>3 DEF Profile, AtLeast
  <1>4. CASE q = [p EXCEPT !.years = IF @ = Absent THEN @ ELSE @ + 1]
    BY <1>4 DEF Profile, AtLeast
  <1> QED BY <1>1, <1>2, <1>3, <1>4 DEF Better

\* Crediting a related skill half is fair: whoever holds more loses nothing.
LEMMA SkillsMonotone ==
    ASSUME NEW j \in JobView, NEW p \in Profile, NEW q, AtLeast(q, p)
    PROVE  SkillsScore(p, j) \in Int /\ SkillsScore(q, j) \in Int
           /\ SkillsScore(p, j) <= SkillsScore(q, j)
           /\ Lacking(q, Pool(j)) \subseteq Lacking(p, Pool(j))
  <1> DEFINE pool == Pool(j)
             credit(r) == 1000 * Cardinality(Held(r, pool)) + 500 * Cardinality(RelatedOnly(r, pool))
             known(r) == Held(r, pool) \cup RelatedOnly(r, pool)
  <1>1. IsFiniteSet(pool) /\ pool \subseteq Skills
    <2>1. pool \subseteq Skills
      BY DEF Pool, JobView
    <2> QED BY <2>1, MatchingOK, FS_Subset
  <1>2. Held(p, pool) \subseteq Held(q, pool) /\ known(p) \subseteq known(q)
    BY DEF Held, RelatedOnly, AtLeast
  <1>3. ASSUME NEW r
        PROVE  /\ Cardinality(Held(r, pool)) \in Nat /\ Cardinality(known(r)) \in Nat
               /\ credit(r) \in Int
               /\ credit(r) = 500 * Cardinality(Held(r, pool)) + 500 * Cardinality(known(r))
               /\ IsFiniteSet(Held(r, pool)) /\ IsFiniteSet(known(r))
    <2>1. IsFiniteSet(Held(r, pool)) /\ IsFiniteSet(RelatedOnly(r, pool))
      <3>1. Held(r, pool) \in SUBSET pool /\ RelatedOnly(r, pool) \in SUBSET pool
        BY DEF Held, RelatedOnly
      <3> QED BY <3>1, <1>1, FS_Subset
    <2>2. Held(r, pool) \cap RelatedOnly(r, pool) = {}
      BY DEF Held, RelatedOnly
    <2>3. IsFiniteSet(known(r)) /\ Cardinality(known(r)) = Cardinality(Held(r, pool))
            + Cardinality(RelatedOnly(r, pool)) - Cardinality(Held(r, pool) \cap RelatedOnly(r, pool))
      BY <2>1, FS_Union
    <2>4. Cardinality(Held(r, pool) \cap RelatedOnly(r, pool)) = 0
      BY <2>2, FS_EmptySet
    <2>5. Cardinality(Held(r, pool)) \in Nat /\ Cardinality(RelatedOnly(r, pool)) \in Nat
          /\ Cardinality(known(r)) \in Nat
      BY <2>1, <2>3, FS_CardinalityType
    <2> QED BY <2>1, <2>3, <2>4, <2>5
  <1>4. Cardinality(Held(p, pool)) <= Cardinality(Held(q, pool))
        /\ Cardinality(known(p)) <= Cardinality(known(q))
    BY <1>2, <1>3, FS_Subset
  <1>5. credit(p) \in Int /\ credit(q) \in Int /\ credit(p) <= credit(q)
    BY <1>3, <1>4
  <1>6. Lacking(q, pool) \subseteq Lacking(p, pool)
    BY <1>2 DEF Lacking
  <1>7. CASE pool = {}
    BY <1>6, <1>7 DEF SkillsScore
  <1>8. CASE pool # {}
    <2>1. Cardinality(pool) \in Nat /\ Cardinality(pool) > 0
      BY <1>1, <1>8, FS_EmptySet, FS_CardinalityType
    <2> HIDE DEF pool, credit
    <2>2. credit(p) \div Cardinality(pool) \in Int /\ credit(q) \div Cardinality(pool) \in Int
          /\ credit(p) \div Cardinality(pool) <= credit(q) \div Cardinality(pool)
      BY <1>5, <2>1, DivMonotone
    <2> QED BY <1>6, <1>8, <2>2 DEF SkillsScore, pool, credit
  <1> QED BY <1>7, <1>8

\* The components that look at neither skills, years, domain nor leadership.
Untouched == Components \ {"skills", "years_experience", "domain", "leadership"}

LEMMA RoleIsInt ==
    ASSUME NEW j \in JobView, NEW p
    PROVE  RoleScore(p, j) \in Int
  <1> DEFINE shared == Cardinality(p.role \cap j.title)
             size == Cardinality(j.title)
  <1>1. IsFiniteSet(j.title)
    <2>1. j.title \in SUBSET Words
      BY DEF JobView
    <2> QED BY <2>1, MatchingOK, FS_Subset
  <1>2. IsFiniteSet(p.role \cap j.title)
    BY <1>1, FS_Intersection
  <1>3. shared \in Nat /\ size \in Nat
    BY <1>1, <1>2, FS_CardinalityType
  <1>4. CASE p.role = {} \/ j.title = {}
    BY <1>4 DEF RoleScore
  <1>5. CASE p.role # {} /\ j.title # {}
    <2>1. size > 0
      BY <1>1, <1>3, <1>5, FS_EmptySet
    <2> HIDE DEF shared, size
    <2>2. 450 * shared \in Int /\ 450 * shared <= 450 * shared
      BY <1>3
    <2>3. (450 * shared) \div size \in Int
      BY <1>3, <2>1, <2>2, DivMonotone
    <2>4. 250 + (450 * shared) \div size + (IF shared > 0 THEN 300 ELSE 0) \in Int
      BY <1>3, <2>3
    <2> QED BY <1>5, <2>4 DEF RoleScore, shared, size
  <1> QED BY <1>4, <1>5

\* Every component score is a number, and a better profile lowers none.
LEMMA ComponentsMonotone ==
    ASSUME NEW j \in JobView, NEW p \in Profile, NEW q, AtLeast(q, p)
    PROVE  /\ ComponentScores(p, j) \in [Components -> Int]
           /\ ComponentScores(q, j) \in [Components -> Int]
           /\ \A c \in Components : ComponentScores(p, j)[c] <= ComponentScores(q, j)[c]
  <1>1. SkillsScore(p, j) \in Int /\ SkillsScore(q, j) \in Int
        /\ SkillsScore(p, j) <= SkillsScore(q, j)
    BY SkillsMonotone
  <1>2. RoleScore(p, j) \in Int /\ RoleScore(q, j) = RoleScore(p, j)
    BY RoleIsInt DEF RoleScore, AtLeast
  <1>3. SeniorityScore(p, j) \in Int /\ SeniorityScore(q, j) = SeniorityScore(p, j)
    <2>1. j.rank \in Int /\ p.rank \in Int /\ q.rank = p.rank
      BY DEF JobView, Profile, AtLeast
    <2> QED BY <2>1 DEF SeniorityScore
  <1>4. ExperienceScore(p, j) \in Int /\ ExperienceScore(q, j) \in Int
        /\ ExperienceScore(p, j) <= ExperienceScore(q, j)
    <2>1. j.minYears \in Int \cup {Absent} /\ p.years \in Int \cup {Absent}
      BY DEF JobView, Profile, OptionalInt
    <2>2. q.years = p.years \/ (p.years # Absent /\ q.years = p.years + 1)
      BY DEF AtLeast
    <2>3. CASE j.minYears = Absent
      BY <2>3 DEF ExperienceScore
    <2>4. CASE j.minYears # Absent /\ p.years = Absent
      BY <2>2, <2>4 DEF ExperienceScore
    <2>5. CASE j.minYears # Absent /\ p.years # Absent
      <3>1. j.minYears \in Int /\ p.years \in Int /\ q.years \in Int /\ q.years # Absent
            /\ p.years <= q.years
        BY <2>1, <2>2, <2>5, MatchingOK
      <3> QED BY <2>5, <3>1 DEF ExperienceScore, YearsShort
    <2> QED BY <2>3, <2>4, <2>5
  <1>5. DomainScore(p, j) \in Int /\ DomainScore(q, j) \in Int
        /\ DomainScore(p, j) <= DomainScore(q, j)
    BY DEF DomainScore, AtLeast
  <1>6. IndustryScore(p, j) \in Int /\ IndustryScore(q, j) = IndustryScore(p, j)
    BY DEF IndustryScore, AtLeast
  <1>7. LeadershipScore(p, j) \in Int /\ LeadershipScore(q, j) \in Int
        /\ LeadershipScore(p, j) <= LeadershipScore(q, j)
    BY DEF LeadershipScore, AtLeast
  <1>8. LocationScore(p, j) \in Int /\ LocationScore(q, j) = LocationScore(p, j)
    <2>1. j.place \in Places /\ q.mode = p.mode
      BY DEF JobView, AtLeast
    <2> QED BY <2>1 DEF LocationScore, Places
  <1>9. WorkModeScore(p, j) \in Int /\ WorkModeScore(q, j) = WorkModeScore(p, j)
    BY DEF WorkModeScore, AtLeast
  <1>10. CompensationScore(p, j) \in Int /\ CompensationScore(q, j) = CompensationScore(p, j)
    BY DEF CompensationScore, PayGap, PayCompared, AtLeast
  <1> QED
    BY <1>1, <1>2, <1>3, <1>4, <1>5, <1>6, <1>7, <1>8, <1>9, <1>10 DEF ComponentScores, Components

LEMMA ScoreMonotone ==
    ASSUME NEW j \in JobView, NEW p \in Profile, NEW q, AtLeast(q, p)
    PROVE  Score(q, j) >= Score(p, j)
  <1> DEFINE low == ComponentScores(p, j)
             high == ComponentScores(q, j)
             points(of) == Total([c \in Components |-> Weights[c] * of[c]])
             total == Total(Weights)
  <1>1. points(low) \in Int /\ points(high) \in Int /\ points(low) <= points(high)
    <2>1. low \in [Components -> Int] /\ high \in [Components -> Int]
          /\ \A c \in Components : low[c] <= high[c]
      BY ComponentsMonotone
    <2> HIDE DEF low, high
    <2> QED BY <2>1, TotalMonotone
  <1>2. total \in Nat
    BY MatchingOK DEF Total, Components
  <1>3. Score(p, j) = IF total = 0 THEN 0 ELSE (2 * points(low) + total) \div (2 * total)
    BY DEF Score
  <1>4. Score(q, j) = IF total = 0 THEN 0 ELSE (2 * points(high) + total) \div (2 * total)
    BY DEF Score
  <1> HIDE DEF low, high, points, total
  <1>5. CASE total = 0
    BY <1>3, <1>4, <1>5
  <1>6. CASE total # 0
    <2>1. 2 * points(low) + total \in Int /\ 2 * points(high) + total \in Int
          /\ 2 * points(low) + total <= 2 * points(high) + total
          /\ 2 * total \in Nat /\ 2 * total > 0
      BY <1>1, <1>2, <1>6
    <2>2. /\ (2 * points(low) + total) \div (2 * total) \in Int
          /\ (2 * points(high) + total) \div (2 * total) \in Int
          /\ (2 * points(low) + total) \div (2 * total) <= (2 * points(high) + total) \div (2 * total)
      BY <2>1, DivMonotone
    <2> QED BY <1>3, <1>4, <1>6, <2>2
  <1> QED BY <1>5, <1>6

LEMMA BlockersShrink ==
    ASSUME NEW j \in JobView, NEW p \in Profile, NEW q, AtLeast(q, p)
    PROVE  Blockers(q, j) \subseteq Blockers(p, j)
  <1>1. Lacking(q, Pool(j)) \subseteq Lacking(p, Pool(j))
    BY SkillsMonotone
  <1>2. YearsShort(q, j) => YearsShort(p, j)
    <2>1. j.minYears \in Int \cup {Absent} /\ p.years \in Int \cup {Absent}
      BY DEF JobView, Profile, OptionalInt
    <2>2. q.years = p.years \/ (p.years # Absent /\ q.years = p.years + 1)
      BY DEF AtLeast
    <2> QED BY <2>1, <2>2 DEF YearsShort
  <1>3. PayGap(q, j) <=> PayGap(p, j)
    BY DEF PayGap, PayCompared, AtLeast
  <1> QED BY <1>1, <1>2, <1>3 DEF Blockers

\* Whatever profile a candidate has, a better one scores no job lower and adds no blocker:
\* the scorer's ten components, their weights and the rounding taken together.
THEOREM EveryProfileIsFairlyScored == FairlyScored = Profiles
  <1> SUFFICES ASSUME NEW p \in Profiles, NEW j \in DOMAIN Jobs, NEW q \in Better(p)
               PROVE  Score(q, Jobs[j]) >= Score(p, Jobs[j])
                      /\ Blockers(q, Jobs[j]) \subseteq Blockers(p, Jobs[j])
    BY DEF FairlyScored
  <1>1. p \in Profile /\ Jobs[j] \in JobView
    BY MaterialsOK
  <1>2. AtLeast(q, p)
    BY <1>1, BetterIsAtLeast
  <1> QED BY <1>1, <1>2, ScoreMonotone, BlockersShrink

-----------------------------------------------------------------------------
(* The application materials and the recommendations.                       *)

\* What an open preparation has written so far: its answers follow from the facts it
\* loaded, and its answers sheet answers what they answer.
IsDraft(d) ==
    /\ d = [job |-> d.job, row |-> d.row, facts |-> d.facts, answers |-> d.answers,
            made |-> d.made, sheet |-> d.sheet]
    /\ d.job \in DOMAIN Jobs
    /\ d.made \subseteq DocTypes
    /\ IF d.answers = <<>> THEN d.made = {}
       ELSE d.answers = AnswersFor(d.facts, d.row, Jobs[d.job])
    /\ d.sheet = IF "answers_sheet" \in d.made THEN Autos(d.answers) ELSE {}

\* What the invariants rest on: the shapes of the tables and the open preparations, whose
\* jobs keep their match rows.
MatShape ==
    /\ profile \in Profiles
    /\ DOMAIN match = DOMAIN Jobs
    /\ app \in [Apps -> [job : DOMAIN Jobs, status : AppStatus] \cup {NoRow}]
    /\ DOMAIN answers = Apps
    /\ versions \in [Apps -> [DocTypes -> Nat]]
    /\ DOMAIN sheet = Apps
    /\ advice \in [Watched -> AdviceStatus]

DraftsOK ==
    /\ DOMAIN draft = Apps
    /\ \A a \in Apps : Open(a) => IsDraft(draft[a]) /\ match[draft[a].job] # NoRow

MatInv == MatShape /\ DraftsOK /\ PreparedWhole

\* What PreparedWhole says of one application.
WholeApp(a) ==
    IF Exists(a)
    THEN /\ match[app[a].job] # NoRow
         /\ "motivation" \in DOMAIN answers[a]
         /\ \A t \in DocTypes : versions[a][t] >= 1
         /\ Autos(answers[a]) \subseteq sheet[a]
         /\ \A q \in sheet[a] : q \in DOMAIN answers[a] /\ answers[a][q] \in {"auto", "manual"}
    ELSE answers[a] = <<>> /\ sheet[a] = {} /\ \A t \in DocTypes : versions[a][t] = 0

LEMMA WholeAppByApp ==
    /\ PreparedWhole <=> \A a \in Apps : WholeApp(a)
    /\ PreparedWhole' <=> \A a \in Apps : WholeApp(a)'
  BY DEF PreparedWhole, WholeApp, Exists

-----------------------------------------------------------------------------
\* A match row that exists stays, whichever jobs are evaluated.
LEMMA EvaluationKeepsRows ==
    ASSUME MatShape, NEW S, EvaluateAll(S)
    PROVE  /\ DOMAIN match' = DOMAIN Jobs
           /\ \A j \in DOMAIN Jobs : match[j] # NoRow => match'[j] # NoRow
  BY MaterialsOK DEF EvaluateAll, MatShape, Rows

\* What leaves applications, answers, documents and open preparations alone, and loses no
\* match row, keeps the invariant.
LEMMA RowsKept ==
    ASSUME MatInv, profile' \in Profiles, advice' \in [Watched -> AdviceStatus],
           UNCHANGED prepared, DOMAIN match' = DOMAIN Jobs,
           \A j \in DOMAIN Jobs : match[j] # NoRow => match'[j] # NoRow
    PROVE  MatInv'
  <1>1. MatShape'
    BY DEF MatInv, MatShape, prepared, stored
  <1>2. DraftsOK'
    <2>1. ASSUME NEW a \in Apps, Open(a)' PROVE IsDraft(draft'[a]) /\ match'[draft'[a].job] # NoRow
      <3>1. Open(a) /\ draft'[a] = draft[a]
        BY <2>1 DEF prepared, Open
      <3>2. IsDraft(draft[a]) /\ match[draft[a].job] # NoRow
        BY <3>1 DEF MatInv, DraftsOK
      <3> QED BY <3>1, <3>2 DEF IsDraft
    <2> QED BY <2>1 DEF MatInv, DraftsOK, prepared, IsDraft
  <1>3. ASSUME NEW a \in Apps PROVE WholeApp(a)'
    <2>1. WholeApp(a) /\ (Exists(a) => app[a].job \in DOMAIN Jobs)
      BY WholeAppByApp DEF MatInv, MatShape, Exists
    <2> QED BY <2>1 DEF WholeApp, Exists, prepared, stored
  <1>4. PreparedWhole'
    BY <1>3, WholeAppByApp
  <1> QED BY <1>1, <1>2, <1>4 DEF MatInv

\* Without applications there is nothing half prepared.
LEMMA InitiallyWhole == AdvInit => MatInv
  <1> SUFFICES ASSUME AdvInit PROVE MatInv
    OBVIOUS
  <1>1. MatShape
    BY DEF AdvInit, MatInit, MatShape, AdviceStatus
  <1>2. PreparedWhole
    BY DEF AdvInit, MatInit, PreparedWhole, Exists
  <1>3. DraftsOK
    BY DEF AdvInit, MatInit, DraftsOK, Open
  <1> QED BY <1>1, <1>2, <1>3 DEF MatInv

-----------------------------------------------------------------------------
\* A step of a preparation other than its commit changes its draft alone.
LEMMA DraftStep ==
    ASSUME MatInv, NEW a \in Apps, NEW d, d = NoRow \/ (IsDraft(d) /\ match[d.job] # NoRow),
           draft' = [draft EXCEPT ![a] = d], UNCHANGED <<profile, matches, stored, advice>>
    PROVE  MatInv'
  <1>1. MatShape'
    BY DEF MatInv, MatShape, matches, stored
  <1>2. DraftsOK'
    <2>1. ASSUME NEW b \in Apps, Open(b)' PROVE IsDraft(draft'[b]) /\ match'[draft'[b].job] # NoRow
      BY <2>1 DEF MatInv, DraftsOK, Open, matches
    <2> QED BY <2>1 DEF MatInv, DraftsOK, IsDraft
  <1>3. PreparedWhole'
    BY DEF MatInv, PreparedWhole, Exists, matches, stored
  <1> QED BY <1>1, <1>2, <1>3 DEF MatInv

\* The facts are loaded once, and every document and answer is written from them.
LEMMA PreparationsKeepDrafts ==
    ASSUME MatInv, NEW a \in Apps, UNCHANGED advice,
           (\E j \in DOMAIN Jobs : BeginPrepare(a, j)) \/ LoadFacts(a) \/ WriteDocument(a)
               \/ Refuse(a) \/ BreakOff(a)
    PROVE  MatInv'
  <1>1. ASSUME NEW j \in DOMAIN Jobs, BeginPrepare(a, j) PROVE MatInv'
    <2> DEFINE d == [job |-> j, row |-> match[j], facts |-> profile, answers |-> <<>>,
                     made |-> {}, sheet |-> {}]
    <2>1. IsDraft(d) /\ match[d.job] # NoRow
      BY <1>1 DEF IsDraft, BeginPrepare, MayPrepare
    <2> QED BY <1>1, <2>1, DraftStep DEF BeginPrepare
  <1>2. CASE LoadFacts(a)
    <2> DEFINE old == draft[a]
               facts == Facts(old.facts, profile)
               asked == AnswersFor(facts, old.row, Jobs[old.job])
               d == [old EXCEPT !.facts = facts, !.answers = asked]
    <2>1. IsDraft(old) /\ match[old.job] # NoRow /\ old.answers = <<>>
      BY <1>2 DEF LoadFacts, Open, Loaded, MatInv, DraftsOK
    <2>2. draft' = [draft EXCEPT ![a] = d] /\ UNCHANGED <<profile, matches, stored>>
      BY <1>2 DEF LoadFacts
    <2>3. DOMAIN asked # {}
      BY DEF AnswersFor
    <2>4. asked # <<>>
      BY <2>3
    <2> HIDE DEF old, facts, asked
    <2>5. d = [job |-> old.job, row |-> old.row, facts |-> facts, answers |-> asked,
               made |-> old.made, sheet |-> old.sheet]
      <3> DEFINE e == [old EXCEPT !.facts = facts]
      <3>0. old = [job |-> old.job, row |-> old.row, facts |-> old.facts, answers |-> old.answers,
                   made |-> old.made, sheet |-> old.sheet]
        BY <2>1 DEF IsDraft
      <3>1. e = [job |-> old.job, row |-> old.row, facts |-> facts, answers |-> old.answers,
                 made |-> old.made, sheet |-> old.sheet]
        BY <3>0
      <3>2. d = [e EXCEPT !.answers = asked]
        OBVIOUS
      <3> HIDE DEF e, d
      <3> QED BY <3>1, <3>2
    <2>6. asked = AnswersFor(facts, old.row, Jobs[old.job])
      BY DEF asked
    <2> HIDE DEF d
    <2>7. old.made = {} /\ old.sheet = {} /\ old.job \in DOMAIN Jobs
      BY <2>1 DEF IsDraft
    <2>8. IsDraft(d) /\ match[d.job] # NoRow
      BY <2>1, <2>4, <2>5, <2>6, <2>7 DEF IsDraft
    <2> QED BY <2>2, <2>8, DraftStep
  <1>3. CASE WriteDocument(a)
    <2> DEFINE old == draft[a]
               t == NextDocument(old.made)
               answered == IF t = "answers_sheet"
                           THEN Autos(AnswersFor(old.facts, old.row, Jobs[old.job])) ELSE old.sheet
               d == [old EXCEPT !.made = old.made \cup {t}, !.sheet = answered]
    <2>1. IsDraft(old) /\ match[old.job] # NoRow /\ old.answers # <<>> /\ old.made # DocTypes
      BY <1>3 DEF WriteDocument, Unfinished, Open, Loaded, MatInv, DraftsOK
    <2>2. draft' = [draft EXCEPT ![a] = d] /\ UNCHANGED <<profile, matches, stored>>
      BY <1>3 DEF WriteDocument, Written
    <2>3. /\ t \in DocTypes
          /\ t # "answers_sheet" => ("answers_sheet" \in old.made \cup {t} <=> "answers_sheet" \in old.made)
      BY DEF NextDocument, DocTypes
    <2>4. answered = IF "answers_sheet" \in old.made \cup {t} THEN Autos(old.answers) ELSE {}
      BY <2>1, <2>3 DEF IsDraft
    <2> HIDE DEF old, t, answered
    <2>5. d = [job |-> old.job, row |-> old.row, facts |-> old.facts, answers |-> old.answers,
               made |-> old.made \cup {t}, sheet |-> answered]
      <3> DEFINE e == [old EXCEPT !.made = old.made \cup {t}]
      <3>0. old = [job |-> old.job, row |-> old.row, facts |-> old.facts, answers |-> old.answers,
                   made |-> old.made, sheet |-> old.sheet]
        BY <2>1 DEF IsDraft
      <3>1. e = [job |-> old.job, row |-> old.row, facts |-> old.facts, answers |-> old.answers,
                 made |-> old.made \cup {t}, sheet |-> old.sheet]
        BY <3>0
      <3>2. d = [e EXCEPT !.sheet = answered]
        OBVIOUS
      <3> HIDE DEF e, d
      <3> QED BY <3>1, <3>2
    <2> HIDE DEF d
    <2>6. IsDraft(d) /\ match[d.job] # NoRow
      BY <2>1, <2>3, <2>4, <2>5 DEF IsDraft
    <2> QED BY <2>2, <2>6, DraftStep
  <1>4. CASE Refuse(a) \/ BreakOff(a)
    BY <1>4, DraftStep DEF Refuse, BreakOff
  <1> QED BY <1>1, <1>2, <1>3, <1>4

\* What is committed is whole.
LEMMA CommitsKeepWhole ==
    ASSUME MatInv, NEW a \in Apps, CommitPrepare(a), UNCHANGED advice
    PROVE  MatInv'
  <1> DEFINE d == draft[a]
             row == [job |-> d.job, status |-> "draft"]
             first == [t \in DocTypes |-> IF t \in d.made THEN 1 ELSE 0]
  <1>1. /\ IsDraft(d) /\ match[d.job] # NoRow /\ d.answers # <<>> /\ d.made = DocTypes
    BY DEF CommitPrepare, Loaded, Open, MatInv, DraftsOK
  <1>2. /\ app' = [app EXCEPT ![a] = row] /\ answers' = [answers EXCEPT ![a] = d.answers]
        /\ versions' = [versions EXCEPT ![a] = first] /\ sheet' = [sheet EXCEPT ![a] = d.sheet]
        /\ draft' = [draft EXCEPT ![a] = NoRow] /\ profile' = profile /\ match' = match
    BY DEF CommitPrepare, matches
  <1>3. row \in [job : DOMAIN Jobs, status : AppStatus] /\ row # NoRow /\ row.job = d.job
    BY <1>1, MaterialsOK DEF AppStatus, IsDraft
  <1>4. first \in [DocTypes -> Nat] /\ \A t \in DocTypes : first[t] = 1
    BY <1>1
  <1>5. "motivation" \in DOMAIN d.answers
    BY <1>1 DEF IsDraft, AnswersFor
  <1>6. d.sheet = Autos(d.answers)
    BY <1>1 DEF IsDraft, DocTypes
  <1> HIDE DEF d, row, first
  <1>7. MatShape'
    BY <1>2, <1>3, <1>4 DEF MatInv, MatShape
  <1>8. DraftsOK'
    <2>1. ASSUME NEW b \in Apps, Open(b)' PROVE IsDraft(draft'[b]) /\ match'[draft'[b].job] # NoRow
      BY <1>2, <2>1 DEF MatInv, DraftsOK, Open
    <2> QED BY <1>2, <2>1 DEF MatInv, DraftsOK, IsDraft
  <1>9. ASSUME NEW b \in Apps PROVE WholeApp(b)'
    <2>1. CASE b = a
      <3>1. /\ app'[a] = row /\ answers'[a] = d.answers /\ versions'[a] = first
            /\ sheet'[a] = d.sheet
        BY <1>2 DEF MatInv, MatShape
      <3> QED BY <1>1, <1>2, <1>3, <1>4, <1>5, <1>6, <2>1, <3>1 DEF WholeApp, Exists, Autos
    <2>2. CASE b # a
      <3>1. /\ app'[b] = app[b] /\ answers'[b] = answers[b] /\ versions'[b] = versions[b]
            /\ sheet'[b] = sheet[b]
        BY <1>2, <2>2 DEF MatInv, MatShape
      <3>2. WholeApp(b)
        BY WholeAppByApp DEF MatInv
      <3> QED BY <3>1, <3>2, <1>2 DEF WholeApp, Exists
    <2> QED BY <2>1, <2>2
  <1> QED BY <1>7, <1>8, <1>9, WholeAppByApp DEF MatInv

\* What leaves match rows and open preparations alone keeps the latter.
LEMMA DraftsKept ==
    ASSUME DraftsOK, match' = match, draft' = draft
    PROVE  DraftsOK'
  <1>1. ASSUME NEW a \in Apps, Open(a)' PROVE IsDraft(draft'[a]) /\ match'[draft'[a].job] # NoRow
    BY <1>1 DEF DraftsOK, Open
  <1> QED BY <1>1 DEF DraftsOK, IsDraft

\* One application request keeps the invariant.
LEMMA ApplicationRequestsKeepWhole ==
    ASSUME MatInv, ApplicationRequest, UNCHANGED advice
    PROVE  MatInv'
  <1>1. ASSUME NEW a \in Apps, (\E j \in DOMAIN Jobs : BeginPrepare(a, j)) \/ Prepare(a)
        PROVE  MatInv'
    BY <1>1, PreparationsKeepDrafts, CommitsKeepWhole DEF Prepare
  <1>2. ASSUME NEW a \in Apps, NEW t \in Renewable, GenerateDocument(a, t)
        PROVE  MatInv'
    <2>1. /\ t \in DocTypes /\ Exists(a)
          /\ versions' = [versions EXCEPT ![a][t] = @ + 1]
          /\ UNCHANGED <<profile, match, app, answers, sheet, draft>>
      BY <1>2, MaterialsOK DEF GenerateDocument, matches
    <2>2. /\ versions' \in [Apps -> [DocTypes -> Nat]]
          /\ \A b \in Apps, u \in DocTypes : versions'[b][u] >= versions[b][u]
          /\ \A b \in Apps \ {a} : versions'[b] = versions[b]
      BY <2>1 DEF MatInv, MatShape
    <2>3. ASSUME NEW b \in Apps PROVE WholeApp(b)'
      <3>1. WholeApp(b) /\ versions[b] \in [DocTypes -> Nat] /\ versions'[b] \in [DocTypes -> Nat]
        BY <2>2, WholeAppByApp DEF MatInv, MatShape
      <3>2. CASE Exists(b)
        BY <3>1, <3>2, <2>1, <2>2 DEF WholeApp, Exists
      <3>3. CASE ~Exists(b)
        BY <3>1, <3>3, <2>1, <2>2 DEF WholeApp, Exists
      <3> QED BY <3>2, <3>3
    <2> QED BY <2>1, <2>2, <2>3, WholeAppByApp, DraftsKept DEF MatInv, MatShape
  <1>3. ASSUME NEW a \in Apps, NEW q \in Answerable, UpdateAnswer(a, q)
        PROVE  MatInv'
    <2>1. /\ Exists(a) /\ answers' = [answers EXCEPT ![a][q] = "manual"]
          /\ UNCHANGED <<profile, match, app, versions, sheet, draft>>
      BY <1>3 DEF UpdateAnswer, matches
    <2>2. /\ DOMAIN answers' = Apps
          /\ answers'[a] = [answers[a] EXCEPT ![q] = "manual"]
          /\ \A b \in Apps \ {a} : answers'[b] = answers[b]
      BY <2>1 DEF MatInv, MatShape
    <2>3. ASSUME NEW b \in Apps PROVE WholeApp(b)'
      <3>1. WholeApp(b)
        BY WholeAppByApp DEF MatInv
      <3>2. CASE b = a
        BY <3>1, <3>2, <2>1, <2>2 DEF WholeApp, Exists, Autos
      <3>3. CASE b # a
        BY <3>1, <3>3, <2>1, <2>2 DEF WholeApp, Exists
      <3> QED BY <3>2, <3>3
    <2> QED BY <2>1, <2>2, <2>3, WholeAppByApp, DraftsKept DEF MatInv, MatShape
  <1>4. ASSUME NEW a \in Apps, NEW status \in Statuses, UpdateStatus(a, status)
        PROVE  MatInv'
    <2>1. /\ Exists(a) /\ status \in AppStatus /\ app' = [app EXCEPT ![a].status = status]
          /\ UNCHANGED <<profile, match, answers, versions, sheet, draft>>
      BY <1>4, MaterialsOK DEF UpdateStatus, matches
    <2>2. app[a] \in [job : DOMAIN Jobs, status : AppStatus]
      BY <2>1 DEF MatInv, MatShape, Exists
    <2>3. app'[a] \in [job : DOMAIN Jobs, status : AppStatus] /\ app'[a].job = app[a].job
      BY <2>1, <2>2 DEF MatInv, MatShape
    <2>4. app' \in [Apps -> [job : DOMAIN Jobs, status : AppStatus] \cup {NoRow}]
          /\ \A b \in Apps \ {a} : app'[b] = app[b]
      BY <2>1, <2>3 DEF MatInv, MatShape
    <2>5. app'[a] # NoRow
      BY <2>3, MaterialsOK
    <2>6. ASSUME NEW b \in Apps PROVE WholeApp(b)'
      <3>1. WholeApp(b)
        BY WholeAppByApp DEF MatInv
      <3> QED BY <3>1, <2>1, <2>3, <2>4, <2>5 DEF WholeApp, Exists
    <2> QED BY <2>1, <2>4, <2>6, WholeAppByApp, DraftsKept DEF MatInv, MatShape
  <1> QED BY <1>1, <1>2, <1>3, <1>4 DEF ApplicationRequest

\* Every request keeps applications whole.
LEMMA WholeIsKept == MatInv /\ [AdvNext]_advVars => MatInv'
  <1> SUFFICES ASSUME MatInv, [AdvNext]_advVars PROVE MatInv'
    OBVIOUS
  <1> USE DEF MatInv
  <1>1. CASE MatNext /\ UNCHANGED learning
    <2>1. advice' = advice /\ advice' \in [Watched -> AdviceStatus]
      BY <1>1 DEF learning, MatShape
    <2>2. CASE EditProfile
      BY <2>1, <2>2, RowsKept DEF EditProfile, matches, MatShape
    <2>3. ASSUME NEW S, EvaluateAll(S) PROVE MatInv'
      BY <2>1, <2>3, EvaluationKeepsRows, RowsKept DEF EvaluateAll, MatShape
    <2>4. CASE MatchRequest
      BY <2>3, <2>4 DEF MatchRequest, Evaluate, BatchEvaluate
    <2>5. CASE NotificationRequest
      BY <2>1, <2>5, RowsKept
         DEF NotificationRequest, MarkRead, MarkAllRead, UpdatePreferences, MatShape
    <2>6. CASE ApplicationRequest
      BY <2>1, <2>6, ApplicationRequestsKeepWhole
    <2> QED BY <1>1, <2>2, <2>4, <2>5, <2>6 DEF MatNext
  <1>2. CASE LearningRequest \/ Correspond
    <2>1. UNCHANGED matVars
      BY <1>2 DEF LearningRequest, Generate, Acknowledge, Archive, AddFeedback, Correspond
    <2>2. advice' \in [Watched -> AdviceStatus]
      <3>1. ASSUME NEW due, NEW refresh, advice' = Generated(due, refresh)
            PROVE  advice' \in [Watched -> AdviceStatus]
        BY <3>1 DEF Generated, MatShape, AdviceStatus
      <3>2. CASE \E refresh \in BOOLEAN : Generate(refresh)
        BY <3>1, <3>2 DEF Generate
      <3>3. CASE \E k \in Watched : Acknowledge(k) \/ Archive(k)
        BY <3>3 DEF Acknowledge, Archive, MatShape, AdviceStatus
      <3>4. CASE AddFeedback \/ Correspond
        BY <3>4 DEF AddFeedback, Correspond, MatShape
      <3> QED BY <1>2, <3>2, <3>3, <3>4 DEF LearningRequest
    <2> QED BY <2>1, <2>2, RowsKept DEF matVars, prepared, stored, MatShape
  <1>3. CASE UNCHANGED advVars
    BY <1>3, RowsKept DEF advVars, matVars, learning, prepared, stored, MatShape
  <1> QED BY <1>1, <1>2, <1>3 DEF AdvNext

\* What the type invariant says of an open preparation.
DraftTyped(d) ==
    /\ d.job \in DOMAIN Jobs /\ d.made \subseteq DocTypes
    /\ \E p \in Profiles : d.row = MatchRow(p, Jobs[d.job])
    /\ d.facts \in Profiles \cup {Facts(p, q) : p \in Profiles, q \in Profiles}

\* Lists loaded over facts whose lists were loaded before leave nothing of the older.
LEMMA FactsOfFacts ==
    ASSUME NEW p, NEW r, NEW q PROVE Facts(Facts(p, r), q) = Facts(p, q)
  BY DEF Facts, CandidateProse, SectionProse

\* A request that leaves applications, answers, documents and open preparations alone
\* keeps their types.
LEMMA TypesKept ==
    ASSUME MatTypeOK, UNCHANGED prepared, profile' \in Profiles, muted' \in BOOLEAN,
           unread' \subseteq DOMAIN Jobs,
           \A j \in DOMAIN Jobs : match'[j] # NoRow =>
               \E p \in Profiles : match'[j] = MatchRow(p, Jobs[j])
    PROVE  MatTypeOK'
  <1>1. \A a \in Apps : Open(a)' => DraftTyped(draft'[a])
    BY DEF MatTypeOK, DraftTyped, Open, prepared
  <1> QED BY <1>1 DEF MatTypeOK, DraftTyped, prepared, stored, Exists

\* A step of a preparation other than its commit writes one draft.
LEMMA DraftStepKeepsTypes ==
    ASSUME MatInv, MatTypeOK, NEW a \in Apps, NEW d, d = NoRow \/ DraftTyped(d),
           draft' = [draft EXCEPT ![a] = d], UNCHANGED <<profile, matches, stored>>
    PROVE  MatTypeOK'
  <1>1. ASSUME NEW b \in Apps, Open(b)' PROVE DraftTyped(draft'[b])
    BY <1>1 DEF MatInv, DraftsOK, MatTypeOK, DraftTyped, Open
  <1> QED BY <1>1 DEF MatTypeOK, DraftTyped, matches, stored, Exists

\* A preparation works on a match row of its job and the facts of two profiles at most.
LEMMA PreparationsKeepTypes ==
    ASSUME MatInv, MatTypeOK, NEW a \in Apps,
           (\E j \in DOMAIN Jobs : BeginPrepare(a, j)) \/ LoadFacts(a) \/ WriteDocument(a)
               \/ Refuse(a) \/ BreakOff(a)
    PROVE  MatTypeOK'
  <1>1. ASSUME NEW j \in DOMAIN Jobs, BeginPrepare(a, j) PROVE MatTypeOK'
    <2> DEFINE d == [job |-> j, row |-> match[j], facts |-> profile, answers |-> <<>>,
                     made |-> {}, sheet |-> {}]
    <2>1. \E p \in Profiles : match[j] = MatchRow(p, Jobs[j])
      BY <1>1 DEF BeginPrepare, MayPrepare, MatTypeOK
    <2>2. DraftTyped(d)
      BY <2>1 DEF DraftTyped, MatTypeOK
    <2> QED BY <1>1, <2>2, DraftStepKeepsTypes DEF BeginPrepare
  <1>2. CASE LoadFacts(a)
    <2> DEFINE old == draft[a]
               facts == Facts(old.facts, profile)
               asked == AnswersFor(facts, old.row, Jobs[old.job])
               d == [old EXCEPT !.facts = facts, !.answers = asked]
    <2>1. IsDraft(old) /\ DraftTyped(old) /\ old.answers = <<>>
      BY <1>2 DEF LoadFacts, Open, Loaded, MatInv, DraftsOK, MatTypeOK, DraftTyped
    <2>2. draft' = [draft EXCEPT ![a] = d] /\ UNCHANGED <<profile, matches, stored>>
      BY <1>2 DEF LoadFacts
    <2>3. old.facts \in Profiles \cup {Facts(p, q) : p \in Profiles, q \in Profiles}
      BY <2>1 DEF DraftTyped
    <2>4. facts \in {Facts(p, q) : p \in Profiles, q \in Profiles}
      BY <2>3, FactsOfFacts DEF MatTypeOK
    <2> HIDE DEF old, facts, asked
    <2>5. d.job = old.job /\ d.row = old.row /\ d.made = old.made /\ d.facts = facts
      BY <2>1 DEF IsDraft
    <2> HIDE DEF d
    <2>6. DraftTyped(d)
      BY <2>1, <2>4, <2>5 DEF DraftTyped
    <2> QED BY <2>2, <2>6, DraftStepKeepsTypes
  <1>3. CASE WriteDocument(a)
    <2> DEFINE old == draft[a]
               d == Written(old, old.facts)
    <2>1. IsDraft(old) /\ DraftTyped(old)
      BY <1>3 DEF WriteDocument, Unfinished, Open, Loaded, MatInv, DraftsOK, MatTypeOK, DraftTyped
    <2>2. draft' = [draft EXCEPT ![a] = d] /\ UNCHANGED <<profile, matches, stored>>
      BY <1>3 DEF WriteDocument
    <2>3. NextDocument(old.made) \in DocTypes
      BY DEF NextDocument, DocTypes
    <2> HIDE DEF old
    <2>4. d.job = old.job /\ d.row = old.row /\ d.facts = old.facts
          /\ d.made = old.made \cup {NextDocument(old.made)}
      BY <2>1 DEF IsDraft, Written
    <2> HIDE DEF d
    <2>5. DraftTyped(d)
      BY <2>1, <2>3, <2>4 DEF DraftTyped
    <2> QED BY <2>2, <2>5, DraftStepKeepsTypes
  <1>4. CASE Refuse(a) \/ BreakOff(a)
    BY <1>4, DraftStepKeepsTypes DEF Refuse, BreakOff
  <1> QED BY <1>1, <1>2, <1>3, <1>4

\* What is committed has its types.
LEMMA CommitsKeepTypes ==
    ASSUME MatInv, MatTypeOK, NEW a \in Apps, CommitPrepare(a)
    PROVE  MatTypeOK'
  <1> DEFINE d == draft[a]
             row == [job |-> d.job, status |-> "draft"]
             first == [t \in DocTypes |-> IF t \in d.made THEN 1 ELSE 0]
  <1>1. IsDraft(d) /\ d.answers # <<>>
    BY DEF CommitPrepare, Loaded, Open, MatInv, DraftsOK
  <1>2. /\ app' = [app EXCEPT ![a] = row] /\ answers' = [answers EXCEPT ![a] = d.answers]
        /\ versions' = [versions EXCEPT ![a] = first] /\ sheet' = [sheet EXCEPT ![a] = d.sheet]
        /\ draft' = [draft EXCEPT ![a] = NoRow]
        /\ UNCHANGED <<profile, match, muted, unread>>
    BY DEF CommitPrepare, matches
  <1>3. row \in [job : DOMAIN Jobs, status : AppStatus]
    BY <1>1 DEF AppStatus, IsDraft
  <1>4. \A t \in DocTypes : first[t] \in 0..MaxVersions
    BY MaterialsOK
  <1>5. \A q \in DOMAIN d.answers : d.answers[q] \in AnswerStatus
    <2>1. d.answers = AnswersFor(d.facts, d.row, Jobs[d.job])
      BY <1>1 DEF IsDraft
    <2> HIDE DEF d
    <2> QED BY <2>1 DEF AnswersFor, AnswerStatus
  <1> HIDE DEF d, row, first
  <1>6. /\ app'[a] = row /\ answers'[a] = d.answers /\ versions'[a] = first
        /\ \A b \in Apps \ {a} :
             app'[b] = app[b] /\ answers'[b] = answers[b] /\ versions'[b] = versions[b]
    BY <1>2 DEF MatInv, MatShape
  <1>7. \A b \in Apps : Exists(b)' => app'[b] \in [job : DOMAIN Jobs, status : AppStatus]
    BY <1>3, <1>6 DEF MatTypeOK, Exists
  <1>8. \A b \in Apps, q \in Questions : q \in DOMAIN answers'[b] => answers'[b][q] \in AnswerStatus
    BY <1>5, <1>6 DEF MatTypeOK
  <1>9. \A b \in Apps, t \in DocTypes : versions'[b][t] \in 0..MaxVersions
    BY <1>4, <1>6 DEF MatTypeOK
  <1>10. ASSUME NEW b \in Apps, Open(b)' PROVE DraftTyped(draft'[b])
    BY <1>2, <1>10 DEF MatInv, DraftsOK, MatTypeOK, DraftTyped, Open
  <1> QED BY <1>2, <1>7, <1>8, <1>9, <1>10 DEF MatTypeOK, DraftTyped

\* One application request keeps the types.
LEMMA ApplicationRequestsKeepTypes ==
    ASSUME MatInv, MatTypeOK, ApplicationRequest
    PROVE  MatTypeOK'
  <1>1. ASSUME NEW a \in Apps, (\E j \in DOMAIN Jobs : BeginPrepare(a, j)) \/ Prepare(a)
        PROVE  MatTypeOK'
    BY <1>1, PreparationsKeepTypes, CommitsKeepTypes DEF Prepare
  <1>2. \A b \in Apps : Open(b) => DraftTyped(draft[b])
    BY DEF MatTypeOK, DraftTyped
  <1>3. ASSUME NEW a \in Apps, NEW t \in Renewable, GenerateDocument(a, t)
        PROVE  MatTypeOK'
    <2>1. /\ t \in DocTypes /\ versions[a][t] < MaxVersions
          /\ versions' = [versions EXCEPT ![a][t] = @ + 1]
          /\ UNCHANGED <<profile, match, muted, unread, app, answers, draft>>
      BY <1>3, MaterialsOK DEF GenerateDocument, matches
    <2>2. \A b \in Apps, u \in DocTypes : versions'[b][u] \in 0..MaxVersions
      BY <2>1, MaterialsOK DEF MatInv, MatShape, MatTypeOK
    <2>3. \A b \in Apps : Open(b)' => DraftTyped(draft'[b])
      BY <1>2, <2>1 DEF Open
    <2> QED BY <2>1, <2>2, <2>3 DEF MatTypeOK, DraftTyped, Exists
  <1>4. ASSUME NEW a \in Apps, NEW q \in Answerable, UpdateAnswer(a, q)
        PROVE  MatTypeOK'
    <2>1. /\ answers' = [answers EXCEPT ![a][q] = "manual"]
          /\ UNCHANGED <<profile, match, muted, unread, app, versions, draft>>
      BY <1>4 DEF UpdateAnswer, matches
    <2>2. \A b \in Apps, r \in Questions : r \in DOMAIN answers'[b] => answers'[b][r] \in AnswerStatus
      BY <2>1 DEF MatInv, MatShape, MatTypeOK, AnswerStatus
    <2>3. \A b \in Apps : Open(b)' => DraftTyped(draft'[b])
      BY <1>2, <2>1 DEF Open
    <2> QED BY <2>1, <2>2, <2>3 DEF MatTypeOK, DraftTyped, Exists
  <1>5. ASSUME NEW a \in Apps, NEW status \in Statuses, UpdateStatus(a, status)
        PROVE  MatTypeOK'
    <2>1. /\ Exists(a) /\ status \in AppStatus /\ app' = [app EXCEPT ![a].status = status]
          /\ UNCHANGED <<profile, match, muted, unread, answers, versions, draft>>
      BY <1>5, MaterialsOK DEF UpdateStatus, matches
    <2>2. app[a] \in [job : DOMAIN Jobs, status : AppStatus]
      BY <2>1 DEF MatInv, MatShape, Exists
    <2>3. /\ app'[a] \in [job : DOMAIN Jobs, status : AppStatus]
          /\ \A b \in Apps : b # a => app'[b] = app[b]
      BY <2>1, <2>2 DEF MatInv, MatShape
    <2>4. \A b \in Apps : Open(b)' => DraftTyped(draft'[b])
      BY <1>2, <2>1 DEF Open
    <2> QED BY <2>1, <2>3, <2>4 DEF MatTypeOK, DraftTyped, Exists
  <1> QED BY <1>1, <1>3, <1>4, <1>5 DEF ApplicationRequest

\* Every request keeps the types.
LEMMA TypesAreKept == MatInv /\ MatTypeOK /\ [AdvNext]_advVars => MatTypeOK'
  <1> SUFFICES ASSUME MatInv, MatTypeOK, [AdvNext]_advVars PROVE MatTypeOK'
    OBVIOUS
  <1>1. CASE EditProfile
    BY <1>1, TypesKept DEF EditProfile, matches, MatTypeOK
  <1>2. ASSUME NEW S \in SUBSET DOMAIN Jobs, EvaluateAll(S) PROVE MatTypeOK'
    <2>1. profile \in Profiles /\ profile' = profile /\ muted' = muted /\ UNCHANGED prepared
      BY <1>2 DEF EvaluateAll, MatTypeOK
    <2>2. unread' \subseteq DOMAIN Jobs
      BY <1>2 DEF EvaluateAll, MatTypeOK
    <2>3. \A j \in DOMAIN Jobs : match'[j] # NoRow =>
              \E p \in Profiles : match'[j] = MatchRow(p, Jobs[j])
      BY <1>2, <2>1 DEF EvaluateAll, MatTypeOK, Rows
    <2> QED BY <2>1, <2>2, <2>3, TypesKept DEF MatTypeOK
  <1>3. CASE MatchRequest
    BY <1>2, <1>3 DEF MatchRequest, Evaluate, BatchEvaluate
  <1>4. CASE NotificationRequest
    <2>1. profile' = profile /\ match' = match /\ UNCHANGED prepared
      BY <1>4 DEF NotificationRequest, MarkRead, MarkAllRead, UpdatePreferences
    <2>2. unread' \subseteq unread
      BY <1>4 DEF NotificationRequest, MarkRead, MarkAllRead, UpdatePreferences
    <2>3. muted' \in BOOLEAN
      <3>1. CASE UpdatePreferences
        BY <3>1 DEF UpdatePreferences
      <3>2. CASE ~UpdatePreferences
        BY <1>4, <3>2 DEF NotificationRequest, MarkRead, MarkAllRead, MatTypeOK
      <3> QED BY <3>1, <3>2
    <2> QED BY <2>1, <2>2, <2>3, TypesKept DEF MatTypeOK
  <1>5. CASE ApplicationRequest
    BY <1>5, ApplicationRequestsKeepTypes
  <1>6. CASE UNCHANGED matVars
    BY <1>6, TypesKept DEF matVars, prepared, stored, MatTypeOK
  <1>7. CASE LearningRequest \/ Correspond
    BY <1>6, <1>7 DEF LearningRequest, Generate, Acknowledge, Archive, AddFeedback, Correspond
  <1> QED BY <1>1, <1>3, <1>4, <1>5, <1>6, <1>7 DEF AdvNext, MatNext, advVars

\* Match rows, applications, answers and documents have their types, and a preparation
\* works on a match row of its job and on facts of the candidate's profiles (prepare).
THEOREM MaterialsTypeCorrect == AdvSpec => []MatTypeOK
  <1>1. AdvInit => MatTypeOK
    <2> SUFFICES ASSUME AdvInit PROVE MatTypeOK
      OBVIOUS
    <2>1. \A a \in Apps, t \in DocTypes : versions[a][t] \in 0..MaxVersions
      BY MaterialsOK DEF AdvInit, MatInit
    <2>2. \A a \in Apps : ~Exists(a) /\ ~Open(a) /\ DOMAIN answers[a] = {}
      BY DEF AdvInit, MatInit, Exists, Open
    <2>3. /\ profile \in Profiles /\ muted \in BOOLEAN /\ unread \subseteq DOMAIN Jobs
          /\ \A j \in DOMAIN Jobs : match[j] = NoRow
      BY DEF AdvInit, MatInit
    <2> QED BY <2>1, <2>2, <2>3 DEF MatTypeOK
  <1> QED BY <1>1, InitiallyWhole, WholeIsKept, TypesAreKept, PTL DEF AdvSpec

\* An application is seen whole or not at all, whatever document is refused and whatever
\* is edited or evaluated between the steps of its preparation, and its answers sheet says
\* what its stored answers say, for any profiles and jobs (prepare, generate_document).
THEOREM ApplicationsAreWhole == AdvSpec => []PreparedWhole
  <1>1. MatInv => PreparedWhole
    BY DEF MatInv
  <1> QED BY <1>1, InitiallyWhole, WholeIsKept, PTL DEF AdvSpec

\* No document written from a match row, however stale, claims a skill the profile does
\* not hold (the three writers, for any skills and related skills).
THEOREM DocumentsAreGrounded == AdvSpec => []WriterGrounded
  <1>1. ASSUME NEW t \in DocTypes, NEW row, NEW j
        PROVE  Claims(t, profile, row, j) \cap Skills \subseteq profile.skills
    <2>1. Grounded(profile, row) \subseteq profile.skills
      BY DEF Grounded
    <2>2. Titles(profile) \cap Skills = {}
      BY MaterialsOK DEF Titles, SectionProse
    <2>3. CASE t = "cover_letter"
      BY <2>1, <2>2, <2>3, MaterialsOK DEF Claims, CoverLetterClaims, CandidateProse
    <2>4. CASE t = "tailored_resume"
      BY <2>2, <2>4, MaterialsOK DEF Claims, ResumeClaims, CandidateProse, SectionProse
    <2>5. CASE t = "answers_sheet"
      <3> DEFINE quoted == (IF profile.pay \notin {Absent, 0} THEN {"currency"} ELSE {})
                           \cup (IF profile.workAuth THEN j.asks \cap {"work_authorization"} ELSE {})
      <3>1. (profile.prose \cap quoted) \cap Skills = {}
        BY MaterialsOK DEF CandidateProse
      <3> QED BY <2>1, <2>2, <2>5, <3>1 DEF Claims, SheetClaims
    <2> QED BY <2>3, <2>4, <2>5 DEF DocTypes
  <1>2. WriterGrounded
    BY <1>1 DEF WriterGrounded
  <1> QED BY <1>2, PTL

\* Recommendations, feedback and the outreach counts keep to their enumerations.
THEOREM RecommendationsTypeCorrect == AdvSpec => []AdvTypeOK
  <1> DEFINE Counts == feedback \in BOOLEAN /\ mail \in Correspondence
  <1>1. AdvInit => Counts
    BY DEF AdvInit, Correspondence
  <1>2. Counts /\ [AdvNext]_advVars => Counts'
    BY RecommendationsOK DEF AdvNext, LearningRequest, Generate, Acknowledge, Archive, AddFeedback,
                             Correspond, learning, advVars
  <1>3. MatInv /\ Counts => AdvTypeOK
    BY DEF MatInv, MatShape, AdvTypeOK
  <1> HIDE DEF Counts
  <1> QED BY <1>1, <1>2, <1>3, InitiallyWhole, WholeIsKept, PTL DEF AdvSpec

\* Advice that was put away never comes back (generate_recommendations, acknowledge,
\* archive).
THEOREM AdviceGivenOnce == AdvSpec => AdviceIsGivenOnce
  <1>1. MatInv /\ [AdvNext]_advVars => [\A k \in Watched : advice'[k] \in Later(advice[k])]_advVars
    <2> SUFFICES ASSUME MatInv, AdvNext, NEW k \in Watched
                 PROVE  advice'[k] \in Later(advice[k])
      OBVIOUS
    <2>1. advice \in [Watched -> AdviceStatus]
      BY DEF MatInv, MatShape
    <2>2. advice[k] \in AdviceStatus
      BY <2>1
    <2>3. advice[k] \in Later(advice[k])
      BY <2>2 DEF Later, AdviceStatus
    <2>4. ASSUME NEW due, NEW refresh, advice' = Generated(due, refresh)
          PROVE  advice'[k] \in Later(advice[k])
      BY <2>2, <2>4 DEF Generated, Later, AdviceStatus
    <2>5. ASSUME NEW d \in Watched, Acknowledge(d) \/ Archive(d)
          PROVE  advice'[k] \in Later(advice[k])
      BY <2>1, <2>2, <2>3, <2>5 DEF Acknowledge, Archive, Later, AdviceStatus
    <2>6. CASE UNCHANGED advice
      BY <2>3, <2>6
    <2> QED BY <2>4, <2>5, <2>6
            DEF AdvNext, LearningRequest, Generate, AddFeedback, Correspond, learning
  <1> QED BY <1>1, InitiallyWhole, WholeIsKept, PTL DEF AdvSpec, AdviceIsGivenOnce

\* A better profile never makes a job a worse match, whatever profile the candidate has
\* by now (JobMatchScorer.score, for any jobs, profiles and weights).
THEOREM BetterProfilesAreNoWorse == AdvSpec => []BetterNeverHurts
  <1>1. MatInv => BetterNeverHurts
    BY EveryProfileIsFairlyScored DEF MatInv, MatShape, BetterNeverHurts
  <1> QED BY <1>1, InitiallyWhole, WholeIsKept, PTL DEF AdvSpec
=============================================================================
