---------------------------- MODULE FindingIngest ----------------------------
(***************************************************************************)
(* The vulnerabilities table and who writes it: the sessions that ingest   *)
(* the report of a scan (FindingIngestionService.ingest in a worker,       *)
(* normalize_scan_raw_result in a request), the analysts who triage        *)
(* findings, and the threat-intelligence job that flags and promotes them. *)
(*                                                                         *)
(* A finding is a pair (asset, fingerprint), unique in the table.  Every   *)
(* session reads rows, decides, and writes at its flush only the columns   *)
(* it changed; it runs at READ COMMITTED and does not flush before it      *)
(* queries (autoflush = False).  The flush locks the rows until the        *)
(* commit; an INSERT waits for the uncommitted INSERT of the same key.     *)
(***************************************************************************)
EXTENDS Naturals, Sequences, FiniteSets

CONSTANTS
  Findings,     \* (asset, fingerprint) keys that may be reported
  Scans,        \* scans whose reports are ingested
  Report,       \* Report[i]: the findings of scan i's report, in its order
  Analysts,     \* requests that triage findings
  Kev,          \* the findings whose CVE is in the KEV catalog
  EnrichLimit,  \* LIMIT of the enrichment query
  None,
  MaxRuns,      \* bound: times the report of a scan is ingested
  MaxTriages,   \* bound: decisions of analysts
  MaxAborts     \* bound: sessions that end for a reason outside the model

ASSUME ConstantsAssumption ==
  /\ None \notin Scans /\ None \notin Findings
  /\ Report \in [Scans -> Seq(Findings)]
  /\ Kev \subseteq Findings
  /\ EnrichLimit \in Nat \ {0}
  /\ MaxRuns \in Nat /\ MaxTriages \in Nat /\ MaxAborts \in Nat

VARIABLES
  row,        \* the vulnerabilities table, as committed
  completed,  \* scans of which an ingest has been committed
  ing,        \* the ingesting sessions, one per scan
  an,         \* the triage requests
  en,         \* the enrichment job
  runs, triages, aborts

vars == <<row, completed, ing, an, en, runs, triages, aborts>>
bounds == <<runs, triages, aborts>>

\* closed: REMEDIATED or RESOLVED.  dismissed: FALSE_POSITIVE or ACCEPTED_RISK.
Status == {"open", "closed", "dismissed", "reopened"}

\* promoted: severity raised to HIGH by the enrichment; by: scan_id.
Row == [status : Status \cup {"absent"}, promoted : BOOLEAN, kev : BOOLEAN,
        by : Scans \cup {None}]
AbsentRow == [status |-> "absent", promoted |-> FALSE, kev |-> FALSE, by |-> None]
NewRow(i) == [status |-> "open", promoted |-> FALSE, kev |-> FALSE, by |-> i]

Present(r) == r.status # "absent"

\* new: rows to INSERT.  twice: one of them is to be inserted a second time.
\* seen: the rows found, as they were when found (AbsentRow: not found).
Session == [pc : {"idle", "read", "flushed", "done", "gone"}, todo : Seq(Findings),
            new : SUBSET Findings, twice : BOOLEAN, seen : [Findings -> Row]]
Triage == [pc : {"idle", "decided"}, on : Findings \cup {None}, was : Status \cup {"absent"},
           to : Status]
Job == [pc : {"idle", "loaded"}, seen : [Findings -> Row]]

Nothing == [f \in Findings |-> AbsentRow]
NoSession == [pc |-> "idle", todo |-> <<>>, new |-> {}, twice |-> FALSE, seen |-> Nothing]
NoTriage == [pc |-> "idle", on |-> None, was |-> "absent", to |-> "open"]
NoJob == [pc |-> "idle", seen |-> Nothing]

TypeOK ==
  /\ row \in [Findings -> Row]
  /\ completed \in SUBSET Scans
  /\ ing \in [Scans -> Session]
  /\ an \in [Analysts -> Triage]
  /\ en \in Job
  /\ runs \in [Scans -> Nat] /\ triages \in Nat /\ aborts \in Nat

Init ==
  /\ row = Nothing
  /\ completed = {}
  /\ ing = [i \in Scans |-> NoSession]
  /\ an = [a \in Analysts |-> NoTriage]
  /\ en = NoJob
  /\ runs = [i \in Scans |-> 0] /\ triages = 0 /\ aborts = 0

\* The column of a row a session loaded as old and assigned new.
Column(cur, old, new) == IF new # old THEN new ELSE cur

\* The rows a flushed session keeps locked, inserted ones included.
Holds(i, f) == ing[i].pc = "flushed" /\ (f \in ing[i].new \/ Present(ing[i].seen[f]))
Free(f) == \A i \in Scans : ~Holds(i, f)

-----------------------------------------------------------------------------
(***************************************************************************)
(* Ingest                                                                  *)
(***************************************************************************)

Begin(i) ==
  /\ runs[i] < MaxRuns
  /\ runs' = [runs EXCEPT ![i] = @ + 1]
  /\ ing' = [ing EXCEPT ![i] = [NoSession EXCEPT !.pc = "read", !.todo = Report[i]]]
  /\ UNCHANGED <<row, completed, an, en, triages, aborts>>

\* A worker has the report of its scan; again if the scan is run again.
Ingest(i) == ing[i].pc \in {"idle", "gone"} /\ Begin(i)

\* POST /normalize on a scan that has been ingested.
Renormalize(i) == ing[i].pc = "done" /\ Begin(i)

\* Mutant of Read: each finding is committed as it comes.
ReadCommitting(i) ==
  LET f == Head(ing[i].todo) IN
  /\ ing[i].pc = "read" /\ ing[i].todo # <<>>
  /\ row' = [row EXCEPT ![f] = IF Present(@) THEN [@ EXCEPT !.by = i] ELSE NewRow(i)]
  /\ ing' = [ing EXCEPT ![i].todo = Tail(@)]
  /\ UNCHANGED <<completed, an, en, bounds>>

\* The next finding is looked up among the committed rows: the session's own
\* inserts are not flushed, so a finding reported twice is added twice.
Read(i) ==
  LET f == Head(ing[i].todo) IN
  /\ ing[i].pc = "read" /\ ing[i].todo # <<>>
  /\ ing' = [ing EXCEPT
       ![i].todo = Tail(@),
       ![i].twice = @ \/ (~Present(row[f]) /\ f \in ing[i].new),
       ![i].new = IF Present(row[f]) THEN @ ELSE @ \cup {f},
       ![i].seen[f] = IF Present(@) THEN @ ELSE row[f]]
  /\ UNCHANGED <<row, completed, an, en, bounds>>

\* The flush at the end of the report, once the rows it touches are unlocked.
Flush(i) ==
  /\ ing[i].pc = "read" /\ ing[i].todo = <<>>
  /\ ~ing[i].twice
  /\ \A f \in ing[i].new : ~Present(row[f])
  /\ \A f \in Findings : f \in ing[i].new \/ Present(ing[i].seen[f]) => Free(f)
  /\ ing' = [ing EXCEPT ![i].pc = "flushed"]
  /\ UNCHANGED <<row, completed, an, en, bounds>>

\* Mutant of Conflict: the error is swallowed and the scan completed.
ConflictIgnored(i) ==
  /\ ing[i].pc = "read" /\ ing[i].todo = <<>>
  /\ ing[i].twice \/ \E f \in ing[i].new : Present(row[f])
  /\ ing' = [ing EXCEPT ![i] = [NoSession EXCEPT !.pc = "done"]]
  /\ completed' = completed \cup {i}
  /\ UNCHANGED <<row, an, en, bounds>>

\* The flush violates uq_vulnerabilities_asset_fingerprint: everything the
\* session did is rolled back.
Conflict(i) ==
  /\ ing[i].pc = "read" /\ ing[i].todo = <<>>
  /\ ing[i].twice \/ \E f \in ing[i].new : Present(row[f])
  /\ ing' = [ing EXCEPT ![i] = [NoSession EXCEPT !.pc = "gone"]]
  /\ UNCHANGED <<row, completed, an, en, bounds>>

\* A row that was found: refreshed from the report, which undoes a promotion;
\* REMEDIATED and RESOLVED become REOPENED.
Refreshed(cur, old, i) ==
  [cur EXCEPT
     !.status = Column(@, old.status, IF old.status = "closed" THEN "reopened" ELSE old.status),
     !.promoted = Column(@, old.promoted, FALSE),
     !.by = Column(@, old.by, i)]

\* The findings and the scan's COMPLETED in one commit.
Commit(i) ==
  /\ ing[i].pc = "flushed"
  /\ row' = [f \in Findings |->
       IF f \in ing[i].new THEN NewRow(i)
       ELSE IF Present(ing[i].seen[f]) THEN Refreshed(row[f], ing[i].seen[f], i) ELSE row[f]]
  /\ completed' = completed \cup {i}
  /\ ing' = [ing EXCEPT ![i] = [NoSession EXCEPT !.pc = "done"]]
  /\ UNCHANGED <<an, en, bounds>>

\* The session ends otherwise: a crash, a time limit, a deadlock the database
\* breaks, a failure in the rest of the scan's transaction.
Abort(i) ==
  /\ ing[i].pc \in {"read", "flushed"} /\ aborts < MaxAborts
  /\ aborts' = aborts + 1
  /\ ing' = [ing EXCEPT ![i] = [NoSession EXCEPT !.pc = "gone"]]
  /\ UNCHANGED <<row, completed, an, en, runs, triages>>

-----------------------------------------------------------------------------
(***************************************************************************)
(* Triage: PATCH /vulnerabilities/{id}, any status to any status           *)
(***************************************************************************)

Decide(a, f, st) ==
  /\ an[a].pc = "idle" /\ triages < MaxTriages
  /\ Present(row[f])
  /\ triages' = triages + 1
  /\ an' = [an EXCEPT ![a] = [pc |-> "decided", on |-> f, was |-> row[f].status, to |-> st]]
  /\ UNCHANGED <<row, completed, ing, en, runs, aborts>>

\* The UPDATE waits for the row and writes the status if it is another one
\* than the request loaded.
Save(a) ==
  LET f == an[a].on IN
  /\ an[a].pc = "decided" /\ Free(f)
  /\ row' = [row EXCEPT ![f].status = Column(@, an[a].was, an[a].to)]
  /\ an' = [an EXCEPT ![a] = NoTriage]
  /\ UNCHANGED <<completed, ing, en, bounds>>

-----------------------------------------------------------------------------
(***************************************************************************)
(* Threat intelligence: enrich_vulnerabilities                             *)
(***************************************************************************)

Stored == {f \in Findings : Present(row[f])}

\* Mutant of Candidates: only_unenriched = True.
Unenriched == {f \in Stored : ~row[f].kev}

\* The findings the query may return.
Candidates == Stored

\* SELECT ... LIMIT, without an order; then the network lookups.
EnrichLoad ==
  /\ en.pc = "idle"
  /\ \E S \in SUBSET Candidates \ {{}} :
       /\ S = Candidates \/ Cardinality(S) = EnrichLimit
       /\ Cardinality(S) <= EnrichLimit
       /\ en' = [pc |-> "loaded", seen |-> [f \in Findings |-> IF f \in S THEN row[f] ELSE AbsentRow]]
  /\ UNCHANGED <<row, completed, ing, an, bounds>>

\* Mutant of Enriched: the new severity is assigned to the status.
EnrichedCrossed(cur, old, f) == [cur EXCEPT !.status = IF f \in Kev THEN "high" ELSE @]

\* is_actively_exploited as the catalog has it; LOW and below go up to HIGH.
Enriched(cur, old, f) ==
  [cur EXCEPT !.kev = Column(@, old.kev, f \in Kev),
              !.promoted = Column(@, old.promoted, old.promoted \/ f \in Kev)]

EnrichSave ==
  /\ en.pc = "loaded"
  /\ \A f \in Findings : Present(en.seen[f]) => Free(f)
  /\ row' = [f \in Findings |->
       IF Present(en.seen[f]) THEN Enriched(row[f], en.seen[f], f) ELSE row[f]]
  /\ en' = NoJob
  /\ UNCHANGED <<completed, ing, an, bounds>>

\* A lookup fails: the whole batch is rolled back.
EnrichFail ==
  /\ en.pc = "loaded" /\ aborts < MaxAborts
  /\ aborts' = aborts + 1
  /\ en' = NoJob
  /\ UNCHANGED <<row, completed, ing, an, runs, triages>>

-----------------------------------------------------------------------------
Proceed(i) == Read(i) \/ Flush(i) \/ Conflict(i) \/ Commit(i)

Next ==
  \/ \E i \in Scans : Ingest(i) \/ Renormalize(i) \/ Proceed(i) \/ Abort(i)
  \/ \E a \in Analysts, f \in Findings, st \in Status : Decide(a, f, st)
  \/ \E a \in Analysts : Save(a)
  \/ EnrichLoad \/ EnrichSave \/ EnrichFail

Spec == Init /\ [][Next]_vars

\* A session that has begun goes on to its end; beat starts the enrichment
\* every few hours and its lookups return.
Fairness ==
  /\ \A i \in Scans : WF_vars(Proceed(i))
  /\ WF_vars(EnrichLoad) /\ WF_vars(EnrichSave)

FairSpec == Spec /\ Fairness

-----------------------------------------------------------------------------
(***************************************************************************)
(* Properties                                                              *)
(***************************************************************************)

Reports(i, f) == \E n \in 1 .. Len(Report[i]) : Report[i][n] = f

\* A completed scan has lost none of its findings, whatever other sessions
\* inserted, refused or rolled back meanwhile.
ReportsAreKept ==
  \A i \in completed, f \in Findings : Reports(i, f) => Present(row[f])

\* The scan a finding refers to is one that reported it and whose ingest was
\* committed: a rolled-back session leaves no trace.
EvidenceIsCommitted ==
  \A f \in Findings : Present(row[f]) => row[f].by \in completed /\ Reports(row[f].by, f)

\* The job has loaded f, or a batch that leaves f out.
Selected(f) == en.pc = "loaded" /\ Present(en.seen[f])
PassedOver(f) == en.pc = "loaded" /\ ~Present(en.seen[f]) /\ Present(row[f])

\* A KEV finding that is stored without its promotion, or that a rescan has
\* demoted, is promoted (again) by a later run of the enrichment, unless the
\* LIMIT passes it over in all of them: the query has no order that would
\* bring its turn (enrich_vulnerabilities).
KevIsPromoted ==
  \A f \in Kev :
    \/ []<>PassedOver(f) /\ <>[]~Selected(f)
    \/ (Present(row[f]) /\ ~row[f].promoted) ~> row[f].promoted
=============================================================================
