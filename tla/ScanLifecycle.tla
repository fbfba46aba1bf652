---------------------------- MODULE ScanLifecycle ----------------------------
(***************************************************************************)
(* The life of a Scan row: the API requests that create, import and start  *)
(* scans, the Celery broker that carries their tasks, and the scanner      *)
(* workers that run them and trigger pipeline follow-ups.                  *)
(*                                                                         *)
(* A worker executes a whole scan inside one database transaction          *)
(* (session_scope): its first flush takes the row lock that PostgreSQL     *)
(* keeps until commit or rollback, and what it writes is seen by nobody    *)
(* else until then.  API requests use short transactions.  An ORM session  *)
(* writes only the columns whose value differs from the one it loaded, so  *)
(* every process carries the row as it saw it.                             *)
(***************************************************************************)
EXTENDS Naturals

CONSTANTS
  Scans,        \* identifiers of the scans that may be created
  Workers,      \* scanner-worker processes
  Clients,      \* API request handlers and scheduler dispatches, one scan each
  Follow,       \* Follow[s]: config.pipeline_next_scan_id of s, or None
  None,         \* no scan, no process
  MaxPublish,   \* bound: MaxPublish[s] tasks of s published by clients
  MaxCrashes,   \* bound: worker crashes
  MaxAborts     \* bound: tasks ended by an uncaught exception

\* A pipeline is two scans: a discovery and its follow-up, each of one pipeline.
ASSUME FollowAssumption ==
  /\ None \notin Scans \cup Workers
  /\ Follow \in [Scans -> Scans \cup {None}]
  /\ \A s \in Scans : Follow[s] # None => Follow[Follow[s]] = None
  /\ \A s, t \in Scans : Follow[s] = Follow[t] /\ Follow[s] # None => s = t

ASSUME BoundsAssumption ==
  MaxPublish \in [Scans -> Nat] /\ MaxCrashes \in Nat /\ MaxAborts \in Nat

VARIABLES
  row,        \* the scans table, as committed
  findings,   \* scans whose findings are committed (vulnerabilities table)
  lock,       \* lock[s]: the worker transaction holding the lock of row s
  queue,      \* queue[s]: tasks for s waiting in the broker
  wk,         \* the workers
  cl,         \* the API requests
  published,  \* published[s]: tasks clients published for s
  crashes, aborts

vars == <<row, findings, lock, queue, wk, cl, published, crashes, aborts>>
bounds == <<published, crashes, aborts>>

(***************************************************************************)
(* The columns the properties tell apart.  config is one JSON column: a    *)
(* session that writes it writes all of its keys.                          *)
(***************************************************************************)
Status == {"absent", "pending", "queued", "running", "completed", "failed", "cancelled"}
ConfigKey == {"last_result", "pipeline_triggered_by"}
Row == [status : Status, error : BOOLEAN, config : SUBSET ConfigKey]

AbsentRow  == [status |-> "absent", error |-> FALSE, config |-> {}]
PendingRow == [status |-> "pending", error |-> FALSE, config |-> {}]
ImportedRow == [status |-> "completed", error |-> FALSE, config |-> {"last_result"}]

WorkerPc == {"idle", "loaded", "tool", "trigger", "publish", "stamp", "done"}
ClientPc == {"idle", "publish", "mark"}
Worker == [pc : WorkerPc, scan : Scans \cup {None}, seen : Row, next : Row]
Client == [pc : ClientPc, scan : Scans \cup {None}, seen : Row]

IdleWorker == [pc |-> "idle", scan |-> None, seen |-> AbsentRow, next |-> AbsentRow]
IdleClient == [pc |-> "idle", scan |-> None, seen |-> AbsentRow]

\* What a flush leaves in a column now holding cur, for a session that loaded
\* old and assigned new: an unchanged attribute is not in the UPDATE.
Column(cur, old, new) == IF new # old THEN new ELSE cur

Flush(cur, old, new) ==
  [status |-> Column(cur.status, old.status, new.status),
   error  |-> Column(cur.error, old.error, new.error),
   config |-> Column(cur.config, old.config, new.config)]

IsFollowUp(s) == \E d \in Scans : Follow[d] = s
Exists(s) == row[s].status # "absent"

TypeOK ==
  /\ row \in [Scans -> Row]
  /\ findings \in SUBSET Scans
  /\ lock \in [Scans -> Workers \cup {None}]
  /\ queue \in [Scans -> Nat]
  /\ wk \in [Workers -> Worker]
  /\ cl \in [Clients -> Client]
  /\ published \in [Scans -> Nat]
  /\ crashes \in Nat /\ aborts \in Nat

Init ==
  /\ row = [s \in Scans |-> AbsentRow]
  /\ findings = {}
  /\ lock = [s \in Scans |-> None]
  /\ queue = [s \in Scans |-> 0]
  /\ wk = [w \in Workers |-> IdleWorker]
  /\ cl = [c \in Clients |-> IdleClient]
  /\ published = [s \in Scans |-> 0]
  /\ crashes = 0
  /\ aborts = 0

-----------------------------------------------------------------------------
(***************************************************************************)
(* API requests                                                            *)
(***************************************************************************)

\* The rows after scan s is inserted, with the follow-up of a pipeline.
Inserted(s) ==
  [t \in Scans |-> IF t = s \/ t = Follow[s] THEN PendingRow ELSE row[t]]

\* POST /scans without start_immediately: the row, committed at the end.
Create(s) ==
  /\ ~Exists(s) /\ ~IsFollowUp(s) /\ Follow[s] = None
  /\ row' = Inserted(s)
  /\ UNCHANGED <<findings, lock, queue, wk, cl, bounds>>

\* Mutant of Submit: the task may be published before the row is committed.
SubmitUncommitted(c, s) ==
  /\ cl[c].pc = "idle"
  /\ ~Exists(s) /\ ~IsFollowUp(s)
  /\ published[s] < MaxPublish[s]
  /\ cl' = [cl EXCEPT ![c] = [pc |-> "publish", scan |-> s, seen |-> PendingRow]]
  /\ UNCHANGED <<row, findings, lock, queue, wk, bounds>>

\* POST /scans with start_immediately, or POST /scans/pipeline: the rows are
\* committed before the task is published.
Submit(c, s) ==
  /\ cl[c].pc = "idle"
  /\ ~Exists(s) /\ ~IsFollowUp(s)
  /\ published[s] < MaxPublish[s]
  /\ row' = Inserted(s)
  /\ cl' = [cl EXCEPT ![c] = [pc |-> "publish", scan |-> s, seen |-> PendingRow]]
  /\ UNCHANGED <<findings, lock, queue, wk, bounds>>

\* POST /scans/{id}/start: any existing scan, whatever its status.
Start(c, s) ==
  /\ cl[c].pc = "idle"
  /\ Exists(s)
  /\ published[s] < MaxPublish[s]
  /\ cl' = [cl EXCEPT ![c] = [pc |-> "publish", scan |-> s, seen |-> row[s]]]
  /\ UNCHANGED <<row, findings, lock, queue, wk, bounds>>

\* POST /scans/import-report: a completed row and its findings, one commit.
ImportReport(s) ==
  /\ ~Exists(s) /\ ~IsFollowUp(s) /\ Follow[s] = None
  /\ row' = [row EXCEPT ![s] = ImportedRow]
  /\ findings' = findings \cup {s}
  /\ UNCHANGED <<lock, queue, wk, cl, bounds>>

\* run_*.delay(): the task is in the broker, the row still says what it said.
Publish(c) ==
  /\ cl[c].pc = "publish"
  /\ published[cl[c].scan] < MaxPublish[cl[c].scan]
  /\ queue' = [queue EXCEPT ![cl[c].scan] = @ + 1]
  /\ published' = [published EXCEPT ![cl[c].scan] = @ + 1]
  /\ cl' = [cl EXCEPT ![c].pc = "mark"]
  /\ UNCHANGED <<row, findings, lock, wk, crashes, aborts>>

\* scan.status = QUEUED, flushed after the publish: the UPDATE waits for the
\* row lock and writes the status unless it was QUEUED when loaded.
MarkQueued(c) ==
  LET s == cl[c].scan IN
  /\ cl[c].pc = "mark"
  /\ lock[s] = None
  /\ row' = [row EXCEPT ![s] = Flush(@, cl[c].seen, [cl[c].seen EXCEPT !.status = "queued"])]
  /\ cl' = [cl EXCEPT ![c] = IdleClient]
  /\ UNCHANGED <<findings, lock, queue, wk, bounds>>

\* The request fails: no broker, an engine without a worker, a dead process.
\* The rows committed before the publish remain.
GiveUp(c) ==
  /\ cl[c].pc # "idle"
  /\ cl' = [cl EXCEPT ![c] = IdleClient]
  /\ UNCHANGED <<row, findings, lock, queue, wk, bounds>>

-----------------------------------------------------------------------------
(***************************************************************************)
(* Scanner workers                                                         *)
(***************************************************************************)

\* The states in which a worker's transaction holds the lock of its scan.
Running(w) == wk[w].pc \in {"tool", "trigger"}

\* A task is delivered (late acknowledgement) and _load_scan reads the row.
Take(w, s) ==
  /\ wk[w].pc = "idle"
  /\ queue[s] > 0
  /\ queue' = [queue EXCEPT ![s] = @ - 1]
  /\ wk' = [wk EXCEPT ![w] = [pc |-> "loaded", scan |-> s, seen |-> row[s], next |-> AbsentRow]]
  /\ UNCHANGED <<row, findings, lock, cl, bounds>>

\* Mutant of Begin: RUNNING is not flushed, so no row lock is taken.
BeginUnlocked(w) ==
  /\ wk[w].pc = "loaded"
  /\ wk' = [wk EXCEPT ![w].pc = "tool"]
  /\ UNCHANGED <<row, findings, lock, queue, cl, bounds>>

\* The flush of RUNNING waits for the row lock and takes it; the tool starts.
Begin(w) ==
  /\ wk[w].pc = "loaded"
  /\ lock[wk[w].scan] = None
  /\ lock' = [lock EXCEPT ![wk[w].scan] = w]
  /\ wk' = [wk EXCEPT ![w].pc = "tool"]
  /\ UNCHANGED <<row, findings, queue, cl, bounds>>

Release(w) == lock' = [lock EXCEPT ![wk[w].scan] = None]
Goto(w, pc) == wk' = [wk EXCEPT ![w].pc = pc]

\* The row a failed run commits.  payload: the tool ran and returned non-zero.
FailedRow(w, payload) ==
  [status |-> "failed", error |-> TRUE,
   config |-> IF payload THEN wk[w].seen.config \cup {"last_result"}
                         ELSE row[wk[w].scan].config]

\* Mutant of FailScan: the early return leaves the transaction open.
FailScanOpen(w) ==
  /\ wk[w].pc = "tool"
  /\ \E payload \in BOOLEAN : row' = [row EXCEPT ![wk[w].scan] = FailedRow(w, payload)]
  /\ Goto(w, "done")
  /\ UNCHANGED <<findings, lock, queue, cl, bounds>>

\* No targets, no acknowledged RoE, a Tool*Error or a non-zero return code.
FailScan(w) ==
  /\ wk[w].pc = "tool"
  /\ \E payload \in BOOLEAN : row' = [row EXCEPT ![wk[w].scan] = FailedRow(w, payload)]
  /\ Release(w)
  /\ Goto(w, "done")
  /\ UNCHANGED <<findings, queue, cl, bounds>>

\* The row a successful run commits: the error column is written only if it
\* held an error when loaded; config is the loaded one with last_result.
CompletedRow(w) ==
  [status |-> "completed",
   error  |-> Column(row[wk[w].scan].error, wk[w].seen.error, FALSE),
   config |-> wk[w].seen.config \cup {"last_result"}]

\* Mutant of Triggerable: a QUEUED follow-up is taken to have its task.
TriggerableOnce == {"pending", "failed"}

\* The statuses of a follow-up that the end of its discovery (re)queues.
Triggerable == {"pending", "failed", "queued"}

\* Findings ingested, no follow-up to trigger: one commit.
Complete(w) ==
  LET s == wk[w].scan IN
  /\ wk[w].pc = "tool"
  /\ Follow[s] # None => row[Follow[s]].status \notin Triggerable
  /\ row' = [row EXCEPT ![s] = CompletedRow(w)]
  /\ findings' = findings \cup {s}
  /\ Release(w)
  /\ Goto(w, "done")
  /\ UNCHANGED <<queue, cl, bounds>>

\* Mutant of ReadFollow: COMPLETED is committed before the findings.
ReadFollowEarly(w) ==
  LET f == Follow[wk[w].scan] IN
  /\ wk[w].pc = "tool"
  /\ f # None
  /\ row[f].status \in Triggerable
  /\ row' = [row EXCEPT ![wk[w].scan] = CompletedRow(w)]
  /\ wk' = [wk EXCEPT ![w].pc = "trigger", ![w].next = row[f]]
  /\ UNCHANGED <<findings, lock, queue, cl, bounds>>

\* Findings ingested and flushed; the follow-up row is read and may be queued.
ReadFollow(w) ==
  LET f == Follow[wk[w].scan] IN
  /\ wk[w].pc = "tool"
  /\ f # None
  /\ row[f].status \in Triggerable
  /\ wk' = [wk EXCEPT ![w].pc = "trigger", ![w].next = row[f]]
  /\ UNCHANGED <<row, findings, lock, queue, cl, bounds>>

\* The follow-up as the session assigns it.
TriggeredRow(seen) ==
  [status |-> "queued", error |-> FALSE,
   config |-> seen.config \cup {"pipeline_triggered_by"}]

\* Mutant of TriggerCommit: the follow-up is committed in a session of its own,
\* the discovery's own results are left to a commit that may never come.
TriggerCommitApart(w) ==
  LET s == wk[w].scan
      f == Follow[s] IN
  /\ wk[w].pc = "trigger"
  /\ lock[f] = None
  /\ row' = [row EXCEPT ![f] = Flush(@, wk[w].next, TriggeredRow(wk[w].next))]
  /\ Release(w)
  /\ Goto(w, "publish")
  /\ UNCHANGED <<findings, queue, cl, bounds>>

\* session.commit() before the publish: the discovery's COMPLETED row, its
\* findings and the follow-up's QUEUED row, once the follow-up is not locked.
TriggerCommit(w) ==
  LET s == wk[w].scan
      f == Follow[s] IN
  /\ wk[w].pc = "trigger"
  /\ lock[f] = None
  /\ row' = [row EXCEPT ![s] = CompletedRow(w),
                        ![f] = Flush(@, wk[w].next, TriggeredRow(wk[w].next))]
  /\ findings' = findings \cup {s}
  /\ Release(w)
  /\ Goto(w, "publish")
  /\ UNCHANGED <<queue, cl, bounds>>

PublishNext(w) ==
  /\ wk[w].pc = "publish"
  /\ queue' = [queue EXCEPT ![Follow[wk[w].scan]] = @ + 1]
  /\ Goto(w, "stamp")
  /\ UNCHANGED <<row, findings, lock, cl, bounds>>

\* The broker refuses: the follow-up, reloaded after the commit, is FAILED.
PublishNextFails(w) ==
  LET f == Follow[wk[w].scan] IN
  /\ wk[w].pc = "publish"
  /\ lock[f] = None
  /\ row' = [row EXCEPT ![f].status = "failed", ![f].error = TRUE]
  /\ Goto(w, "done")
  /\ UNCHANGED <<findings, lock, queue, cl, bounds>>

\* The flush of celery_task_id waits for the follow-up's lock, then the commit.
Stamp(w) ==
  /\ wk[w].pc = "stamp"
  /\ lock[Follow[wk[w].scan]] = None
  /\ Goto(w, "done")
  /\ UNCHANGED <<row, findings, lock, queue, cl, bounds>>

\* An exception leaves session_scope (ingest, soft time limit, database), or
\* the hard time limit kills the task: the transaction rolls back; the task is
\* acknowledged, not retried.
Abort(w) ==
  /\ wk[w].pc \in {"loaded", "tool", "trigger", "publish", "stamp"}
  /\ aborts < MaxAborts
  /\ aborts' = aborts + 1
  /\ lock' = [s \in Scans |-> IF lock[s] = w THEN None ELSE lock[s]]
  /\ Goto(w, "done")
  /\ UNCHANGED <<row, findings, queue, cl, published, crashes>>

\* task_acks_late: the task leaves the broker when the worker is done with it.
Ack(w) ==
  /\ wk[w].pc = "done"
  /\ wk' = [wk EXCEPT ![w] = IdleWorker]
  /\ UNCHANGED <<row, findings, lock, queue, cl, bounds>>

\* The worker process dies: its transaction rolls back and the broker delivers
\* the unacknowledged task again.
Crash(w) ==
  /\ wk[w].pc # "idle"
  /\ crashes < MaxCrashes
  /\ crashes' = crashes + 1
  /\ queue' = [queue EXCEPT ![wk[w].scan] = @ + 1]
  /\ lock' = [s \in Scans |-> IF lock[s] = w THEN None ELSE lock[s]]
  /\ wk' = [wk EXCEPT ![w] = IdleWorker]
  /\ UNCHANGED <<row, findings, cl, published, aborts>>

-----------------------------------------------------------------------------
Request(c) ==
  \/ \E s \in Scans : Submit(c, s) \/ Start(c, s)
  \/ Publish(c) \/ MarkQueued(c) \/ GiveUp(c)

\* The steps of a task that the time limits make happen.
Work(w) ==
  \/ Begin(w) \/ FailScan(w) \/ Complete(w)
  \/ ReadFollow(w) \/ TriggerCommit(w)
  \/ PublishNext(w) \/ PublishNextFails(w) \/ Stamp(w) \/ Ack(w)

Next ==
  \/ \E s \in Scans : Create(s) \/ ImportReport(s)
  \/ \E c \in Clients : Request(c)
  \/ \E w \in Workers : Work(w) \/ Abort(w) \/ Crash(w)
  \/ \E w \in Workers, s \in Scans : Take(w, s)

Spec == Init /\ [][Next]_vars

\* Workers poll the broker, and tools end (task_time_limit).  A task waiting
\* for a row lock gets it when the row stays free.
Fairness ==
  /\ \A w \in Workers : WF_vars(Work(w))
  /\ \A w \in Workers, s \in Scans : WF_vars(Take(w, s))

FairSpec == Spec /\ Fairness

-----------------------------------------------------------------------------
(***************************************************************************)
(* Properties                                                              *)
(***************************************************************************)

\* The scanner is never run twice at once for one scan, whatever is published,
\* restarted or redelivered: the RUNNING flush holds the row lock (_update_scan).
OneRunPerScan ==
  \A v, w \in Workers : Running(v) /\ Running(w) /\ wk[v].scan = wk[w].scan => v = w

\* The scan row is committed before its task is published (enqueue,
\* dispatch_due_schedules): no worker is handed a scan it cannot load.
RowBeforeTask ==
  /\ \A s \in Scans : queue[s] > 0 => Exists(s)
  /\ \A w \in Workers : wk[w].pc # "idle" => wk[w].seen.status # "absent"

\* A scan is COMPLETED only with its findings in the database: ingest and
\* status are one transaction, whatever is rolled back, redelivered or rerun.
CompletedHasFindings ==
  \A s \in Scans : row[s].status = "completed" => s \in findings

\* A follow-up carries pipeline_triggered_by only once its discovery's results
\* are committed (_maybe_enqueue_pipeline_next).
TriggeredAfterDiscovery ==
  \A d \in Scans : (Follow[d] # None /\ "pipeline_triggered_by" \in row[Follow[d]].config)
                     => d \in findings

\* No worker holds a scan row for ever: in particular the waits of a pipeline
\* (discovery transaction on follow-up row) never close a cycle.
LocksReleased ==
  \A w \in Workers : (\E s \in Scans : lock[s] = w) ~> (\A s \in Scans : lock[s] # w)

\* Once a discovery has committed its QUEUED follow-up, the follow-up reaches a
\* worker or fails visibly, even if the worker dies between that commit and the
\* publish: the redelivered discovery triggers it again, unless its rerun fails
\* or an uncaught exception ends it, which is acknowledged.
FollowUpProceeds ==
  \A d \in Scans : Follow[d] # None =>
    (\E w \in Workers : wk[w].pc = "publish" /\ wk[w].scan = d)
      ~> \/ \E w \in Workers : wk[w].scan = Follow[d]
         \/ row[Follow[d]].status # "queued"
         \/ row[d].status = "failed"
         \/ aborts > 0
=============================================================================
