------------------------ MODULE ScanLifecycle_proofs ------------------------
(***************************************************************************)
(* Theorems about ScanLifecycle, for every set of scans, workers and       *)
(* clients, every pipeline layout and every bound.                         *)
(*                                                                         *)
(* None of the safety properties is inductive alone.  IInv adds what the   *)
(* code's transactions establish: the lock of a row is held by exactly the *)
(* worker whose transaction runs that scan, every task and every request   *)
(* is for a committed row, both rows of a pipeline are committed together, *)
(* and the copy of a row that a worker loaded was true when it loaded it.  *)
(***************************************************************************)
EXTENDS ScanLifecycle, TLAPS

\* The lock of row s is w's exactly while w's transaction runs scan s.
LockOwner ==
  \A w \in Workers, s \in Scans : lock[s] = w <=> (Running(w) /\ wk[w].scan = s)

\* A busy worker, and a busy request, has a scan whose row is committed.
BusyHasRow ==
  /\ \A w \in Workers : wk[w].pc # "idle" =>
       wk[w].scan \in Scans /\ Exists(wk[w].scan) /\ wk[w].seen.status # "absent"
  /\ \A c \in Clients : cl[c].pc # "idle" =>
       cl[c].scan \in Scans /\ Exists(cl[c].scan) /\ cl[c].seen.status # "absent"

\* A task in the broker is for a committed row.
QueuedHasRow == \A s \in Scans : queue[s] > 0 => Exists(s)

\* The two rows of a pipeline are committed together.
PipelineTogether == \A s \in Scans : Follow[s] # None => (Exists(s) <=> Exists(Follow[s]))

\* Only a worker that completed a discovery is in the follow-up states.
TriggerHasFollow ==
  \A w \in Workers : wk[w].pc \in {"trigger", "publish", "stamp"} => Follow[wk[w].scan] # None

\* A worker's copy of a follow-up row carries the trigger key only once the
\* discovery's findings are committed.
SeenTriggerIsTrue ==
  \A w \in Workers, d \in Scans :
    (wk[w].pc # "idle" /\ Follow[d] # None /\ wk[w].scan = Follow[d]
       /\ "pipeline_triggered_by" \in wk[w].seen.config) => d \in findings

IInv ==
  /\ TypeOK
  /\ LockOwner
  /\ BusyHasRow
  /\ QueuedHasRow
  /\ PipelineTogether
  /\ TriggerHasFollow
  /\ SeenTriggerIsTrue
  /\ CompletedHasFindings
  /\ TriggeredAfterDiscovery

-----------------------------------------------------------------------------
\* A flush returns a row of the table's type, and never makes a row absent.
LEMMA FlushType ==
  ASSUME NEW cur \in Row, NEW old \in Row, NEW new \in Row
  PROVE  /\ Flush(cur, old, new) \in Row
         /\ cur.status # "absent" /\ new.status # "absent" => Flush(cur, old, new).status # "absent"
BY DEF Flush, Column, Row

\* The rows the model writes are rows.
LEMMA RowTypes ==
  /\ AbsentRow \in Row /\ PendingRow \in Row /\ ImportedRow \in Row
  /\ IdleWorker \in Worker /\ IdleClient \in Client
  /\ \A seen \in Row : TriggeredRow(seen) \in Row
  /\ \A seen \in Row : [seen EXCEPT !.status = "queued"] \in Row
BY DEF AbsentRow, PendingRow, ImportedRow, IdleWorker, IdleClient, TriggeredRow,
       Row, Status, ConfigKey, Worker, Client, WorkerPc, ClientPc

\* The rows a run commits, and the statuses they may have.
LEMMA RunRows ==
  ASSUME TypeOK, NEW w \in Workers, wk[w].scan \in Scans, NEW payload \in BOOLEAN
  PROVE  /\ FailedRow(w, payload) \in Row
         /\ CompletedRow(w) \in Row
BY DEF TypeOK, FailedRow, CompletedRow, Column, Row, Status, ConfigKey, Worker

\* A pipeline's discovery is not its own follow-up, and a follow-up has none.
LEMMA FollowFacts ==
  ASSUME NEW s \in Scans, Follow[s] # None
  PROVE  /\ Follow[s] \in Scans /\ Follow[s] # s /\ Follow[Follow[s]] = None
         /\ \A t \in Scans : Follow[t] = Follow[s] => t = s
BY FollowAssumption

-----------------------------------------------------------------------------
THEOREM InitIInv == Init => IInv
<1> SUFFICES ASSUME Init PROVE IInv
  OBVIOUS
<1> USE DEF Init, Exists
<1>1. TypeOK
  BY RowTypes DEF TypeOK
<1>2. LockOwner
  BY FollowAssumption DEF LockOwner, Running, IdleWorker
<1>3. BusyHasRow
  BY DEF BusyHasRow, IdleWorker, IdleClient
<1>4. QueuedHasRow /\ PipelineTogether
  BY FollowAssumption DEF QueuedHasRow, PipelineTogether, AbsentRow
<1>5. TriggerHasFollow /\ SeenTriggerIsTrue
  BY DEF TriggerHasFollow, SeenTriggerIsTrue, IdleWorker
<1>6. CompletedHasFindings /\ TriggeredAfterDiscovery
  BY FollowAssumption DEF CompletedHasFindings, TriggeredAfterDiscovery, AbsentRow
<1>7. QED
  BY <1>1, <1>2, <1>3, <1>4, <1>5, <1>6 DEF IInv

-----------------------------------------------------------------------------
\* Every step keeps the types.
LEMMA NextTypeOK == ASSUME IInv, [Next]_vars PROVE TypeOK'
<1> USE RowTypes DEF IInv, TypeOK
<1>1. ASSUME NEW s \in Scans, Create(s) \/ ImportReport(s) PROVE TypeOK'
  BY <1>1 DEF Create, ImportReport, Inserted, bounds
<1>2. ASSUME NEW c \in Clients, NEW s \in Scans, Submit(c, s) \/ Start(c, s) PROVE TypeOK'
  BY <1>2 DEF Submit, Start, Inserted, bounds, Client, ClientPc
<1>3. ASSUME NEW c \in Clients, Publish(c) PROVE TypeOK'
  BY <1>3 DEF Publish, Client, ClientPc, BusyHasRow
<1>4. ASSUME NEW c \in Clients, MarkQueued(c) PROVE TypeOK'
  <2>1. cl[c].scan \in Scans /\ cl[c].seen \in Row
    BY <1>4 DEF MarkQueued, BusyHasRow, Client
  <2>2. Flush(row[cl[c].scan], cl[c].seen, [cl[c].seen EXCEPT !.status = "queued"]) \in Row
    BY <2>1, FlushType
  <2>3. QED
    BY <1>4, <2>1, <2>2 DEF MarkQueued, bounds
<1>5. ASSUME NEW c \in Clients, GiveUp(c) PROVE TypeOK'
  BY <1>5 DEF GiveUp, bounds
<1>6. ASSUME NEW w \in Workers, NEW s \in Scans, Take(w, s) PROVE TypeOK'
  BY <1>6 DEF Take, bounds, Worker, WorkerPc
<1>7. ASSUME NEW w \in Workers, Begin(w) PROVE TypeOK'
  BY <1>7 DEF Begin, bounds, Worker, WorkerPc
<1>8. ASSUME NEW w \in Workers, FailScan(w) PROVE TypeOK'
  BY <1>8, RunRows DEF FailScan, Release, Goto, bounds, Worker, WorkerPc, BusyHasRow
<1>9. ASSUME NEW w \in Workers, Complete(w) PROVE TypeOK'
  BY <1>9, RunRows DEF Complete, Release, Goto, bounds, Worker, WorkerPc, BusyHasRow
<1>10. ASSUME NEW w \in Workers, ReadFollow(w) PROVE TypeOK'
  BY <1>10, FollowAssumption DEF ReadFollow, bounds, Worker, WorkerPc, BusyHasRow
<1>11. ASSUME NEW w \in Workers, TriggerCommit(w) PROVE TypeOK'
  <2> DEFINE s == wk[w].scan
             f == Follow[s]
  <2>1. s \in Scans /\ f \in Scans /\ wk[w].next \in Row
    BY <1>11, FollowAssumption DEF TriggerCommit, BusyHasRow, TriggerHasFollow, Worker
  <2>2. CompletedRow(w) \in Row
    BY <2>1, RunRows
  <2>3. \A cur \in Row : Flush(cur, wk[w].next, TriggeredRow(wk[w].next)) \in Row
    BY <2>1, FlushType
  <2>4. row' \in [Scans -> Row]
    BY <1>11, <2>1, <2>2, <2>3 DEF TriggerCommit
  <2>5. QED
    BY <1>11, <2>1, <2>4 DEF TriggerCommit, Release, Goto, bounds, Worker, WorkerPc
<1>12. ASSUME NEW w \in Workers, PublishNext(w) PROVE TypeOK'
  <2>1. Follow[wk[w].scan] \in Scans
    BY <1>12, FollowAssumption DEF PublishNext, BusyHasRow, TriggerHasFollow
  <2>2. queue' \in [Scans -> Nat]
    BY <1>12, <2>1 DEF PublishNext
  <2>3. wk' \in [Workers -> Worker]
    BY <1>12 DEF PublishNext, Goto, Worker, WorkerPc
  <2>4. QED
    BY <1>12, <2>2, <2>3 DEF PublishNext, bounds
<1>13. ASSUME NEW w \in Workers, PublishNextFails(w) PROVE TypeOK'
  <2>1. \A cur \in Row : [cur EXCEPT !.status = "failed", !.error = TRUE] \in Row
    BY DEF Row, Status
  <2>2. row' \in [Scans -> Row]
    BY <1>13, <2>1 DEF PublishNextFails
  <2>3. wk' \in [Workers -> Worker]
    BY <1>13 DEF PublishNextFails, Goto, Worker, WorkerPc
  <2>4. QED
    BY <1>13, <2>2, <2>3 DEF PublishNextFails, bounds
<1>14. ASSUME NEW w \in Workers, Stamp(w) PROVE TypeOK'
  BY <1>14 DEF Stamp, Goto, bounds, Worker, WorkerPc
<1>15. ASSUME NEW w \in Workers, Abort(w) PROVE TypeOK'
  BY <1>15 DEF Abort, Goto, Worker, WorkerPc
<1>16. ASSUME NEW w \in Workers, Ack(w) PROVE TypeOK'
  BY <1>16 DEF Ack, bounds
<1>17. ASSUME NEW w \in Workers, Crash(w) PROVE TypeOK'
  BY <1>17 DEF Crash, BusyHasRow
<1>18. CASE UNCHANGED vars
  BY <1>18 DEF vars, bounds
<1>19. QED
  BY <1>1, <1>2, <1>3, <1>4, <1>5, <1>6, <1>7, <1>8, <1>9, <1>10, <1>11, <1>12, <1>13,
     <1>14, <1>15, <1>16, <1>17, <1>18 DEF Next, Request, Work

\* Every step keeps the lock with the transaction that runs the scan.
LEMMA NextLockOwner == ASSUME IInv, [Next]_vars PROVE LockOwner'
<1> USE FollowAssumption DEF IInv, LockOwner, Running
<1>1. ASSUME NEW s \in Scans, Create(s) \/ ImportReport(s) PROVE LockOwner'
  BY <1>1 DEF Create, ImportReport
<1>2. ASSUME NEW c \in Clients, Request(c) PROVE LockOwner'
  BY <1>2 DEF Request, Submit, Start, Publish, MarkQueued, GiveUp
<1>3. ASSUME NEW w \in Workers, NEW s \in Scans, Take(w, s) PROVE LockOwner'
  BY <1>3 DEF Take, TypeOK, Worker
<1>4. ASSUME NEW w \in Workers, Begin(w) PROVE LockOwner'
  BY <1>4 DEF Begin, TypeOK, Worker, BusyHasRow
<1>5. ASSUME NEW w \in Workers, FailScan(w) \/ Complete(w) PROVE LockOwner'
  BY <1>5 DEF FailScan, Complete, Release, Goto, TypeOK, Worker, BusyHasRow
<1>6. ASSUME NEW w \in Workers, ReadFollow(w) PROVE LockOwner'
  BY <1>6 DEF ReadFollow, TypeOK, Worker
<1>7. ASSUME NEW w \in Workers, TriggerCommit(w) PROVE LockOwner'
  <2> DEFINE s == wk[w].scan
  <2>1. s \in Scans /\ lock[s] = w
    BY <1>7 DEF TriggerCommit, BusyHasRow
  <2>2. lock' = [lock EXCEPT ![s] = None] /\ wk' = [wk EXCEPT ![w].pc = "publish"]
    BY <1>7 DEF TriggerCommit, Release, Goto
  <2>3. QED
    BY <2>1, <2>2 DEF TypeOK, Worker
<1>8. ASSUME NEW w \in Workers, PublishNext(w) \/ PublishNextFails(w) \/ Stamp(w) PROVE LockOwner'
  <2>1. lock' = lock /\ wk[w].pc \in {"publish", "stamp"}
    BY <1>8 DEF PublishNext, PublishNextFails, Stamp
  <2>2. \E pc \in {"stamp", "done"} : wk' = [wk EXCEPT ![w].pc = pc]
    BY <1>8 DEF PublishNext, PublishNextFails, Stamp, Goto
  <2>3. QED
    BY <2>1, <2>2 DEF TypeOK, Worker
<1>9. ASSUME NEW w \in Workers, Abort(w) PROVE LockOwner'
  BY <1>9 DEF Abort, Goto, TypeOK, Worker
<1>10. ASSUME NEW w \in Workers, Ack(w) PROVE LockOwner'
  BY <1>10 DEF Ack, IdleWorker, TypeOK, Worker
<1>11. ASSUME NEW w \in Workers, Crash(w) PROVE LockOwner'
  BY <1>11 DEF Crash, IdleWorker, TypeOK, Worker
<1>12. CASE UNCHANGED vars
  BY <1>12 DEF vars
<1>13. QED
  BY <1>1, <1>2, <1>3, <1>4, <1>5, <1>6, <1>7, <1>8, <1>9, <1>10, <1>11, <1>12
     DEF Next, Work

\* The steps that insert rows, and those of an inserted pipeline.
Inserting(s) == Create(s) \/ ImportReport(s) \/ \E c \in Clients : Submit(c, s)

\* An insertion adds the row of s and of its follow-up, and removes none.
LEMMA InsertRows ==
  ASSUME IInv, NEW s \in Scans, Inserting(s)
  PROVE  \A t \in Scans : Exists(t)' <=> (Exists(t) \/ t = s \/ t = Follow[s])
<1>1. CASE Create(s) \/ \E c \in Clients : Submit(c, s)
  BY <1>1 DEF Create, Submit, Inserted, PendingRow, Exists, IInv, TypeOK
<1>2. CASE ImportReport(s)
  BY <1>2, FollowAssumption DEF ImportReport, ImportedRow, Exists, IInv, TypeOK
<1>3. QED
  BY <1>1, <1>2 DEF Inserting

\* Any other step neither adds nor removes a row.
LEMMA OtherRows ==
  ASSUME IInv, [Next]_vars, ~\E s \in Scans : Inserting(s), NEW t \in Scans
  PROVE  Exists(t)' <=> Exists(t)
<1> USE DEF IInv, Exists
<1>1. ASSUME NEW c \in Clients, MarkQueued(c) PROVE Exists(t)' <=> Exists(t)
  <2>1. cl[c].scan \in Scans /\ Exists(cl[c].scan) /\ cl[c].seen \in Row
    BY <1>1 DEF MarkQueued, BusyHasRow, TypeOK, Client
  <2>2. \A cur \in Row : cur.status # "absent" =>
          Flush(cur, cl[c].seen, [cl[c].seen EXCEPT !.status = "queued"]).status # "absent"
    BY <2>1, RowTypes, FlushType DEF Row
  <2>3. QED
    BY <1>1, <2>1, <2>2 DEF MarkQueued, TypeOK
<1>2. ASSUME NEW w \in Workers, FailScan(w) \/ Complete(w) PROVE Exists(t)' <=> Exists(t)
  <2>1. \A payload \in BOOLEAN : FailedRow(w, payload).status = "failed"
    BY DEF FailedRow
  <2>2. CompletedRow(w).status = "completed"
    BY DEF CompletedRow
  <2>3. Exists(wk[w].scan) /\ wk[w].scan \in Scans
    BY <1>2 DEF FailScan, Complete, BusyHasRow
  <2>4. QED
    BY <1>2, <2>1, <2>2, <2>3 DEF FailScan, Complete, TypeOK
<1>3. ASSUME NEW w \in Workers, TriggerCommit(w) PROVE Exists(t)' <=> Exists(t)
  <2> DEFINE s == wk[w].scan
             f == Follow[s]
  <2>1. s \in Scans /\ f \in Scans /\ wk[w].next \in Row /\ Exists(s) /\ Exists(f)
    BY <1>3, FollowAssumption
       DEF TriggerCommit, BusyHasRow, TriggerHasFollow, PipelineTogether, TypeOK, Worker
  <2>2. \A cur \in Row : cur.status # "absent" =>
          Flush(cur, wk[w].next, TriggeredRow(wk[w].next)).status # "absent"
    BY <2>1, RowTypes, FlushType DEF TriggeredRow
  <2>3. CompletedRow(w).status # "absent"
    BY DEF CompletedRow
  <2>4. QED
    BY <1>3, <2>1, <2>2, <2>3 DEF TriggerCommit, TypeOK
<1>4. ASSUME NEW w \in Workers, PublishNextFails(w) PROVE Exists(t)' <=> Exists(t)
  <2>1. Follow[wk[w].scan] \in Scans /\ Exists(Follow[wk[w].scan])
    BY <1>4, FollowAssumption
       DEF PublishNextFails, BusyHasRow, TriggerHasFollow, PipelineTogether
  <2>2. \A cur \in Row : [cur EXCEPT !.status = "failed", !.error = TRUE].status = "failed"
    BY DEF Row
  <2>3. QED
    BY <1>4, <2>1, <2>2 DEF PublishNextFails, TypeOK
<1>5. ASSUME row' = row PROVE Exists(t)' <=> Exists(t)
  BY <1>5
<1>6. QED
  BY <1>1, <1>2, <1>3, <1>4, <1>5
     DEF Inserting, Next, Request, Work, Start, Publish, GiveUp, Begin, ReadFollow,
         PublishNext, Stamp, Abort, Ack, Crash, Take, vars

\* No step removes a row.
LEMMA RowsStay == ASSUME IInv, [Next]_vars, NEW t \in Scans, Exists(t) PROVE Exists(t)'
BY InsertRows, OtherRows

\* The rows of a pipeline stay together.
LEMMA NextPipelineTogether == ASSUME IInv, [Next]_vars PROVE PipelineTogether'
<1>1. ASSUME NEW s \in Scans, Inserting(s) PROVE PipelineTogether'
  <2>1. ~IsFollowUp(s)
    BY <1>1 DEF Inserting, Create, Submit, ImportReport
  <2>2. \A t \in Scans : Follow[t] # s
    BY <2>1 DEF IsFollowUp
  <2>3. QED
    BY <1>1, <2>2, InsertRows, FollowAssumption DEF IInv, PipelineTogether
<1>2. ASSUME ~\E s \in Scans : Inserting(s) PROVE PipelineTogether'
  BY <1>2, OtherRows, FollowAssumption DEF IInv, PipelineTogether
<1>3. QED
  BY <1>1, <1>2

\* Tasks and busy processes stay with committed rows.
LEMMA NextBusyHasRow == ASSUME IInv, [Next]_vars PROVE BusyHasRow'
<1> USE RowsStay DEF IInv, BusyHasRow
<1>1. ASSUME NEW c \in Clients, NEW s \in Scans, Submit(c, s) PROVE BusyHasRow'
  <2>1. Exists(s)'
    BY <1>1, InsertRows DEF Inserting
  <2>2. QED
    BY <1>1, <2>1 DEF Submit, PendingRow, TypeOK
<1>2. ASSUME NEW c \in Clients, NEW s \in Scans, Start(c, s) PROVE BusyHasRow'
  BY <1>2 DEF Start, Exists, TypeOK
<1>3. ASSUME NEW c \in Clients, Publish(c) \/ MarkQueued(c) \/ GiveUp(c) PROVE BusyHasRow'
  BY <1>3 DEF Publish, MarkQueued, GiveUp, IdleClient, TypeOK, Client
<1>4. ASSUME NEW w \in Workers, NEW s \in Scans, Take(w, s) PROVE BusyHasRow'
  BY <1>4 DEF Take, QueuedHasRow, Exists, TypeOK
<1>5. ASSUME NEW w \in Workers, Ack(w) \/ Crash(w) PROVE BusyHasRow'
  BY <1>5 DEF Ack, Crash, IdleWorker, TypeOK
<1>6. ASSUME NEW w \in Workers, ReadFollow(w) PROVE BusyHasRow'
  BY <1>6 DEF ReadFollow, TypeOK, Worker
<1>7. ASSUME NEW w \in Workers, NEW pc \in WorkerPc, wk[w].pc # "idle", Goto(w, pc), cl' = cl
      PROVE  BusyHasRow'
  BY <1>7 DEF Goto, TypeOK, Worker
<1>8. ASSUME UNCHANGED <<wk, cl>> PROVE BusyHasRow'
  BY <1>8
<1>9. QED
  BY <1>1, <1>2, <1>3, <1>4, <1>5, <1>6, <1>7, <1>8
     DEF Next, Request, Work, Create, ImportReport, Begin, FailScan, Complete, TriggerCommit,
         PublishNext, PublishNextFails, Stamp, Abort, Goto, WorkerPc, vars

LEMMA NextQueuedHasRow == ASSUME IInv, [Next]_vars PROVE QueuedHasRow'
<1> USE RowsStay, FollowAssumption DEF IInv, QueuedHasRow, TypeOK
<1>1. ASSUME NEW c \in Clients, Publish(c) PROVE QueuedHasRow'
  BY <1>1 DEF Publish, BusyHasRow
<1>2. ASSUME NEW w \in Workers, NEW s \in Scans, Take(w, s) PROVE QueuedHasRow'
  BY <1>2 DEF Take
<1>3. ASSUME NEW w \in Workers, PublishNext(w) PROVE QueuedHasRow'
  BY <1>3 DEF PublishNext, BusyHasRow, TriggerHasFollow, PipelineTogether
<1>4. ASSUME NEW w \in Workers, Crash(w) PROVE QueuedHasRow'
  BY <1>4 DEF Crash, BusyHasRow
<1>5. ASSUME queue' = queue PROVE QueuedHasRow'
  BY <1>5
<1>6. QED
  BY <1>1, <1>2, <1>3, <1>4, <1>5
     DEF Next, Request, Work, Create, ImportReport, Submit, Start, MarkQueued, GiveUp, Begin,
         FailScan, Complete, ReadFollow, TriggerCommit, PublishNextFails, Stamp, Abort, Ack, vars

LEMMA NextTriggerHasFollow == ASSUME IInv, [Next]_vars PROVE TriggerHasFollow'
<1> USE DEF IInv, TriggerHasFollow, TypeOK, Worker
<1>1. ASSUME NEW w \in Workers, ReadFollow(w) PROVE TriggerHasFollow'
  BY <1>1 DEF ReadFollow
<1>2. ASSUME NEW w \in Workers, TriggerCommit(w) \/ PublishNext(w) PROVE TriggerHasFollow'
  BY <1>2 DEF TriggerCommit, PublishNext, Goto
<1>3. ASSUME NEW w \in Workers, NEW pc \in {"tool", "done"},
             wk' = [wk EXCEPT ![w].pc = pc] PROVE TriggerHasFollow'
  BY <1>3
<1>4. ASSUME NEW w \in Workers, NEW s \in Scans, Take(w, s) PROVE TriggerHasFollow'
  BY <1>4 DEF Take
<1>5. ASSUME wk' = wk PROVE TriggerHasFollow'
  BY <1>5
<1>6. ASSUME NEW w \in Workers, Ack(w) \/ Crash(w) PROVE TriggerHasFollow'
  BY <1>6 DEF Ack, Crash, IdleWorker
<1>7. QED
  BY <1>1, <1>2, <1>3, <1>4, <1>5, <1>6
     DEF Next, Request, Work, Create, ImportReport, Submit, Start, Publish, MarkQueued, GiveUp,
         Begin, FailScan, Complete, PublishNextFails, Stamp, Abort, Goto, vars

-----------------------------------------------------------------------------
\* Findings, once committed, stay committed.
LEMMA FindingsStay == ASSUME IInv, [Next]_vars PROVE findings \subseteq findings'
BY DEF Next, Request, Work, Create, ImportReport, Submit, Start, Publish, MarkQueued, GiveUp,
       Begin, FailScan, Complete, ReadFollow, TriggerCommit, PublishNext, PublishNextFails,
       Stamp, Abort, Ack, Crash, Take, vars

\* COMPLETED is committed with the findings, and never by a stale flush.
LEMMA NextCompletedHasFindings == ASSUME IInv, [Next]_vars PROVE CompletedHasFindings'
<1> USE FindingsStay DEF IInv, CompletedHasFindings, TypeOK
<1>1. ASSUME NEW s \in Scans, Inserting(s) PROVE CompletedHasFindings'
  BY <1>1 DEF Inserting, Create, Submit, ImportReport, Inserted, PendingRow
<1>2. ASSUME NEW c \in Clients, MarkQueued(c) PROVE CompletedHasFindings'
  <2>1. cl[c].scan \in Scans /\ cl[c].seen \in Row
    BY <1>2 DEF MarkQueued, BusyHasRow, Client
  <2>2. \A cur \in Row :
          Flush(cur, cl[c].seen, [cl[c].seen EXCEPT !.status = "queued"]).status
            \in {cur.status, "queued"}
    BY <2>1 DEF Flush, Column, Row
  <2>3. QED
    BY <1>2, <2>1, <2>2 DEF MarkQueued
<1>3. ASSUME NEW w \in Workers, FailScan(w) PROVE CompletedHasFindings'
  BY <1>3 DEF FailScan, FailedRow
<1>4. ASSUME NEW w \in Workers, Complete(w) PROVE CompletedHasFindings'
  BY <1>4 DEF Complete
<1>5. ASSUME NEW w \in Workers, TriggerCommit(w) PROVE CompletedHasFindings'
  <2>1. wk[w].next \in Row
    BY DEF Worker
  <2>2. \A cur \in Row :
          Flush(cur, wk[w].next, TriggeredRow(wk[w].next)).status \in {cur.status, "queued"}
    BY <2>1 DEF Flush, Column, TriggeredRow, Row
  <2>3. QED
    BY <1>5, <2>2 DEF TriggerCommit
<1>6. ASSUME NEW w \in Workers, PublishNextFails(w) PROVE CompletedHasFindings'
  <2>1. \A cur \in Row : [cur EXCEPT !.status = "failed", !.error = TRUE].status = "failed"
    BY DEF Row
  <2>2. QED
    BY <1>6, <2>1 DEF PublishNextFails
<1>7. ASSUME row' = row PROVE CompletedHasFindings'
  BY <1>7
<1>8. QED
  BY <1>1, <1>2, <1>3, <1>4, <1>5, <1>6, <1>7
     DEF Inserting, Next, Request, Work, Start, Publish, GiveUp, Begin, ReadFollow,
         PublishNext, Stamp, Abort, Ack, Crash, Take, vars

\* A loaded copy of a follow-up row was true when loaded.
LEMMA NextSeenTriggerIsTrue == ASSUME IInv, [Next]_vars PROVE SeenTriggerIsTrue'
<1> USE FindingsStay DEF IInv, SeenTriggerIsTrue, TypeOK
<1>1. ASSUME NEW w \in Workers, NEW s \in Scans, Take(w, s) PROVE SeenTriggerIsTrue'
  BY <1>1 DEF Take, TriggeredAfterDiscovery
<1>2. ASSUME NEW w \in Workers, ReadFollow(w) PROVE SeenTriggerIsTrue'
  BY <1>2 DEF ReadFollow, Worker
<1>3. ASSUME NEW w \in Workers, Ack(w) \/ Crash(w) PROVE SeenTriggerIsTrue'
  BY <1>3 DEF Ack, Crash, IdleWorker
<1>4. ASSUME NEW w \in Workers, NEW pc \in WorkerPc, wk[w].pc # "idle", Goto(w, pc)
      PROVE  SeenTriggerIsTrue'
  BY <1>4 DEF Goto, Worker
<1>5. ASSUME wk' = wk PROVE SeenTriggerIsTrue'
  BY <1>5
<1>6. QED
  BY <1>1, <1>2, <1>3, <1>4, <1>5
     DEF Next, Request, Work, Create, ImportReport, Submit, Start, Publish, MarkQueued, GiveUp,
         Begin, FailScan, Complete, TriggerCommit, PublishNext, PublishNextFails, Stamp, Abort,
         Goto, WorkerPc, vars

\* The trigger key enters a follow-up row with the findings of its discovery,
\* or from a copy that already had it.
LEMMA NextTriggeredAfterDiscovery == ASSUME IInv, [Next]_vars PROVE TriggeredAfterDiscovery'
<1> SUFFICES ASSUME NEW d \in Scans, Follow[d] # None,
                    "pipeline_triggered_by" \in row'[Follow[d]].config
             PROVE  d \in findings'
  BY DEF TriggeredAfterDiscovery
<1> USE FindingsStay, FollowAssumption DEF IInv, TypeOK
<1> DEFINE key == "pipeline_triggered_by"
<1>0. key \in row[Follow[d]].config => d \in findings'
  BY DEF TriggeredAfterDiscovery
<1>1. ASSUME NEW s \in Scans, Inserting(s) PROVE d \in findings'
  BY <1>0, <1>1 DEF Inserting, Create, Submit, ImportReport, Inserted, PendingRow, ImportedRow
<1>2. ASSUME NEW c \in Clients, MarkQueued(c) PROVE d \in findings'
  <2>1. cl[c].scan \in Scans /\ cl[c].seen \in Row
    BY <1>2 DEF MarkQueued, BusyHasRow, Client
  <2>2. \A cur \in Row :
          Flush(cur, cl[c].seen, [cl[c].seen EXCEPT !.status = "queued"]).config = cur.config
    BY <2>1 DEF Flush, Column, Row
  <2>3. QED
    BY <1>0, <1>2, <2>1, <2>2 DEF MarkQueued
<1>3. ASSUME NEW w \in Workers, wk[w].scan = Follow[d], wk[w].pc # "idle",
             key \in wk[w].seen.config \cup {"last_result"}
      PROVE  d \in findings'
  BY <1>3 DEF SeenTriggerIsTrue
<1>4. ASSUME NEW w \in Workers, FailScan(w) PROVE d \in findings'
  <2>1. \A payload \in BOOLEAN : FailedRow(w, payload).config
          \in {wk[w].seen.config \cup {"last_result"}, row[wk[w].scan].config}
    BY DEF FailedRow
  <2>2. QED
    BY <1>0, <1>3, <1>4, <2>1 DEF FailScan
<1>5. ASSUME NEW w \in Workers, Complete(w) PROVE d \in findings'
  BY <1>0, <1>3, <1>5 DEF Complete, CompletedRow
<1>6. ASSUME NEW w \in Workers, TriggerCommit(w) PROVE d \in findings'
  <2>1. CASE d = wk[w].scan
    BY <1>6, <2>1 DEF TriggerCommit
  <2>2. CASE d # wk[w].scan
    <3>1. wk[w].scan \in Scans /\ Follow[d] # Follow[wk[w].scan]
      BY <1>6, <2>2 DEF TriggerCommit, BusyHasRow
    <3>2. row'[Follow[d]] = IF Follow[d] = wk[w].scan THEN CompletedRow(w) ELSE row[Follow[d]]
      BY <1>6, <3>1 DEF TriggerCommit
    <3>3. QED
      BY <1>0, <1>3, <1>6, <3>2 DEF CompletedRow, TriggerCommit
  <2>3. QED
    BY <2>1, <2>2
<1>7. ASSUME NEW w \in Workers, PublishNextFails(w) PROVE d \in findings'
  <2>1. \A cur \in Row : [cur EXCEPT !.status = "failed", !.error = TRUE].config = cur.config
    BY DEF Row
  <2>2. QED
    BY <1>0, <1>7, <2>1 DEF PublishNextFails
<1>8. ASSUME row' = row PROVE d \in findings'
  BY <1>0, <1>8
<1>9. QED
  BY <1>1, <1>2, <1>4, <1>5, <1>6, <1>7, <1>8
     DEF Inserting, Next, Request, Work, Start, Publish, GiveUp, Begin, ReadFollow,
         PublishNext, Stamp, Abort, Ack, Crash, Take, vars

-----------------------------------------------------------------------------
\* IInv holds in every reachable state.
THEOREM SpecIInv == Spec => []IInv
<1>1. IInv /\ [Next]_vars => IInv'
  BY NextTypeOK, NextLockOwner, NextBusyHasRow, NextQueuedHasRow, NextPipelineTogether,
     NextTriggerHasFollow, NextSeenTriggerIsTrue, NextCompletedHasFindings,
     NextTriggeredAfterDiscovery DEF IInv
<1>2. QED
  BY InitIInv, <1>1, PTL DEF Spec

\* Type correctness of the committed rows, the broker and the processes.
THEOREM TypeCorrect == Spec => []TypeOK
<1>1. IInv => TypeOK
  BY DEF IInv
<1>2. QED
  BY SpecIInv, <1>1, PTL

\* The tool of a scan is never run by two workers at once.
THEOREM RunsAreExclusive == Spec => []OneRunPerScan
<1>1. IInv => OneRunPerScan
  BY DEF IInv, OneRunPerScan, LockOwner, BusyHasRow, Running
<1>2. QED
  BY SpecIInv, <1>1, PTL

\* No worker is handed a scan whose row it cannot load.
THEOREM TasksHaveRows == Spec => []RowBeforeTask
<1>1. IInv => RowBeforeTask
  BY DEF IInv, RowBeforeTask, QueuedHasRow, BusyHasRow
<1>2. QED
  BY SpecIInv, <1>1, PTL

\* A COMPLETED scan has its findings committed.
THEOREM CompletionIsAtomic == Spec => []CompletedHasFindings
<1>1. IInv => CompletedHasFindings
  BY DEF IInv
<1>2. QED
  BY SpecIInv, <1>1, PTL

\* A follow-up marked as triggered has a discovery with committed findings.
THEOREM TriggerFollowsDiscovery == Spec => []TriggeredAfterDiscovery
<1>1. IInv => TriggeredAfterDiscovery
  BY DEF IInv
<1>2. QED
  BY SpecIInv, <1>1, PTL
=============================================================================
