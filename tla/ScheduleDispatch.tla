--------------------------- MODULE ScheduleDispatch ---------------------------
(***************************************************************************)
(* Recurring scans: the ScanSchedule rows users edit, the dispatcher task  *)
(* Celery Beat publishes every minute (schedules.dispatch_due), and the    *)
(* scans it creates, publishes and links to their schedule.                *)
(*                                                                         *)
(* One dispatcher task handles a batch of due schedules in one session.    *)
(* The commit that makes a new scan visible also commits what the session  *)
(* had assigned to the schedules before it; what it assigns to the last    *)
(* ones is committed when the task ends.  Nothing keeps two dispatcher     *)
(* tasks from overlapping, and users start scans of a schedule again at    *)
(* will.  What a worker does with a scan is the part of ScanLifecycle the  *)
(* dispatcher can see.                                                     *)
(***************************************************************************)
EXTENDS Naturals, Sequences, FiniteSets

CONSTANTS
  Schedules,    \* identifiers of the schedules that may be created
  Dispatchers,  \* dispatcher tasks that may run at the same time
  None,
  BatchLimit,   \* LIMIT of the query for due schedules
  MaxScans,     \* bound: scans created
  MaxTicks,     \* bound: times a schedule becomes due
  MaxUpsets     \* bound: edits and deletions of schedules, scans started again, dispatcher
                \* tasks that fail and workers that die or give a scan up, taken together

ASSUME DispatchAssumption ==
  /\ None \notin Schedules /\ None \notin Nat
  /\ BatchLimit \in Nat \ {0}
  /\ MaxScans \in Nat /\ MaxTicks \in Nat /\ MaxUpsets \in Nat

VARIABLES
  sched,    \* the scan_schedules table, as committed
  due,      \* for a schedule whose next_run_at has passed, those that passed no later
  scan,     \* the scans created by dispatchers, as committed
  published, \* for each scan, its tasks in the broker
  running,  \* scans a worker runs, in a transaction that locks their row
  starting, \* for each scan, the start requests that have published and not committed
  dp,       \* the dispatcher tasks
  crowded,  \* history: the dispatcher tasks under way that another one has met
  excused,  \* history: the scans a restart, a failure or such a meeting has touched
  ticks, upsets

bounds == <<ticks, upsets>>
work == <<published, running, starting>>
history == <<crowded, excused>>
dispatchVars == <<sched, due, scan, work, dp, history, bounds>>

Id == 1 .. MaxScans

\* assets: the schedule still has targets.  last: last_scan_id.
Schedule == [state : {"absent", "enabled", "paused", "deleted"},
             assets : BOOLEAN, last : Id \cup {None}]
Scan == [of : Schedules, status : {"pending", "queued", "ended"}]

\* An order of schedules: what comes up to each of them, {} for those outside.
Order == [Schedules -> SUBSET Schedules]
Nobody == [s \in Schedules |-> {}]

\* What the batch query loaded of a schedule.  A commit expires it.
View == [active : BOOLEAN, assets : BOOLEAN]

\* todo: the rest of the batch, in the form of due.  new: the scan being dispatched.  marked: the
\* scan whose mark is flushed, not committed.  defer: schedules whose new
\* next_run_at is assigned, not committed.
Dispatcher == [pc : {"idle", "loop", "publish", "mark"}, todo : Order,
               loaded : [Schedules -> View], fresh : BOOLEAN,
               new : Id \cup {None}, marked : Id \cup {None}, defer : SUBSET Schedules]

NoView == [active |-> FALSE, assets |-> FALSE]
Unread == [s \in Schedules |-> NoView]
IdleDispatcher == [pc |-> "idle", todo |-> Nobody, loaded |-> Unread, fresh |-> FALSE,
                   new |-> None, marked |-> None, defer |-> {}]

DispatchTypeOK ==
  /\ sched \in [Schedules -> Schedule]
  /\ due \in Order
  /\ scan \in Seq(Scan) /\ Len(scan) <= MaxScans
  /\ published \in [Id -> Nat] /\ running \in SUBSET Id /\ starting \in [Id -> Nat]
  /\ dp \in [Dispatchers -> Dispatcher]
  /\ crowded \in SUBSET Dispatchers /\ excused \in SUBSET Id
  /\ ticks \in Nat /\ upsets \in Nat

DispatchInit ==
  /\ sched = [s \in Schedules |-> [state |-> "absent", assets |-> FALSE, last |-> None]]
  /\ due = Nobody
  /\ scan = <<>>
  /\ published = [x \in Id |-> 0] /\ running = {} /\ starting = [x \in Id |-> 0]
  /\ dp = [d \in Dispatchers |-> IdleDispatcher]
  /\ crowded = {} /\ excused = {}
  /\ ticks = 0 /\ upsets = 0

Exists(s) == sched[s].state \in {"enabled", "paused"}
IsDue(s) == s \in due[s]
Without(order, S) == [s \in Schedules |-> IF s \in S THEN {} ELSE order[s] \ S]

\* next_run_at of s is now: the others that are due came before.
LastDue(s) == [Without(due, {s}) EXCEPT ![s] = {t \in Schedules : IsDue(t)} \cup {s}]

-----------------------------------------------------------------------------
(***************************************************************************)
(* Users and time.  A request changes only the columns it assigns.         *)
(***************************************************************************)

\* next_run_at of s comes.
FallsDue(s) ==
  /\ ticks < MaxTicks /\ ticks' = ticks + 1
  /\ due' = LastDue(s)

\* POST /scan-schedules, with or without run_immediately.
CreateSchedule(s) ==
  /\ sched[s].state = "absent"
  /\ \E st \in {"enabled", "paused"} :
       sched' = [sched EXCEPT ![s] = [state |-> st, assets |-> TRUE, last |-> None]]
  /\ FallsDue(s) \/ UNCHANGED <<due, ticks>>
  /\ UNCHANGED <<scan, work, dp, history, upsets>>

Upset == upsets < MaxUpsets /\ upsets' = upsets + 1 /\ UNCHANGED ticks

\* PATCH with enabled = false.
Pause(s) ==
  /\ Upset /\ sched[s].state = "enabled"
  /\ sched' = [sched EXCEPT ![s].state = "paused"]
  /\ UNCHANGED <<due, scan, work, dp, history>>

\* PATCH with enabled = true: an overdue schedule is due from now on, so it
\* goes behind the others that are due.
Enable(s) ==
  /\ Upset /\ Exists(s)
  /\ sched' = [sched EXCEPT ![s].state = "enabled"]
  /\ due' = IF IsDue(s) THEN LastDue(s) ELSE due
  /\ UNCHANGED <<scan, work, dp, history>>

\* PATCH with another interval: an enabled schedule waits for all of it.
ChangeInterval(s) ==
  /\ Upset /\ sched[s].state = "enabled"
  /\ due' = Without(due, {s})
  /\ UNCHANGED <<sched, scan, work, dp, history>>

\* PATCH with asset_ids, or the deletion of the last asset of the schedule.
ChangeAssets(s) ==
  /\ Upset /\ Exists(s)
  /\ sched' = [sched EXCEPT ![s].assets = ~@]
  /\ UNCHANGED <<due, scan, work, dp, history>>

Delete(s) ==
  /\ Upset /\ Exists(s)
  /\ sched' = [sched EXCEPT ![s].state = "deleted", ![s].last = None]
  /\ due' = Without(due, {s})
  /\ UNCHANGED <<scan, work, dp, history>>

\* next_run_at passes.
Tick(s) ==
  /\ Exists(s) /\ ~IsDue(s)
  /\ FallsDue(s)
  /\ UNCHANGED <<sched, scan, work, dp, history, upsets>>

-----------------------------------------------------------------------------
(***************************************************************************)
(* The dispatcher                                                          *)
(***************************************************************************)

\* What d has dispatched or marked and not committed.
InFlight(d) == {dp[d].new, dp[d].marked} \ {None}

\* last_scan is PENDING, QUEUED or RUNNING, as committed now.
LastActive(s) == sched[s].last # None /\ scan[sched[s].last].status # "ended"
Now(s) == [active |-> LastActive(s), assets |-> sched[s].assets]

\* Beat fires: the enabled schedules that are due, earliest next_run_at first.
Select(d) ==
  LET ready == {s \in Schedules : IsDue(s) /\ sched[s].state = "enabled"}
      batch == {s \in ready : Cardinality(due[s] \cap ready) <= BatchLimit}
  IN
  /\ dp[d].pc = "idle"
  /\ ready # {}
  /\ dp' = [dp EXCEPT ![d] = [IdleDispatcher EXCEPT
              !.pc = "loop",
              !.todo = Without(due, Schedules \ batch),
              !.loaded = [s \in Schedules |-> IF s \in batch THEN Now(s) ELSE NoView]]]
  /\ LET others == {e \in Dispatchers \ {d} : dp[e].pc # "idle"} IN
       /\ crowded' = IF others = {} THEN crowded ELSE crowded \cup others \cup {d}
       /\ excused' = excused \cup UNION {InFlight(e) : e \in others}
  /\ UNCHANGED <<sched, due, scan, work, bounds>>

\* The loop has come to s; Done(d, s) is what is left after it.
AtSchedule(d, s) == dp[d].pc = "loop" /\ dp[d].todo[s] = {s}
Done(d, s) == Without(dp[d].todo, {s})

\* What the session sees of a schedule: the batch query's result, or after a
\* commit of its own a reload, which fails if the row is gone.
Seen(d, s) == IF dp[d].fresh THEN Now(s) ELSE dp[d].loaded[s]
Readable(d, s) == dp[d].fresh => Exists(s)

\* Mutant of SkipActive: the id kept for the write is the scan's, not the schedule's.
SkipByScan(d, s) ==
  /\ AtSchedule(d, s) /\ Readable(d, s)
  /\ Seen(d, s).active
  /\ dp' = [dp EXCEPT ![d].defer = @ \cup {sched[s].last}, ![d].todo = Done(d, s)]
  /\ UNCHANGED <<sched, due, scan, work, history, bounds>>

\* The previous run is still active: next_run_at is five minutes from now.
SkipActive(d, s) ==
  /\ AtSchedule(d, s) /\ Readable(d, s)
  /\ Seen(d, s).active
  /\ dp' = [dp EXCEPT ![d].defer = @ \cup {s}, ![d].todo = Done(d, s)]
  /\ UNCHANGED <<sched, due, scan, work, history, bounds>>

\* Mutant of NoAssets: the error is recorded, next_run_at is left as it is.
NoAssetsStillDue(d, s) ==
  /\ AtSchedule(d, s) /\ Readable(d, s)
  /\ ~Seen(d, s).active /\ ~Seen(d, s).assets
  /\ dp' = [dp EXCEPT ![d].todo = Done(d, s)]
  /\ UNCHANGED <<sched, due, scan, work, history, bounds>>

\* No assets are linked: an error, and the next run after the interval.
NoAssets(d, s) ==
  /\ AtSchedule(d, s) /\ Readable(d, s)
  /\ ~Seen(d, s).active /\ ~Seen(d, s).assets
  /\ dp' = [dp EXCEPT ![d].defer = @ \cup {s}, ![d].todo = Done(d, s)]
  /\ UNCHANGED <<sched, due, scan, work, history, bounds>>

\* The rows the session has assigned and not committed.  An UPDATE of a
\* deleted row fails, and takes the transaction with it.
Owner(x) == scan[x].of
Written(d) == dp[d].defer \cup {s \in Schedules : dp[d].marked # None /\ Owner(dp[d].marked) = s}
Writable(d) == \A s \in Written(d) : Exists(s)

\* sched and due after the commit of d's session.
LinkedBy(d) ==
  [s \in Schedules |-> IF dp[d].marked # None /\ Owner(dp[d].marked) = s
                         THEN [sched[s] EXCEPT !.last = dp[d].marked] ELSE sched[s]]

\* The scans after the commit: scan.status = QUEUED, over whatever it is.
MarkedBy(d) ==
  [x \in DOMAIN scan |-> IF x = dp[d].marked THEN [scan[x] EXCEPT !.status = "queued"] ELSE scan[x]]

CommitSchedules(d) ==
  /\ Writable(d)
  /\ sched' = LinkedBy(d)
  /\ due' = Without(due, Written(d))

\* Mutant of Insert: a schedule whose previous run is active is dispatched.
InsertAnyway(d, s) ==
  /\ AtSchedule(d, s) /\ Readable(d, s)
  /\ Seen(d, s).assets
  /\ Len(scan) < MaxScans
  /\ CommitSchedules(d)
  /\ scan' = Append(MarkedBy(d), [of |-> s, status |-> "pending"])
  /\ dp' = [dp EXCEPT ![d].pc = "publish", ![d].new = Len(scan) + 1, ![d].fresh = TRUE,
                      ![d].loaded = Unread, ![d].marked = None, ![d].defer = {}]
  /\ excused' = IF d \in crowded THEN excused \cup {Len(scan) + 1} ELSE excused
  /\ UNCHANGED <<work, crowded, bounds>>

\* A PENDING scan of the schedule, committed before its task is published,
\* together with what the session had assigned so far.
Insert(d, s) ==
  /\ AtSchedule(d, s) /\ Readable(d, s)
  /\ ~Seen(d, s).active /\ Seen(d, s).assets
  /\ Len(scan) < MaxScans
  /\ CommitSchedules(d)
  /\ scan' = Append(MarkedBy(d), [of |-> s, status |-> "pending"])
  /\ dp' = [dp EXCEPT ![d].pc = "publish", ![d].new = Len(scan) + 1, ![d].fresh = TRUE,
                      ![d].loaded = Unread, ![d].marked = None, ![d].defer = {}]
  /\ excused' = IF d \in crowded THEN excused \cup {Len(scan) + 1} ELSE excused
  /\ UNCHANGED <<work, crowded, bounds>>

\* The task of the new scan is published; the schedule row is reloaded first.
Publish(d) ==
  /\ dp[d].pc = "publish" /\ Exists(Owner(dp[d].new))
  /\ published' = [published EXCEPT ![dp[d].new] = @ + 1]
  /\ dp' = [dp EXCEPT ![d].pc = "mark"]
  /\ UNCHANGED <<sched, due, scan, running, starting, history, bounds>>

\* The broker refuses: the new scan stays PENDING and unlinked, the schedule
\* gets an error and the later of 15 minutes and its interval.
PublishFails(d) ==
  /\ dp[d].pc = "publish" /\ Exists(Owner(dp[d].new))
  /\ dp' = [dp EXCEPT ![d].pc = "loop", ![d].new = None,
                      ![d].defer = @ \cup {Owner(dp[d].new)}, ![d].todo = Done(d, Owner(dp[d].new))]
  /\ UNCHANGED <<sched, due, scan, work, history, bounds>>

\* The flush of status QUEUED, last_scan_id and next_run_at.  The UPDATE of the
\* scan waits while a worker runs it.
Mark(d) ==
  /\ dp[d].pc = "mark" /\ Exists(Owner(dp[d].new))
  /\ dp[d].new \notin running
  /\ dp' = [dp EXCEPT ![d].pc = "loop", ![d].marked = dp[d].new, ![d].new = None,
                      ![d].todo = Done(d, Owner(dp[d].new))]
  /\ UNCHANGED <<sched, due, scan, work, history, bounds>>

\* A dispatcher task ends: nothing is in its way any more.
Leave(d) ==
  /\ dp' = [dp EXCEPT ![d] = IdleDispatcher]
  /\ crowded' = crowded \ {d}

\* The batch is done: the last flush and the commit of session_scope.
Finish(d) ==
  /\ dp[d].pc = "loop" /\ dp[d].todo = Nobody
  /\ CommitSchedules(d)
  /\ scan' = MarkedBy(d)
  /\ Leave(d)
  /\ UNCHANGED <<work, excused, bounds>>

\* The transaction rolls back: the task published before it stays published.
Rollback(d) ==
  /\ Leave(d)
  /\ excused' = excused \cup InFlight(d)
  /\ UNCHANGED <<sched, due, scan, work>>

\* A schedule was deleted under the session: the reload or the UPDATE raises,
\* and the handler raises in turn.
Vanish(d) ==
  /\ \/ dp[d].pc = "loop" /\ ~Writable(d)
     \/ \E s \in Schedules : AtSchedule(d, s) /\ ~Readable(d, s)
     \/ dp[d].pc \in {"publish", "mark"} /\ ~Exists(Owner(dp[d].new))
  /\ Rollback(d)
  /\ UNCHANGED bounds

\* Any other end of the task: a lost database connection, a time limit, a dead
\* worker process.  Beat's next task starts over.
Fail(d) ==
  /\ Upset /\ dp[d].pc # "idle"
  /\ Rollback(d)

-----------------------------------------------------------------------------
(***************************************************************************)
(* Scans started again by hand, and the scanner workers as far as a        *)
(* dispatcher can tell (ScanLifecycle).                                    *)
(***************************************************************************)

\* POST /scans/{id}/start: whatever the scan's status, its task is published.
Rerun(x) ==
  /\ Upset /\ x \in DOMAIN scan
  /\ published' = [published EXCEPT ![x] = @ + 1]
  /\ starting' = [starting EXCEPT ![x] = @ + 1]
  /\ excused' = excused \cup {x}
  /\ UNCHANGED <<sched, due, scan, running, dp, crowded>>

\* The same request writes QUEUED, unless it loaded that or fails.  The UPDATE
\* waits for the worker or the dispatcher that has the row.
EndRerun(x) ==
  /\ starting[x] > 0
  /\ x \notin running /\ \A d \in Dispatchers : dp[d].marked # x
  /\ starting' = [starting EXCEPT ![x] = @ - 1]
  /\ scan' \in {scan, [scan EXCEPT ![x].status = "queued"]}
  /\ UNCHANGED <<sched, due, published, running, dp, history, bounds>>

\* The worker's first flush takes the row lock, which another worker or the
\* dispatcher's mark may hold.
StartScan(x) ==
  /\ published[x] > 0
  /\ x \notin running /\ \A d \in Dispatchers : dp[d].marked # x
  /\ published' = [published EXCEPT ![x] = @ - 1]
  /\ running' = running \cup {x}
  /\ UNCHANGED <<sched, due, scan, starting, dp, history, bounds>>

\* COMPLETED or FAILED is committed, the lock released, the task acknowledged.
EndScan(x) ==
  /\ x \in running
  /\ scan' = [scan EXCEPT ![x].status = "ended"]
  /\ running' = running \ {x}
  /\ UNCHANGED <<sched, due, published, starting, dp, history, bounds>>

Death(x) == Upset /\ x \in running /\ running' = running \ {x}

\* The worker dies: the broker delivers the unacknowledged task again, also
\* when the scan's end was committed already.
Redeliver(x) ==
  /\ Death(x)
  /\ published' = [published EXCEPT ![x] = @ + 1]
  /\ \/ UNCHANGED <<scan, excused>>
     \/ /\ scan' = [scan EXCEPT ![x].status = "ended"]
        /\ excused' = excused \cup {x}
  /\ UNCHANGED <<sched, due, starting, dp, crowded>>

\* An exception the task does not handle: rolled back and acknowledged, the
\* status is what it was before the run.
LoseScan(x) ==
  /\ Death(x)
  /\ UNCHANGED <<sched, due, scan, published, starting, dp, history>>

-----------------------------------------------------------------------------
User(s) ==
  CreateSchedule(s) \/ Pause(s) \/ Enable(s) \/ ChangeInterval(s) \/ ChangeAssets(s) \/ Delete(s)

\* The steps of a dispatcher task that happen when nothing fails.
Dispatch(d) ==
  \/ Select(d)
  \/ \E s \in Schedules : SkipActive(d, s) \/ NoAssets(d, s) \/ Insert(d, s)
  \/ Publish(d) \/ Mark(d) \/ Finish(d) \/ Vanish(d)

Scanner(x) == StartScan(x) \/ EndScan(x)

DispatchNext ==
  \/ \E s \in Schedules : User(s) \/ Tick(s)
  \/ \E d \in Dispatchers : Dispatch(d) \/ PublishFails(d) \/ Fail(d)
  \/ \E x \in Id : Scanner(x) \/ Redeliver(x) \/ LoseScan(x) \/ Rerun(x) \/ EndRerun(x)

DispatchSpec == DispatchInit /\ [][DispatchNext]_dispatchVars

\* Beat fires every minute, the default workers take its tasks, and a scan
\* that is started ends (task_time_limit).
DispatchFairness ==
  /\ \A d \in Dispatchers : WF_dispatchVars(Dispatch(d))
  /\ \A x \in Id : WF_dispatchVars(Scanner(x))

FairDispatchSpec == DispatchSpec /\ DispatchFairness

-----------------------------------------------------------------------------
(***************************************************************************)
(* Properties                                                              *)
(***************************************************************************)

\* A scan whose task is in the broker or with a worker.
HasWork(x) == published[x] > 0 \/ x \in running

\* "Avoid stacking while previous run is still active": two scans of a schedule
\* are queued or run at the same time only if one of them was started again by
\* hand, was redelivered after its end, or was under way in a dispatcher task
\* that failed or met another one (dispatch_due_schedules).
StackingIsExcused ==
  \A x, y \in DOMAIN scan \ excused :
    HasWork(x) /\ HasWork(y) /\ Owner(x) = Owner(y) => x = y

\* Every overdue schedule gets its turn: those that only collect errors or
\* skips, and the dispatcher tasks that fail or overlap, do not keep it out of
\* the batch (LIMIT, next_run_at order), as long as the bound allows new scans.
DueIsHandled ==
  \A s \in Schedules :
    (IsDue(s) /\ sched[s].state = "enabled")
      ~> (~IsDue(s) \/ sched[s].state # "enabled" \/ Len(scan) = MaxScans)
=============================================================================
