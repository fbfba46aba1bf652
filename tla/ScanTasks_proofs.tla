--------------------------- MODULE ScanTasks_proofs ---------------------------
(***************************************************************************)
(* Theorems about the tasks that run scans: the dispatcher that starts the *)
(* scheduled ones (ScheduleDispatch), the probes of one NexuSec scan       *)
(* (ScanEngine), and the task that runs a scanner and ingests its report   *)
(* (ToolRun).  The three specifications share nothing; each has a part of  *)
(* this module, with its inductive invariant first.                        *)
(***************************************************************************)
EXTENDS ScheduleDispatch, ScanEngine, ToolRun, FiniteSetTheorems, TLAPS

-----------------------------------------------------------------------------
(***************************************************************************)
(* ScheduleDispatch, for every set of schedules and dispatcher tasks.      *)
(*                                                                         *)
(* A session refers to committed scans only, so whatever a commit links is a *)
(* scan, and its owner is the schedule it is written to (LinksAreSound).   *)
(* That scans stack only where something excuses them needs more           *)
(* (StackIInv): who else knows of a scan at work, that a session holds no  *)
(* scan of a schedule that has another one at work, and that what it       *)
(* loaded of the schedules yet to come is still so.                        *)
(***************************************************************************)

\* last_scan_id names a committed scan of that very schedule, although one
\* session links several schedules and several sessions one schedule.
LinksAreSound ==
  \A s \in Schedules : sched[s].last # None =>
    sched[s].last \in DOMAIN scan /\ Owner(sched[s].last) = s

\* Numbers of scans are committed before anything refers to them.
SessionsAreSound ==
  \A d \in Dispatchers :
    /\ dp[d].new # None => dp[d].new \in DOMAIN scan
    /\ dp[d].marked # None => dp[d].marked \in DOMAIN scan
    /\ dp[d].pc \in {"publish", "mark"} => dp[d].new # None

DispatchIInv == DispatchTypeOK /\ LinksAreSound /\ SessionsAreSound

-----------------------------------------------------------------------------
LEMMA OrdersStayOrders ==
  ASSUME NEW order \in Order, NEW S PROVE Without(order, S) \in Order
BY DEF Order, Without

LEMMA DueStaysAnOrder ==
  ASSUME due \in Order, NEW s \in Schedules PROVE LastDue(s) \in Order
BY OrdersStayOrders DEF LastDue, Order

LEMMA ScansAreScans ==
  ASSUME DispatchIInv
  PROVE  /\ DOMAIN scan = 1 .. Len(scan) /\ Len(scan) \in Nat
         /\ \A x \in DOMAIN scan : x \in Nat /\ scan[x] \in Scan /\ Owner(x) \in Schedules
<1>1. scan \in Seq(Scan)
  BY DEF DispatchIInv, DispatchTypeOK
<1>2. \A x \in DOMAIN scan : scan[x] \in Scan
  BY <1>1
<1>3. QED
  BY <1>1, <1>2 DEF Owner, Scan

\* A commit changes the status of the marked scan only, and links it.
LEMMA CommitKeepsScans ==
  ASSUME DispatchIInv, NEW d \in Dispatchers
  PROVE  /\ MarkedBy(d) \in Seq(Scan) /\ Len(MarkedBy(d)) = Len(scan)
         /\ DOMAIN MarkedBy(d) = DOMAIN scan
         /\ \A x \in DOMAIN scan :
              /\ MarkedBy(d)[x].of = Owner(x)
              /\ x # dp[d].marked => MarkedBy(d)[x] = scan[x]
<1>1. scan \in Seq(Scan) /\ DOMAIN scan = 1 .. Len(scan) /\ Len(scan) \in Nat
  BY DEF DispatchIInv, DispatchTypeOK
<1>2. \A x \in 1 .. Len(scan) : scan[x] \in Scan
  BY <1>1
<1>3. MarkedBy(d) \in [1 .. Len(scan) -> Scan]
  BY <1>1, <1>2 DEF MarkedBy, Scan
<1>4. MarkedBy(d) \in Seq(Scan) /\ Len(MarkedBy(d)) = Len(scan)
  BY <1>1, <1>3
<1>5. QED
  BY <1>1, <1>2, <1>4 DEF MarkedBy, Owner, Scan

LEMMA CommitKeepsLinks ==
  ASSUME DispatchIInv, NEW d \in Dispatchers, CommitSchedules(d)
  PROVE  /\ sched' \in [Schedules -> Schedule]
         /\ due' \in Order
         /\ \A s \in Schedules : sched'[s].last # None =>
              sched'[s].last \in DOMAIN scan /\ Owner(sched'[s].last) = s
<1>1. /\ sched \in [Schedules -> Schedule] /\ due \in Order /\ dp[d] \in Dispatcher
      /\ dp[d].marked # None => dp[d].marked \in DOMAIN scan
  BY DEF DispatchIInv, DispatchTypeOK, SessionsAreSound
<1>2. sched' = LinkedBy(d) /\ due' \in Order
  BY <1>1, OrdersStayOrders DEF CommitSchedules
<1>3. sched' \in [Schedules -> Schedule]
  BY <1>1, <1>2 DEF LinkedBy, Schedule, Dispatcher
<1>4. ASSUME NEW s \in Schedules, sched'[s].last # None
      PROVE  sched'[s].last \in DOMAIN scan /\ Owner(sched'[s].last) = s
  <2>1. CASE dp[d].marked # None /\ Owner(dp[d].marked) = s
    <3>1. sched[s] \in Schedule
      BY <1>1
    <3>2. sched'[s].last = dp[d].marked
      BY <1>2, <2>1, <3>1 DEF LinkedBy, Schedule
    <3>3. QED
      BY <1>1, <2>1, <3>2
  <2>2. CASE ~(dp[d].marked # None /\ Owner(dp[d].marked) = s)
    <3>1. sched'[s] = sched[s]
      BY <1>2, <2>2 DEF LinkedBy
    <3>2. QED
      BY <1>4, <3>1 DEF DispatchIInv, LinksAreSound
  <2>3. QED
    BY <2>1, <2>2
<1>5. QED
  BY <1>2, <1>3, <1>4

LEMMA DispatchInitHolds == DispatchInit => DispatchIInv
<1>1. SUFFICES ASSUME DispatchInit PROVE DispatchIInv
  OBVIOUS
<1>2. None \notin Schedules /\ MaxScans \in Nat
  BY DispatchAssumption
<1>3. scan \in Seq(Scan) /\ Len(scan) = 0 /\ due \in Order
  BY <1>1 DEF DispatchInit, Nobody, Order
<1>4. IdleDispatcher \in Dispatcher
  BY DEF IdleDispatcher, Unread, NoView, Nobody, Dispatcher, View, Order
<1>5. DispatchTypeOK
  BY <1>1, <1>2, <1>3, <1>4 DEF DispatchInit, DispatchTypeOK, Schedule
<1>6. LinksAreSound /\ SessionsAreSound
  BY <1>1 DEF DispatchInit, LinksAreSound, SessionsAreSound, IdleDispatcher
<1>7. QED
  BY <1>5, <1>6 DEF DispatchIInv

\* Users and time: scans and sessions stay, links stay or are dropped.
LEMMA UserHolds ==
  ASSUME DispatchIInv, NEW s \in Schedules, User(s) \/ Tick(s)
  PROVE  DispatchIInv'
<1>1. UNCHANGED <<scan, work, dp, history>>
  BY DEF User, CreateSchedule, Pause, Enable, ChangeInterval, ChangeAssets, Delete, Tick
<1>2. /\ sched \in [Schedules -> Schedule] /\ due \in Order /\ ticks \in Nat /\ upsets \in Nat
  BY DEF DispatchIInv, DispatchTypeOK
<1>3. due' \in Order
  BY <1>2, OrdersStayOrders, DueStaysAnOrder
  DEF User, CreateSchedule, Pause, Enable, ChangeInterval, ChangeAssets, Delete, Tick, FallsDue
<1>4. /\ sched' \in [Schedules -> Schedule]
      /\ \A q \in Schedules : sched'[q].last # None => sched'[q].last = sched[q].last
  <2>1. /\ sched[s] \in Schedule /\ None \notin Schedules
        /\ sched' = sched \/ \E v : sched' = [sched EXCEPT ![s] = v]
    BY <1>2, DispatchAssumption
    DEF User, CreateSchedule, Pause, Enable, ChangeInterval, ChangeAssets, Delete, Tick
  <2>2. sched'[s] \in Schedule /\ (sched'[s].last # None => sched'[s].last = sched[s].last)
    <3>1. CASE CreateSchedule(s)
      BY <1>2, <3>1 DEF CreateSchedule, Schedule
    <3>2. CASE Pause(s) \/ Enable(s) \/ Delete(s)
      BY <1>2, <2>1, <3>2 DEF Pause, Enable, Delete, Schedule
    <3>3. CASE ChangeAssets(s)
      BY <1>2, <2>1, <3>3 DEF ChangeAssets, Schedule
    <3>4. CASE ChangeInterval(s) \/ Tick(s)
      BY <2>1, <3>4 DEF ChangeInterval, Tick
    <3>5. QED
      BY <3>1, <3>2, <3>3, <3>4 DEF User
  <2>3. QED
    BY <1>2, <2>1, <2>2
<1>5. ticks' \in Nat /\ upsets' \in Nat
  BY <1>2
  DEF User, CreateSchedule, Pause, Enable, ChangeInterval, ChangeAssets, Delete, Tick, FallsDue,
      Upset
<1>6. DispatchTypeOK'
  BY <1>1, <1>3, <1>4, <1>5 DEF DispatchIInv, DispatchTypeOK, work, history
<1>7. LinksAreSound' /\ SessionsAreSound'
  BY <1>1, <1>4 DEF DispatchIInv, LinksAreSound, SessionsAreSound, Owner
<1>8. QED
  BY <1>6, <1>7 DEF DispatchIInv

\* A session reads, assigns and flushes: nothing is committed.
LEMMA SessionHolds ==
  ASSUME DispatchIInv, NEW d \in Dispatchers,
         UNCHANGED <<sched, due, scan, running, starting, ticks>>,
         published' \in [Id -> Nat], upsets' \in Nat,
         crowded' \in SUBSET Dispatchers, excused' \in SUBSET Id,
         dp' = [dp EXCEPT ![d] = dp'[d]], dp'[d] \in Dispatcher,
         dp'[d].new # None => dp'[d].new \in DOMAIN scan,
         dp'[d].marked # None => dp'[d].marked \in DOMAIN scan,
         dp'[d].pc \in {"publish", "mark"} => dp'[d].new # None
  PROVE  DispatchIInv'
<1>1. dp \in [Dispatchers -> Dispatcher]
  BY DEF DispatchIInv, DispatchTypeOK
<1>2. DispatchTypeOK'
  BY <1>1 DEF DispatchIInv, DispatchTypeOK
<1>3. LinksAreSound' /\ SessionsAreSound'
  BY <1>1 DEF DispatchIInv, LinksAreSound, SessionsAreSound, Owner
<1>4. QED
  BY <1>2, <1>3 DEF DispatchIInv

LEMMA LoopHolds ==
  ASSUME DispatchIInv, NEW d \in Dispatchers,
         \/ Select(d) \/ Publish(d) \/ PublishFails(d) \/ Mark(d) \/ Vanish(d) \/ Fail(d)
         \/ \E s \in Schedules : SkipActive(d, s) \/ NoAssets(d, s)
  PROVE  DispatchIInv'
<1>1. /\ dp \in [Dispatchers -> Dispatcher] /\ dp[d] \in Dispatcher
      /\ sched \in [Schedules -> Schedule] /\ due \in Order /\ upsets \in Nat
      /\ published \in [Id -> Nat] /\ crowded \in SUBSET Dispatchers /\ excused \in SUBSET Id
      /\ scan \in Seq(Scan) /\ Len(scan) <= MaxScans
      /\ dp[d].new # None => dp[d].new \in DOMAIN scan
      /\ dp[d].marked # None => dp[d].marked \in DOMAIN scan
      /\ dp[d].pc \in {"publish", "mark"} => dp[d].new # None
  BY DEF DispatchIInv, DispatchTypeOK, SessionsAreSound
<1>0. \A e \in Dispatchers : InFlight(e) \in SUBSET Id
  BY DEF DispatchIInv, DispatchTypeOK, Dispatcher, InFlight
<1>2. IdleDispatcher \in Dispatcher
  BY DEF IdleDispatcher, Unread, NoView, Nobody, Dispatcher, View, Order
<1>3. CASE Vanish(d) \/ Fail(d)
  <2>1. dp' = [dp EXCEPT ![d] = dp'[d]] /\ dp'[d] = IdleDispatcher
    BY <1>1, <1>3 DEF Vanish, Fail, Rollback, Leave
  <2>2. /\ UNCHANGED <<sched, due, scan, work, ticks>> /\ upsets' \in Nat
        /\ crowded' \in SUBSET Dispatchers /\ excused' \in SUBSET Id
    BY <1>0, <1>1, <1>3 DEF Vanish, Fail, Rollback, Leave, Upset, bounds
  <2>3. dp'[d].new = None /\ dp'[d].marked = None /\ dp'[d].pc = "idle" /\ dp'[d] \in Dispatcher
    BY <1>2, <2>1 DEF IdleDispatcher
  <2>4. QED
    BY <1>1, <2>1, <2>2, <2>3, SessionHolds DEF work
<1>4. CASE Select(d)
  <2>1. PICK S, T : dp' = [dp EXCEPT ![d] = [IdleDispatcher EXCEPT
                   !.pc = "loop", !.todo = Without(due, S),
                   !.loaded = [s \in Schedules |-> IF s \in T THEN Now(s) ELSE NoView]]]
    BY <1>4 DEF Select
  <2>2. Without(due, S) \in Order
    BY <1>1, OrdersStayOrders
  <2>3. [s \in Schedules |-> IF s \in T THEN Now(s) ELSE NoView] \in [Schedules -> View]
    BY <1>1 DEF Now, NoView, LastActive, View, Schedule
  <2>4. /\ dp' = [dp EXCEPT ![d] = dp'[d]] /\ dp'[d] \in Dispatcher
        /\ dp'[d].new = None /\ dp'[d].marked = None /\ dp'[d].pc = "loop"
    BY <1>1, <1>2, <2>1, <2>2, <2>3 DEF Dispatcher, IdleDispatcher
  <2>5. /\ UNCHANGED <<sched, due, scan, work, bounds>>
        /\ crowded' \in SUBSET Dispatchers /\ excused' \in SUBSET Id
    BY <1>0, <1>1, <1>4 DEF Select
  <2>6. QED
    BY <1>1, <2>4, <2>5, SessionHolds DEF work, bounds
<1>5. ASSUME NEW s \in Schedules, SkipActive(d, s) \/ NoAssets(d, s)
      PROVE  DispatchIInv'
  <2>1. Done(d, s) \in Order
    BY <1>1, OrdersStayOrders DEF Done, Dispatcher
  <2>2. /\ dp' = [dp EXCEPT ![d] = dp'[d]] /\ dp'[d] \in Dispatcher
        /\ dp'[d].new = dp[d].new /\ dp'[d].marked = dp[d].marked /\ dp'[d].pc = "loop"
    BY <1>1, <1>5, <2>1 DEF SkipActive, NoAssets, AtSchedule, Dispatcher
  <2>3. UNCHANGED <<sched, due, scan, work, history, bounds>>
    BY <1>5 DEF SkipActive, NoAssets
  <2>4. QED
    BY <1>1, <2>2, <2>3, SessionHolds DEF work, history, bounds
<1>6. CASE Publish(d) \/ PublishFails(d) \/ Mark(d)
  <2>1. dp[d].pc \in {"publish", "mark"} /\ dp[d].new \in DOMAIN scan
    BY <1>1, <1>6 DEF Publish, PublishFails, Mark
  <2>2. dp[d].new \in Id /\ Owner(dp[d].new) \in Schedules
    <3>1. MaxScans \in Nat /\ DOMAIN scan = 1 .. Len(scan)
      BY <1>1, DispatchAssumption
    <3>2. scan[dp[d].new] \in Scan /\ dp[d].new \in Id
      BY <1>1, <2>1, <3>1 DEF Id
    <3>3. QED
      BY <3>2 DEF Owner, Scan
  <2>3. Done(d, Owner(dp[d].new)) \in Order
    BY <1>1, OrdersStayOrders DEF Done, Dispatcher
  <2>4. /\ dp' = [dp EXCEPT ![d] = dp'[d]] /\ dp'[d] \in Dispatcher
        /\ dp'[d].new \in {None, dp[d].new} /\ dp'[d].marked \in {dp[d].new, dp[d].marked}
        /\ dp'[d].pc \in {"publish", "mark"} => dp'[d].new = dp[d].new
    <3>1. CASE Publish(d)
      BY <1>1, <3>1 DEF Publish, Dispatcher
    <3>2. CASE PublishFails(d)
      BY <1>1, <2>2, <2>3, <3>2 DEF PublishFails, Dispatcher
    <3>3. CASE Mark(d)
      BY <1>1, <2>2, <2>3, <3>3 DEF Mark, Dispatcher
    <3>4. QED
      BY <1>6, <3>1, <3>2, <3>3
  <2>5. /\ UNCHANGED <<sched, due, scan, running, starting, history, bounds>>
        /\ published' \in [Id -> Nat]
    BY <1>1, <1>6, <2>2 DEF Publish, PublishFails, Mark, work
  <2>6. QED
    BY <1>1, <2>1, <2>4, <2>5, SessionHolds DEF history, bounds
<1>7. QED
  BY <1>3, <1>4, <1>5, <1>6

\* A commit: the assignments of the session, and perhaps a new scan.
LEMMA CommitHolds ==
  ASSUME DispatchIInv, NEW d \in Dispatchers,
         Finish(d) \/ \E s \in Schedules : Insert(d, s)
  PROVE  DispatchIInv'
<1> DEFINE Grown == /\ scan' \in Seq(Scan) /\ Len(scan') <= MaxScans
                    /\ \A x \in DOMAIN scan : x \in DOMAIN scan' /\ scan'[x].of = Owner(x)
<1> DEFINE Left == /\ dp' = [dp EXCEPT ![d] = dp'[d]] /\ dp'[d] \in Dispatcher
                   /\ dp'[d].marked = None
                   /\ dp'[d].new # None => dp'[d].new \in DOMAIN scan'
                   /\ dp'[d].pc \in {"publish", "mark"} => dp'[d].new # None
<1>1. /\ dp \in [Dispatchers -> Dispatcher] /\ dp[d] \in Dispatcher
      /\ scan \in Seq(Scan) /\ Len(scan) \in Nat /\ Len(scan) <= MaxScans
      /\ DOMAIN scan = 1 .. Len(scan) /\ MaxScans \in Nat
  BY DispatchAssumption DEF DispatchIInv, DispatchTypeOK
<1>2. CommitSchedules(d) /\ UNCHANGED <<work, bounds>>
  BY DEF Finish, Insert
<1>3. /\ sched' \in [Schedules -> Schedule] /\ due' \in Order
      /\ \A s \in Schedules : sched'[s].last # None =>
           sched'[s].last \in DOMAIN scan /\ Owner(sched'[s].last) = s
  BY <1>2, CommitKeepsLinks
<1>4. /\ MarkedBy(d) \in Seq(Scan) /\ Len(MarkedBy(d)) = Len(scan)
      /\ \A x \in DOMAIN scan : MarkedBy(d)[x].of = Owner(x)
  BY CommitKeepsScans
<1>5. Grown
  <2>1. CASE Finish(d)
    BY <1>1, <1>4, <2>1 DEF Finish
  <2>2. ASSUME NEW s \in Schedules, Insert(d, s)
        PROVE  Grown
    <3>1. [of |-> s, status |-> "pending"] \in Scan
      BY DEF Scan
    <3>2. scan' = Append(MarkedBy(d), [of |-> s, status |-> "pending"]) /\ Len(scan) < MaxScans
      BY <2>2 DEF Insert
    <3>3. scan' \in Seq(Scan) /\ Len(scan') = Len(scan) + 1
      BY <1>4, <3>1, <3>2
    <3>4. \A x \in 1 .. Len(scan) : scan'[x] = MarkedBy(d)[x]
      BY <1>1, <1>4, <3>1, <3>2
    <3>5. QED
      BY <1>1, <1>4, <3>2, <3>3, <3>4
  <2>3. QED
    BY <2>1, <2>2
<1>6. Left
  <2>1. CASE Finish(d)
    <3>1. IdleDispatcher \in Dispatcher
      BY DEF IdleDispatcher, Unread, NoView, Nobody, Dispatcher, View, Order
    <3>2. QED
      BY <1>1, <2>1, <3>1 DEF Finish, Leave, IdleDispatcher
  <2>2. ASSUME NEW s \in Schedules, Insert(d, s)
        PROVE  Left
    <3>1. Len(scan) + 1 \in Id /\ Len(scan) + 1 # None /\ Len(scan) + 1 \in DOMAIN scan'
      <4>1. Len(scan') = Len(scan) + 1 /\ Len(scan) < MaxScans /\ scan' \in Seq(Scan)
        BY <1>1, <1>4, <1>5, <2>2 DEF Insert
      <4>2. QED
        BY <1>1, <4>1, DispatchAssumption DEF Id
    <3>2. dp' = [dp EXCEPT ![d] = dp'[d]] /\ dp'[d].new = Len(scan) + 1 /\ dp'[d].marked = None
      BY <1>1, <2>2 DEF Insert, Dispatcher
    <3>3. dp'[d] \in Dispatcher
      BY <1>1, <2>2, <3>1 DEF Insert, Dispatcher, Unread, NoView, View
    <3>4. QED
      BY <3>1, <3>2, <3>3
  <2>3. QED
    BY <2>1, <2>2
<1>7. DispatchTypeOK'
  <2>1. crowded' \in SUBSET Dispatchers /\ excused' \in SUBSET Id
    <3>1. crowded \in SUBSET Dispatchers /\ excused \in SUBSET Id
      BY DEF DispatchIInv, DispatchTypeOK
    <3>2. CASE Finish(d)
      BY <3>1, <3>2 DEF Finish, Leave
    <3>3. ASSUME NEW s \in Schedules, Insert(d, s)
          PROVE  crowded' \in SUBSET Dispatchers /\ excused' \in SUBSET Id
      BY <1>1, <3>1, <3>3 DEF Insert, Id
    <3>4. QED
      BY <3>2, <3>3
  <2>2. QED
    BY <1>1, <1>2, <1>3, <1>5, <1>6, <2>1 DEF DispatchIInv, DispatchTypeOK, work, bounds
<1>8. LinksAreSound'
  BY <1>3, <1>5 DEF LinksAreSound, Owner
<1>9. SessionsAreSound'
  BY <1>1, <1>5, <1>6 DEF DispatchIInv, SessionsAreSound
<1>10. QED
  BY <1>7, <1>8, <1>9 DEF DispatchIInv

\* Scans started again, and the workers: no scan is added or linked.
WorkerStep(x) == Scanner(x) \/ Redeliver(x) \/ LoseScan(x) \/ Rerun(x) \/ EndRerun(x)

LEMMA WorkerHolds ==
  ASSUME DispatchIInv, NEW x \in Id, WorkerStep(x)
  PROVE  /\ DispatchIInv'
         /\ DOMAIN scan' = DOMAIN scan
         /\ \A y \in DOMAIN scan : scan'[y].of = scan[y].of
<1>1. /\ scan \in Seq(Scan) /\ Len(scan) <= MaxScans /\ DOMAIN scan = 1 .. Len(scan)
      /\ published \in [Id -> Nat] /\ running \in SUBSET Id /\ starting \in [Id -> Nat]
      /\ excused \in SUBSET Id /\ upsets \in Nat
  BY DEF DispatchIInv, DispatchTypeOK
<1>2. UNCHANGED <<sched, due, dp, ticks, crowded>>
  BY DEF WorkerStep, Scanner, StartScan, EndScan, Redeliver, LoseScan, Rerun, EndRerun, Death,
         Upset, history, bounds
<1>3. /\ published' \in [Id -> Nat] /\ running' \in SUBSET Id /\ starting' \in [Id -> Nat]
      /\ excused' \in SUBSET Id /\ upsets' \in Nat
  <2>1. CASE Scanner(x)
    BY <1>1, <2>1 DEF Scanner, StartScan, EndScan, history, bounds
  <2>2. CASE Redeliver(x) \/ LoseScan(x)
    BY <1>1, <2>2 DEF Redeliver, LoseScan, Death, Upset, history
  <2>3. CASE Rerun(x)
    BY <1>1, <2>3 DEF Rerun, Upset
  <2>4. CASE EndRerun(x)
    <3>1. starting[x] \in Nat /\ starting[x] > 0 /\ starting' = [starting EXCEPT ![x] = @ - 1]
      BY <1>1, <2>4 DEF EndRerun
    <3>2. starting[x] - 1 \in Nat
      BY <3>1
    <3>3. starting' \in [Id -> Nat]
      BY <1>1, <3>1, <3>2
    <3>4. QED
      BY <1>1, <2>4, <3>3 DEF EndRerun, history, bounds
  <2>5. QED
    BY <2>1, <2>2, <2>3, <2>4 DEF WorkerStep
<1>4. /\ scan' \in Seq(Scan) /\ Len(scan') = Len(scan) /\ DOMAIN scan' = DOMAIN scan
      /\ \A y \in DOMAIN scan : scan'[y].of = scan[y].of
  <2>1. CASE scan' = scan
    BY <1>1, <2>1
  <2>2. ASSUME NEW v \in {"queued", "ended"}, scan' = [scan EXCEPT ![x].status = v]
        PROVE  /\ scan' \in Seq(Scan) /\ Len(scan') = Len(scan) /\ DOMAIN scan' = DOMAIN scan
               /\ \A y \in DOMAIN scan : scan'[y].of = scan[y].of
    <3>1. \A y \in 1 .. Len(scan) : scan[y] \in Scan
      BY <1>1
    <3>2. /\ scan' \in [1 .. Len(scan) -> Scan]
          /\ \A y \in 1 .. Len(scan) : scan'[y].of = scan[y].of
      BY <1>1, <2>2, <3>1 DEF Scan
    <3>3. scan' \in Seq(Scan) /\ Len(scan') = Len(scan)
      <4>1. Len(scan) \in Nat
        BY <1>1
      <4>2. QED
        BY <3>2, <4>1
    <3>4. QED
      BY <1>1, <3>2, <3>3
  <2>3. QED
    BY <2>1, <2>2
    DEF WorkerStep, Scanner, StartScan, EndScan, Redeliver, LoseScan, Rerun, EndRerun
<1>5. DispatchTypeOK'
  BY <1>1, <1>2, <1>3, <1>4 DEF DispatchIInv, DispatchTypeOK
<1>6. LinksAreSound' /\ SessionsAreSound'
  BY <1>2, <1>4 DEF DispatchIInv, LinksAreSound, SessionsAreSound, Owner
<1>7. QED
  BY <1>4, <1>5, <1>6 DEF DispatchIInv

LEMMA DispatchNextHolds == DispatchIInv /\ [DispatchNext]_dispatchVars => DispatchIInv'
<1>1. SUFFICES ASSUME DispatchIInv, [DispatchNext]_dispatchVars PROVE DispatchIInv'
  OBVIOUS
<1>2. ASSUME NEW s \in Schedules, User(s) \/ Tick(s)
      PROVE  DispatchIInv'
  BY <1>1, <1>2, UserHolds
<1>3. ASSUME NEW d \in Dispatchers, Dispatch(d) \/ PublishFails(d) \/ Fail(d)
      PROVE  DispatchIInv'
  BY <1>1, <1>3, LoopHolds, CommitHolds DEF Dispatch
<1>4. ASSUME NEW x \in Id, WorkerStep(x)
      PROVE  DispatchIInv'
  BY <1>1, <1>4, WorkerHolds
<1>5. CASE UNCHANGED dispatchVars
  BY <1>1, <1>5
  DEF DispatchIInv, DispatchTypeOK, LinksAreSound, SessionsAreSound, Owner, dispatchVars, work, history,
      bounds
<1>6. QED
  BY <1>1, <1>2, <1>3, <1>4, <1>5 DEF DispatchNext, WorkerStep

LEMMA DispatchInductive == DispatchSpec => []DispatchIInv
BY DispatchInitHolds, DispatchNextHolds, PTL DEF DispatchSpec

\* Rows, batches and sessions always have their types, whatever users edit and
\* delete and wherever a dispatcher or a worker fails (dispatch_due_schedules).
THEOREM DispatchTypeCorrect == DispatchSpec => []DispatchTypeOK
<1>1. DispatchIInv => DispatchTypeOK
  BY DEF DispatchIInv
<1>2. QED
  BY <1>1, DispatchInductive, PTL

-----------------------------------------------------------------------------
(***************************************************************************)
(* What excuses two scans of a schedule at work.                           *)
(***************************************************************************)

\* The scans of s at work that nothing excuses.
Busy(s) == {x \in DOMAIN scan \ excused : HasWork(x) /\ Owner(x) = s}

\* Work is done on committed scans; unless it is excused, a scan has one task.
WorkIsCounted ==
  /\ \A x \in Id : HasWork(x) => x \in DOMAIN scan
  /\ \A x \in Id \ excused : published[x] <= 1 /\ (x \in running => published[x] = 0)

\* Schedules that were read, or have scans, were created once.
OwnersWereCreated ==
  /\ \A x \in DOMAIN scan : sched[Owner(x)].state # "absent"
  /\ \A d \in Dispatchers, s \in Schedules : dp[d].todo[s] # {} => sched[s].state # "absent"

\* Two tasks under way know of each other.
CrowdIsSeen ==
  \A d, e \in Dispatchers : d # e /\ dp[d].pc # "idle" /\ dp[e].pc # "idle" => d \in crowded

\* The schedule of a scan in flight has no other scan at work; a schedule yet to
\* come that has one was loaded as active.
SessionIsAlone(d) ==
  /\ dp[d].pc = "idle" => dp[d] = IdleDispatcher
  /\ dp[d].new # None =>
       /\ dp[d].pc \in {"publish", "mark"} /\ dp[d].fresh /\ dp[d].marked = None
       /\ dp[d].pc = "publish" /\ dp[d].new \notin excused =>
            ~HasWork(dp[d].new) /\ scan[dp[d].new].status # "ended"
  /\ dp[d].marked # None =>
       dp[d].pc = "loop" /\ dp[d].fresh /\ dp[d].todo[Owner(dp[d].marked)] = {}
  /\ d \in crowded => InFlight(d) \subseteq excused
  /\ \A y \in InFlight(d) : Busy(Owner(y)) \subseteq {y}
  /\ \A s \in Schedules : ~dp[d].fresh /\ dp[d].todo[s] # {} /\ Busy(s) # {} => dp[d].loaded[s].active

\* A scan at work is active, and its schedule or a session knows of it.
Known(x) ==
  \/ x = sched[Owner(x)].last
  \/ \E d \in Dispatchers : x = dp[d].marked \/ (x = dp[d].new /\ dp[d].pc = "mark")
WorkIsKnown ==
  \A s \in Schedules : \A x \in Busy(s) : scan[x].status # "ended" /\ (Exists(s) => Known(x))

StackIInv ==
  /\ WorkIsCounted /\ OwnersWereCreated /\ CrowdIsSeen
  /\ \A d \in Dispatchers : SessionIsAlone(d)
  /\ WorkIsKnown
  /\ StackingIsExcused

\* What is in flight is committed, and owned by a schedule.
LEMMA FlightType ==
  ASSUME DispatchIInv
  PROVE  /\ dp \in [Dispatchers -> Dispatcher] /\ sched \in [Schedules -> Schedule]
         /\ DOMAIN scan \subseteq Id /\ None \notin DOMAIN scan
         /\ published \in [Id -> Nat]
         /\ \A s : Busy(s) \subseteq DOMAIN scan
         /\ \A d \in Dispatchers : \A y \in InFlight(d) : y \in DOMAIN scan /\ Owner(y) \in Schedules
         /\ \A d \in Dispatchers :
              /\ dp[d].new # None => dp[d].new \in InFlight(d)
              /\ dp[d].marked # None => dp[d].marked \in InFlight(d)
<1>1. /\ dp \in [Dispatchers -> Dispatcher] /\ sched \in [Schedules -> Schedule]
      /\ scan \in Seq(Scan) /\ Len(scan) <= MaxScans /\ published \in [Id -> Nat]
  BY DEF DispatchIInv, DispatchTypeOK
<1>2. DOMAIN scan \subseteq Id /\ None \notin DOMAIN scan
  BY <1>1, DispatchAssumption, ScansAreScans DEF Id
<1>3. \A d \in Dispatchers : \A y \in InFlight(d) : y \in DOMAIN scan
  BY DEF DispatchIInv, SessionsAreSound, InFlight
<1>4. QED
  BY <1>1, <1>2, <1>3, ScansAreScans DEF InFlight, Busy

\* Users and workers: no scan that nothing excuses gets work, and none at work
\* ends or is forgotten.
LEMMA QuietHolds ==
  ASSUME DispatchIInv, StackIInv, UNCHANGED <<dp, crowded>>, excused \subseteq excused',
         DOMAIN scan' = DOMAIN scan,
         \A x \in DOMAIN scan : scan'[x].of = scan[x].of,
         \A x \in DOMAIN scan \ excused' :
           /\ HasWork(x)' => HasWork(x)
           /\ scan[x].status # "ended" /\ (HasWork(x)' \/ ~HasWork(x)) => scan'[x].status # "ended",
         WorkIsCounted',
         \A s \in Schedules :
           /\ sched'[s].state = "absent" => sched[s].state = "absent"
           /\ Exists(s)' /\ sched[s].state # "absent" =>
                Exists(s) /\ sched'[s].last = sched[s].last
  PROVE  StackIInv'
<1>1. \A x \in DOMAIN scan : Owner(x)' = Owner(x) /\ Owner(x) \in Schedules
  BY ScansAreScans DEF Owner
<1>2. \A s \in Schedules : Busy(s)' \subseteq Busy(s)
  BY <1>1 DEF Busy
<1>3. OwnersWereCreated' /\ CrowdIsSeen'
  BY <1>1 DEF StackIInv, OwnersWereCreated, CrowdIsSeen
<1>4. ASSUME NEW d \in Dispatchers PROVE SessionIsAlone(d)'
  <2>1. SessionIsAlone(d) /\ InFlight(d)' = InFlight(d)
    BY DEF StackIInv, InFlight
  <2>2. \A y \in InFlight(d) : y \in DOMAIN scan /\ Owner(y)' = Owner(y) /\ Owner(y) \in Schedules
    BY <1>1, FlightType
  <2>3. \A y \in InFlight(d) : Busy(Owner(y))' \subseteq {y}
    BY <1>2, <2>1, <2>2 DEF SessionIsAlone
  <2>4. \A s \in Schedules : ~dp[d].fresh /\ dp[d].todo[s] # {} /\ Busy(s)' # {} => dp[d].loaded[s].active
    BY <1>2, <2>1 DEF SessionIsAlone
  <2>5. dp[d].pc = "publish" /\ dp[d].new # None /\ dp[d].new \notin excused' =>
          ~HasWork(dp[d].new)' /\ scan'[dp[d].new].status # "ended"
    <3>1. dp[d].new # None => dp[d].new \in DOMAIN scan
      BY DEF DispatchIInv, SessionsAreSound
    <3>2. QED
      BY <2>1, <3>1 DEF SessionIsAlone
  <2>6. dp[d].marked # None => dp[d].marked \in InFlight(d)
    BY FlightType
  <2>7. Owner(dp[d].marked)' = Owner(dp[d].marked) \/ dp[d].marked = None
    BY <2>2, <2>6
  <2>8. QED
    BY <2>1, <2>2, <2>3, <2>4, <2>5, <2>7 DEF SessionIsAlone
<1>5. WorkIsKnown'
  <2>1. SUFFICES ASSUME NEW s \in Schedules, NEW x \in Busy(s)'
                 PROVE  scan'[x].status # "ended" /\ (Exists(s)' => Known(x)')
    BY DEF WorkIsKnown
  <2>2. /\ x \in Busy(s) /\ x \in DOMAIN scan \ excused' /\ HasWork(x)' /\ Owner(x) = s
        /\ Owner(x)' = s
    BY <1>1, <1>2, <2>1 DEF Busy
  <2>3. scan[x].status # "ended" /\ (Exists(s) => Known(x))
    BY <2>2 DEF StackIInv, WorkIsKnown
  <2>4. sched[s].state # "absent"
    BY <2>2 DEF StackIInv, OwnersWereCreated
  <2>5. Exists(s)' => Known(x)'
    BY <2>2, <2>3, <2>4 DEF Known
  <2>6. QED
    BY <2>2, <2>3, <2>5
<1>6. StackingIsExcused'
  BY <1>1 DEF StackIInv, StackingIsExcused
<1>7. QED
  BY <1>3, <1>4, <1>5, <1>6 DEF StackIInv

LEMMA UserIsQuiet ==
  ASSUME DispatchIInv, StackIInv, NEW s \in Schedules, User(s) \/ Tick(s)
  PROVE  StackIInv'
<1>1. UNCHANGED <<scan, work, dp, history>>
  BY DEF User, CreateSchedule, Pause, Enable, ChangeInterval, ChangeAssets, Delete, Tick
<1>2. \A x : HasWork(x)' = HasWork(x)
  BY <1>1 DEF work, HasWork
<1>3. WorkIsCounted'
  BY <1>1, <1>2 DEF StackIInv, WorkIsCounted, work, history
<1>4. sched \in [Schedules -> Schedule] /\ sched[s] \in Schedule
  BY DEF DispatchIInv, DispatchTypeOK
<1>5. /\ sched' = sched \/ sched' = [sched EXCEPT ![s] = sched'[s]]
      /\ sched'[s].state = "absent" => sched[s].state = "absent"
      /\ sched'[s].state \in {"enabled", "paused"} /\ sched[s].state # "absent" =>
           sched[s].state \in {"enabled", "paused"} /\ sched'[s].last = sched[s].last
  <2>1. CASE CreateSchedule(s)
    BY <1>4, <2>1 DEF CreateSchedule
  <2>2. CASE Pause(s) \/ Enable(s) \/ ChangeAssets(s)
    BY <1>4, <2>2 DEF Pause, Enable, ChangeAssets, Exists, Schedule
  <2>3. CASE Delete(s)
    BY <1>4, <2>3 DEF Delete, Exists, Schedule
  <2>4. CASE ChangeInterval(s) \/ Tick(s)
    BY <2>4 DEF ChangeInterval, Tick
  <2>5. QED
    BY <2>1, <2>2, <2>3, <2>4 DEF User
<1>6. \A q \in Schedules :
        /\ sched'[q].state = "absent" => sched[q].state = "absent"
        /\ Exists(q)' /\ sched[q].state # "absent" => Exists(q) /\ sched'[q].last = sched[q].last
  BY <1>4, <1>5 DEF Exists
<1>7. QED
  BY <1>1, <1>2, <1>3, <1>6, QuietHolds DEF history

LEMMA WorkerIsQuiet ==
  ASSUME DispatchIInv, StackIInv, NEW x \in Id, WorkerStep(x)
  PROVE  StackIInv'
<1>1. DOMAIN scan' = DOMAIN scan /\ \A y \in DOMAIN scan : scan'[y].of = scan[y].of
  BY WorkerHolds
<1>2. UNCHANGED <<dp, crowded, sched>>
  BY DEF WorkerStep, Scanner, StartScan, EndScan, Redeliver, LoseScan, Rerun, EndRerun, history
<1>3. /\ published \in [Id -> Nat] /\ running \subseteq Id /\ WorkIsCounted
      /\ scan \in Seq(Scan) /\ DOMAIN scan \subseteq Id
  BY FlightType DEF DispatchIInv, DispatchTypeOK, StackIInv
<1> DEFINE Goal == /\ excused \subseteq excused'
                   /\ WorkIsCounted'
                   /\ \A y \in DOMAIN scan \ excused' :
                        /\ HasWork(y)' => HasWork(y)
                        /\ scan[y].status # "ended" /\ (HasWork(y)' \/ ~HasWork(y)) =>
                             scan'[y].status # "ended"
<1>4. ASSUME StartScan(x) PROVE Goal
  <2>1. /\ published[x] > 0 /\ x \notin running /\ published[x] \in Nat
        /\ published' = [published EXCEPT ![x] = @ - 1] /\ running' = running \cup {x}
        /\ UNCHANGED <<scan, excused>>
    BY <1>3, <1>4 DEF StartScan, history
  <2>2. \A y \in Id : /\ y # x => published'[y] = published[y] /\ (y \in running' <=> y \in running)
                      /\ published'[x] = published[x] - 1
    BY <1>3, <2>1
  <2>3. WorkIsCounted'
    BY <1>3, <2>1, <2>2 DEF WorkIsCounted, HasWork
  <2>4. QED
    BY <1>3, <2>1, <2>2, <2>3 DEF HasWork
<1>5. ASSUME EndScan(x) PROVE Goal
  <2>1. /\ x \in running /\ running' = running \ {x} /\ UNCHANGED <<published, excused>>
        /\ scan' = [scan EXCEPT ![x].status = "ended"]
    BY <1>5 DEF EndScan, history
  <2>2. WorkIsCounted'
    BY <1>1, <1>3, <2>1 DEF WorkIsCounted, HasWork
  <2>3. x \notin excused => published[x] = 0
    BY <1>3, <2>1 DEF WorkIsCounted
  <2>4. \A y \in DOMAIN scan : y # x => scan'[y] = scan[y]
    BY <2>1
  <2>5. QED
    BY <1>3, <2>1, <2>2, <2>3, <2>4 DEF HasWork
<1>6. ASSUME Redeliver(x) PROVE Goal
  <2>1. /\ x \in running /\ running' = running \ {x} /\ published' = [published EXCEPT ![x] = @ + 1]
        /\ excused \subseteq excused'
        /\ \/ scan' = scan
           \/ x \in excused' /\ scan' = [scan EXCEPT ![x].status = "ended"]
        /\ excused' \subseteq excused \cup {x}
    <3>1. CASE UNCHANGED <<scan, excused>>
      BY <1>6, <3>1 DEF Redeliver, Death
    <3>2. CASE ~UNCHANGED <<scan, excused>>
      BY <1>6, <3>2 DEF Redeliver, Death
    <3>3. QED
      BY <3>1, <3>2
  <2>2. \A y \in Id : /\ y # x => published'[y] = published[y] /\ (y \in running' <=> y \in running)
                      /\ published'[x] = published[x] + 1 /\ published[x] \in Nat
    BY <1>3, <2>1
  <2>3. WorkIsCounted'
    BY <1>1, <1>3, <2>1, <2>2 DEF WorkIsCounted, HasWork
  <2>4. \A y \in DOMAIN scan : y # x => scan'[y] = scan[y]
    BY <2>1
  <2>5. QED
    BY <1>3, <2>1, <2>2, <2>3, <2>4 DEF HasWork
<1>7. ASSUME LoseScan(x) PROVE Goal
  <2>1. /\ running' = running \ {x} /\ UNCHANGED <<published, excused, scan>>
    BY <1>7 DEF LoseScan, Death, history
  <2>2. WorkIsCounted'
    BY <1>3, <2>1 DEF WorkIsCounted, HasWork
  <2>3. QED
    BY <2>1, <2>2 DEF HasWork
<1>8. ASSUME Rerun(x) PROVE Goal
  <2>1. /\ published' = [published EXCEPT ![x] = @ + 1] /\ excused' = excused \cup {x}
        /\ UNCHANGED <<scan, running>> /\ x \in DOMAIN scan
    BY <1>8 DEF Rerun
  <2>2. \A y \in Id : y # x => published'[y] = published[y]
    BY <1>3, <2>1
  <2>3. WorkIsCounted'
    BY <1>1, <1>3, <2>1, <2>2 DEF WorkIsCounted, HasWork
  <2>4. QED
    BY <1>3, <2>1, <2>2, <2>3 DEF HasWork
<1>9. ASSUME EndRerun(x) PROVE Goal
  <2>1. /\ UNCHANGED <<published, running, excused>>
        /\ scan' = scan \/ scan' = [scan EXCEPT ![x].status = "queued"]
    BY <1>9 DEF EndRerun, history
  <2>2. WorkIsCounted'
    BY <1>1, <1>3, <2>1 DEF WorkIsCounted, HasWork
  <2>3. \A y \in DOMAIN scan : scan[y].status # "ended" => scan'[y].status # "ended"
    <3>1. \A y \in DOMAIN scan : scan[y] \in Scan
      BY ScansAreScans
    <3>2. QED
      BY <2>1, <3>1 DEF Scan
  <2>4. QED
    BY <2>1, <2>2, <2>3 DEF HasWork
<1>10. Goal
  BY <1>4, <1>5, <1>6, <1>7, <1>8, <1>9 DEF WorkerStep, Scanner
<1>11. \A s \in Schedules : Exists(s)' = Exists(s)
  BY <1>2 DEF Exists
<1>12. QED
  BY <1>1, <1>2, <1>10, <1>11, QuietHolds

\* A session other than d: what it knows of itself stays, and if it is under
\* way, no scan that nothing excuses gets work.
LEMMA OtherStays ==
  ASSUME DispatchIInv, StackIInv, NEW e \in Dispatchers, dp'[e] = dp[e],
         excused \subseteq excused',
         \A x \in DOMAIN scan :
           /\ x \in DOMAIN scan' /\ Owner(x)' = Owner(x)
           /\ scan[x].status # "ended" => scan'[x].status # "ended",
         dp[e].pc # "idle" =>
           /\ \A s \in Schedules : Busy(s)' \subseteq Busy(s)
           /\ e \in crowded' /\ e \notin crowded => InFlight(e) \subseteq excused'
           /\ \A x \in DOMAIN scan \ excused' : HasWork(x)' => HasWork(x)
  PROVE  SessionIsAlone(e)'
<1>1. SessionIsAlone(e) /\ InFlight(e)' = InFlight(e)
  BY DEF StackIInv, InFlight
<1>2. CASE dp[e].pc = "idle"
  <2>1. dp[e].new = None /\ dp[e].marked = None /\ (\A s \in Schedules : dp[e].todo[s] = {})
        /\ dp[e] = IdleDispatcher
    BY <1>1, <1>2 DEF SessionIsAlone, IdleDispatcher, Nobody
  <2>2. QED
    BY <1>1, <2>1 DEF SessionIsAlone, InFlight
<1>3. CASE dp[e].pc # "idle"
  <2>1. \A y \in InFlight(e) : y \in DOMAIN scan /\ Owner(y)' = Owner(y) /\ Owner(y) \in Schedules
    BY FlightType
  <2>2. /\ dp[e].new # None => dp[e].new \in InFlight(e)
        /\ dp[e].marked # None => dp[e].marked \in InFlight(e)
    BY FlightType
  <2>3. \A y \in InFlight(e) : Busy(Owner(y))' \subseteq {y}
    BY <1>1, <1>3, <2>1 DEF SessionIsAlone
  <2>4. \A s \in Schedules : ~dp[e].fresh /\ dp[e].todo[s] # {} /\ Busy(s)' # {} => dp[e].loaded[s].active
    BY <1>1, <1>3 DEF SessionIsAlone
  <2>5. e \in crowded' => InFlight(e) \subseteq excused'
    BY <1>1, <1>3 DEF SessionIsAlone
  <2>6. dp[e].pc = "publish" /\ dp[e].new # None /\ dp[e].new \notin excused' =>
          ~HasWork(dp[e].new)' /\ scan'[dp[e].new].status # "ended"
    BY <1>1, <1>3, <2>1, <2>2 DEF SessionIsAlone
  <2>7. dp[e].marked # None => Owner(dp[e].marked)' = Owner(dp[e].marked)
    BY <2>1, <2>2
  <2>8. QED
    BY <1>1, <1>3, <2>1, <2>3, <2>4, <2>5, <2>6, <2>7 DEF SessionIsAlone
<1>4. QED
  BY <1>2, <1>3

\* A step of a session that commits nothing.
LEMMA FlushHolds ==
  ASSUME DispatchIInv, StackIInv, NEW d \in Dispatchers, UNCHANGED <<sched, scan>>,
         dp' = [dp EXCEPT ![d] = dp'[d]], excused \subseteq excused',
         \A x \in DOMAIN scan \ excused' : HasWork(x)' =>
           HasWork(x) \/ (x = dp[d].new /\ dp[d].pc = "publish" /\ x = dp'[d].new /\ dp'[d].pc = "mark"),
         WorkIsCounted', CrowdIsSeen', SessionIsAlone(d)',
         \A e \in Dispatchers \ {d} :
           e \in crowded' => e \in crowded \/ (dp[d].pc = "idle" /\ InFlight(e) \subseteq excused'),
         \A s \in Schedules : dp'[d].todo[s] # {} => sched[s].state # "absent",
         \A x \in DOMAIN scan \ excused' :
           x = dp[d].marked \/ (x = dp[d].new /\ dp[d].pc = "mark") =>
             x = dp'[d].marked \/ (x = dp'[d].new /\ dp'[d].pc = "mark")
  PROVE  StackIInv'
<1>1. /\ dp \in [Dispatchers -> Dispatcher] /\ DOMAIN scan' = DOMAIN scan
      /\ \A x : Owner(x)' = Owner(x)
      /\ \A s : Exists(s)' = Exists(s)
      /\ \A x \in DOMAIN scan : Owner(x) \in Schedules
  BY FlightType, ScansAreScans DEF Owner, Exists
<1>2. \A e \in Dispatchers \ {d} : dp'[e] = dp[e]
  BY <1>1
<1> DEFINE Published == dp[d].pc = "publish" /\ dp[d].new # None
<1>3. \A s \in Schedules : \A x \in Busy(s)' : x \in Busy(s) \/ (Published /\ x = dp[d].new /\ dp'[d].pc = "mark" /\ x = dp'[d].new)
  BY <1>1, FlightType DEF Busy
<1>4. ASSUME NEW e \in Dispatchers \ {d}, dp[e].pc # "idle"
      PROVE  /\ \A s \in Schedules : Busy(s)' \subseteq Busy(s)
             /\ \A x \in DOMAIN scan \ excused' : HasWork(x)' => HasWork(x)
  <2>1. dp[d].pc = "publish" /\ dp[d].new # None => dp[d].new \in excused'
    <3>1. dp[d].pc = "publish" => d \in crowded
      BY <1>4 DEF StackIInv, CrowdIsSeen
    <3>2. QED
      BY <3>1, FlightType DEF StackIInv, SessionIsAlone
  <2>2. \A x \in DOMAIN scan \ excused' : HasWork(x)' => HasWork(x)
    BY <2>1, FlightType
  <2>3. QED
    BY <1>1, <2>2 DEF Busy
<1>5. ASSUME NEW e \in Dispatchers PROVE SessionIsAlone(e)'
  <2>1. CASE e # d
    <3>1. dp[e].pc # "idle" =>
           /\ \A s \in Schedules : Busy(s)' \subseteq Busy(s)
           /\ e \in crowded' /\ e \notin crowded => InFlight(e) \subseteq excused'
           /\ \A x \in DOMAIN scan \ excused' : HasWork(x)' => HasWork(x)
      BY <1>4, <2>1
    <3>2. QED
      BY <1>1, <1>2, <2>1, <3>1, OtherStays
  <2>2. QED
    BY <2>1
<1>6. OwnersWereCreated'
  BY <1>1, <1>2 DEF StackIInv, OwnersWereCreated
<1>7. WorkIsKnown'
  <2>1. SUFFICES ASSUME NEW s \in Schedules, NEW x \in Busy(s)'
                 PROVE  scan[x].status # "ended" /\ (Exists(s) => Known(x)')
    BY <1>1 DEF WorkIsKnown
  <2>2. Owner(x) = s /\ x \in DOMAIN scan \ excused'
    BY <1>1 DEF Busy
  <2>3. CASE x \in Busy(s)
    <3>1. scan[x].status # "ended" /\ (Exists(s) => Known(x))
      BY <2>3 DEF StackIInv, WorkIsKnown
    <3>2. Known(x) => Known(x)'
      <4>1. CASE x = sched[Owner(x)].last
        BY <1>1, <4>1 DEF Known
      <4>2. ASSUME NEW e \in Dispatchers, x = dp[e].marked \/ (x = dp[e].new /\ dp[e].pc = "mark")
            PROVE  Known(x)'
        <5>1. x = dp'[e].marked \/ (x = dp'[e].new /\ dp'[e].pc = "mark")
          BY <1>2, <2>2, <4>2
        <5>2. QED
          BY <5>1 DEF Known
      <4>3. QED
        BY <4>1, <4>2 DEF Known
    <3>3. QED
      BY <3>1, <3>2
  <2>4. CASE x \notin Busy(s)
    <3>1. Published /\ x = dp[d].new /\ dp'[d].pc = "mark" /\ x = dp'[d].new
      BY <1>3, <2>4
    <3>2. scan[x].status # "ended"
      BY <2>2, <3>1 DEF StackIInv, SessionIsAlone
    <3>3. Known(x)'
      BY <3>1 DEF Known
    <3>4. QED
      BY <3>2, <3>3
  <2>5. QED
    BY <2>3, <2>4
<1>8. StackingIsExcused'
  <2>1. SUFFICES ASSUME NEW s \in Schedules, NEW x \in Busy(s)', NEW y \in Busy(s)'
                 PROVE  x = y
    BY <1>1 DEF StackingIsExcused, Busy
  <2>2. CASE x \in Busy(s) /\ y \in Busy(s)
    BY <2>2 DEF StackIInv, StackingIsExcused, Busy
  <2>3. CASE ~(x \in Busy(s) /\ y \in Busy(s))
    <3>1. Published /\ Owner(dp[d].new) = s /\ dp[d].new \in InFlight(d)
      BY <1>1, <1>3, <2>3, FlightType DEF Busy
    <3>2. Busy(s) \subseteq {dp[d].new}
      BY <3>1 DEF StackIInv, SessionIsAlone
    <3>3. QED
      BY <1>3, <3>2
  <2>4. QED
    BY <2>2, <2>3
<1>9. QED
  BY <1>5, <1>6, <1>7, <1>8 DEF StackIInv

LEMMA LoopHoldsStack ==
  ASSUME DispatchIInv, StackIInv, NEW d \in Dispatchers,
         \/ Select(d) \/ Publish(d) \/ PublishFails(d) \/ Mark(d) \/ Vanish(d) \/ Fail(d)
         \/ \E s \in Schedules : SkipActive(d, s) \/ NoAssets(d, s)
  PROVE  StackIInv'
<1>1. /\ dp \in [Dispatchers -> Dispatcher] /\ dp[d] \in Dispatcher
      /\ SessionIsAlone(d) /\ WorkIsCounted /\ CrowdIsSeen /\ OwnersWereCreated
      /\ dp[d].new # None => dp[d].new \in DOMAIN scan
      /\ dp[d].marked # None => dp[d].marked \in DOMAIN scan
      /\ dp[d].pc \in {"publish", "mark"} => dp[d].new # None
      /\ DOMAIN scan \subseteq Id /\ None \notin DOMAIN scan /\ published \in [Id -> Nat]
      /\ \A x \in DOMAIN scan : Owner(x) \in Schedules
  BY FlightType, ScansAreScans DEF StackIInv, DispatchIInv, SessionsAreSound
<1>2. /\ UNCHANGED <<sched, scan>> /\ \A x : Owner(x)' = Owner(x)
      /\ dp' = [dp EXCEPT ![d] = dp'[d]]
  <2>1. UNCHANGED <<sched, scan>>
    BY DEF Select, Publish, PublishFails, Mark, SkipActive, NoAssets, Vanish, Fail, Rollback
  <2>2. \E v : dp' = [dp EXCEPT ![d] = v]
    <3>1. CASE Select(d)
      BY <3>1 DEF Select
    <3>2. CASE Publish(d) \/ PublishFails(d) \/ Mark(d)
      BY <1>1, <3>2 DEF Publish, PublishFails, Mark
    <3>3. CASE Vanish(d) \/ Fail(d)
      BY <3>3 DEF Vanish, Fail, Rollback, Leave
    <3>4. ASSUME NEW s \in Schedules, SkipActive(d, s) \/ NoAssets(d, s)
          PROVE  \E v : dp' = [dp EXCEPT ![d] = v]
      BY <1>1, <3>4 DEF SkipActive, NoAssets
    <3>5. QED
      BY <3>1, <3>2, <3>3, <3>4
  <2>3. QED
    BY <1>1, <2>1, <2>2 DEF Owner
<1>3. CASE Select(d)
  <2> DEFINE others == {e \in Dispatchers \ {d} : dp[e].pc # "idle"}
  <2>1. PICK batch : /\ dp' = [dp EXCEPT ![d] = [IdleDispatcher EXCEPT
                          !.pc = "loop", !.todo = Without(due, Schedules \ batch),
                          !.loaded = [s \in Schedules |-> IF s \in batch THEN Now(s) ELSE NoView]]]
                     /\ \A s \in batch : s \in Schedules /\ sched[s].state = "enabled"
    BY <1>3 DEF Select
  <2>2. /\ dp'[d].new = None /\ dp'[d].marked = None /\ dp'[d].pc = "loop" /\ ~dp'[d].fresh
        /\ \A s \in Schedules : dp'[d].todo[s] # {} => s \in batch
        /\ \A s \in batch : dp'[d].loaded[s].active = LastActive(s)
    BY <1>1, <2>1 DEF IdleDispatcher, Now, Without
  <2>3. /\ dp[d].pc = "idle" /\ dp[d].new = None /\ dp[d].marked = None
        /\ crowded' = IF others = {} THEN crowded ELSE crowded \cup others \cup {d}
        /\ excused' = excused \cup UNION {InFlight(e) : e \in others}
        /\ \A x : HasWork(x)' = HasWork(x)
    BY <1>1, <1>3 DEF Select, SessionIsAlone, IdleDispatcher, work, HasWork
  <2>4. CrowdIsSeen'
    <3>1. SUFFICES ASSUME NEW e \in Dispatchers, NEW f \in Dispatchers, e # f,
                          dp'[e].pc # "idle", dp'[f].pc # "idle"
                   PROVE  e \in crowded'
      BY DEF CrowdIsSeen
    <3>2. \A g \in Dispatchers \ {d} : dp'[g] = dp[g]
      BY <1>1, <2>1
    <3>3. CASE e = d \/ f = d
      BY <2>3, <3>1, <3>2, <3>3
    <3>4. CASE e # d /\ f # d
      BY <1>1, <2>3, <3>1, <3>2, <3>4 DEF CrowdIsSeen
    <3>5. QED
      BY <3>3, <3>4
  <2>5. ASSUME NEW s \in Schedules, dp'[d].todo[s] # {}, Busy(s)' # {}
        PROVE  dp'[d].loaded[s].active
    <3>1. PICK x \in Busy(s)' : TRUE
      BY <2>5
    <3>2. x \in Busy(s) /\ x \notin excused' /\ x \in DOMAIN scan /\ Owner(x) = s
      BY <1>2, <2>3, <3>1 DEF Busy
    <3>3. s \in batch /\ Exists(s)
      BY <2>1, <2>2, <2>5 DEF Exists
    <3>4. scan[x].status # "ended" /\ Known(x)
      BY <3>2, <3>3 DEF StackIInv, WorkIsKnown
    <3>5. ASSUME NEW e \in Dispatchers, x = dp[e].marked \/ x = dp[e].new
          PROVE  FALSE
      <4>1. x \in InFlight(e) /\ x # None
        BY <1>1, <3>2, <3>5 DEF InFlight
      <4>2. e # d /\ dp[e].pc # "idle"
        <5>1. dp[e].pc = "idle" => dp[e] = IdleDispatcher
          BY DEF StackIInv, SessionIsAlone
        <5>2. QED
          BY <2>3, <3>5, <4>1, <5>1 DEF IdleDispatcher
      <4>3. QED
        BY <2>3, <3>2, <4>1, <4>2
    <3>6. x = sched[s].last /\ x # None
      BY <1>1, <3>2, <3>4, <3>5 DEF Known
    <3>7. QED
      BY <2>2, <3>3, <3>4, <3>6 DEF LastActive
  <2>6. SessionIsAlone(d)'
    BY <2>2, <2>5 DEF SessionIsAlone, InFlight
  <2>7. \A e \in Dispatchers \ {d} : e \in crowded' => e \in crowded \/ InFlight(e) \subseteq excused'
    BY <2>3
  <2>8. WorkIsCounted' /\ excused \subseteq excused'
    BY <1>1, <1>2, <1>3, <2>3 DEF WorkIsCounted, Select, work
  <2>9. \A s \in Schedules : dp'[d].todo[s] # {} => sched[s].state # "absent"
    BY <2>1, <2>2
  <2>10. QED
    BY <1>1, <1>2, <2>3, <2>4, <2>6, <2>7, <2>8, <2>9, FlushHolds
<1>4. ASSUME NEW s \in Schedules, SkipActive(d, s) \/ NoAssets(d, s)
      PROVE  StackIInv'
  <2>1. /\ dp'[d].new = dp[d].new /\ dp'[d].marked = dp[d].marked /\ dp'[d].pc = dp[d].pc
        /\ dp'[d].todo = Done(d, s) /\ dp'[d].fresh = dp[d].fresh /\ dp'[d].loaded = dp[d].loaded
        /\ dp[d].pc = "loop" /\ UNCHANGED <<work, crowded, excused>>
    <3>1. /\ dp' = [dp EXCEPT ![d].defer = @ \cup {s}, ![d].todo = Done(d, s)]
          /\ AtSchedule(d, s) /\ UNCHANGED <<work, history>>
      BY <1>4 DEF SkipActive, NoAssets
    <3>2. QED
      BY <1>1, <3>1 DEF AtSchedule, Dispatcher, history
  <2>2. \A q \in Schedules : dp'[d].todo[q] # {} => dp[d].todo[q] # {}
    BY <2>1 DEF Done, Without
  <2>3. \A x : HasWork(x)' = HasWork(x)
    BY <2>1 DEF HasWork, work
  <2>4. SessionIsAlone(d)'
    <3>1. \A q : Busy(q)' = Busy(q)
      BY <1>2, <2>1, <2>3 DEF Busy
    <3>2. QED
      BY <1>1, <1>2, <2>1, <2>2, <3>1 DEF SessionIsAlone, InFlight
  <2>5. WorkIsCounted' /\ CrowdIsSeen'
    BY <1>1, <1>2, <2>1, <2>3 DEF WorkIsCounted, CrowdIsSeen, work
  <2>6. QED
    BY <1>1, <1>2, <2>1, <2>2, <2>3, <2>4, <2>5, FlushHolds DEF OwnersWereCreated
<1>5. CASE Publish(d)
  <2> DEFINE n == dp[d].new
  <2>1. /\ dp'[d].new = n /\ dp'[d].marked = dp[d].marked /\ dp'[d].pc = "mark"
        /\ dp'[d].todo = dp[d].todo /\ dp'[d].fresh = dp[d].fresh /\ dp'[d].loaded = dp[d].loaded
        /\ dp[d].pc = "publish" /\ UNCHANGED <<running, crowded, excused>>
        /\ published' = [published EXCEPT ![n] = @ + 1] /\ n \in DOMAIN scan /\ n # None
    BY <1>1, <1>5 DEF Publish, Dispatcher, history
  <2>2. /\ \A x \in Id : x # n => (HasWork(x)' <=> HasWork(x)) /\ published'[x] = published[x]
        /\ published'[n] = published[n] + 1 /\ published[n] \in Nat /\ HasWork(n)'
    BY <1>1, <2>1 DEF HasWork
  <2>3. /\ dp[d].fresh /\ dp[d].marked = None /\ n \in InFlight(d)
        /\ n \notin excused => ~HasWork(n)
        /\ Busy(Owner(n)) \subseteq {n} /\ InFlight(d) = {n} /\ InFlight(d)' = {n}
    BY <1>1, <2>1 DEF SessionIsAlone, InFlight
  <2>4. WorkIsCounted'
    BY <1>1, <1>2, <2>1, <2>2, <2>3 DEF WorkIsCounted, HasWork
  <2>5. SessionIsAlone(d)'
    <3>1. Busy(Owner(n))' \subseteq {n}
      BY <1>1, <1>2, <2>1, <2>2, <2>3 DEF Busy
    <3>2. QED
      BY <1>1, <1>2, <2>1, <2>3, <3>1 DEF SessionIsAlone
  <2>6. CrowdIsSeen'
    BY <1>1, <1>2, <2>1 DEF CrowdIsSeen
  <2>7. QED
    BY <1>1, <1>2, <2>1, <2>2, <2>3, <2>4, <2>5, <2>6, FlushHolds DEF OwnersWereCreated
<1>6. CASE PublishFails(d) \/ Mark(d)
  <2> DEFINE n == dp[d].new
  <2>1. /\ dp[d].pc \in {"publish", "mark"} /\ n \in DOMAIN scan /\ Owner(n) \in Schedules
        /\ n # None /\ UNCHANGED <<work, crowded, excused>>
    BY <1>1, <1>6 DEF PublishFails, Mark, history
  <2>2. /\ dp'[d].new = None /\ dp'[d].pc = "loop" /\ dp'[d].todo = Done(d, Owner(n))
        /\ dp'[d].fresh = dp[d].fresh
        /\ dp[d].pc = "publish" => dp'[d].marked = dp[d].marked
        /\ dp[d].pc = "mark" => dp'[d].marked = n
    BY <1>1, <1>6 DEF PublishFails, Mark, Dispatcher
  <2>3. /\ dp'[d].todo[Owner(n)] = {}
        /\ \A q \in Schedules : dp'[d].todo[q] # {} => dp[d].todo[q] # {}
    BY <2>1, <2>2 DEF Done, Without
  <2>4. dp[d].fresh /\ dp[d].marked = None /\ InFlight(d) = {n} /\ InFlight(d)' \subseteq {n}
    BY <1>1, <2>1, <2>2 DEF SessionIsAlone, InFlight
  <2>5. \A x : HasWork(x)' = HasWork(x)
    BY <2>1 DEF HasWork, work
  <2>6. SessionIsAlone(d)'
    <3>1. \A q : Busy(q)' = Busy(q)
      BY <1>2, <2>1, <2>5 DEF Busy
    <3>2. QED
      BY <1>1, <1>2, <2>1, <2>2, <2>3, <2>4, <3>1 DEF SessionIsAlone
  <2>7. WorkIsCounted' /\ CrowdIsSeen'
    BY <1>1, <1>2, <2>1, <2>2, <2>5 DEF WorkIsCounted, CrowdIsSeen, work
  <2>8. QED
    BY <1>1, <1>2, <2>1, <2>2, <2>3, <2>4, <2>5, <2>6, <2>7, FlushHolds DEF OwnersWereCreated
<1>7. CASE Vanish(d) \/ Fail(d)
  <2>1. /\ dp'[d] = IdleDispatcher /\ crowded' = crowded \ {d} /\ excused' = excused \cup InFlight(d)
        /\ UNCHANGED work
    BY <1>1, <1>7 DEF Vanish, Fail, Rollback, Leave
  <2>2. dp'[d].new = None /\ dp'[d].marked = None /\ dp'[d].pc = "idle" /\ dp'[d].todo = Nobody
    BY <2>1 DEF IdleDispatcher
  <2>3. \A x : HasWork(x)' = HasWork(x)
    BY <2>1 DEF HasWork, work
  <2>4. SessionIsAlone(d)' /\ \A s \in Schedules : dp'[d].todo[s] = {}
    BY <2>1, <2>2 DEF SessionIsAlone, InFlight, Nobody
  <2>5. WorkIsCounted'
    BY <1>1, <1>2, <2>1, <2>3 DEF WorkIsCounted, work
  <2>6. CrowdIsSeen'
    BY <1>1, <1>2, <2>1, <2>2 DEF CrowdIsSeen
  <2>7. ASSUME NEW x \in DOMAIN scan \ excused'
        PROVE  x # dp[d].marked /\ x # dp[d].new
    BY <1>1, <2>1 DEF InFlight
  <2>8. QED
    BY <1>2, <2>1, <2>3, <2>4, <2>5, <2>6, <2>7, FlushHolds
<1>8. QED
  BY <1>3, <1>4, <1>5, <1>6, <1>7

\* A commit links the marked scan, the only one of its schedule at work; the
\* scan inserted with it is of another schedule, which has none.
LEMMA CommitHoldsStack ==
  ASSUME DispatchIInv, StackIInv, NEW d \in Dispatchers,
         Finish(d) \/ \E s \in Schedules : Insert(d, s)
  PROVE  StackIInv'
<1>0. PICK m, n : m = dp[d].marked /\ n = Len(scan) + 1
  OBVIOUS
<1>1. /\ dp \in [Dispatchers -> Dispatcher] /\ dp[d] \in Dispatcher
      /\ sched \in [Schedules -> Schedule]
      /\ m # None => m \in DOMAIN scan /\ Owner(m) \in Schedules /\ m \in InFlight(d)
      /\ n \in Nat /\ n # None /\ None \notin DOMAIN scan
      /\ DOMAIN scan = 1 .. Len(scan) /\ n \notin DOMAIN scan /\ DOMAIN scan \subseteq Id
      /\ \A x \in DOMAIN scan : Owner(x) \in Schedules
  <2>1. Len(scan) \in Nat /\ DOMAIN scan = 1 .. Len(scan)
    BY ScansAreScans
  <2>2. n \in Nat /\ n # None /\ None \notin DOMAIN scan /\ n \notin DOMAIN scan
    BY <1>0, <2>1, DispatchAssumption
  <2>3. QED
    BY <1>0, <2>1, <2>2, ScansAreScans, FlightType DEF DispatchIInv, DispatchTypeOK, SessionsAreSound
<1>2. /\ SessionIsAlone(d) /\ WorkIsCounted /\ CrowdIsSeen /\ OwnersWereCreated /\ WorkIsKnown
      /\ dp[d].pc = "loop" /\ dp[d].new = None
      /\ UNCHANGED <<published, running>> /\ \A x : HasWork(x)' = HasWork(x)
      /\ excused \subseteq excused' /\ \A x \in excused' : x \in excused \/ x = n
      /\ dp' = [dp EXCEPT ![d] = dp'[d]]
      /\ \A e \in Dispatchers : e \in crowded' => e \in crowded
  <2>1. /\ SessionIsAlone(d) /\ WorkIsCounted /\ CrowdIsSeen /\ OwnersWereCreated /\ WorkIsKnown
        /\ dp[d].pc = "loop"
    BY DEF StackIInv, Finish, Insert, AtSchedule
  <2>2. UNCHANGED <<published, running>>
    BY DEF Finish, Insert, work
  <2>3. /\ excused \subseteq excused' /\ \A x \in excused' : x \in excused \/ x = n
        /\ dp' = [dp EXCEPT ![d] = dp'[d]]
        /\ \A e \in Dispatchers : e \in crowded' => e \in crowded
    <3>1. CASE Finish(d)
      BY <1>1, <3>1 DEF Finish, Leave
    <3>2. ASSUME NEW s \in Schedules, Insert(d, s)
          PROVE  /\ excused \subseteq excused' /\ \A x \in excused' : x \in excused \/ x = n
                 /\ dp' = [dp EXCEPT ![d] = dp'[d]] /\ crowded' = crowded
      BY <1>0, <1>1, <3>2 DEF Insert
    <3>3. QED
      BY <3>1, <3>2
  <2>4. QED
    BY <2>1, <2>2, <2>3 DEF SessionIsAlone, HasWork
<1>3. ASSUME NEW q \in Schedules
      PROVE  /\ Exists(q)' = Exists(q) /\ sched'[q].state = sched[q].state
             /\ sched'[q].last = IF m # None /\ Owner(m) = q THEN m ELSE sched[q].last
  <2>1. sched' = LinkedBy(d) /\ sched[q] \in Schedule
    BY <1>1 DEF Finish, Insert, CommitSchedules
  <2>2. QED
    BY <1>0, <2>1 DEF LinkedBy, Exists, Schedule
<1>4. /\ \A x \in DOMAIN scan : /\ x \in DOMAIN scan' /\ scan'[x].of = Owner(x)
                                /\ x # m => scan'[x] = scan[x]
                                /\ scan[x].status # "ended" => scan'[x].status # "ended"
      /\ \A x \in DOMAIN scan' : x \in DOMAIN scan \/ x = n
      /\ Finish(d) => DOMAIN scan' = DOMAIN scan
      /\ \A s \in Schedules : Insert(d, s) =>
           n \in DOMAIN scan' /\ scan'[n] = [of |-> s, status |-> "pending"]
  <2>1. /\ MarkedBy(d) \in Seq(Scan) /\ Len(MarkedBy(d)) = Len(scan)
        /\ DOMAIN MarkedBy(d) = DOMAIN scan
        /\ \A x \in DOMAIN scan :
             MarkedBy(d)[x].of = Owner(x) /\ (x # m => MarkedBy(d)[x] = scan[x])
    BY <1>0, CommitKeepsScans
  <2>2. \A x \in DOMAIN scan : scan[x].status # "ended" => MarkedBy(d)[x].status # "ended"
    BY ScansAreScans DEF MarkedBy, Scan
  <2>3. CASE Finish(d)
    <3>1. scan' = MarkedBy(d) /\ \A s \in Schedules : ~Insert(d, s)
      <4>1. ASSUME NEW s \in Schedules PROVE ~Insert(d, s)
        BY <2>3 DEF Finish, Insert, AtSchedule, Nobody
      <4>2. QED
        BY <2>3, <4>1 DEF Finish
    <3>2. QED
      BY <2>1, <2>2, <3>1
  <2>4. ASSUME NEW s \in Schedules, Insert(d, s)
        PROVE  /\ DOMAIN scan' = 1 .. n /\ scan'[n] = [of |-> s, status |-> "pending"]
               /\ \A x \in DOMAIN scan : scan'[x] = MarkedBy(d)[x]
               /\ ~Finish(d) /\ \A r \in Schedules : Insert(d, r) => r = s
    <3>1. scan' = Append(MarkedBy(d), [of |-> s, status |-> "pending"])
          /\ [of |-> s, status |-> "pending"] \in Scan
      BY <2>4 DEF Insert, Scan
    <3>2. /\ DOMAIN scan' = 1 .. n /\ scan'[n] = [of |-> s, status |-> "pending"]
          /\ \A x \in DOMAIN scan : scan'[x] = MarkedBy(d)[x]
      BY <1>0, <1>1, <2>1, <3>1
    <3>3. ASSUME NEW r \in Schedules, Insert(d, r) PROVE r = s
      <4>1. scan' = Append(MarkedBy(d), [of |-> r, status |-> "pending"])
            /\ [of |-> r, status |-> "pending"] \in Scan
        BY <3>3 DEF Insert, Scan
      <4>2. scan'[n] = [of |-> r, status |-> "pending"]
        BY <1>0, <1>1, <2>1, <4>1
      <4>3. QED
        BY <3>2, <4>2
    <3>4. ~Finish(d)
      BY <2>4 DEF Finish, Insert, AtSchedule, Nobody
    <3>5. QED
      BY <3>2, <3>3, <3>4
  <2>5. ASSUME NEW s \in Schedules, Insert(d, s)
        PROVE  /\ \A x \in DOMAIN scan' : x \in DOMAIN scan \/ x = n
               /\ n \in DOMAIN scan' /\ \A x \in DOMAIN scan : x \in DOMAIN scan'
    <3>1. \A x \in 1 .. n : x \in DOMAIN scan \/ x = n
      BY <1>0, <1>1, ScansAreScans
    <3>2. n \in 1 .. n /\ \A x \in DOMAIN scan : x \in 1 .. n
      BY <1>0, <1>1, ScansAreScans
    <3>3. QED
      BY <2>4, <2>5, <3>1, <3>2
  <2>6. CASE \E s \in Schedules : Insert(d, s)
    <3>1. PICK s \in Schedules : Insert(d, s)
      BY <2>6
    <3>2. QED
      BY <2>1, <2>2, <2>4, <2>5, <3>1
  <2>7. QED
    BY <2>3, <2>6
<1>5. n \in DOMAIN scan' => ~HasWork(n) /\ ~HasWork(n)'
  <2>1. scan' \in Seq(Scan) /\ Len(scan') <= MaxScans
    BY CommitHolds DEF DispatchIInv, DispatchTypeOK
  <2>2. n \in DOMAIN scan' => n \in Id
    BY <2>1, DispatchAssumption DEF Id
  <2>3. QED
    BY <1>1, <1>2, <2>2 DEF WorkIsCounted
<1>6. \A q : Busy(q)' \subseteq Busy(q)
  BY <1>2, <1>4, <1>5 DEF Busy, Owner
<1>7. \A x \in DOMAIN scan : Owner(x)' = Owner(x)
  BY <1>4 DEF Owner
<1>8. WorkIsCounted'
  BY <1>1, <1>2, <1>4 DEF WorkIsCounted
<1>9. WorkIsKnown'
  <2>1. SUFFICES ASSUME NEW s \in Schedules, NEW x \in Busy(s)'
                 PROVE  scan'[x].status # "ended" /\ (Exists(s)' => Known(x)')
    BY DEF WorkIsKnown
  <2>2. x \in Busy(s) /\ x \in DOMAIN scan /\ Owner(x) = s /\ Owner(x)' = s /\ x # None
    BY <1>1, <1>6, <1>7 DEF Busy
  <2>3. scan[x].status # "ended" /\ (Exists(s) => Known(x))
    BY <1>2, <2>2 DEF WorkIsKnown
  <2>4. m # None /\ Owner(m) = s => x = m
    BY <1>1, <1>2, <2>2 DEF SessionIsAlone
  <2>5. ASSUME Exists(s) PROVE Known(x)'
    <3>1. CASE x = m
      BY <1>1, <1>3, <2>2, <3>1 DEF Known
    <3>2. CASE x # m /\ x = sched[s].last
      BY <1>3, <2>2, <2>4, <3>2 DEF Known
    <3>3. ASSUME NEW e \in Dispatchers, e # d,
                 x = dp[e].marked \/ (x = dp[e].new /\ dp[e].pc = "mark")
          PROVE  Known(x)'
      <4>1. dp'[e] = dp[e]
        BY <1>1, <1>2, <3>3
      <4>2. QED
        BY <3>3, <4>1 DEF Known
    <3>4. QED
      BY <1>0, <1>2, <2>2, <2>3, <2>5, <3>1, <3>2, <3>3 DEF Known
  <2>6. QED
    BY <1>3, <1>4, <2>2, <2>3, <2>5
<1>10. StackingIsExcused'
  <2>1. \A s \in Schedules : \A x, y \in Busy(s) : x = y
    BY DEF StackIInv, StackingIsExcused, Busy
  <2>2. ASSUME NEW x \in DOMAIN scan' \ excused', NEW y \in DOMAIN scan' \ excused',
               HasWork(x)', HasWork(y)', Owner(x)' = Owner(y)'
        PROVE  x = y
    <3>1. x \in DOMAIN scan /\ y \in DOMAIN scan
      BY <1>4, <1>5, <2>2
    <3>2. x \in Busy(Owner(x)) /\ y \in Busy(Owner(x)) /\ Owner(x) \in Schedules
      BY <1>1, <1>2, <1>7, <2>2, <3>1 DEF Busy
    <3>3. QED
      BY <2>1, <3>2
  <2>3. QED
    BY <2>2 DEF StackingIsExcused
<1>11. ASSUME NEW e \in Dispatchers, e # d PROVE SessionIsAlone(e)'
  <2>1. dp'[e] = dp[e]
    BY <1>1, <1>2, <1>11
  <2>2. \A x \in DOMAIN scan : scan[x].status # "ended" => scan'[x].status # "ended"
    BY <1>4
  <2>3. /\ \A x \in DOMAIN scan : x \in DOMAIN scan' /\ Owner(x)' = Owner(x)
        /\ \A x \in DOMAIN scan \ excused' : HasWork(x)' => HasWork(x)
        /\ e \in crowded' => e \in crowded
    BY <1>2, <1>4, <1>7
  <2>4. QED
    BY <1>2, <1>6, <2>1, <2>2, <2>3, OtherStays
<1>12. CASE Finish(d)
  <2>1. dp'[d] = IdleDispatcher /\ crowded' = crowded \ {d}
    BY <1>1, <1>12 DEF Finish, Leave
  <2>2. /\ dp'[d].new = None /\ dp'[d].marked = None /\ dp'[d].pc = "idle"
        /\ \A s \in Schedules : dp'[d].todo[s] = {}
    BY <2>1 DEF IdleDispatcher, Nobody
  <2>3. SessionIsAlone(d)'
    BY <2>1, <2>2 DEF SessionIsAlone, InFlight
  <2>4. CrowdIsSeen'
    BY <1>1, <1>2, <2>1, <2>2 DEF CrowdIsSeen
  <2>5. OwnersWereCreated'
    BY <1>1, <1>2, <1>3, <1>4, <1>7, <1>12, <2>2 DEF OwnersWereCreated
  <2>6. QED
    BY <1>8, <1>9, <1>10, <1>11, <2>3, <2>4, <2>5 DEF StackIInv
<1>13. ASSUME NEW s \in Schedules, Insert(d, s) PROVE StackIInv'
  <2>1. /\ dp'[d].new = n /\ dp'[d].marked = None /\ dp'[d].fresh
        /\ dp'[d].todo = dp[d].todo /\ dp'[d].pc = "publish"
        /\ crowded' = crowded /\ (d \in crowded => n \in excused')
    BY <1>0, <1>1, <1>13 DEF Insert, Dispatcher
  <2>2. /\ n \in DOMAIN scan' /\ scan'[n].status = "pending" /\ Owner(n)' = s
        /\ dp[d].todo[s] # {} /\ AtSchedule(d, s) /\ Readable(d, s) /\ ~Seen(d, s).active
    BY <1>4, <1>13 DEF Insert, AtSchedule, Owner
  <2>3. Busy(s) = {}
    <3>1. SUFFICES ASSUME NEW x \in Busy(s) PROVE FALSE
      OBVIOUS
    <3>2. dp[d].fresh
      BY <1>2, <2>2 DEF Seen, SessionIsAlone
    <3>3. Exists(s) /\ ~LastActive(s)
      BY <2>2, <3>2 DEF Readable, Seen, Now
    <3>4. /\ scan[x].status # "ended" /\ Known(x) /\ Owner(x) = s /\ x \in DOMAIN scan /\ x # None
          /\ x \notin excused
      BY <1>1, <1>2, <3>3 DEF WorkIsKnown, Busy
    <3>5. x # sched[s].last
      BY <3>3, <3>4 DEF LastActive
    <3>6. PICK e \in Dispatchers : x = dp[e].marked \/ x = dp[e].new
      BY <3>4, <3>5 DEF Known
    <3>7. x \in InFlight(e) /\ dp[e].pc # "idle"
      <4>1. dp[e].pc = "idle" => dp[e] = IdleDispatcher
        BY DEF StackIInv, SessionIsAlone
      <4>2. QED
        BY <3>4, <3>6, <4>1 DEF InFlight, IdleDispatcher
    <3>8. e = d
      BY <1>2, <3>4, <3>7 DEF StackIInv, CrowdIsSeen, SessionIsAlone
    <3>9. QED
      BY <1>2, <2>2, <3>4, <3>6, <3>8 DEF SessionIsAlone
  <2>4. SessionIsAlone(d)'
    <3>1. InFlight(d)' = {n}
      BY <1>1, <2>1 DEF InFlight
    <3>2. scan'[n].of = s
      BY <2>2 DEF Owner
    <3>3. ASSUME NEW x \in DOMAIN scan' \ excused', HasWork(x)' PROVE scan'[x].of # s
      <4>1. x \in DOMAIN scan \ excused /\ HasWork(x) /\ scan'[x].of = Owner(x)
        BY <1>2, <1>4, <1>5, <3>3
      <4>2. QED
        BY <2>3, <4>1 DEF Busy
    <3>4. \A y \in InFlight(d)' :
            {x \in DOMAIN scan' \ excused' : HasWork(x)' /\ scan'[x].of = scan'[y].of} \subseteq {y}
      BY <3>1, <3>2, <3>3
    <3>5. ~HasWork(n)' /\ scan'[n].status # "ended"
      BY <1>5, <2>2
    <3>6. dp'[d].pc # "idle" /\ n # None
      BY <1>1, <2>1
    <3>7. d \in crowded' => InFlight(d)' \subseteq excused'
      BY <2>1, <3>1
    <3>8. (\A y \in InFlight(d) : Busy(Owner(y)) \subseteq {y})'
      BY <3>4 DEF Busy, Owner
    <3>9. QED
      BY <2>1, <3>5, <3>6, <3>7, <3>8 DEF SessionIsAlone
  <2>5. CrowdIsSeen'
    BY <1>1, <1>2, <2>1 DEF CrowdIsSeen
  <2>6. OwnersWereCreated'
    BY <1>1, <1>2, <1>3, <1>4, <1>7, <2>1, <2>2 DEF OwnersWereCreated
  <2>7. QED
    BY <1>8, <1>9, <1>10, <1>11, <2>4, <2>5, <2>6 DEF StackIInv
<1>14. QED
  BY <1>12, <1>13

LEMMA StackNextHolds ==
  ASSUME DispatchIInv, StackIInv, [DispatchNext]_dispatchVars
  PROVE  StackIInv'
<1>1. ASSUME NEW s \in Schedules, User(s) \/ Tick(s)
      PROVE  StackIInv'
  BY <1>1, UserIsQuiet
<1>2. ASSUME NEW d \in Dispatchers, Dispatch(d) \/ PublishFails(d) \/ Fail(d)
      PROVE  StackIInv'
  BY <1>2, LoopHoldsStack, CommitHoldsStack DEF Dispatch
<1>3. ASSUME NEW x \in Id, WorkerStep(x)
      PROVE  StackIInv'
  BY <1>3, WorkerIsQuiet
<1>4. CASE UNCHANGED dispatchVars
  <2>1. UNCHANGED <<sched, scan, dp, crowded, excused, published, running>>
        /\ \A x : HasWork(x)' = HasWork(x)
    BY <1>4 DEF dispatchVars, work, history, HasWork
  <2>2. WorkIsCounted' /\ \A s \in Schedules : Exists(s)' = Exists(s)
    BY <2>1 DEF StackIInv, WorkIsCounted, Exists
  <2>3. QED
    BY <2>1, <2>2, QuietHolds
<1>5. QED
  BY <1>1, <1>2, <1>3, <1>4 DEF DispatchNext, WorkerStep

LEMMA StackInitHolds == DispatchInit => StackIInv
<1>1. SUFFICES ASSUME DispatchInit PROVE StackIInv
  OBVIOUS
<1>2. /\ scan = <<>> /\ \A s : Busy(s) = {}
      /\ \A x \in Id : published[x] = 0 /\ x \notin running /\ ~HasWork(x)
  BY <1>1 DEF DispatchInit, Busy, HasWork
<1>3. \A d \in Dispatchers :
        /\ dp[d] = IdleDispatcher /\ d \notin crowded /\ dp[d].pc = "idle"
        /\ InFlight(d) = {} /\ dp[d].new = None /\ dp[d].marked = None
        /\ \A s \in Schedules : dp[d].todo[s] = {}
  BY <1>1 DEF DispatchInit, IdleDispatcher, InFlight, Nobody
<1>4. WorkIsCounted /\ OwnersWereCreated /\ CrowdIsSeen /\ StackingIsExcused
  BY <1>2, <1>3 DEF WorkIsCounted, OwnersWereCreated, CrowdIsSeen, StackingIsExcused
<1>5. WorkIsKnown /\ \A d \in Dispatchers : SessionIsAlone(d)
  BY <1>2, <1>3 DEF WorkIsKnown, SessionIsAlone
<1>6. QED
  BY <1>4, <1>5 DEF StackIInv

\* "Avoid stacking while previous run is still active": for any dispatcher tasks
\* that overlap and fail, whatever users edit, delete and start again and
\* wherever workers die, two scans of a schedule are at work only if a restart,
\* a redelivery, a failure or an overlap explains one of them
\* (dispatch_due_schedules).
THEOREM ScansStackWithReason == DispatchSpec => []StackingIsExcused
<1>1. DispatchSpec => [](DispatchIInv /\ StackIInv)
  BY DispatchInitHolds, DispatchNextHolds, StackInitHolds, StackNextHolds, PTL DEF DispatchSpec
<1>2. DispatchIInv /\ StackIInv => StackingIsExcused
  BY DEF StackIInv
<1>3. QED
  BY <1>1, <1>2, PTL

-----------------------------------------------------------------------------
(***************************************************************************)
(* ScanEngine, for every list of probes, threshold, number of permits, burst *)
(* and recoveries.                                                         *)
(*                                                                         *)
(* What spares a dead host is a sum: its failures are the probes that were *)
(* refused, fewer than the threshold while the circuit is closed; at most  *)
(* MaxConcurrent probes are under way, because a permit is kept for each   *)
(* (PermitsAddUp); and no probe starts once it is open.  A task must not   *)
(* be queued twice, or a permit would be given out that nobody returns.    *)
(***************************************************************************)

Unique(q) == \A m, n \in 1 .. Len(q) : q[m] = q[n] => m = n

\* A task is in the queue of what it waits for, once.
QueuesAreSound ==
  /\ Unique(queue) /\ \A n \in 1 .. Len(queue) : pc[queue[n]] = "limited"
  /\ Unique(gate) /\ \A n \in 1 .. Len(gate) : pc[gate[n]] = "admitted"

Probing == {p \in Probes : pc[p] = "probing"}
PermitsAddUp == permits + Cardinality(Probing) = MaxConcurrent

Refused(h) == Of(h, {"refused"})

\* Only a circuit whose timeout has elapsed is ever half open.
RecoveriesCount == \A h \in Hosts : h \in elapsed \/ st[h] = "half_open" => recoveries[h] > 0

\* The failures counted are probes of the host that were refused.
FailuresCount == \A h \in Hosts : failures[h] <= Cardinality(Refused(h))

\* A host that has not answered and whose circuit was never tried again.
Dead(h) == Of(h, {"answered"}) = {} /\ recoveries[h] = 0

DeadIsCounted(h) ==
  /\ failures[h] = Cardinality(Refused(h))
  /\ st[h] = "closed" => failures[h] < Threshold
  /\ Cardinality(Of(h, {"probing", "refused"})) < Threshold + MaxConcurrent

EngineIInv ==
  /\ EngineTypeOK
  /\ QueuesAreSound
  /\ PermitsAddUp
  /\ RecoveriesCount
  /\ FailuresCount
  /\ \A h \in Hosts : Dead(h) => DeadIsCounted(h)

-----------------------------------------------------------------------------
LEMMA WorkType == Len(Work) \in Nat /\ \A p \in Probes : Work[p] \in Hosts
BY EngineAssumption DEF Probes

\* Sets of probes have a number of members.
LEMMA SubsetsAreFinite ==
  ASSUME NEW S \in SUBSET Probes
  PROVE  IsFiniteSet(S) /\ Cardinality(S) \in Nat /\ Cardinality(S) <= Len(Work)
<1>1. IsFiniteSet(Probes) /\ Cardinality(Probes) = Len(Work)
  BY WorkType, FS_Interval DEF Probes
<1>2. IsFiniteSet(S) /\ Cardinality(S) <= Cardinality(Probes)
  BY <1>1, FS_Subset
<1>3. QED
  BY <1>1, <1>2, FS_CardinalityType

LEMMA Counts ==
  \A h, R : IsFiniteSet(Of(h, R)) /\ Cardinality(Of(h, R)) \in Nat /\ Cardinality(Of(h, R)) <= Len(Work)
BY SubsetsAreFinite DEF Of

LEMMA ProbingCounts ==
  IsFiniteSet(Probing) /\ Cardinality(Probing) \in Nat /\ Cardinality(Probing) <= Len(Work)
BY SubsetsAreFinite DEF Probing

\* The head of a queue is in it once.
LEMMA Leaves ==
  ASSUME NEW S, NEW q \in Seq(S), q # <<>>, Unique(q)
  PROVE  /\ Head(q) \in S /\ Tail(q) \in Seq(S) /\ Unique(Tail(q))
         /\ Len(q) \in Nat /\ 1 \in 1 .. Len(q) /\ Head(q) = q[1]
         /\ \A n \in 1 .. Len(Tail(q)) :
              /\ Tail(q)[n] # Head(q)
              /\ \E m \in 1 .. Len(q) : Tail(q)[n] = q[m]
<1>1. Len(q) \in Nat /\ Len(q) >= 1 /\ Head(q) = q[1] /\ Tail(q) \in Seq(S)
  BY Z3
<1>2. Len(Tail(q)) = Len(q) - 1 /\ \A n \in 1 .. Len(Tail(q)) : Tail(q)[n] = q[n + 1]
  BY <1>1
<1>3. 1 \in 1 .. Len(q) /\ Head(q) \in S
  BY <1>1
<1>4. ASSUME NEW n \in 1 .. Len(Tail(q))
      PROVE  n + 1 \in 1 .. Len(q) /\ n + 1 # 1 /\ n \in Int
  BY <1>1, <1>2
<1>5. ASSUME NEW n \in 1 .. Len(Tail(q))
      PROVE  /\ Tail(q)[n] # Head(q)
             /\ \E m \in 1 .. Len(q) : Tail(q)[n] = q[m]
  BY <1>1, <1>2, <1>3, <1>4 DEF Unique
<1>6. Unique(Tail(q))
  <2>1. SUFFICES ASSUME NEW m \in 1 .. Len(Tail(q)), NEW n \in 1 .. Len(Tail(q)), Tail(q)[m] = Tail(q)[n]
                 PROVE  m = n
    BY DEF Unique
  <2>2. q[m + 1] = q[n + 1]
    BY <2>1, <1>2
  <2>3. m + 1 = n + 1
    BY <2>2, <1>4 DEF Unique
  <2>4. QED
    BY <2>3, <1>4
<1>7. QED
  BY <1>1, <1>3, <1>5, <1>6

\* A task that is not in a queue may join it.
LEMMA Joins ==
  ASSUME NEW S, NEW q \in Seq(S), NEW x \in S, Unique(q), \A n \in 1 .. Len(q) : q[n] # x
  PROVE  /\ Append(q, x) \in Seq(S) /\ Unique(Append(q, x))
         /\ \A n \in 1 .. Len(Append(q, x)) :
              Append(q, x)[n] = x \/ (n \in 1 .. Len(q) /\ Append(q, x)[n] = q[n])
<1>1. Len(q) \in Nat /\ Append(q, x) \in Seq(S) /\ Len(Append(q, x)) = Len(q) + 1
  OBVIOUS
<1>2. Append(q, x)[Len(q) + 1] = x /\ \A n \in 1 .. Len(q) : Append(q, x)[n] = q[n]
  BY <1>1
<1>3. \A n \in 1 .. Len(q) + 1 : n = Len(q) + 1 \/ n \in 1 .. Len(q)
  BY <1>1
<1>4. Unique(Append(q, x))
  <2>1. SUFFICES ASSUME NEW m \in 1 .. Len(q) + 1, NEW n \in 1 .. Len(q) + 1, Append(q, x)[m] = Append(q, x)[n]
                 PROVE  m = n
    BY <1>1 DEF Unique
  <2>2. QED
    BY <2>1, <1>2, <1>3 DEF Unique
<1>5. QED
  BY <1>1, <1>2, <1>3, <1>4

LEMMA Stays ==
  ASSUME pc' = pc, NEW h, NEW R
  PROVE  Of(h, R)' = Of(h, R)
BY DEF Of

-----------------------------------------------------------------------------
LEMMA EngineInitHolds == EngineInit => EngineIInv
<1>1. SUFFICES ASSUME EngineInit PROVE EngineIInv
  OBVIOUS
<1>2. queue \in Seq(Probes) /\ Len(queue) = Len(Work) /\ \A n \in 1 .. Len(queue) : queue[n] = n
  BY <1>1, WorkType DEF EngineInit, Probes
<1>3. EngineTypeOK
  BY <1>1, <1>2, WorkType, EngineAssumption DEF EngineInit, EngineTypeOK, States
<1>4. QueuesAreSound
  BY <1>1, <1>2, WorkType DEF EngineInit, QueuesAreSound, Unique, Probes
<1>5. /\ Probing = {}
      /\ \A h \in Hosts : Refused(h) = {} /\ Of(h, {"probing", "refused"}) = {}
  BY <1>1 DEF EngineInit, Probing, Refused, Of
<1>6. /\ Cardinality(Probing) = 0
      /\ \A h \in Hosts : Cardinality(Refused(h)) = 0 /\ Cardinality(Of(h, {"probing", "refused"})) = 0
  BY <1>5, FS_EmptySet
<1>7. /\ permits = MaxConcurrent /\ elapsed = {}
      /\ \A h \in Hosts : failures[h] = 0 /\ st[h] = "closed"
  BY <1>1 DEF EngineInit
<1>8. PermitsAddUp /\ RecoveriesCount /\ FailuresCount /\ \A h \in Hosts : DeadIsCounted(h)
  BY <1>6, <1>7, EngineAssumption
     DEF PermitsAddUp, RecoveriesCount, FailuresCount, DeadIsCounted
<1>9. QED
  BY <1>3, <1>4, <1>8 DEF EngineIInv

\* A step at the limiter moves no probe and leaves the breaker alone.
LEMMA NoProbeHolds ==
  ASSUME EngineIInv, EngineTypeOK', QueuesAreSound', UNCHANGED <<permits, breaker>>,
         Probing' = Probing,
         \A h \in Hosts, R \in SUBSET {"answered", "probing", "refused"} : Of(h, R)' = Of(h, R)
  PROVE  EngineIInv'
<1>1. \A h \in Hosts : /\ Refused(h)' = Refused(h)
                       /\ Of(h, {"answered"})' = Of(h, {"answered"})
                       /\ Of(h, {"probing", "refused"})' = Of(h, {"probing", "refused"})
  BY DEF Refused
<1>2. PermitsAddUp' /\ RecoveriesCount'
  BY DEF EngineIInv, PermitsAddUp, RecoveriesCount, breaker
<1>3. FailuresCount'
  BY <1>1 DEF EngineIInv, FailuresCount, breaker
<1>4. \A h \in Hosts : Dead(h)' => DeadIsCounted(h)'
  BY <1>1 DEF EngineIInv, Dead, DeadIsCounted, breaker
<1>5. QED
  BY <1>2, <1>3, <1>4 DEF EngineIInv

LEMMA AcquireHolds == ASSUME EngineIInv, Acquire PROVE EngineIInv'
<1> DEFINE p == Head(queue)
<1>1. queue \in Seq(Probes) /\ queue # <<>> /\ Unique(queue) /\ gate \in Seq(Probes) /\ Unique(gate) /\ EngineTypeOK
  BY DEF EngineIInv, EngineTypeOK, QueuesAreSound, Acquire, CanAcquire
<1>2. /\ p \in Probes /\ Tail(queue) \in Seq(Probes) /\ Unique(Tail(queue))
      /\ 1 \in 1 .. Len(queue) /\ p = queue[1]
      /\ \A n \in 1 .. Len(Tail(queue)) :
           Tail(queue)[n] # p /\ \E m \in 1 .. Len(queue) : Tail(queue)[n] = queue[m]
  BY <1>1, Leaves
<1>3. pc[p] = "limited"
  BY <1>2 DEF EngineIInv, QueuesAreSound
<1>4. \A n \in 1 .. Len(gate) : gate[n] # p
  BY <1>3 DEF EngineIInv, QueuesAreSound
<1>5. /\ Append(gate, p) \in Seq(Probes) /\ Unique(Append(gate, p))
      /\ \A n \in 1 .. Len(Append(gate, p)) :
           Append(gate, p)[n] = p \/ (n \in 1 .. Len(gate) /\ Append(gate, p)[n] = gate[n])
  BY <1>1, <1>2, <1>4, Joins
<1>6. /\ pc' = [pc EXCEPT ![p] = "admitted"] /\ queue' = Tail(queue) /\ gate' = Append(gate, p)
      /\ tokens' = tokens - 1 /\ tokens >= 1 /\ recent' = recent \cup {Work[p]}
      /\ UNCHANGED <<permits, breaker>>
  BY DEF Acquire, CanAcquire
<1>7. pc'[p] = "admitted" /\ \A q \in Probes \ {p} : pc'[q] = pc[q]
  BY <1>1, <1>2, <1>6 DEF EngineTypeOK
<1>8. QueuesAreSound'
  <2>1. \A n \in 1 .. Len(queue') : pc'[queue'[n]] = "limited"
    <3>1. SUFFICES ASSUME NEW n \in 1 .. Len(Tail(queue)) PROVE pc'[Tail(queue)[n]] = "limited"
      BY <1>6
    <3>2. PICK m \in 1 .. Len(queue) : Tail(queue)[n] = queue[m]
      BY <1>2
    <3>3. queue[m] \in Probes /\ pc[queue[m]] = "limited"
      BY <1>1 DEF EngineIInv, QueuesAreSound
    <3>4. QED
      BY <3>2, <3>3, <1>2, <1>7
  <2>2. \A n \in 1 .. Len(gate') : pc'[gate'[n]] = "admitted"
    <3>1. SUFFICES ASSUME NEW n \in 1 .. Len(Append(gate, p)) PROVE pc'[Append(gate, p)[n]] = "admitted"
      BY <1>6
    <3>2. CASE Append(gate, p)[n] = p
      BY <3>2, <1>7
    <3>3. CASE n \in 1 .. Len(gate) /\ Append(gate, p)[n] = gate[n]
      <4>1. gate[n] \in Probes /\ pc[gate[n]] = "admitted" /\ gate[n] # p
        BY <3>3, <1>1, <1>4 DEF EngineIInv, QueuesAreSound
      <4>2. QED
        BY <3>3, <4>1, <1>7
    <3>4. QED
      BY <3>2, <3>3, <1>5
  <2>3. QED
    BY <2>1, <2>2, <1>2, <1>5, <1>6 DEF QueuesAreSound
<1>9. EngineTypeOK'
  <2>1. tokens' \in 0 .. Burst /\ recent' \in SUBSET Hosts
    BY <1>1, <1>2, <1>6, WorkType, EngineAssumption DEF EngineTypeOK
  <2>2. pc' \in [Probes -> {"limited", "admitted", "probing"} \cup Ended]
    BY <1>1, <1>6 DEF EngineTypeOK
  <2>3. QED
    BY <2>1, <2>2, <1>1, <1>2, <1>5, <1>6 DEF EngineTypeOK, breaker
<1>10. Probing' = Probing
  BY <1>3, <1>7, <1>2 DEF Probing
<1>11. ASSUME NEW h \in Hosts, NEW R \in SUBSET {"answered", "probing", "refused"}
       PROVE  Of(h, R)' = Of(h, R)
  <2>1. "admitted" \notin R /\ "limited" \notin R
    OBVIOUS
  <2>2. QED
    BY <2>1, <1>2, <1>3, <1>7 DEF Of
<1>12. QED
  BY <1>6, <1>8, <1>9, <1>10, <1>11, NoProbeHolds

\* Time passes at the limiter.
LEMMA WaitHolds ==
  ASSUME EngineIInv, Refill \/ \E h \in Hosts : IntervalPasses(h)
  PROVE  EngineIInv'
<1>1. UNCHANGED <<pc, queue, gate, permits, breaker>>
  BY DEF Refill, IntervalPasses
<1>2. EngineTypeOK'
  <2>1. tokens' \in 0 .. Burst /\ recent' \in SUBSET Hosts
    BY EngineAssumption DEF EngineIInv, EngineTypeOK, Refill, IntervalPasses
  <2>2. QED
    BY <2>1, <1>1 DEF EngineIInv, EngineTypeOK, breaker
<1>3. QueuesAreSound' /\ Probing' = Probing
  BY <1>1 DEF EngineIInv, QueuesAreSound, Unique, Probing
<1>4. \A h, R : Of(h, R)' = Of(h, R)
  BY <1>1, Stays
<1>5. QED
  BY <1>1, <1>2, <1>3, <1>4, NoProbeHolds

LEMMA RecoveryHolds == ASSUME EngineIInv, NEW h \in Hosts, RecoveryElapses(h) PROVE EngineIInv'
<1>1. /\ UNCHANGED <<pc, queue, tokens, recent, gate, permits, st, failures>>
      /\ st[h] = "open" /\ recoveries[h] < MaxRecoveries
      /\ elapsed' = elapsed \cup {h} /\ recoveries' = [recoveries EXCEPT ![h] = @ + 1]
  BY DEF RecoveryElapses, limiter
<1>2. /\ recoveries' \in [Hosts -> 0 .. MaxRecoveries] /\ recoveries'[h] > 0
      /\ \A g \in Hosts : recoveries'[g] >= recoveries[g] /\ recoveries[g] \in Nat
      /\ \A g \in Hosts \ {h} : recoveries'[g] = recoveries[g]
  BY <1>1, EngineAssumption DEF EngineIInv, EngineTypeOK
<1>3. EngineTypeOK'
  BY <1>1, <1>2 DEF EngineIInv, EngineTypeOK
<1>4. QueuesAreSound' /\ PermitsAddUp'
  BY <1>1 DEF EngineIInv, QueuesAreSound, Unique, PermitsAddUp, Probing
<1>5. RecoveriesCount'
  BY <1>1, <1>2 DEF EngineIInv, RecoveriesCount
<1>6. \A g, R : Of(g, R)' = Of(g, R)
  BY <1>1, Stays
<1>7. FailuresCount'
  BY <1>1, <1>6 DEF EngineIInv, FailuresCount, Refused
<1>8. \A g \in Hosts : Dead(g)' => DeadIsCounted(g)'
  BY <1>1, <1>2, <1>6 DEF EngineIInv, Dead, DeadIsCounted, Refused
<1>9. QED
  BY <1>3, <1>4, <1>5, <1>7, <1>8 DEF EngineIInv

\* The head of the gate leaves it, for a probe or for good.
LEMMA GateHolds ==
  ASSUME EngineIInv, CanEnter, gate' = Tail(gate), queue' = queue,
         NEW v \in {"probing", "skipped"}, pc' = [pc EXCEPT ![Head(gate)] = v]
  PROVE  /\ Head(gate) \in Probes /\ pc[Head(gate)] = "admitted" /\ permits > 0
         /\ gate' \in Seq(Probes)
         /\ pc' \in [Probes -> {"limited", "admitted", "probing"} \cup Ended]
         /\ pc'[Head(gate)] = v /\ \A q \in Probes \ {Head(gate)} : pc'[q] = pc[q]
         /\ QueuesAreSound'
<1> DEFINE p == Head(gate)
<1>1. gate \in Seq(Probes) /\ gate # <<>> /\ Unique(gate) /\ queue \in Seq(Probes) /\ EngineTypeOK /\ permits > 0
  BY DEF EngineIInv, EngineTypeOK, QueuesAreSound, CanEnter
<1>2. /\ p \in Probes /\ Tail(gate) \in Seq(Probes) /\ Unique(Tail(gate))
      /\ 1 \in 1 .. Len(gate) /\ p = gate[1]
      /\ \A n \in 1 .. Len(Tail(gate)) :
           Tail(gate)[n] # p /\ \E m \in 1 .. Len(gate) : Tail(gate)[n] = gate[m]
  BY <1>1, Leaves
<1>3. pc[p] = "admitted"
  BY <1>2 DEF EngineIInv, QueuesAreSound
<1>4. /\ pc' \in [Probes -> {"limited", "admitted", "probing"} \cup Ended]
      /\ pc'[p] = v /\ \A q \in Probes \ {p} : pc'[q] = pc[q]
  BY <1>1, <1>2 DEF EngineTypeOK, Ended
<1>5. ASSUME NEW n \in 1 .. Len(Tail(gate)) PROVE pc'[Tail(gate)[n]] = "admitted"
  <2>1. PICK m \in 1 .. Len(gate) : Tail(gate)[n] = gate[m]
    BY <1>2
  <2>2. gate[m] \in Probes /\ pc[gate[m]] = "admitted"
    BY <1>1 DEF EngineIInv, QueuesAreSound
  <2>3. QED
    BY <2>1, <2>2, <1>2, <1>4
<1>6. ASSUME NEW n \in 1 .. Len(queue) PROVE pc'[queue[n]] = "limited"
  <2>1. queue[n] \in Probes /\ pc[queue[n]] = "limited"
    BY <1>1 DEF EngineIInv, QueuesAreSound
  <2>2. QED
    BY <2>1, <1>3, <1>4
<1>7. QueuesAreSound'
  BY <1>2, <1>5, <1>6 DEF EngineIInv, QueuesAreSound
<1>8. QED
  BY <1>1, <1>2, <1>3, <1>4, <1>7

LEMMA SkipHolds == ASSUME EngineIInv, Skip PROVE EngineIInv'
<1> DEFINE p == Head(gate)
<1>1. /\ CanEnter /\ gate' = Tail(gate) /\ pc' = [pc EXCEPT ![p] = "skipped"]
      /\ UNCHANGED <<limiter, permits, breaker>>
  BY DEF Skip
<1>2. /\ p \in Probes /\ pc[p] = "admitted" /\ gate' \in Seq(Probes)
      /\ pc' \in [Probes -> {"limited", "admitted", "probing"} \cup Ended]
      /\ pc'[p] = "skipped" /\ \A q \in Probes \ {p} : pc'[q] = pc[q]
      /\ QueuesAreSound'
  BY <1>1, GateHolds DEF limiter
<1>3. EngineTypeOK'
  BY <1>1, <1>2 DEF EngineIInv, EngineTypeOK, limiter, breaker
<1>4. Probing' = Probing
  BY <1>2 DEF Probing
<1>5. ASSUME NEW h \in Hosts, NEW R \in SUBSET {"answered", "probing", "refused"}
      PROVE  Of(h, R)' = Of(h, R)
  <2>1. "skipped" \notin R /\ "admitted" \notin R
    OBVIOUS
  <2>2. QED
    BY <2>1, <1>2 DEF Of
<1>6. QED
  BY <1>1, <1>2, <1>3, <1>4, <1>5, NoProbeHolds DEF limiter

LEMMA EnterHolds == ASSUME EngineIInv, Enter PROVE EngineIInv'
<1> DEFINE p == Head(gate)
           g == Work[p]
<1>1. /\ CanEnter /\ gate' = Tail(gate) /\ pc' = [pc EXCEPT ![p] = "probing"]
      /\ permits' = permits - 1 /\ allow(g)
      /\ st' = [st EXCEPT ![g] = state(g)] /\ elapsed' = elapsed \ {g}
      /\ UNCHANGED <<limiter, failures, recoveries>>
  BY DEF Enter
<1>2. /\ p \in Probes /\ pc[p] = "admitted" /\ permits > 0 /\ gate' \in Seq(Probes)
      /\ pc' \in [Probes -> {"limited", "admitted", "probing"} \cup Ended]
      /\ pc'[p] = "probing" /\ \A q \in Probes \ {p} : pc'[q] = pc[q]
      /\ QueuesAreSound'
  BY <1>1, GateHolds DEF limiter
<1>3. g \in Hosts /\ EngineTypeOK
  BY <1>2, WorkType DEF EngineIInv
<1>4. /\ st' \in [Hosts -> States] /\ st'[g] = state(g) /\ state(g) \in {"closed", "half_open"}
      /\ \A h \in Hosts \ {g} : st'[h] = st[h]
  BY <1>1, <1>3 DEF EngineTypeOK, allow, States
<1>5. permits' \in 0 .. MaxConcurrent /\ permits \in Nat /\ permits' \in Nat
  BY <1>1, <1>2, <1>3, EngineAssumption DEF EngineTypeOK
<1>6. EngineTypeOK'
  <2>1. elapsed' \in SUBSET {h \in Hosts : st'[h] = "open"}
    BY <1>1, <1>3, <1>4 DEF EngineTypeOK
  <2>2. QED
    BY <2>1, <1>1, <1>2, <1>3, <1>4, <1>5 DEF EngineTypeOK, limiter
<1>7. PermitsAddUp'
  <2>1. Probing' = Probing \cup {p} /\ p \notin Probing
    BY <1>2 DEF Probing
  <2>2. Cardinality(Probing') = Cardinality(Probing) + 1
    BY <2>1, ProbingCounts, FS_AddElement
  <2>3. QED
    BY <2>2, <1>1, <1>5, ProbingCounts, EngineAssumption DEF EngineIInv, PermitsAddUp
<1>8. RecoveriesCount'
  BY <1>1, <1>3, <1>4 DEF EngineIInv, RecoveriesCount, state
<1>9. \A h \in Hosts : Refused(h)' = Refused(h) /\ Of(h, {"answered"})' = Of(h, {"answered"})
  BY <1>2 DEF Refused, Of
<1>10. FailuresCount'
  BY <1>1, <1>9 DEF EngineIInv, FailuresCount
<1>11. ASSUME NEW h \in Hosts, Dead(h)'
       PROVE  DeadIsCounted(h)'
  <2>1. Dead(h) /\ DeadIsCounted(h) /\ recoveries[h] = 0
    BY <1>1, <1>9, <1>11 DEF EngineIInv, Dead
  <2>2. st'[h] = st[h] /\ (h = g => st[h] = "closed")
    BY <2>1, <1>3, <1>4 DEF EngineIInv, RecoveriesCount, state
  <2>3. Cardinality(Of(h, {"probing", "refused"})') < Threshold + MaxConcurrent
    <3>1. CASE h # g
      <4>1. Of(h, {"probing", "refused"})' = Of(h, {"probing", "refused"})
        BY <3>1, <1>2 DEF Of
      <4>2. QED
        BY <4>1, <2>1 DEF DeadIsCounted
    <3>2. CASE h = g
      <4>1. Of(h, {"probing", "refused"})' \subseteq Probing' \cup Refused(h)
        BY <1>9 DEF Of, Probing, Refused
      <4>2. /\ IsFiniteSet(Probing') /\ Cardinality(Probing') \in Nat
            /\ IsFiniteSet(Refused(h)) /\ Cardinality(Refused(h)) \in Nat
        BY SubsetsAreFinite DEF Probing, Refused, Of
      <4>3. /\ IsFiniteSet(Probing' \cup Refused(h))
            /\ Cardinality(Probing' \cup Refused(h))
                 = Cardinality(Probing') + Cardinality(Refused(h)) - Cardinality(Probing' \cap Refused(h))
        BY <4>2, FS_Union
      <4>4. Cardinality(Probing' \cap Refused(h)) \in Nat
        BY SubsetsAreFinite DEF Refused, Of
      <4>5. /\ Cardinality(Of(h, {"probing", "refused"})') <= Cardinality(Probing' \cup Refused(h))
            /\ Cardinality(Of(h, {"probing", "refused"})') \in Nat
        BY <4>1, <4>3, FS_Subset, SubsetsAreFinite DEF Of
      <4>6. Cardinality(Probing') <= MaxConcurrent
        BY <1>7, <1>5, <4>2, EngineAssumption DEF PermitsAddUp
      <4>7. Cardinality(Refused(h)) < Threshold
        BY <2>1, <2>2, <3>2 DEF DeadIsCounted
      <4>8. QED
        BY <4>2, <4>3, <4>4, <4>5, <4>6, <4>7, EngineAssumption
    <3>3. QED
      BY <3>1, <3>2
  <2>4. QED
    BY <2>1, <2>2, <2>3, <1>1, <1>9 DEF DeadIsCounted
<1>12. QED
  BY <1>2, <1>6, <1>7, <1>8, <1>10, <1>11 DEF EngineIInv

\* A probe ends and gives its permit back.
LEMMA Returns ==
  ASSUME EngineIInv, NEW p \in Probes, pc[p] = "probing", permits' = permits + 1,
         UNCHANGED <<limiter, gate, recoveries>>,
         NEW v \in {"answered", "refused"}, pc' = [pc EXCEPT ![p] = v]
  PROVE  /\ permits' \in 0 .. MaxConcurrent /\ PermitsAddUp' /\ QueuesAreSound'
         /\ pc' \in [Probes -> {"limited", "admitted", "probing"} \cup Ended]
         /\ pc'[p] = v /\ \A q \in Probes \ {p} : pc'[q] = pc[q]
<1>1. /\ pc' \in [Probes -> {"limited", "admitted", "probing"} \cup Ended]
      /\ pc'[p] = v /\ \A q \in Probes \ {p} : pc'[q] = pc[q]
  BY DEF EngineIInv, EngineTypeOK, Ended
<1>2. Probing' = Probing \ {p} /\ p \in Probing
  BY <1>1 DEF Probing
<1>3. Cardinality(Probing') = Cardinality(Probing) - 1 /\ Cardinality(Probing') \in Nat
  <2>1. Cardinality(Probing') = Cardinality(Probing) - 1
    BY <1>2, ProbingCounts, FS_RemoveElement
  <2>2. QED
    BY <2>1, SubsetsAreFinite DEF Probing
<1>4. permits' \in 0 .. MaxConcurrent /\ PermitsAddUp'
  BY <1>3, ProbingCounts, EngineAssumption DEF EngineIInv, EngineTypeOK, PermitsAddUp
<1>5. QueuesAreSound'
  <2>1. ASSUME NEW n \in 1 .. Len(queue) PROVE pc'[queue[n]] = "limited"
    <3>1. queue[n] \in Probes /\ pc[queue[n]] = "limited"
      BY DEF EngineIInv, EngineTypeOK, QueuesAreSound
    <3>2. QED
      BY <3>1, <1>1
  <2>2. ASSUME NEW n \in 1 .. Len(gate) PROVE pc'[gate[n]] = "admitted"
    <3>1. gate[n] \in Probes /\ pc[gate[n]] = "admitted"
      BY DEF EngineIInv, EngineTypeOK, QueuesAreSound
    <3>2. QED
      BY <3>1, <1>1
  <2>3. QED
    BY <2>1, <2>2 DEF EngineIInv, QueuesAreSound, limiter
<1>6. QED
  BY <1>1, <1>4, <1>5

LEMMA SuccessHolds ==
  ASSUME EngineIInv, NEW p \in Probes, pc[p] = "probing", permits' = permits + 1,
         UNCHANGED <<limiter, gate, recoveries>>,
         pc' = [pc EXCEPT ![p] = "answered"], record_success(Work[p])
  PROVE  EngineIInv'
<1> DEFINE g == Work[p]
<1>1. /\ permits' \in 0 .. MaxConcurrent /\ PermitsAddUp' /\ QueuesAreSound'
      /\ pc' \in [Probes -> {"limited", "admitted", "probing"} \cup Ended]
      /\ pc'[p] = "answered" /\ \A q \in Probes \ {p} : pc'[q] = pc[q]
  BY Returns
<1>2. g \in Hosts /\ EngineTypeOK
  BY WorkType DEF EngineIInv
<1>3. /\ st' = [st EXCEPT ![g] = "closed"] /\ failures' = [failures EXCEPT ![g] = 0]
      /\ elapsed' = elapsed \ {g}
  BY DEF record_success
<1>4. /\ st' \in [Hosts -> States] /\ st'[g] = "closed" /\ \A h \in Hosts \ {g} : st'[h] = st[h]
      /\ failures' \in [Hosts -> 0 .. Len(Work)] /\ failures'[g] = 0
      /\ \A h \in Hosts \ {g} : failures'[h] = failures[h]
  BY <1>2, <1>3, WorkType DEF EngineTypeOK, States
<1>5. EngineTypeOK'
  <2>1. elapsed' \in SUBSET {h \in Hosts : st'[h] = "open"}
    BY <1>2, <1>3, <1>4 DEF EngineTypeOK
  <2>2. QED
    BY <2>1, <1>1, <1>2, <1>4 DEF EngineTypeOK, limiter
<1>6. RecoveriesCount'
  BY <1>2, <1>3, <1>4 DEF EngineIInv, RecoveriesCount
<1>7. ASSUME NEW h, NEW R, "answered" \notin R, "probing" \notin R \/ h # g
      PROVE  Of(h, R)' = Of(h, R)
  BY <1>1, <1>7 DEF Of
<1>8. \A h \in Hosts : Refused(h)' = Refused(h)
  BY <1>7 DEF Refused
<1>9. FailuresCount'
  BY <1>4, <1>8, Counts DEF EngineIInv, FailuresCount, Refused
<1>10. ASSUME NEW h \in Hosts, Dead(h)'
       PROVE  DeadIsCounted(h)'
  <2>1. h # g
    BY <1>1, <1>10 DEF Dead, Of
  <2>2. Of(h, {"answered"})' = Of(h, {"answered"})
    BY <2>1, <1>1 DEF Of
  <2>3. Dead(h) /\ DeadIsCounted(h)
    BY <2>2, <1>10 DEF EngineIInv, Dead
  <2>4. Of(h, {"probing", "refused"})' = Of(h, {"probing", "refused"})
    BY <2>1, <1>7
  <2>5. QED
    BY <2>1, <2>3, <2>4, <1>4, <1>8 DEF DeadIsCounted
<1>11. QED
  BY <1>1, <1>5, <1>6, <1>9, <1>10 DEF EngineIInv

LEMMA FailureHolds ==
  ASSUME EngineIInv, NEW p \in Probes, pc[p] = "probing", permits' = permits + 1,
         UNCHANGED <<limiter, gate, recoveries>>,
         pc' = [pc EXCEPT ![p] = "refused"], record_failure(Work[p])
  PROVE  EngineIInv'
<1> DEFINE g == Work[p]
           n == IF state(g) = "half_open" THEN failures[g] ELSE failures[g] + 1
<1>1. /\ permits' \in 0 .. MaxConcurrent /\ PermitsAddUp' /\ QueuesAreSound'
      /\ pc' \in [Probes -> {"limited", "admitted", "probing"} \cup Ended]
      /\ pc'[p] = "refused" /\ \A q \in Probes \ {p} : pc'[q] = pc[q]
  BY Returns
<1>2. g \in Hosts /\ EngineTypeOK /\ failures[g] \in Nat
  BY WorkType DEF EngineIInv, EngineTypeOK
<1>3. /\ st' = [st EXCEPT ![g] = IF trips(g) THEN "open" ELSE @]
      /\ failures' = [failures EXCEPT ![g] = n] /\ elapsed' = elapsed \ {g}
  BY DEF record_failure
<1>4. Refused(g)' = Refused(g) \cup {p} /\ p \notin Refused(g)
  BY <1>1 DEF Refused, Of
<1>5. Cardinality(Refused(g)') = Cardinality(Refused(g)) + 1
  BY <1>4, Counts, FS_AddElement DEF Refused
<1>6. Cardinality(Refused(g)) \in Nat /\ Cardinality(Refused(g)') <= Len(Work)
  BY SubsetsAreFinite DEF Refused, Of
<1>7. n \in 0 .. Len(Work) /\ n <= Cardinality(Refused(g)')
  BY <1>2, <1>5, <1>6, WorkType DEF EngineIInv, FailuresCount
<1>8. /\ st' \in [Hosts -> States] /\ st'[g] = (IF trips(g) THEN "open" ELSE st[g])
      /\ \A h \in Hosts \ {g} : st'[h] = st[h]
      /\ failures' \in [Hosts -> 0 .. Len(Work)] /\ failures'[g] = n
      /\ \A h \in Hosts \ {g} : failures'[h] = failures[h]
  <2> HIDE DEF n
  <2>1. QED
    BY <1>2, <1>3, <1>7 DEF EngineTypeOK, States
<1>9. EngineTypeOK'
  <2>1. elapsed' \in SUBSET {h \in Hosts : st'[h] = "open"}
    BY <1>2, <1>3, <1>8 DEF EngineTypeOK
  <2>2. QED
    BY <2>1, <1>1, <1>2, <1>8 DEF EngineTypeOK, limiter
<1>10. RecoveriesCount'
  BY <1>2, <1>3, <1>8 DEF EngineIInv, RecoveriesCount
<1>11. \A h \in Hosts \ {g} : Refused(h)' = Refused(h)
  BY <1>1 DEF Refused, Of
<1>12. FailuresCount'
  BY <1>7, <1>8, <1>11 DEF EngineIInv, FailuresCount
<1>13. \A h \in Hosts : Of(h, {"probing", "refused"})' = Of(h, {"probing", "refused"})
  BY <1>1 DEF Of
<1>14. \A h \in Hosts : Of(h, {"answered"})' = Of(h, {"answered"})
  BY <1>1 DEF Of
<1>15. ASSUME NEW h \in Hosts, Dead(h)'
       PROVE  DeadIsCounted(h)'
  <2>1. Dead(h) /\ DeadIsCounted(h) /\ recoveries[h] = 0
    BY <1>14, <1>15 DEF EngineIInv, Dead
  <2>2. CASE h # g
    BY <2>1, <2>2, <1>8, <1>11, <1>13 DEF DeadIsCounted
  <2>3. CASE h = g
    <3>1. state(g) # "half_open"
      BY <2>1, <2>3 DEF EngineIInv, RecoveriesCount, state
    <3>2. failures'[h] = Cardinality(Refused(h)') /\ failures'[h] = failures[g] + 1
      BY <2>1, <2>3, <3>1, <1>5, <1>8 DEF DeadIsCounted
    <3>3. st'[h] = "closed" => failures'[h] < Threshold
      BY <2>3, <3>2, <1>2, <1>8, EngineAssumption DEF trips
    <3>4. QED
      BY <2>1, <3>2, <3>3, <1>13 DEF DeadIsCounted
  <2>4. QED
    BY <2>2, <2>3
<1>16. QED
  BY <1>1, <1>9, <1>10, <1>12, <1>15 DEF EngineIInv

-----------------------------------------------------------------------------
LEMMA StepHolds == EngineIInv /\ [EngineNext]_engineVars => EngineIInv'
<1>1. SUFFICES ASSUME EngineIInv, [EngineNext]_engineVars PROVE EngineIInv'
  OBVIOUS
<1>2. CASE Acquire \/ Refill \/ Enter \/ Skip
  BY <1>1, <1>2, AcquireHolds, WaitHolds, EnterHolds, SkipHolds
<1>3. ASSUME NEW h \in Hosts, IntervalPasses(h) \/ RecoveryElapses(h)
      PROVE  EngineIInv'
  BY <1>1, <1>3, WaitHolds, RecoveryHolds
<1>4. ASSUME NEW p \in Probes, Answer(p)
      PROVE  EngineIInv'
  BY <1>1, <1>4, SuccessHolds, FailureHolds DEF Answer
<1>5. CASE UNCHANGED engineVars
  <2>1. pc' = pc
    BY <1>5 DEF engineVars
  <2>2. \A h, R : Of(h, R)' = Of(h, R)
    BY <2>1, Stays
  <2>3. EngineTypeOK' /\ QueuesAreSound' /\ Probing' = Probing
    BY <1>1, <1>5 DEF EngineIInv, EngineTypeOK, QueuesAreSound, Unique, Probing, engineVars
  <2>4. UNCHANGED <<permits, breaker>>
    BY <1>5 DEF engineVars, breaker
  <2>5. QED
    BY <1>1, <2>2, <2>3, <2>4, NoProbeHolds
<1>6. QED
  BY <1>1, <1>2, <1>3, <1>4, <1>5 DEF EngineNext

LEMMA Inductive == EngineSpec => []EngineIInv
BY EngineInitHolds, StepHolds, PTL DEF EngineSpec

\* The queues hold probes, permits and failures stay in their ranges, and only
\* an open circuit waits for its recovery.
THEOREM EngineTypeCorrect == EngineSpec => []EngineTypeOK
<1>1. EngineIInv => EngineTypeOK
  BY DEF EngineIInv
<1>2. QED
  BY <1>1, Inductive, PTL

\* A host that never answers is sent no more probes than it takes to open its
\* circuit and were under way when it opened (_one, CircuitBreaker), however
\* the tasks are scheduled.
THEOREM DeadHostsAreSpared == EngineSpec => []DeadHostIsSpared
<1>1. EngineIInv => DeadHostIsSpared
  BY DEF EngineIInv, DeadHostIsSpared, Dead, DeadIsCounted
<1>2. QED
  BY <1>1, Inductive, PTL

-----------------------------------------------------------------------------
(***************************************************************************)
(* ToolRun, for every configuration of a scan and of a worker, and any number *)
(* of crashes and restarts.                                                *)
(*                                                                         *)
(* What a delivery hands to the ingest is sound when it is made (OutputOK, *)
(* from the verdicts) and stays so: a Greenbone task that is done stays done, *)
(* and no delivery has the number of an earlier one.                       *)
(***************************************************************************)

\* The mock reports the wrappers may make up for a configuration.
MockAllowed(c, s) == s.prod => c.lab

\* An output, of whichever kind, of a delivery up to number n.
OutputOK(o, n) ==
  /\ o.kind = "mock" => MockAllowed(cfg, site)
  /\ o.task # 0 => o.task <= n /\ remote[o.task] = "done"
  /\ cfg.engine = "openvas" /\ o.kind = "real" => o.task # 0

\* One delivery at a time, each with a number of its own.
Counted ==
  /\ waiting \in 0 .. 1 /\ (run.pc # "idle" => waiting = 0 /\ runs > 0)
  /\ runs + waiting <= 1 + restarts + MaxCrashes

\* The delivery in progress and what it knows of its Greenbone task.
RunIsSound ==
  /\ run.pc = "output" => OutputOK(run.out, runs)
  /\ run.pc \in {"polling", "fetching"} /\ run.seen = "done" => remote[runs] = "done"
  /\ run.pc = "fetching" => run.seen = "done"
  /\ run.pc \in {"session", "polling", "fetching"} => cfg.engine = "openvas"

\* The evidence is that of an earlier delivery.
EvidenceHolds ==
  row = "completed" =>
    /\ evidence.text = "whole" \/ (evidence.text = "long" /\ cfg.engine \in {"nuclei", "nexusec"})
    /\ OutputOK(evidence, runs)
    /\ run.pc # "idle" => evidence.task < runs

ToolIInv == ToolTypeOK /\ Counted /\ RunIsSound /\ EvidenceHolds

-----------------------------------------------------------------------------
LEMMA ConfigIsConfig == ASSUME ToolTypeOK PROVE cfg \in ConfigType /\ site \in SiteType
BY ToolAssumption DEF ToolTypeOK

\* What the tasks can make of their configuration.
LEMMA VerdictIsVerdict ==
  ASSUME NEW c \in ConfigType, NEW s
  PROVE  Verdict(c, s) \in {"failed", "raise", "import", "mock", "tool", "session"}
<1>1. FallBack(c, s) \in {"mock", "failed"} /\ MockReport(c) \in {"mock", "failed"}
  BY DEF FallBack, MockReport
<1>2. OpenVasWrapper(c, s) \in {"failed", "raise", "import", "mock", "tool", "session"}
  BY <1>1 DEF OpenVasWrapper
<1>3. OpenVasVerdict(c, s) \in {"failed", "raise", "import", "mock", "tool", "session"}
  BY <1>2 DEF OpenVasVerdict
<1>4. ZapVerdict(c, s) \in {"failed", "raise", "import", "mock", "tool", "session"}
  BY DEF ZapVerdict, ZapWrapper
<1>5. /\ NexusecVerdict(c, s) \in {"failed", "raise", "import", "mock", "tool", "session"}
      /\ NmapVerdict(c, s) \in {"failed", "raise", "import", "mock", "tool", "session"}
      /\ NucleiVerdict(c, s) \in {"failed", "raise", "import", "mock", "tool", "session"}
      /\ OsintVerdict(c, s) \in {"failed", "raise", "import", "mock", "tool", "session"}
  BY DEF NexusecVerdict, NmapVerdict, NucleiVerdict, OsintVerdict
<1>6. QED
  BY <1>3, <1>4, <1>5 DEF Verdict

\* A mock report is made up only where that is allowed: by the mode, the default
\* mode or the fallback of the two connectors that can.
LEMMA FallBackIsAllowed ==
  ASSUME NEW c \in ConfigType, NEW s \in SiteType, FallBack(c, s) = "mock"
  PROVE  ~s.prod
BY DEF FallBack

LEMMA VerdictIsAllowed ==
  ASSUME NEW c \in ConfigType, NEW s \in SiteType, Verdict(c, s) = "mock"
  PROVE  MockAllowed(c, s)
<1>1. c.engine \in {"openvas", "zap"}
  BY DEF Verdict, NexusecVerdict, NmapVerdict, NucleiVerdict, OsintVerdict, ConfigType, Engines
<1>2. CASE c.engine = "zap"
  <2>1. ZapWrapper(c, s) = "mock"
    BY <1>2 DEF Verdict, ZapVerdict
  <2>2. QED
    BY <2>1 DEF ZapWrapper, ConfigType, SiteType, MockAllowed
<1>3. CASE c.engine = "openvas"
  <2>1. OpenVasWrapper(c, s) = "mock"
    BY <1>3 DEF Verdict, OpenVasVerdict
  <2>2. QED
    BY <2>1, FallBackIsAllowed DEF OpenVasWrapper, MockReport, ConfigType, SiteType, MockAllowed
<1>4. QED
  BY <1>1, <1>2, <1>3

\* Only an OpenVAS scan has a session.
LEMMA SessionIsGreenbone ==
  ASSUME NEW c \in ConfigType, NEW s \in SiteType, Verdict(c, s) = "session"
  PROVE  c.engine = "openvas"
BY DEF Verdict, NexusecVerdict, NmapVerdict, NucleiVerdict, OsintVerdict, ZapVerdict, ZapWrapper,
   ConfigType, Engines

-----------------------------------------------------------------------------
LEMMA ToolInitIInv == ToolInit => ToolIInv
<1> SUFFICES ASSUME ToolInit PROVE ToolIInv
  OBVIOUS
<1> USE ToolAssumption
<1>1. NoRun \in Run /\ NoOutput \in Output
  BY DEF NoRun, Run, NoOutput, Output, Kind, MaxRuns
<1>2. ToolTypeOK
  <2>1. 1 \in 0 .. 1 + MaxRestarts /\ 0 \in 0 .. MaxRuns /\ 0 \in 0 .. MaxRestarts
    BY DEF MaxRuns
  <2>2. remote \in [1 .. MaxRuns -> {"none", "running", "done", "stopped"}] /\ raised \in BOOLEAN
    BY DEF ToolInit
  <2>3. QED
    BY <1>1, <2>1, <2>2 DEF ToolInit, ToolTypeOK
<1>3. Counted /\ RunIsSound /\ EvidenceHolds
  BY DEF ToolInit, Counted, RunIsSound, EvidenceHolds, NoRun
<1>4. QED
  BY <1>2, <1>3 DEF ToolIInv

\* The three ways a delivery can go on.
LEMMA NoRunIsRun == NoRun \in Run /\ NoRun.pc = "idle"
BY ToolAssumption DEF NoRun, Run, NoOutput, Output, Kind, MaxRuns

LEMMA HasOutput ==
  ASSUME ToolTypeOK, NEW kind \in Kind, NEW text \in {"whole", "broken", "long"}, NEW task \in 0 .. MaxRuns
  PROVE  /\ Has(kind, text, task) \in Run /\ Has(kind, text, task).pc = "output"
         /\ Has(kind, text, task).out = [kind |-> kind, text |-> text, task |-> task]
BY DEF Has, ToolTypeOK, Run, Output

\* A delivery that ends: nothing but the row, FAILED, or the mark of an error.
Settles ==
  /\ UNCHANGED <<cfg, site, remote, runs, restarts>>
  /\ EndFailed \/ EndRaised

LEMMA SettlingKeeps == ASSUME ToolIInv, Settles, run.pc # "idle" PROVE ToolIInv'
<1>1. ToolTypeOK'
  BY NoRunIsRun DEF ToolIInv, ToolTypeOK, Settles, EndFailed, EndRaised
<1>2. Counted' /\ RunIsSound' /\ EvidenceHolds'
  BY NoRunIsRun DEF ToolIInv, Settles, EndFailed, EndRaised, Counted, RunIsSound, EvidenceHolds, OutputOK, MockAllowed
<1>3. QED
  BY <1>1, <1>2 DEF ToolIInv

\* One that goes on with an output that is sound.
LEMMA OutputKeeps ==
  ASSUME ToolIInv, run.pc # "idle", UNCHANGED <<cfg, site, remote, runs, restarts>>,
         NEW kind \in Kind, NEW text \in {"whole", "broken", "long"}, NEW task \in 0 .. MaxRuns,
         OutputOK([kind |-> kind, text |-> text, task |-> task], runs),
         Goes(Has(kind, text, task))
  PROVE  ToolIInv'
<1>1. ToolTypeOK
  BY DEF ToolIInv
<1>2. run' \in Run /\ run'.pc = "output" /\ run'.out = [kind |-> kind, text |-> text, task |-> task]
  BY <1>1, HasOutput DEF Goes
<1>3. ToolTypeOK'
  BY <1>1, <1>2 DEF ToolTypeOK, Goes
<1>4. Counted' /\ EvidenceHolds'
  BY <1>2 DEF ToolIInv, Goes, Counted, EvidenceHolds, OutputOK, MockAllowed
<1>5. RunIsSound'
  BY <1>2 DEF RunIsSound, OutputOK, MockAllowed
<1>6. QED
  BY <1>3, <1>4, <1>5 DEF ToolIInv

-----------------------------------------------------------------------------
LEMMA ToolNextIInv == ASSUME ToolIInv, [ToolNext]_toolVars PROVE ToolIInv'
<1>1. ToolTypeOK /\ Counted /\ RunIsSound /\ EvidenceHolds
  BY DEF ToolIInv
<1> USE ToolAssumption
<1>2. CASE UNCHANGED toolVars
  BY <1>1, <1>2 DEF toolVars, ToolIInv, ToolTypeOK, Counted, RunIsSound, EvidenceHolds, OutputOK, MockAllowed
<1>3. CASE Begin
  <2>1. run' \in Run /\ run'.pc = "begun"
    BY <1>3, NoRunIsRun DEF Begin, NoRun, Run
  <2>2. Counted' /\ runs' \in 0 .. MaxRuns /\ waiting' \in 0 .. 1 + MaxRestarts
    BY <1>1, <1>3, <2>1 DEF Begin, Counted, ToolTypeOK, MaxRuns
  <2>3. ToolTypeOK'
    BY <1>1, <1>3, <2>1, <2>2 DEF Begin, ToolTypeOK
  <2>4. RunIsSound'
    BY <2>1 DEF RunIsSound
  <2>5. EvidenceHolds'
    BY <1>1, <1>3 DEF Begin, EvidenceHolds, OutputOK, MockAllowed, ToolTypeOK, Output
  <2>6. QED
    BY <2>2, <2>3, <2>4, <2>5 DEF ToolIInv
<1>4. CASE Prepare
  <2>0. run.pc = "begun" /\ UNCHANGED <<cfg, site, remote, runs, restarts>>
    BY <1>4 DEF Prepare
  <2>1. cfg \in ConfigType /\ site \in SiteType
    BY <1>1, ConfigIsConfig
  <2>2. CASE Verdict(cfg, site) \in {"failed", "raise"}
    BY <1>4, <2>0, <2>2, SettlingKeeps DEF Prepare, Settles
  <2>3. CASE Verdict(cfg, site) = "import"
    <3>1. Goes(Has("imported", cfg.report, 0))
      BY <1>4, <2>3 DEF Prepare
    <3>2. cfg.report \in {"whole", "broken", "long"}
      BY <2>1, <2>3 DEF Verdict, NexusecVerdict, NmapVerdict, NucleiVerdict, OsintVerdict,
         OpenVasVerdict, OpenVasWrapper, FallBack, MockReport, ZapVerdict, ZapWrapper, ConfigType
    <3>3. OutputOK([kind |-> "imported", text |-> cfg.report, task |-> 0], runs)
      BY DEF OutputOK
    <3>4. QED
      BY <2>0, <3>1, <3>2, <3>3, OutputKeeps DEF Kind, MaxRuns
  <2>4. CASE Verdict(cfg, site) = "mock"
    <3>1. Goes(Has("mock", "whole", 0))
      BY <1>4, <2>4 DEF Prepare
    <3>2. OutputOK([kind |-> "mock", text |-> "whole", task |-> 0], runs)
      BY <2>1, <2>4, VerdictIsAllowed DEF OutputOK
    <3>3. QED
      BY <2>0, <3>1, <3>2, OutputKeeps DEF Kind, MaxRuns
  <2>5. CASE Verdict(cfg, site) \in {"tool", "session"}
    <3>1. Goes([run EXCEPT !.pc = Verdict(cfg, site)])
      BY <1>4, <2>5 DEF Prepare
    <3>2. run' \in Run /\ run'.pc \in {"tool", "session"}
      BY <1>1, <2>5, <3>1 DEF Goes, ToolTypeOK, Run
    <3>3. ToolTypeOK'
      BY <1>1, <2>0, <3>1, <3>2 DEF Goes, ToolTypeOK
    <3>4. Counted' /\ EvidenceHolds'
      BY <1>1, <2>0, <3>1 DEF Goes, Counted, EvidenceHolds, OutputOK, MockAllowed
    <3>5. QED
      BY <2>0, <2>1, <2>5, <3>1, <3>2, <3>3, <3>4, SessionIsGreenbone DEF ToolIInv, RunIsSound, Goes, ToolTypeOK, Run
  <2>6. QED
    BY <2>1, <2>2, <2>3, <2>4, <2>5, VerdictIsVerdict
<1>5. CASE SubprocessEnds \/ EngineEnds \/ LookUpsEnd
  <2>1. run.pc = "tool" /\ cfg.engine # "openvas" /\ UNCHANGED <<cfg, site, remote, runs, restarts>>
    BY <1>5 DEF SubprocessEnds, EngineEnds, LookUpsEnd
  <2>2. EndFailed \/ \E text \in {"whole", "long"} : Goes(Has("real", text, 0))
    BY <1>5 DEF SubprocessEnds, EngineEnds, LookUpsEnd
  <2>3. ASSUME NEW text \in {"whole", "long"}, Goes(Has("real", text, 0)) PROVE ToolIInv'
    <3>1. OutputOK([kind |-> "real", text |-> text, task |-> 0], runs)
      BY <2>1 DEF OutputOK
    <3>2. QED
      BY <2>1, <2>3, <3>1, OutputKeeps DEF Kind, MaxRuns
  <2>4. QED
    BY <2>1, <2>2, <2>3, SettlingKeeps DEF Settles
<1>6. ASSUME SessionFails, run.pc \in {"session", "polling", "fetching"},
             UNCHANGED <<cfg, site, remote, runs, restarts>>
      PROVE  ToolIInv'
  <2>1. cfg \in ConfigType /\ site \in SiteType
    BY <1>1, ConfigIsConfig
  <2>2. CASE FallBack(cfg, site) = "mock"
    <3>1. MockAllowed(cfg, site)
      BY <1>1, <1>6, <2>1, <2>2, FallBackIsAllowed DEF MockAllowed, RunIsSound
    <3>2. OutputOK([kind |-> "mock", text |-> "whole", task |-> 0], runs)
      BY <3>1 DEF OutputOK
    <3>3. QED
      BY <1>6, <2>2, <3>2, OutputKeeps DEF SessionFails, Kind, MaxRuns
  <2>3. CASE FallBack(cfg, site) # "mock"
    BY <1>6, <2>3, SettlingKeeps DEF SessionFails, Settles
  <2>4. QED
    BY <2>2, <2>3
<1>7. CASE SessionRefused \/ SessionLost
  BY <1>6, <1>7, SettlingKeeps DEF SessionRefused, SessionLost, Settles
<1>8. CASE StartTask
  <2>1. runs \in 1 .. MaxRuns /\ run.pc = "session"
    BY <1>1, <1>8 DEF StartTask, Counted, ToolTypeOK
  <2>2. run' = [run EXCEPT !.pc = "polling", !.seen = "running"]
    BY <1>8 DEF StartTask, Goes
  <2>3. run' \in Run /\ run'.pc = "polling" /\ run'.seen = "running"
    BY <1>1, <2>2 DEF ToolTypeOK, Run
  <2>4. remote' \in [1 .. MaxRuns -> {"none", "running", "done", "stopped"}]
        /\ \A n \in 1 .. MaxRuns : n # runs => remote'[n] = remote[n]
    BY <1>1, <1>8 DEF StartTask, ToolTypeOK
  <2>5. ToolTypeOK'
    BY <1>1, <1>8, <2>3, <2>4 DEF StartTask, Goes, ToolTypeOK
  <2>6. Counted'
    BY <1>1, <1>8, <2>1, <2>3 DEF StartTask, Goes, Counted
  <2>7. RunIsSound'
    BY <1>1, <1>8, <2>1, <2>3 DEF StartTask, RunIsSound
  <2>8. EvidenceHolds'
    <3>1. evidence.task \in 0 .. MaxRuns
      BY <1>1 DEF ToolTypeOK, Output
    <3>2. QED
      BY <1>1, <1>8, <2>1, <2>4, <3>1 DEF StartTask, Goes, EvidenceHolds, OutputOK, MockAllowed
  <2>9. QED
    BY <2>5, <2>6, <2>7, <2>8 DEF ToolIInv
<1>9. ASSUME NEW n \in 1 .. MaxRuns, Appliance(n) PROVE ToolIInv'
  <2>1. remote' \in [1 .. MaxRuns -> {"none", "running", "done", "stopped"}]
        /\ \A m \in 1 .. MaxRuns : remote[m] = "done" => remote'[m] = "done"
    BY <1>1, <1>9 DEF Appliance, ToolTypeOK
  <2>2. ToolTypeOK'
    BY <1>1, <1>9, <2>1 DEF Appliance, ToolTypeOK
  <2>3. Counted'
    BY <1>1, <1>9 DEF Appliance, Counted
  <2>4. runs \in 0 .. MaxRuns /\ evidence.task \in 0 .. MaxRuns /\ run.out.task \in 0 .. MaxRuns
    BY <1>1 DEF ToolTypeOK, Output, Run
  <2>5. RunIsSound'
    BY <1>1, <1>9, <2>1, <2>4 DEF Appliance, RunIsSound, OutputOK, MockAllowed, Counted
  <2>6. EvidenceHolds'
    BY <1>1, <1>9, <2>1, <2>4 DEF Appliance, EvidenceHolds, OutputOK, MockAllowed
  <2>7. QED
    BY <2>2, <2>3, <2>5, <2>6 DEF ToolIInv
<1>10. CASE Poll
  <2>1. run' = [run EXCEPT !.seen = remote[runs]] /\ runs \in 1 .. MaxRuns
    BY <1>1, <1>10 DEF Poll, Goes, Counted, ToolTypeOK
  <2>2. run' \in Run /\ run'.pc = "polling" /\ run'.seen = remote[runs]
    BY <1>1, <1>10, <2>1 DEF Poll, ToolTypeOK, Run
  <2>3. ToolTypeOK'
    BY <1>1, <1>10, <2>2 DEF Poll, Goes, ToolTypeOK
  <2>4. Counted' /\ RunIsSound' /\ EvidenceHolds'
    BY <1>1, <1>10, <2>2 DEF Poll, Goes, Counted, RunIsSound, EvidenceHolds, OutputOK, MockAllowed
  <2>5. QED
    BY <2>3, <2>4 DEF ToolIInv
<1>11. CASE LeaveLoop
  <2>1. CASE run.seen = "done"
    <3>1. run' = [run EXCEPT !.pc = "fetching"]
      BY <1>11, <2>1 DEF LeaveLoop, Goes
    <3>2. run' \in Run /\ run'.pc = "fetching" /\ run'.seen = "done"
      BY <1>1, <2>1, <3>1 DEF ToolTypeOK, Run
    <3>3. ToolTypeOK'
      BY <1>1, <1>11, <2>1, <3>2 DEF LeaveLoop, Goes, ToolTypeOK
    <3>4. Counted' /\ RunIsSound' /\ EvidenceHolds'
      BY <1>1, <1>11, <2>1, <3>2 DEF LeaveLoop, Goes, Counted, RunIsSound, EvidenceHolds, OutputOK, MockAllowed
    <3>5. QED
      BY <3>3, <3>4 DEF ToolIInv
  <2>2. CASE run.seen # "done"
    BY <1>11, <2>2, SettlingKeeps DEF LeaveLoop, Settles
  <2>3. QED
    BY <2>1, <2>2
<1>12. CASE Deadline \/ SoftLimit \/ Unparsed
  BY <1>12, SettlingKeeps DEF Deadline, SoftLimit, Unparsed, Settles
<1>13. CASE Fetch
  <2>1. run.pc = "fetching" /\ UNCHANGED <<cfg, site, remote, runs, restarts>>
    BY <1>13 DEF Fetch
  <2>2. ASSUME NEW text \in {"whole", "long"}, Goes(Has("real", text, runs)) PROVE ToolIInv'
    <3>1. runs \in 1 .. MaxRuns /\ remote[runs] = "done"
      BY <1>1, <2>1 DEF RunIsSound, Counted, ToolTypeOK
    <3>2. OutputOK([kind |-> "real", text |-> text, task |-> runs], runs)
      BY <3>1 DEF OutputOK
    <3>3. QED
      BY <2>1, <2>2, <3>1, <3>2, OutputKeeps DEF Kind
  <2>3. QED
    BY <1>13, <2>1, <2>2, SettlingKeeps DEF Fetch, Settles
<1>14. CASE Ingest
  <2>1. run' = NoRun /\ row' = "completed" /\ evidence' = run.out /\ OutputOK(run.out, runs)
        /\ UNCHANGED <<cfg, site, waiting, remote, raised, runs, restarts>> /\ Parses(run.out.text)
    BY <1>1, <1>14 DEF Ingest, RunIsSound
  <2>2. run.out \in Output
    BY <1>1 DEF ToolTypeOK, Run
  <2>3. ToolTypeOK'
    BY <1>1, <2>1, <2>2, NoRunIsRun DEF ToolTypeOK
  <2>4. Counted' /\ RunIsSound'
    BY <1>1, <2>1, NoRunIsRun DEF Counted, RunIsSound
  <2>5. EvidenceHolds'
    BY <2>1, NoRunIsRun DEF EvidenceHolds, OutputOK, MockAllowed, Parses
  <2>6. QED
    BY <2>3, <2>4, <2>5 DEF ToolIInv
<1>15. CASE Crash
  <2>1. waiting = 0 /\ waiting' = 1 /\ run' = NoRun /\ runs + 1 <= 1 + restarts + MaxCrashes
    BY <1>1, <1>15 DEF Crash, Counted, ToolTypeOK
  <2>2. ToolTypeOK'
    BY <1>1, <1>15, <2>1, NoRunIsRun DEF Crash, ToolTypeOK
  <2>3. Counted' /\ RunIsSound' /\ EvidenceHolds'
    BY <1>1, <1>15, <2>1, NoRunIsRun DEF Crash, Counted, RunIsSound, EvidenceHolds, OutputOK, MockAllowed, ToolTypeOK
  <2>4. QED
    BY <2>2, <2>3 DEF ToolIInv
<1>16. CASE Restart
  <2>1. waiting' = 1 /\ restarts' = restarts + 1 /\ restarts + 1 \in 0 .. MaxRestarts
    BY <1>1, <1>16 DEF Restart, ToolTypeOK
  <2>2. ToolTypeOK'
    <3>1. waiting' \in 0 .. 1 + MaxRestarts /\ restarts' \in 0 .. MaxRestarts
      BY <2>1
    <3>2. raised' \in BOOLEAN
      BY <1>16 DEF Restart
    <3>3. QED
      BY <1>1, <1>16, <3>1, <3>2 DEF Restart, ToolTypeOK
  <2>3. Counted' /\ RunIsSound' /\ EvidenceHolds'
    BY <1>1, <1>16, <2>1 DEF Restart, Counted, RunIsSound, EvidenceHolds, ToolTypeOK
  <2>4. QED
    BY <2>2, <2>3 DEF ToolIInv
<1>17. QED
  BY <1>2, <1>3, <1>4, <1>5, <1>7, <1>8, <1>9, <1>10, <1>11, <1>12, <1>13, <1>14, <1>15, <1>16 DEF ToolNext, Proceed

LEMMA ToolSpecIInv == ToolSpec => []ToolIInv
BY ToolInitIInv, ToolNextIInv, PTL DEF ToolSpec

-----------------------------------------------------------------------------
\* Rows, tasks and deliveries always have their types; a scan has one task or
\* one delivery at a time (Restart, Crash, Begin).
THEOREM ToolTypeCorrect == ToolSpec => []ToolTypeOK
<1>1. ToolIInv => ToolTypeOK
  BY DEF ToolIInv
<1>2. QED
  BY <1>1, ToolSpecIInv, PTL

\* Whatever the configurations of scan and worker are, and whatever crashes, a
\* mock is ingested in production only for a scan that says it is a lab's (the
\* wrappers, scan_policy).
THEOREM MocksAreOfTheLab == ToolSpec => []NoSilentMock
<1>1. ToolIInv => NoSilentMock
  BY DEF ToolIInv, EvidenceHolds, OutputOK, MockAllowed, NoSilentMock
<1>2. QED
  BY <1>1, ToolSpecIInv, PTL

\* What is ingested was parsed as a whole but for cut lines, and a Greenbone
\* report is that of a task of this scan that was done when it was fetched,
\* whatever deliveries died before (run_gmp_scan, _normalize_and_ingest).
THEOREM EvidenceSound == ToolSpec => []EvidenceIsSound
<1>1. ToolIInv => EvidenceIsSound
  BY DEF ToolIInv, EvidenceHolds, OutputOK, EvidenceIsSound
<1>2. QED
  BY <1>1, ToolSpecIInv, PTL
=============================================================================
