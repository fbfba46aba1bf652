# A TLA+ verification project for NexuSec

NexuSec is a vulnerability-assessment platform: a FastAPI backend, Celery
workers that run scanners, a PostgreSQL database both write to, a Redis broker
between them, and a React client. This directory holds TLA+ models of the parts
where several of these processes meet, TLC configurations that check them on
small instances, and TLAPS proofs of their safety properties for every instance.
Paths below are relative to `src/`.

    tlc -config ScanLifecycle_pipeline.cfg MCScanLifecycle     # check a run
    tlapm ScanLifecycle_proofs.tla                             # check the proofs

`PROJECT.json` lists the runs, the theorems, the lines every definition
translates, the hazards, and for each property a mutated definition that breaks
it.

## 1. The system

| Component | State it keeps | Operations | Meets others through | Modelled in |
|---|---|---|---|---|
| Scan lifecycle (`scan_service.py`, `scan_pipeline_service.py`, `workers/tasks.py`) | `scans` rows, Celery tasks | create, start, import, pipeline, `run_*_scan`, follow-up | row locks, broker, findings | ScanLifecycle |
| Tool wrappers, scan policy (`workers/tool_wrappers/`, `scan_policy.py`) | subprocesses, Greenbone tasks | checks, mocks, `run_gmp_scan`, export gate | called inside a scan task | ToolRun |
| NexuSec scan engine (`scanners/python/nexusec_scanner/`) | bucket, semaphore, circuit breakers | `scan`, one asyncio task per probe | called inside a scan task | ScanEngine |
| Scan schedules (`scan_schedule_service.py`, `workers/schedule_tasks.py`) | `scan_schedules` rows | CRUD, `dispatch_due_schedules` every minute | inserts scans, publishes tasks | ScheduleDispatch |
| Finding ingestion (`normalization/ingest.py`, `normalization_service.py`) | `vulnerabilities` rows, unique (asset, fingerprint) | upsert a report, normalize again | the same rows | FindingIngest |
| Threat intelligence (`services/threat_intel/`) | `threat_intel_cves`, flags on findings | KEV sync, enrichment with NVD and EPSS | the same rows | ThreatIntel, FindingIngest |
| Triage (`vulnerability_service.py`) | status, AI metadata, retest link | update, bulk update, retest | publishes integrations, the same rows | FindingDispatch, FindingDesk, FindingIngest |
| Integrations (`integrations/`, `workers/integration_tasks.py`) | ticket key, remote tickets | webhook, ticket, SIEM | published by triage | FindingDispatch |
| AI assistance (`ai_remediation.py`, `ai_filter.py`, `soc_chat.py`) | metadata columns | generate, bulk, analyse, chat | the same rows, AI settings | FindingDesk, FindingReaders |
| AI settings (`ai_settings_service.py`) | one row, a Redis copy, a cache per process | view, save, resolve | every AI request | AiSettings |
| Engagement approval (`engagement_approval_service.py`) | `engagement_approvals` rows | approve, revoke, delivery gate | scans, reports | EngagementApproval, DualControl |
| Reports, dashboard, digest (`engagement_report_service.py`, `engagement_standards.py`, `compliance_report_service.py`, `dashboard_service.py`, `digest_service.py`) | none | read the rows | approvals, findings | ReportRules, FindingReaders |
| Authentication, tenancy, organizations (`auth_service.py`, `core/tenancy.py`) | users, organizations | register, roles, tenant scope | every request | Tenancy, Accounts |
| Assets and discovery (`asset_service.py`, `scan_discovery_service.py`) | `assets` rows | CRUD, accept discovered hosts | tenancy, scans | AssetInventory |
| Rate limit, audit, health, parsers, configuration, frontend, Go stub | | | | not modelled, see 7 |

### What is hard about them

* A scan task is **one database transaction** (`workers/db.py:29`): its first
  flush (RUNNING) locks the row for up to thirty minutes, nobody sees what it
  writes before the end, and it commits in the middle only to trigger the
  follow-up of a pipeline.
* **Publish and commit are apart**, and the order differs: scans are committed
  before their task is published and marked QUEUED after it; integration tasks
  are published before the decision commits; tickets are created before their
  key is stored.
* **Delivery is at least once** (`task_acks_late`): crashes and users duplicate
  tasks; the hard limit and uncaught exceptions acknowledge a task whose
  transaction was rolled back.
* **Sessions are read-modify-write at READ COMMITTED**, with `autoflush=False`
  in the workers. Only columns that differ from what was loaded are written, so
  sessions merge column by column, by what each of them read, minutes ago when a
  tool, a model or a feed answers in between.
* **Beat does not wait** for the task before.
* **A remote system lives on**: Greenbone tasks and tickets survive the worker.

### What makes each component correct

Scans: one run at a time, a task has its row, COMPLETED implies its findings,
follow-ups come after finished discoveries and are not forgotten. Tools: no mock
passes for evidence, evidence is whole, a task ends. Schedules: no stacking
without a failure or a restart, no starvation. Findings: none of a completed scan is lost, no trace
of a rolled-back one, exploitation is never unlearnt and finally known. Triage:
only people change decisions; a second ticket has a reason on record; a task
published for a ticket ends in one. Approvals: a delivery was approved by somebody the creator is not.
Reports: silence means there is nothing to say; readers agree. Tenants: rows
stay apart, and roles are granted. AI: a template does not pass for the model;
saving a page as shown changes nothing.

## 2. The modules

`MC<Module>` gives the constants of `<Module>` their values for TLC,
`<Module>_proofs` has its theorems. A definition described as a bug or a mutant
of the one after it is used by no specification: it is what the property must
notice.

**ScanLifecycle.** `row` is the `scans` table as committed, `findings` the scans
whose vulnerabilities are committed, `lock` the row locks, `queue` the broker.
Each worker (`wk`) and request (`cl`) carries the row as its session loaded it
(`seen`, `next`), because a flush writes only changed columns. `Start`, `Publish`,
`MarkQueued`, `GiveUp` are `ScanService.enqueue` split at its commits; `Take`,
`Begin`, `FailScan`, `Complete` are delivery, the RUNNING flush, and the ends of
the six tasks; `ReadFollow` to `Stamp` are `_maybe_enqueue_pipeline_next`;
`Abort`, `Ack`, `Crash` are the rollback of `session_scope`, the late
acknowledgement and the lost worker.

**ScheduleDispatch.** `due[s]` is empty unless the next_run_at of `s` has passed,
and then holds the schedules whose time passed no later, `s` included: an order
as sets (deferring takes a schedule out, `LastDue` puts it at the end). A
dispatcher (`dp`) carries the rest of its batch in the same form, what the query
loaded until its own commit expires it, and what it has assigned and not
committed. `Select` is the query, `SkipActive` to `Mark` the loop body split at its commit and its publish, `Finish` the
last commit, `Vanish` the handler that fails after a schedule was deleted.
`Rerun` and `EndRerun` are `POST /scans/{id}/start` on a scan of a schedule. What
workers do is the part of ScanLifecycle a dispatcher can see. `crowded` and
`excused` are history: dispatchers that have met, and scans a restart, a failure
or such a meeting has touched.

**FindingIngest.** `row` is the table: status by class, promoted, KEV flag, and
the scan a finding refers to. `ing` has one session per scan (`Read`, `Flush`,
`Conflict`, `Commit` of `ingest`), `an` the analysts (`Decide`, `Save`), `en` the
enrichment. The flush takes its locks in one step; deadlocks of a gradual
acquisition are `Abort`. The enrichment's query returns any `EnrichLimit` of the
candidates, because it has a LIMIT and no order.

**ThreatIntel.** `intel` is `threat_intel_cves`, `fin` the findings with
severity, flags and score, `enr` and `syn` the sessions of enrichments and
synchronisations: rows read (`rows`, `old`), entries stored (`got`, `new`), rows
to write (`out`). An enrichment selects its findings (any `Limit[e]` of them), asks EPSS, matches one
finding after the other, asks NVD where its entry lacks it, and flushes after
each answer, which locks rows until its end. `Overrun` is the soft time limit,
`Conflict` the unique key, `Victim` the deadlock PostgreSQL breaks. Scores and
promotions are computed as the code does. FindingIngest keeps a one-step version
of this to compose it with triage.

**ScanEngine.** `pc` is what each probe task awaits; `queue`, `tokens`, `recent`
are the `RateLimiter`, `gate` and `permits` the semaphore, `st`, `failures`,
`elapsed` the `CircuitBreaker`. A step is what a task does between two awaits.
`gather` starts all tasks before any answer, so the first `allow()` always lets
a task pass and is not a step.

**ToolRun.** One delivery of a scan task: the verdict of the checks each engine
makes, in the order of the code (`NmapVerdict`, ..., `OpenVasVerdict`), which
ends in a failure, an uncaught error, a mock, an import, a subprocess or a
session with Greenbone; the session is followed poll by poll (`StartTask`,
`Poll`, `LeaveLoop`, `Deadline`, `Fetch`, `SessionFails`), and `Appliance` moves
the remote tasks whatever becomes of the worker. `Ingest` and `Unparsed` are what
the parsers make of the output, cut ones included.

**EngagementApproval** refines **DualControl**. `row` is the table by primary
key; a request that approves or revokes reads the active approval (`Ask...`) and
writes in another step (`Commit...`), a report loads scans, then findings, then
the approval; any of them overlap. `job` is what a scan's configuration says and
`found` what its findings are, mock ones with or without a mark the policy knows;
`met` is history: approvals whose request was open beside another of its scope.
DualControl knows which approvals stand, which have ended and what was released
under whose name; the mapping (`ImplementsDualControl`) reads them off the table.

**FindingDispatch.** `Decide`, `FlushAndPublish`, `Commit` are an update with the
automatic retest in the order of the code; a dispatcher, a worker or a request
with `async_mode=false`, loads the row, alerts, creates or updates the ticket,
and stores the key (`Take`, `Alert`, `CreateTicket`, ..., `Finish`), each part
only if the request asked for it. `Raise` is a provider's timeout, on a creation
or an update, `Crash` the worker's death; `ticket` lives on. `lost` and `raced`
are history: tickets whose creator did not live to store the key, and those held
unstored while another dispatch of the finding was under way.

**Tenancy, Accounts, AssetInventory.** Tenancy has the roles and scopes of a
request as operators; Accounts registers accounts (with the bootstrap) and
organizations; AssetInventory extends it with the assets: every request checks
in one step (`Ask...`) and writes in another (`Commit...`), an acceptance looks up one
host after the other, at most `AcceptLimit` of those it was sent. Names are
validated as the schemas do (`Validated`), but looked up as sent. The list of
discovered hosts looks at any `ViewLimit` assets of the tenant (`Loadable`).

**AiSettings, ReportRules, FindingReaders, FindingDesk.** AiSettings is the row,
the copy in Redis, the cache of each process, and the page with its save, whose
caches are filled before the commit. ReportRules and FindingReaders are the
readers of findings as operators: checklists with the marks pentesters make by
hand, verification matrix and warnings of an engagement report; compliance
buckets, dashboard (whose list of assets is cut), digest, chat. FindingDesk
extends them with the requests that change the rows: triage, remediation, bulk
remediation, analysis, suggestion and acceptance, chat, each with its read, its
model call, its flush with row locks, and its commit. Requests with
`persist=false` answer and change nothing; they are left out.

## 3. The runs

| Run | Checks | Instance, and why it is enough |
|---|---|---|
| `scan_pipeline` | `RowBeforeTask`, `CompletedHasFindings`, `TriggeredAfterDiscovery`, `OneRunPerScan`; `LocksReleased`, `FollowUpProceeds` | a discovery, its follow-up and a scan nobody starts, two workers, one request, one crash, one abort: a redelivered discovery triggers its follow-up again while another worker runs it |
| `sched_dispatch` | `DispatchTypeOK`, `StackingIsExcused`; `DueIsHandled` | two schedules, two overlapping dispatchers, batches of one, one edit, restart, failure or death, two scans: the batch is smaller than what is due |
| `ingest_table` | `TypeOK`, `ReportsAreKept`, `EvidenceIsCommitted`; `KevIsPromoted` | two scans of one asset with overlapping reports, one with a duplicate, two runs each, an analyst, an abort; the enrichment takes one of two findings |
| `feeds` | `FlagsAreFounded`; `ExposureIsKept`, `EnrichmentConverges` | two findings, an enrichment of beat that takes one of them, one of an admin that takes both, both with a budget of one lookup, a KEV sync, a catalog that changes, two reports, a failure |
| `engine_scan` | `DeadHostIsSpared`; `EveryProbeEnds` | five probes of one host and two of another, threshold 2, two at a time, one recovery per host |
| `tool_engines` | `NoSilentMock`, `EvidenceIsSound`; `EveryTaskSettles` | all six engines under every configuration and environment their checks tell apart, a crash, a restart |
| `approval_gate` | `OneActiveApproval`; `ImplementsDualControl` | two scopes, two admins of whom one made the scan, three overlapping changes, one report, any of the changes rolled back |
| `approval_mock` | refutes `ClientReportIsReal` | one scan, one approval, one report |
| `dispatch_tickets` | `TicketsAreAccounted`, `AlertsAreCommitted`; `TriageIsKept`, `TicketFollows` | one critical finding, an analyst who decides twice, a worker and a request that overlap, a crash and a failure, two tickets: one more than should exist |
| `dispatch_retest` | refutes `ClosedIsRetested` | one finding closed once |
| `tenants` | `AccountsAreGranted`, `AcceptedAreNew`; `TenantsStayApart` | from an empty database, three accounts, two organizations, five overlapping requests, two assets of which a list shows one, a name in two spellings |
| `desk` | `TypeOK`, `NoSilentTemplate`, `SavingTheViewIsNeutral`, `SilentReportIsClean`, `ReadersAgree`; `AdvisoryOnly`, `RequestsEnd` | two overlapping requests on two findings of two assets of which the dashboard lists one, bulk requests in both orders, a save of the settings, a strict and a lenient deployment, four lists of scans whose marks agree, contradict or are unclear |

What they show. "Commit, then publish" is enough for a task to find its row. The
row lock of the RUNNING flush is the only thing that keeps duplicated tasks apart,
and it is enough; lock waits between a pipeline's scans do not close a cycle. A
discovery that dies before the publish of its follow-up is repaired by
redelivery, unless it ends in an uncaught exception, which is acknowledged.
Two scans of a schedule are at work at once only after a restart by hand, a
redelivery of a finished one, a failed dispatcher or two that met, and what those
leave behind starves nobody. Ingestion loses no finding of a completed scan,
because a conflict refuses the whole report. Flags of exploitation are never taken
back by stale sessions, because only changed columns are written; severities and
scores are, and later runs repair them for every finding the LIMIT does not pass
over for ever. Production ingests no mock of a scan that is not declared a lab
scan. However approvals overlap, a client's report names one in force, given by
an admin who is not the scan's creator; two are in force at once only if their
requests overlapped. A finding has a second ticket only after a crash or a timeout
between the creation and the commit, or a second dispatch under way. An acceptance
adds no host the list shows as known, but for names in another form and changes
that overlap it. Overlapping requests of a tenant change no other tenant's
assets. No AI request changes a decision, and two bulk requests in opposite order
are parted by the database. The dashboard accounts for every active finding of the
assets it lists, and its cut leaves a critical one out only behind assets of at
least its weight.

Bounds are the constants named `Max...`, the finite sets of requests (each is made
once) and `Budget`. They limit the environment: users, failures, time, feeds.
`MaxScans` in ScheduleDispatch also limits `Insert`, which `DueIsHandled` therefore
excepts; `MaxTickets` limits `CreateTicket` and is one more than a finding should
have; `MaxApprovals` is the number of changes. Limits of the code are constants of
their own and are set below what there is, so that they bind: `BatchLimit`,
`EnrichLimit`, `Limit` of an enrichment, `ViewLimit`, `PostureLimit` and `Limit` of
the readers are one beside two, `AcceptLimit` is two beside three hosts.
Requests and accounts, which are interchangeable, are symmetric where no liveness is
checked. The systems stop when the bounds are used up, so deadlock is not checked;
waiting for ever is what the liveness properties are about. Nothing keeps requests,
dispatchers or enrichments from overlapping in any module.

### Fairness

* ScanLifecycle: `WF` on a worker's steps (tools end by `task_time_limit`) and on
  deliveries. ScheduleDispatch: `WF` on a dispatcher's steps and on the scanner's.
* FindingIngest: `WF` on a session that has begun and on the enrichment.
  ThreatIntel: `WF` on downloads, on beat's selections and on a session's own
  steps; `SF` on flushes and commits that wait for row locks: PostgreSQL queues
  who waits, so a session is not passed over for ever.
* ScanEngine: `WF` on the event loop's steps, on intervals, tokens and answers.
  ToolRun: `WF` on taking a task and on its next step, deadlines included; the
  appliance may never be done.
* FindingDispatch: `WF` on ending a request, on a dispatch's steps and on
  deliveries. FindingDesk: `WF` on a request's steps and time limits; a model may
  never answer.
* No fairness on users, crashes, failures, feeds, recoveries. EngagementApproval
  and AssetInventory check safety only.


## 4. Divergences

What the code does and a reader of its comments, tests or docs would not expect.
Two are refuted by a run; the others were met while modelling, at the line given,
and say what the properties above had to leave out.

**Refuted by a run.** `approval_mock`: the export gate is to "block client engagement
exports that include mock/synthetic evidence" (`scan_policy.py:128`), but it reads
the mode from the scan's configuration and takes `gmp` for a missing one (`:63`),
where the worker takes its `OPENVAS_MODE` (`docker-compose.yml:188` defaults it to
mock; `ZAP_MODE` works alike), and the findings of OpenVAS's mock and of ZAP's offline
OWASP suite carry no mark `is_synthetic_finding` knows. `dispatch_retest`: closing a finding is documented to create
a verification scan (`docs/usage-va-pt.md:576`), but the scan's config carries
neither `roe_acknowledged` nor `lab_mode` (`vulnerability_service.py:274`), so
`assert_roe_for_scan` refuses it and the refusal is swallowed.

**Scans.**
* QUEUED is assigned after the publish (`scan_service.py:162`,
  `schedule_tasks.py:130`), so it can be written over what a faster worker
  committed. The row then says QUEUED with no task left.
* The guard against a second follow-up (`tasks.py:278`) cannot see the RUNNING
  of a follow-up that runs, which is never committed: it is published twice. For
  the same reason no reader of RUNNING (`health_service.py:555`, metrics,
  `docs/usage-va-pt.md:183`) ever finds it.
* A duplicate task leaves the error of the first or clears it, depending on what
  it loaded (`tasks.py:211`).
* An uncaught exception between the commit of the trigger and the publish is
  acknowledged, and the follow-up forgotten: hence `aborts > 0` in
  `FollowUpProceeds`.
* `POST /scanner/run` calls `asyncio.run` inside a running loop
  (`nexusec_scanner/engine.py:158`); nothing publishes the task `run_scan`.

**Schedules.** Overlapping dispatchers load the same due schedules
(`schedule_tasks.py:64`) and stack runs that a comment says they avoid
(`schedule_tasks.py:83`); an earlier scan that is started again by hand
(`scans.py:133`) runs beside the schedule's new one, since only the last one is
looked at. The handler of one schedule's failure takes the marks
of earlier schedules with it (`schedule_tasks.py:148`). `zap` is documented as
schedulable (`docs/scanner-connectors.md:434`), the service refuses it.

**Tool runs.** A configuration that says `imported` is believed whatever the task
then runs (`scan_policy.py:53`). Output over 200,000
characters is cut before it is parsed (`tasks.py:744`), which raises an uncaught
error and leaves the scan QUEUED. The soft limit inside a Greenbone session is
taken for a connection error, the remote task is not stopped, and a
redelivery starts a second one (`openvas.py:602`). The docstring at `base.py:90`
promises to kill a process group; one child is killed.

**Findings and triage.** REOPENED may be written over a committed FALSE_POSITIVE,
because ingestion decides on a row it read earlier (`ingest.py:161`). A finding
twice in one report refuses the whole report (`ingest.py:105`). The integrations
task is published before its decision commits (`vulnerability_service.py:208`),
and tickets are opened before their key is kept: two overlapping dispatches, or a
crash between, open two. `last_alerted_at` is set even if every delivery failed,
and a provider's timeout is uncaught, so its task is acknowledged.

**Threat intelligence.** NVD answers are never refreshed and a 404 is asked again
in every run; the query has a LIMIT and no ORDER BY (`enrichment.py:209`), so a
finding may be passed over in every run; `in_kev` is not cleared when CISA withdraws an entry; a run that
reaches the soft limit rolls back every lookup, and the next one begins
with the same; the failed sync-run record is rolled back with the failure
(`:190`); a score is
computed before the promotion it causes, so that a finding reaches its score
only in the second run; any link to github.com counts as a public exploit.

**Scan engine.** HALF_OPEN lets every caller pass, and an answer that was under
way when the circuit opened closes it at once (`circuit_breaker.py:22`, `:46`);
`EveryProbeEnds` and `DeadHostIsSpared` hold nevertheless. A burst
below one makes the limiter wait for ever (`rate_limit.py:48`).

**Approvals and reports.** `find_active` takes no lock, so two approvals of one
scope leave two active rows, and a revocation ends only the newer
(`engagement_approval_service.py:63`). The separation of duties is checked only
for approvals that name a scan, while each report states it (`engagement_report_service.py:462`).
An engagement that mixes scans counts PT validation as done without a PTES
warning. Marks of several scans are merged in an order no query asks for, and one
that is neither yes nor no hides an earlier one (`engagement_standards.py:404`); a
mark by hand hides a phase or chapter without a warning. The dashboard lists fifty
assets (`dashboard_service.py:61`), so its sums by asset may be below those by
severity. Compliance reports load their scope without an organization filter
(`compliance_report_service.py:521`). The default "previous" baseline of a scan
comparison is the latest other completed scan, which may be a newer one.

**Accounts and assets.** Migration 007 seeds the default organization and its
bootstrap is not serialized, so two first registrations both become super
admin. A host name in upper case is looked up as sent and stored in lower case:
each acceptance inserts it again (`scan_discovery_service.py:277`), and
so do two acceptances at once (`:188`). The list of discovered hosts looks at 2000
assets in no order (`:109`), acceptance at all of them, so it refuses some hosts the
list shows as new. Deactivating an organization does not
stop its members' logins; `users.is_active` is never cleared;
`verify_workspace_token` has no caller.

**AI.** `enabled` is stored and shown and never consulted. The caches are written
before the commit (`ai_settings_service.py:244`): they keep what a rollback takes
back, and a page that loads while another saves puts the old key back.
Metadata columns are read and written as one JSON value, so two requests lose each
other's keys, and acceptance writes back the snapshot. Acceptance
without a list takes whatever is pending by then. Bulk items reported "ok" are
rolled back when a later one ends the session. SOC chat quotes findings
found by keyword whatever their status is.

## 5. The proofs

Eight modules hold theorems; `PROJECT.json` lists the 35 a reader should know.
They use the named assumptions of the module's constants and nothing else, and
hold for any number of scans, workers, requests, findings and failures. In each
module an invariant `IInv` (named after its part where a module has several) is
shown to hold initially, to be kept by each action (one step per action, one
level down one per conjunct it can disturb), and to imply the properties. Every
invariant and every action property of a passing run is stated by a theorem.

| Module | Theorems | What the invariant adds, and why it is needed |
|---|---|---|
| `ScanLifecycle_proofs` | `TypeCorrect`, `RunsAreExclusive`, `TasksHaveRows`, `CompletionIsAtomic`, `TriggerFollowsDiscovery` | a running worker owns its row's lock; who is busy has a row, who is queued too, both rows of a pipeline at once; a trigger is followed by a worker or its findings, also in the stale rows sessions carry, since a flush of config writes every key |
| `FindingIngest_proofs` | `TypeCorrect`, `FindingsAreKept`, `EvidenceHolds` | a session accounts for its whole report: each finding is still to do, found new, or seen; and found rows stay. Row locks are not needed |
| `ThreatIntel_proofs` | `TypeCorrect`, `FlagsHold`, `ExposureStays` | what a session carries was listed when it was read; rows only gain flags, and listings only grow. Locks are not needed |
| `ScanTasks_proofs`, ScheduleDispatch | `DispatchTypeCorrect`, `ScansStackWithReason` | a session refers to committed scans of the schedule it writes to, however many dispatchers overlap and fail. Against stacking: a scan nothing excuses has one task, is active as long as it has, and its schedule or the session that dispatched it knows of it; a session that has met no other is the only one to read, and what it loaded of schedules at work says so |
| `ScanTasks_proofs`, ScanEngine | `EngineTypeCorrect`, `DeadHostsAreSpared` | a task queues once; permits and probes add up to the limit; failures and recoveries count what has been seen, which gives the bound |
| `ScanTasks_proofs`, ToolRun | `ToolTypeCorrect`, `MocksAreOfTheLab`, `EvidenceSound` | output was sound when it was made, and a finished Greenbone task stays finished after the worker's death |
| `EngagementApproval_proofs` | `TypeCorrect`, `OneApproval`, `ApprovalIsDualControl` | keys are taken in order, so the newest approval is the one found; a request that met no other has found the one in force, if any, and revokes it. `ApprovalIsDualControl` is the refinement of DualControl: initial states map to initial states, each step to a step or a stutter |
| `FindingDispatch_proofs` | `TypeCorrect`, `AlertsHold`, `TriageStays`, `TicketsHold` | what a dispatch loaded is a past row; a key it holds unstored is its own, and the finding's, unless another dispatch was under way, which `raced` records |
| `AssetInventory_proofs` | `TypeCorrect`, `GrantsHold`, `TenantsApart`, `NewAreAccepted` | an account's role and organization and an asset's organization never change, so what a request checked is true when it writes; stored names are normal; what an acceptance has looked up is new but for assets changed since |
| `FindingDesk_proofs`, with AiSettings, ReportRules and FindingReaders | `TypeCorrect`, `TemplatesAreTold`, `SettingsNeutral`, `ReportsAreClean`, `ReadersHold`, `ModelOnlyAdvises` | what a request is going to write: a template only where the deployment allows one, and only columns of advice unless an analyst sent it. Row locks are not needed: what is committed was flushed |

No theorem restricts the environment: none assumes that requests, dispatchers or
sessions do not overlap or do not fail. What overlap does goes into the properties
themselves, by the history variables `excused`, `met`, `raced` and `since`, which no
guard reads. TypeOK is proved for every module with theorems, and run only for
ScheduleDispatch, FindingIngest and FindingDesk.

ReportRules and FindingReaders are operators, so `ReportsAreClean` and
`ReadersHold` hold in every state; they rest on lemmas about what a step, a
phase, a warning, a limited query and a bucket stand for. The dashboard's sums
are recursive functions over subsets: `SumExists` shows that the recursion has a
solution, `SumTakesAny` that the order does not matter, and `ClassesAddUp` that
the sizes of the classes of a finite set add up to its size. The induction
(`SubsetInduction`) takes the property as a set, because the provers cannot
instantiate the library's, which take it as an operator.

## 6. Only model-checked

Liveness: `LocksReleased`, `FollowUpProceeds`, `DueIsHandled`, `KevIsPromoted`,
`EnrichmentConverges`, `EveryProbeEnds`, `EveryTaskSettles`, `TicketFollows`,
`RequestsEnd`. TLAPS does not reach fairness. The refuted `ClosedIsRetested` and
`ClientReportIsReal` are counterexamples, not theorems.

## 7. Not modelled

* API rate limit: two Redis calls on one key. If the second (EXPIRE) is lost, the
  key never expires and its client stays limited, told to retry after 0 seconds.
* Audit, health, configuration, frontend, migrations, the Go stub: they append a
  row, read, wire or print, and guard no step of another component.
* Parsers, argument vectors, protocol messages, prompts, layout of documents:
  translations of text that tests on samples reach. What a parser must refuse is
  in ToolRun.
* Passwords, tokens and encryption: cryptography; the encryption of a stored key
  is modelled as what it returns.
* Of scans: the retry of `_load_scan` and `_mark_scan_failed_detached`
  (`RowBeforeTask` shows that they are not reached), the dispatcher task
  `run_scan`, which nothing publishes, CANCELLED, which nothing sets, progress
  and timestamps, and the comparison of scans.
* Of schedules: the branch for engines that cannot be scheduled
  (`schedule_tasks.py:94`), refused earlier, and row locks between two
  dispatchers on one schedule.
* Of findings: the SLA clock, the sending of digests (per organization, in one
  transaction: after a crash they are sent again), the backfill, which repeats
  the rows of its last batch, and the columns no property tells apart.
