------------------------------- MODULE ToolRun -------------------------------
(***************************************************************************)
(* One delivery of a scan task, from the row it loads to the evidence it   *)
(* commits: the six engine tasks (run_nmap_scan ... run_osint_scan), the   *)
(* wrappers they call and, for OpenVAS, the session with a Greenbone       *)
(* appliance, whose tasks live on whatever becomes of the worker.          *)
(*                                                                         *)
(* RUNNING is written in the transaction that also writes the end, so the  *)
(* row is seen queued until a verdict is committed; an error nobody        *)
(* catches rolls everything back and leaves it so (ScanLifecycle has the   *)
(* transactions of several tasks, here one task runs at a time).           *)
(***************************************************************************)
EXTENDS Naturals, FiniteSets

CONSTANTS
  Configs,     \* scan.config and the assets, as records of ConfigType
  Sites,       \* environments of the workers, as records of SiteType
  MaxCrashes,  \* bound: workers that die in a delivery
  MaxRestarts  \* bound: calls of the start endpoint

Engines == {"nexusec", "nmap", "nuclei", "openvas", "zap", "osint"}

\* targets: the kinds of the linked assets.  report: report_xml or report_json.
\* options: ports, flags, tags, limits; refused by an allow-list, or malformed
\* (int() or float() raises).
ConfigType == [engine : Engines, targets : SUBSET {"domain", "address", "private", "junk"},
               report : {"none", "whole", "broken", "long"},
               mode : {"unset", "mock", "default", "gmp", "import", "other"},
               imported : BOOLEAN, lab : BOOLEAN, roe : BOOLEAN,
               auth : {"none", "good", "bad"}, options : {"allowed", "refused", "malformed"}]

\* openvas, zap: the default modes.  gvm: credentials are configured.
SiteType == [prod : BOOLEAN, blocks : BOOLEAN, gvm : BOOLEAN, fallback : BOOLEAN,
             openvas : {"mock", "gmp"}, zap : {"mock", "import"}]

ASSUME ToolAssumption ==
  /\ Configs \subseteq ConfigType /\ Sites \subseteq SiteType
  /\ MaxCrashes \in Nat /\ MaxRestarts \in Nat

MaxRuns == 1 + MaxCrashes + MaxRestarts

VARIABLES
  cfg, site,   \* as chosen at the start
  row,         \* the committed status; queued stands for PENDING and QUEUED
  evidence,    \* what was ingested with COMPLETED
  waiting,     \* tasks in the broker
  run,         \* the delivery in progress
  remote,      \* remote[n]: the Greenbone task that delivery n created
  raised,      \* a delivery since the last start ended in an error nobody caught (history)
  runs, restarts  \* deliveries and restarts so far

toolVars == <<cfg, site, row, evidence, waiting, run, remote, raised, runs, restarts>>

Kind == {"real", "mock", "imported"}
Output == [kind : Kind, text : {"whole", "broken", "long"}, task : 0 .. MaxRuns]
NoOutput == [kind |-> "real", text |-> "broken", task |-> 0]

\* pc: what the delivery is at.  seen: the status of the Greenbone task as last
\* polled.
Run == [pc : {"idle", "begun", "tool", "session", "polling", "fetching", "output"},
        seen : {"none", "running", "done", "stopped"}, out : Output]
NoRun == [pc |-> "idle", seen |-> "none", out |-> NoOutput]

ToolTypeOK ==
  /\ cfg \in Configs /\ site \in Sites
  /\ row \in {"queued", "failed", "completed"}
  /\ evidence \in Output /\ waiting \in 0 .. 1 + MaxRestarts /\ run \in Run
  /\ remote \in [1 .. MaxRuns -> {"none", "running", "done", "stopped"}]
  /\ raised \in BOOLEAN /\ runs \in 0 .. MaxRuns /\ restarts \in 0 .. MaxRestarts

-----------------------------------------------------------------------------
(* Policy: what the API lets through, and what it calls a mock. *)

\* assert_roe_for_scan
RoeAllows(c, s) == c.roe \/ (c.lab /\ ~s.prod)

\* is_mock_scan_config: the defaults of the workers' environment are not known
\* to it, and a configuration that says it was imported is believed.
IsMockScan(c) ==
  /\ c.engine \in {"zap", "openvas"}
  /\ ~c.imported /\ c.report = "none"
  /\ c.mode \in {"mock", "default"}

Enqueued(c, s) == RoeAllows(c, s) /\ (s.prod /\ IsMockScan(c) => c.lab)

-----------------------------------------------------------------------------
(* What a task makes of its configuration: "failed" is committed, "raise"   *)
(* is not caught; otherwise the way the output is obtained.                 *)

Blocked(s) == IF s.blocks THEN {"private"} ELSE {}

\* coerce_host takes anything that is shaped like a host.
HostTargets(c) == c.targets \ {"junk"}

\* Invalid URLs are left out one by one.
UrlTargets(c, s) == c.targets \ ({"junk"} \cup Blocked(s))

DomainTargets(c) == c.targets \cap {"domain"}

NexusecVerdict(c, s) ==
  IF HostTargets(c) = {} THEN "failed" ELSE IF c.options = "malformed" THEN "raise" ELSE "tool"

\* validate_targets: one target that is not allowed refuses them all.
ValidTargets(c, s) == HostTargets(c) \cap Blocked(s) = {}

NmapArguments(c, s) == c.options # "refused" /\ ValidTargets(c, s)
NmapVerdict(c, s) ==
  IF HostTargets(c) = {} THEN "failed"
  ELSE IF c.options = "malformed" THEN "raise"
  ELSE IF NmapArguments(c, s) THEN "tool" ELSE "failed"

\* Credentials need the acknowledgement, lab mode or not, and must be usable.
Authorised(c) == c.auth # "none" => c.roe
NucleiHeaders(c) == c.auth # "bad"
NucleiArguments(c, s) == c.options # "refused"
NucleiVerdict(c, s) ==
  IF UrlTargets(c, s) = {} THEN "failed"
  ELSE IF c.options = "malformed" THEN "raise"
  ELSE IF Authorised(c) /\ NucleiHeaders(c) /\ NucleiArguments(c, s) THEN "tool" ELSE "failed"

CatalogsAllowed(c) == c.options # "refused"
MockReport(c) == IF CatalogsAllowed(c) THEN "mock" ELSE "failed"

\* A bug: the fallback does not look at the environment.
FallBackAnywhere(c, s) == IF s.fallback THEN MockReport(c) ELSE "failed"

\* Without credentials, or when the session fails.
FallBack(c, s) == IF s.fallback /\ ~s.prod THEN MockReport(c) ELSE "failed"

OpenVasMode(c, s) == IF c.mode = "unset" THEN s.openvas ELSE c.mode
OpenVasWrapper(c, s) ==
  IF c.report # "none" THEN "import"
  ELSE IF ~ValidTargets(c, s) THEN "failed"
  ELSE CASE OpenVasMode(c, s) = "gmp" -> IF s.gvm THEN "session" ELSE FallBack(c, s)
         [] OpenVasMode(c, s) \in {"mock", "default"} -> IF s.prod /\ ~c.lab THEN "failed" ELSE MockReport(c)
         [] OTHER -> "failed"

OpenVasVerdict(c, s) ==
  IF c.report = "none" /\ HostTargets(c) = {} THEN "failed"
  ELSE IF c.options = "malformed" THEN "raise"
  ELSE IF Authorised(c) THEN OpenVasWrapper(c, s) ELSE "failed"

ZapMode(c, s) == IF c.mode = "unset" THEN s.zap ELSE c.mode
ZapWrapper(c, s) ==
  IF c.report # "none" THEN "import"
  ELSE IF ZapMode(c, s) \in {"mock", "default"} /\ ~(s.prod /\ ~c.lab) THEN "mock" ELSE "failed"

ZapVerdict(c, s) ==
  IF c.report = "none" /\ UrlTargets(c, s) = {} THEN "failed"
  ELSE IF c.options = "malformed" THEN "raise" ELSE ZapWrapper(c, s)

\* Names are looked up, never contacted.
OsintVerdict(c, s) ==
  IF DomainTargets(c) = {} THEN "failed"
  ELSE IF c.options = "malformed" THEN "raise"
  ELSE IF c.options = "refused" THEN "failed" ELSE "tool"

Verdict(c, s) ==
  CASE c.engine = "nexusec" -> NexusecVerdict(c, s) [] c.engine = "nmap" -> NmapVerdict(c, s)
    [] c.engine = "nuclei" -> NucleiVerdict(c, s) [] c.engine = "openvas" -> OpenVasVerdict(c, s)
    [] c.engine = "zap" -> ZapVerdict(c, s) [] OTHER -> OsintVerdict(c, s)

-----------------------------------------------------------------------------
(* The delivery. *)

Begin ==
  /\ run.pc = "idle" /\ waiting > 0
  /\ waiting' = waiting - 1 /\ runs' = runs + 1
  /\ run' = [NoRun EXCEPT !.pc = "begun"]
  /\ UNCHANGED <<cfg, site, row, evidence, remote, raised, restarts>>

Has(kind, text, task) == [run EXCEPT !.pc = "output", !.out = [kind |-> kind, text |-> text, task |-> task]]

\* FAILED is committed with the message of a ToolExecutionError.
EndFailed == row' = "failed" /\ run' = NoRun /\ UNCHANGED <<evidence, waiting, raised>>

\* Rolled back and acknowledged.
EndRaised == raised' = TRUE /\ run' = NoRun /\ UNCHANGED <<row, evidence, waiting>>

Goes(next) == run' = next /\ UNCHANGED <<row, evidence, waiting, raised>>

Prepare ==
  /\ run.pc = "begun"
  /\ LET v == Verdict(cfg, site) IN
     CASE v = "failed" -> EndFailed
       [] v = "raise" -> EndRaised
       [] v = "import" -> Goes(Has("imported", cfg.report, 0))
       [] v = "mock" -> Goes(Has("mock", "whole", 0))
       [] OTHER -> Goes([run EXCEPT !.pc = v])
  /\ UNCHANGED <<cfg, site, remote, runs, restarts>>

\* SecureExecutor.run: the binary is missing, the timeout kills it, it exits with
\* an error, or it has an output.
SubprocessEnds ==
  /\ run.pc = "tool" /\ cfg.engine \in {"nmap", "nuclei"}
  /\ EndFailed \/ \E text \in {"whole", "long"} : Goes(Has("real", text, 0))
  /\ UNCHANGED <<cfg, site, remote, runs, restarts>>

\* The NexuSec engine runs in the worker (ScanEngine).
EngineEnds ==
  /\ run.pc = "tool" /\ cfg.engine = "nexusec"
  /\ EndFailed \/ \E text \in {"whole", "long"} : Goes(Has("real", text, 0))
  /\ UNCHANGED <<cfg, site, remote, runs, restarts>>

\* A look-up that fails is an entry of the report.
LookUpsEnd ==
  /\ run.pc = "tool" /\ cfg.engine = "osint"
  /\ \E text \in {"whole", "long"} : Goes(Has("real", text, 0))
  /\ UNCHANGED <<cfg, site, remote, runs, restarts>>

\* Whatever is not a ToolExecutionError may be covered up by the fallback.
SessionFails ==
  IF FallBack(cfg, site) = "mock" THEN Goes(Has("mock", "whole", 0)) ELSE EndFailed

\* Up to start_task: an entity that does not exist is a ToolExecutionError.
SessionRefused ==
  /\ run.pc = "session" /\ (EndFailed \/ SessionFails)
  /\ UNCHANGED <<cfg, site, remote, runs, restarts>>

StartTask ==
  /\ run.pc = "session"
  /\ remote' = [remote EXCEPT ![runs] = "running"]
  /\ Goes([run EXCEPT !.pc = "polling", !.seen = "running"])
  /\ UNCHANGED <<cfg, site, runs, restarts>>

\* The appliance, which nobody tells that a delivery is over.
Appliance(n) ==
  /\ remote[n] = "running"
  /\ \E end \in {"done", "stopped"} : remote' = [remote EXCEPT ![n] = end]
  /\ UNCHANGED <<cfg, site, row, evidence, waiting, run, raised, runs, restarts>>

Poll ==
  /\ run.pc = "polling" /\ run.seen = "running" /\ remote[runs] # "running"
  /\ Goes([run EXCEPT !.seen = remote[runs]])
  /\ UNCHANGED <<cfg, site, remote, runs, restarts>>

\* A bug: any final status will do.
LeaveLoopStopped ==
  /\ run.pc = "polling" /\ run.seen # "running"
  /\ Goes([run EXCEPT !.pc = "fetching"])
  /\ UNCHANGED <<cfg, site, remote, runs, restarts>>

LeaveLoop ==
  /\ run.pc = "polling" /\ run.seen # "running"
  /\ IF run.seen = "done" THEN Goes([run EXCEPT !.pc = "fetching"]) ELSE EndFailed
  /\ UNCHANGED <<cfg, site, remote, runs, restarts>>

\* A bug: the loop has no deadline.
DeadlineNever ==
  /\ run.pc = "polling" /\ run.seen = "running" /\ remote[runs] # "running"
  /\ EndFailed
  /\ UNCHANGED <<cfg, site, remote, runs, restarts>>

\* The Greenbone task goes on.
Deadline ==
  /\ run.pc = "polling" /\ run.seen = "running"
  /\ EndFailed
  /\ UNCHANGED <<cfg, site, remote, runs, restarts>>

\* A lost connection, or the soft time limit, which the wrapper takes for one.
SessionLost ==
  /\ run.pc \in {"polling", "fetching"} /\ SessionFails
  /\ UNCHANGED <<cfg, site, remote, runs, restarts>>

Fetch ==
  /\ run.pc = "fetching"
  /\ \/ EndFailed
     \/ \E text \in {"whole", "long"} : Goes(Has("real", text, runs))
  /\ UNCHANGED <<cfg, site, remote, runs, restarts>>

\* Nobody catches the soft time limit around a subprocess, nor between two
\* look-ups.
SoftLimit ==
  /\ run.pc = "tool" /\ cfg.engine \in {"nmap", "nuclei", "osint"}
  /\ EndRaised
  /\ UNCHANGED <<cfg, site, remote, runs, restarts>>

\* The stored text is cut at 200000 characters, and it is the cut text that is
\* parsed: a document does not parse, lines may, if they are cut between two.
\* The NexuSec engine hands its findings over as they are.
Parses(text) ==
  text = "whole" \/ (text = "long" /\ cfg.engine \in {"nuclei", "nexusec"})

Ingest ==
  /\ run.pc = "output" /\ Parses(run.out.text)
  /\ row' = "completed" /\ evidence' = run.out /\ run' = NoRun
  /\ UNCHANGED <<cfg, site, waiting, remote, raised, runs, restarts>>

Unparsed ==
  /\ run.pc = "output" /\ run.out.text # "whole" /\ cfg.engine # "nexusec"
  /\ EndRaised
  /\ UNCHANGED <<cfg, site, remote, runs, restarts>>

\* The task is delivered again; the Greenbone task of this delivery goes on.
Crash ==
  /\ run.pc # "idle" /\ runs + waiting < 1 + restarts + MaxCrashes
  /\ waiting' = waiting + 1 /\ run' = NoRun
  /\ UNCHANGED <<cfg, site, row, evidence, remote, raised, runs, restarts>>

\* POST /scans/{id}/start, whose update of the row waits for a delivery to end.
Restart ==
  /\ run.pc = "idle" /\ waiting = 0 /\ restarts < MaxRestarts
  /\ restarts' = restarts + 1 /\ waiting' = waiting + 1
  /\ row' = "queued" /\ raised' = FALSE
  /\ UNCHANGED <<cfg, site, evidence, run, remote, runs>>

-----------------------------------------------------------------------------
ToolInit ==
  /\ cfg \in Configs /\ site \in Sites /\ Enqueued(cfg, site)
  /\ row = "queued" /\ evidence = NoOutput /\ waiting = 1 /\ run = NoRun
  /\ remote = [n \in 1 .. MaxRuns |-> "none"]
  /\ raised = FALSE /\ runs = 0 /\ restarts = 0

Proceed ==
  Prepare \/ SubprocessEnds \/ EngineEnds \/ LookUpsEnd \/ SessionRefused \/ StartTask
  \/ LeaveLoop \/ Deadline \/ Fetch \/ Ingest \/ Unparsed

ToolNext ==
  \/ Begin \/ Proceed \/ Poll \/ SessionLost \/ SoftLimit \/ Crash \/ Restart
  \/ \E n \in 1 .. MaxRuns : Appliance(n)

ToolSpec == ToolInit /\ [][ToolNext]_toolVars

\* Workers go on and take waiting tasks, and clocks advance; the appliance may
\* be at it for ever.
FairToolSpec == ToolSpec /\ WF_toolVars(Begin) /\ WF_toolVars(Proceed)

-----------------------------------------------------------------------------
(* Properties. *)

\* In production nothing made up is ingested unless the scan says it is a lab
\* scan, by whichever way a connector can come to a mock: the scan's mode, with or
\* without a claim to be imported, which the API believes; the worker's default
\* mode; missing credentials; a session that fails half way (_run_gmp, run_zap).
NoSilentMock == row = "completed" /\ evidence.kind = "mock" /\ site.prod => cfg.lab

\* What is ingested was parsed as a whole unless the lines of a Nuclei output were
\* cut, and a Greenbone report is that of a task this scan started and that was
\* done when the report was fetched (run_gmp_scan, _normalize_and_ingest).
EvidenceIsSound ==
  row = "completed" =>
    /\ evidence.text = "whole" \/ (evidence.text = "long" /\ cfg.engine \in {"nuclei", "nexusec"})
    /\ evidence.task # 0 => remote[evidence.task] = "done"
    /\ cfg.engine = "openvas" /\ evidence.kind = "real" => evidence.task # 0

\* A task that waits ends in a verdict on the row, although the appliance may
\* never be done (the deadline of run_gmp_scan) and workers die, or in an error
\* nobody catches, which leaves the row queued without a task.
EveryTaskSettles == (waiting > 0) ~> (row \in {"failed", "completed"} \/ raised)
=============================================================================
