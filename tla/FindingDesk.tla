---------------------------- MODULE FindingDesk ----------------------------
(***************************************************************************)
(* Analysts and the model at work on the findings table: triage, AI        *)
(* remediation of one finding or of many, false-positive analysis, NIST    *)
(* control suggestions and their acceptance, SOC chat, and the report read *)
(* from the same rows.  Triage is here only as the columns it writes;      *)
(* FindingDispatch has what it sets in motion.                             *)
(*                                                                         *)
(* A request loads a finding, may wait for the model, and flushes the      *)
(* columns it has changed; the flush locks the row until the request       *)
(* commits.  threat_intel_metadata is one column, written whole.           *)
(***************************************************************************)
EXTENDS AiSettings, FindingReaders, Sequences

CONSTANTS
  Findings,
  Severity, Owasp,  \* of a finding
  Traits,           \* the rest the readers look at: asset, cde, personal, kev, overdue, hit
  Tags,             \* Tags[f]: its controls per framework, from ingestion
  Decisions,        \* bound: statuses an analyst may choose
  Requests,         \* bound: requests to the desk, one each
  Batches,          \* bound: the lists a bulk request may name
  Configs,          \* deployments: Config records
  Intents,          \* bound: intents of a question to SOC chat
  Limit,            \* top_n of the digest, ai_soc_chat_retrieval_limit
  PostureLimit,     \* how many assets the dashboard lists (50)
  ScanLists         \* the scans in scope of a report, as a query returns them

Config == [provider  : {"auto", "openai", "anthropic", "mock"},
           anthropic : BOOLEAN,   \* ANTHROPIC_API_KEY is set
           enabled   : BOOLEAN,   \* AI_*_ENABLED
           fallback  : BOOLEAN]   \* AI_*_FALLBACK_MOCK

\* A scan as a report reads it; "import" stands for every engine of an import.
Scan == [type : {"va", "pt", "discovery", "compliance", "custom"},
         engine : VaEngines \cup {"nmap", "osint", "import"},
         roe : BOOLEAN, authenticated : BOOLEAN,
         marks : [PtesPhases \cup AsvsChapters -> {"none", "done", "pending", "unclear"}]]

ASSUME DeskAssumption ==
  /\ Decisions \subseteq Statuses /\ Configs \subseteq Config
  /\ Batches \subseteq Seq(Findings) \ {<<>>} /\ ScanLists \subseteq Seq(Scan)
  /\ Severity \in [Findings -> Severities] /\ IsFiniteSet(Findings)
  /\ Limit \in Nat \ {0} /\ PostureLimit \in Nat

VARIABLES
  cfg,    \* settings of the deployment
  row,    \* the findings table
  req     \* requests to the desk

vars == <<settingsVars, cfg, row, req>>

\* Who a text or a list of controls comes from: the model, a template or
\* heuristic, or a person.
Sources == {"none", "model", "template"}
Finding == [status : Statuses, retest : BOOLEAN,
            guide : Sources,                                \* remediation
            notes : [ai : Sources, fp : Sources, nist : Sources],  \* threat_intel_metadata
            controls : SUBSET {"model", "template", "person"}]  \* compliance_metadata

New == [pc |-> "new"]
Done == [pc |-> "done"]
NoWrites == [f \in {} |-> 0]

Kinds == {"triage", "generate", "bulk", "analyze", "suggest", "accept", "chat"}

TypeOK ==
  /\ SettingsTypeOK
  /\ row \in [Findings -> Finding]
  /\ \A r \in Requests : req[r] \in {New, Done} \/
       /\ req[r].pc \in {"load", "call", "flush", "commit"} /\ req[r].kind \in Kinds
       /\ req[r].proc \in Procs /\ DOMAIN req[r].writes \subseteq Findings
       /\ \A f \in DOMAIN req[r].writes :
            DOMAIN req[r].writes[f] \subseteq {"status", "retest", "guide", "notes", "controls"}
       /\ req[r].pc = "flush" => req[r].todo # <<>>

-----------------------------------------------------------------------------
(* Which model. *)

HasKey(p) == Effective(Cached(p)).key # None

MockAllowed == cfg.provider = "mock" \/ cfg.fallback

\* AIRemediationService.resolve_provider and generate
ForRemediation(p) ==
  IF ~cfg.enabled THEN "error"
  ELSE IF cfg.provider = "mock" THEN "template"
  ELSE IF HasKey(p) THEN "model"
  ELSE IF cfg.provider = "auto" /\ cfg.fallback THEN "template"
  ELSE "error"

\* The same of AIFPAnalysisService and SocChatService, which know Anthropic too.
ForAnalysis(p) ==
  IF ~cfg.enabled THEN "error"
  ELSE IF cfg.provider = "mock" THEN "template"
  ELSE IF \/ cfg.provider \in {"auto", "openai"} /\ HasKey(p)
          \/ cfg.provider \in {"auto", "anthropic"} /\ cfg.anthropic
       THEN "model"
  ELSE IF cfg.provider = "auto" /\ cfg.fallback THEN "template"
  ELSE "error"

\* _llm_nist_suggestion falls back whatever the settings say.
ForControls(p) == IF cfg.enabled /\ HasKey(p) THEN "model" ELSE "template"

Resolve(kind, p) ==
  CASE kind \in {"generate", "bulk"} -> ForRemediation(p)
    [] kind \in {"analyze", "chat"} -> ForAnalysis(p)
    [] kind = "suggest" -> ForControls(p)

\* A bug: whatever fails, a template answers.
FallBackAlways(kind, failure) == TRUE

\* A call failed: "refused" is an answer the service rejects or an HTTP error
\* it maps itself, "broken" is anything else, a timeout included.
FallsBack(kind, failure) ==
  \/ kind \in {"generate", "bulk"} /\ cfg.fallback
  \/ kind \in {"analyze", "chat"} /\ failure = "broken" /\ cfg.fallback
  \/ kind = "suggest"

-----------------------------------------------------------------------------
(* What a request writes. *)

\* A bug: every column of the loaded row is written.
ChangedWholeRow(q, got) ==
  CASE q.kind \in {"generate", "bulk"} -> [q.old EXCEPT !.guide = got, !.notes.ai = got]
    [] q.kind = "analyze" -> [q.old EXCEPT !.notes.fp = got]
    [] q.kind = "suggest" -> [q.old EXCEPT !.notes.nist = got]

\* The columns that differ from the row as it was loaded.
Changed(q, got) ==
  CASE q.kind \in {"generate", "bulk"} -> [guide |-> got, notes |-> [q.old.notes EXCEPT !.ai = got]]
    [] q.kind = "analyze" -> [notes |-> [q.old.notes EXCEPT !.fp = got]]
    [] q.kind = "suggest" -> [notes |-> [q.old.notes EXCEPT !.nist = got]]

Decided(old, status, retest) ==
  [c \in {x \in {"status", "retest"} : IF x = "status" THEN status # old.status ELSE retest # old.retest} |->
     IF c = "status" THEN status ELSE retest]

\* NISTMappingService.accept: the pending suggestion, or the controls named; a
\* pending suggestion is written back as accepted.
Accepted(old, named) ==
  LET controls == old.controls \cup {IF named THEN "person" ELSE old.notes.nist}
  IN IF old.notes.nist = "none" THEN [controls |-> controls]
     ELSE [controls |-> controls, notes |-> old.notes]

\* A bug: a bulk request goes on as if there were another finding.
RestAlways(q) == [q EXCEPT !.todo = Tail(@), !.pc = IF q.kind = "bulk" THEN "flush" ELSE "commit",
                           !.old = NoWrites, !.to = NoWrites]

\* The next finding of a bulk request, or its end.
Rest(q) == [q EXCEPT !.todo = Tail(@), !.pc = IF Len(q.todo) > 1 THEN "load" ELSE "commit",
                     !.old = NoWrites, !.to = NoWrites]

\* An item of a bulk request may fail on its own; any other request ends.
Failed(q) == IF q.kind = "bulk" THEN Rest(q) ELSE Done

-----------------------------------------------------------------------------
(* Requests. *)

Ask(r, kind, p, todo, pc, to) ==
  /\ req[r] = New
  /\ req' = [req EXCEPT ![r] = [pc |-> pc, kind |-> kind, proc |-> p, todo |-> todo,
                                old |-> NoWrites, to |-> to, writes |-> NoWrites]]
  /\ UNCHANGED <<settingsVars, cfg, row>>

\* update, with the retest a closed finding may get, and enqueue_retest
AskTriage(r, p, f, status, retest) ==
  /\ retest = row[f].retest \/ (retest /\ (status = row[f].status \/ status \in {"remediated", "resolved"}))
  /\ status # row[f].status \/ retest # row[f].retest
  /\ Ask(r, "triage", p, <<f>>, "flush", Decided(row[f], status, retest))

AskAccept(r, p, f, named) ==
  /\ named \/ row[f].notes.nist # "none"
  /\ Ask(r, "accept", p, <<f>>, "flush", Accepted(row[f], named))

AskModel(r, kind, p, f) ==
  /\ kind \in {"generate", "analyze", "suggest"}
  /\ Ask(r, kind, p, <<f>>, "load", NoWrites)

\* bulk_generate_ai_patch: without the repetitions
AskBulk(r, p, batch) == Ask(r, "bulk", p, batch, "load", NoWrites)

\* chat: the rows it retrieves are only quoted.
AskChat(r, p) == Ask(r, "chat", p, <<>>, "load", NoWrites)

\* A chat writes nothing: its transaction is over when it has its answer.
Answered(q, got) == IF q.kind = "chat" THEN Done ELSE [q EXCEPT !.pc = "flush", !.to = Changed(q, got)]

\* The finding is read, and the credentials; the process copies Redis's.
LoadFinding(r) ==
  LET q == [req[r] EXCEPT !.old = IF req[r].todo = <<>> THEN @ ELSE row[Head(req[r].todo)]]
      how == Resolve(q.kind, q.proc)
  IN
  /\ req[r].pc = "load"
  /\ req' = [req EXCEPT ![r] = CASE how = "error" -> Failed(q)
                                 [] how = "template" -> Answered(q, "template")
                                 [] how = "model" -> [q EXCEPT !.pc = "call"]]
  /\ cache' = [cache EXCEPT ![q.proc] = IF @ = None THEN shared ELSE @]
  /\ UNCHANGED <<stored, shared, page, cfg, row>>

CallFails(r, failure) ==
  /\ req[r].pc = "call"
  /\ req' = [req EXCEPT ![r] = IF FallsBack(@.kind, failure) THEN Answered(@, "template") ELSE Failed(@)]
  /\ UNCHANGED <<settingsVars, cfg, row>>

Answer(r) ==
  \/ /\ req[r].pc = "call"
     /\ req' = [req EXCEPT ![r] = Answered(@, "model")]
     /\ UNCHANGED <<settingsVars, cfg, row>>
  \/ CallFails(r, "refused")

\* A bug: a client without a timeout.
NoTimeout(r) == FALSE

\* AI_*_TIMEOUT_SECONDS
Timeout(r) == CallFails(r, "broken")

\* The UPDATE waits for the lock of the row.
Flush(r) ==
  LET q == req[r]
      f == Head(q.todo)
  IN
  /\ req[r].pc = "flush"
  /\ \A o \in Requests \ {r} : req[o] \notin {New, Done} => f \notin DOMAIN req[o].writes
  /\ req' = [req EXCEPT ![r] =
       Rest([q EXCEPT !.writes = [g \in DOMAIN @ \cup {f} |-> IF g = f THEN q.to ELSE @[g]]])]
  /\ UNCHANGED <<settingsVars, cfg, row>>

Waits(r, o) ==
  /\ req[r].pc = "flush"
  /\ req[o] \notin {New, Done} /\ Head(req[r].todo) \in DOMAIN req[o].writes

\* Postgres aborts one of two that wait for each other; its session is of no
\* use for the items left, and nothing of it is committed.
DeadlockVictim(r) ==
  /\ \E o \in Requests \ {r} : Waits(r, o) /\ Waits(o, r)
  /\ req' = [req EXCEPT ![r] = Done]
  /\ UNCHANGED <<settingsVars, cfg, row>>

Commit(r) ==
  LET q == req[r] IN
  /\ q.pc = "commit"
  /\ row' = [f \in Findings |->
       IF f \in DOMAIN q.writes
       THEN [c \in DOMAIN row[f] |-> IF c \in DOMAIN q.writes[f] THEN q.writes[f][c] ELSE row[f][c]]
       ELSE row[f]]
  /\ req' = [req EXCEPT ![r] = Done]
  /\ UNCHANGED <<settingsVars, cfg>>

-----------------------------------------------------------------------------
Init ==
  /\ SettingsInit
  /\ cfg \in Configs
  /\ row = [f \in Findings |-> [status |-> "open", retest |-> FALSE, guide |-> "none",
                                notes |-> [ai |-> "none", fp |-> "none", nist |-> "none"],
                                controls |-> {}]]
  /\ req = [r \in Requests |-> New]

Proceed(r) == LoadFinding(r) \/ Timeout(r) \/ Flush(r) \/ DeadlockVictim(r) \/ Commit(r)

Next ==
  \/ SettingsNext /\ UNCHANGED <<cfg, row, req>>
  \/ \E r \in Requests :
       \/ \E p \in Procs :
            \/ \E f \in Findings :
                 \/ \E s \in Decisions \cup {row[f].status}, t \in BOOLEAN : AskTriage(r, p, f, s, t)
                 \/ \E named \in BOOLEAN : AskAccept(r, p, f, named)
                 \/ \E kind \in Kinds : AskModel(r, kind, p, f)
            \/ \E batch \in Batches : AskBulk(r, p, batch)
            \/ AskChat(r, p)
       \/ Answer(r) \/ Proceed(r)

\* A request runs on by itself; the model may never answer.
Fairness == \A r \in Requests : WF_vars(Proceed(r))

Spec == Init /\ [][Next]_vars
FairSpec == Spec /\ Fairness

-----------------------------------------------------------------------------
(* Properties. *)

\* No template stands for the model's word in a finding unless the deployment
\* asked for it: the fallbacks are off by default (generate, analyze,
\* resolve_provider).  NIST suggestions are the exception.
NoSilentTemplate ==
  \A f \in Findings : "template" \in {row[f].guide, row[f].notes.ai, row[f].notes.fp} => MockAllowed

\* The model advises: while a call takes its time, and whatever it stores in the
\* end, the status, the retest link and the accepted controls of a finding are
\* what the last person committed (generate_ai_patch, analyze_false_positive,
\* suggest; update, enqueue_retest, accept).
AdvisoryOnly ==
  [][\A f \in Findings :
       <<row'[f].status, row'[f].retest, row'[f].controls>> # <<row[f].status, row[f].retest, row[f].controls>> =>
         \E r \in Requests : /\ req[r].pc = "commit" /\ req'[r] = Done
                             /\ req[r].kind \in {"triage", "accept"} /\ f \in DOMAIN req[r].writes]_vars

\* Every request ends, though model calls hang, bulk requests hold the locks of
\* earlier items during later calls, and two of them may take the same findings
\* in opposite order.
RequestsEnd == \A r \in Requests : (req[r] # New) ~> (req[r] = Done)

\* The rows as the readers load them.  A scan has assets of its organization
\* only (_load_assets), and its findings are of that organization too.
Rows ==
  {[id |-> f, severity |-> Severity[f], owasp |-> Owasp[f], status |-> row[f].status,
    retest |-> row[f].retest, ctl |-> [Tags[f] EXCEPT !.csf = @ \cup row[f].controls],
    asset |-> Traits[f].asset, cde |-> Traits[f].cde, personal |-> Traits[f].personal,
    kev |-> Traits[f].kev, overdue |-> Traits[f].overdue, hit |-> Traits[f].hit,
    own |-> TRUE] : f \in Findings}

\* The report, for whoever reads it: a client report that warns of nothing has a
\* retest for every closed finding and for every open serious one, a discovery
\* and an assessment; one of a penetration test has a confirmed finding and, on
\* the phases no tool sees, a pentester's mark that no scan loaded later takes
\* back; and what its PTES and ASVS checklists show as missing, although a
\* discovery or an engine of an assessment ran, was marked so by hand (generate,
\* _build_playbook, build_ptes_checklist, build_asvs_checklist).
SilentReportIsClean ==
  LET fs == Rows IN
  \A scans \in ScanLists, requested \in {"any", "pt"}, approved \in BOOLEAN :
    LET InScope == {scans[n] : n \in DOMAIN scans}
        type == EngagementType(InScope, requested)
        phases == Ptes(scans, PtesAuto(InScope, fs, type, approved, "client"))
        chapters == Asvs(scans, fs)
    IN
    Warnings(scans, fs, type, approved, "client") = {} =>
      /\ \A f \in Findings :
           \/ row[f].status \in {"remediated", "resolved"}
           \/ row[f].status \in ActiveStatuses /\ Severity[f] \in Serious
           => row[f].retest
      /\ \E s \in InScope : s.type = "discovery" \/ s.engine \in {"nmap", "osint"}
      /\ \E s \in InScope : s.type = "va" \/ s.engine \in VaEngines
      /\ type = "pt" =>
           /\ \E f \in Findings : row[f].status = "confirmed"
           /\ \A p \in {"threat_modeling", "post_exploitation"} :
                \E n \in DOMAIN scans :
                  /\ scans[n].marks[p] = "done"
                  /\ \A m \in DOMAIN scans : m > n => scans[m].marks[p] \in {"none", "done"}
      /\ \A p \in {"intelligence_gathering", "vulnerability_analysis"} \ phases :
           \E n \in DOMAIN scans : scans[n].marks[p] = "pending"
      /\ (\E s \in InScope : s.engine \in VaEngines) =>
           \A c \in {"V9", "V13"} \ chapters :
             \E n \in DOMAIN scans : scans[n].marks[c] = "pending"

\* The dashboard counts every active finding once by severity, and once by asset
\* if its asset is listed; the list is cut, but only beyond PostureLimit assets,
\* and an asset with a critical finding is only cut when no listed one scores
\* less than that finding (active_by_severity, asset_risk_posture).
DashboardAddsUp ==
  LET active == Active(Rows) IN
  /\ SumFunction(ActiveBySeverity(Rows)) = Cardinality(active)
  /\ \A posture \in RiskPosture(Rows, PostureLimit) :
       LET listed == {f \in active : f.asset \in DOMAIN posture} IN
       /\ SumFunction([a \in DOMAIN posture |-> posture[a].total]) = Cardinality(listed)
       /\ Cardinality({f.asset : f \in active}) <= PostureLimit => listed = active
       /\ \A f \in active \ listed : f.severity = "critical" =>
            \A a \in DOMAIN posture : posture[a].score >= RiskWeight["critical"]

\* A digest is silent only when the dashboard counts nothing serious, and lists
\* nothing on time while it leaves something overdue out (build_digest,
\* run_for_all_orgs).
DigestIsHonest ==
  LET fs == Rows
      active == Active(fs)
      bySeverity == ActiveBySeverity(fs)
  IN
  /\ Quiet(fs) => bySeverity["critical"] + bySeverity["high"] = 0
  /\ \A top \in DigestTops(fs, Limit) :
       /\ top \subseteq active /\ Cardinality(top) <= Limit
       /\ (\E f \in active \ top : f.overdue) => \A f \in top : f.overdue
       /\ active # {} => top # {}

\* A compliance report puts each of its findings under a control, and what SOC
\* chat quotes as active is active; what it quotes of the card data environment
\* is in the PCI report, in either mode, with every other active finding of that
\* environment (generate_pci_dss, _bucket_by_control, retrieve).
QuotesAreReported ==
  LET fs == Rows
      active == Active(fs)
  IN
  /\ \A standard \in Standards, cdeOnly \in BOOLEAN :
       LET rows == InReport(standard, fs, cdeOnly)
           buckets == Buckets(standard, rows)
       IN UNION {buckets[c] : c \in DOMAIN buckets} = rows
  /\ \A cdeOnly \in BOOLEAN : {f \in active : f.cde} \subseteq PciScope(fs, cdeOnly)
  /\ \A intent \in Intents : \A got \in Retrievals(fs, intent, Limit) :
         /\ got.cde \subseteq active
         /\ "false_positive" \notin intent => got.asked \subseteq active
         /\ got.hits \cap (got.cde \cup got.asked) = {}
         /\ got.cde \subseteq PciScope(fs, TRUE)

\* The readers agree on which findings there are.
ReadersAgree == DashboardAddsUp /\ DigestIsHonest /\ QuotesAreReported
=============================================================================
