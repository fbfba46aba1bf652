---------------------------- MODULE ReportRules ----------------------------
(***************************************************************************)
(* What an engagement report says of the scans and findings in its scope   *)
(* (engagement_report_service, engagement_standards): operators over the   *)
(* rows that were loaded.                                                  *)
(*                                                                         *)
(* A finding is a record with severity, status, retest (last_retest_scan_id*)
(* is set) and owasp (the Top 10 category of its title and CWE); a scan has *)
(* type, engine, roe, authenticated, and marks: what its config says by     *)
(* hand of each phase and chapter (ptes_checklist, asvs_checklist), if     *)
(* anything: "unclear" is neither a yes nor a no.                          *)
(***************************************************************************)
EXTENDS Integers

Statuses == {"open", "in_progress", "false_positive", "resolved",
             "confirmed", "accepted_risk", "remediated", "reopened"}
ActiveStatuses == {"open", "in_progress", "confirmed", "reopened"}
Serious == {"critical", "high"}
VaEngines == {"nuclei", "openvas", "zap", "nexusec"}

Types(scans) == {s.type : s \in scans}
Engines(scans) == {s.engine : s \in scans}

-----------------------------------------------------------------------------
(* Verification. *)

\* A bug: a resolved finding does not count as closed.
VerificationForgets(f) ==
  IF f.status = "false_positive" THEN "false_positive"
  ELSE IF f.status = "remediated" THEN IF f.retest THEN "closed_with_retest" ELSE "closed_without_retest"
  ELSE IF f.retest THEN "retested" ELSE "unverified"

\* _verification_state
VerificationState(f) ==
  IF f.status = "false_positive" THEN "false_positive"
  ELSE IF f.status \in {"remediated", "resolved"}
       THEN IF f.retest THEN "closed_with_retest" ELSE "closed_without_retest"
  ELSE IF f.retest THEN "retested" ELSE "unverified"

\* _build_verification_matrix: the gap a row shows
Gap(f) ==
  IF VerificationState(f) = "closed_without_retest" THEN "closed without retest"
  ELSE IF f.severity \in Serious /\ f.status \in ActiveStatuses /\ ~f.retest
       THEN "active without retest"
  ELSE IF VerificationState(f) = "unverified" /\ f.status \in ActiveStatuses THEN "no retest yet"
  ELSE "none"

ClosedWithoutRetest(fs) == {f \in fs : VerificationState(f) = "closed_without_retest"}
OpenWithoutRetest(fs) ==
  {f \in fs : f.severity \in Serious /\ f.status \in ActiveStatuses /\ ~f.retest}

-----------------------------------------------------------------------------
(* Checklists. *)

\* _resolve_engagement_type: of the scans, unless one was asked for
EngagementType(scans, requested) ==
  IF requested \in {"va", "pt", "discovery", "compliance", "custom"} THEN requested
  ELSE IF scans = {} THEN "custom"
  ELSE IF \E t \in Types(scans) : Types(scans) = {t} THEN CHOOSE t \in Types(scans) : TRUE
  ELSE "mixed"

Confirmed(fs) == {f \in fs : f.status = "confirmed"}

\* _build_playbook: the steps that are done; any scan counts, whatever became
\* of it.
Playbook(scans, fs, type, approved, delivery) ==
  LET fixed == {f \in fs : f.status \in {"remediated", "resolved"}}
      retested == {f \in fs : f.retest}
      steps == [discovery |-> "discovery" \in Types(scans) \/ Engines(scans) \cap {"nmap", "osint"} # {},
                va        |-> "va" \in Types(scans) \/ Engines(scans) \cap VaEngines # {},
                pt        |-> Confirmed(fs) # {} \/ type # "pt",
                fixes     |-> fixed # {} \/ fs = {},
                retests   |-> retested # {} \/ fixed = {},
                approval  |-> approved \/ delivery = "draft"]
  IN {s \in DOMAIN steps : steps[s]}

PtesPhases == {"pre_engagement", "intelligence_gathering", "threat_modeling",
               "vulnerability_analysis", "exploitation", "post_exploitation", "reporting"}
HumanPhases == {"pre_engagement", "threat_modeling", "exploitation", "post_exploitation"}

\* build_ptes_checklist, before a pentester's word
PtesAuto(scans, fs, type, approved, delivery) ==
  LET auto == [pre_engagement         |-> \E s \in scans : s.roe,
               intelligence_gathering |-> "discovery" \in Types(scans) \/ Engines(scans) \cap {"nmap", "osint"} # {},
               threat_modeling        |-> FALSE,
               vulnerability_analysis |-> "va" \in Types(scans) \/ Engines(scans) \cap VaEngines # {},
               exploitation           |-> Confirmed(fs) # {} /\ type = "pt",
               post_exploitation      |-> FALSE,
               reporting              |-> approved \/ delivery = "draft"]
  IN {p \in PtesPhases : auto[p]}

\* merge_checklist_overrides_from_scans: of the scans that mark an item the one
\* loaded last, though no order is asked for.
Says(loaded, i, word) ==
  \E n \in DOMAIN loaded :
    /\ loaded[n].marks[i] = word
    /\ \A m \in DOMAIN loaded : m > n => loaded[m].marks[i] = "none"

\* _override_done: an unclear mark hides an earlier one and leaves the item to
\* the tools.
Merged(loaded, items, auto) ==
  {i \in items : Says(loaded, i, "done") \/ (i \in auto /\ ~Says(loaded, i, "pending"))}

Ptes(loaded, auto) == Merged(loaded, PtesPhases, auto)

AsvsChapters ==
  {"V1", "V2", "V3", "V4", "V5", "V7", "V8", "V9", "V10", "V11", "V12", "V13", "V14"}

\* build_asvs_checklist, before a pentester's word: the chapters with a signal
AsvsAuto(scans, fs) ==
  LET seen == {f.owasp : f \in fs}
      dast == "zap" \in Engines(scans)
      va == Engines(scans) \cap VaEngines # {}
      auto == [V1  |-> FALSE,
               V2  |-> (\E s \in scans : s.authenticated) \/ "A07" \in seen,
               V3  |-> "A07" \in seen,
               V4  |-> "A01" \in seen,
               V5  |-> "A03" \in seen \/ dast,
               V7  |-> {"A09", "A05"} \cap seen # {},
               V8  |-> "A02" \in seen,
               V9  |-> "A02" \in seen \/ va,
               V10 |-> FALSE,
               V11 |-> FALSE,
               V12 |-> "A01" \in seen,
               V13 |-> dast \/ va,
               V14 |-> {"A05", "A06"} \cap seen # {}]
  IN {c \in AsvsChapters : auto[c]}

Asvs(loaded, fs) == Merged(loaded, AsvsChapters, AsvsAuto({loaded[n] : n \in DOMAIN loaded}, fs))

-----------------------------------------------------------------------------
(* The report. *)

\* Warnings of generate, for findings fs and the scans in the order in which
\* they were loaded.
Warnings(loaded, fs, type, approved, delivery) ==
  LET scans == {loaded[n] : n \in DOMAIN loaded}
      steps == Playbook(scans, fs, type, approved, delivery)
      phases == Ptes(loaded, PtesAuto(scans, fs, type, approved, delivery))
  IN {w \in {"verification", "playbook", "human", "draft"} :
        \/ w = "verification" /\ ClosedWithoutRetest(fs) \cup OpenWithoutRetest(fs) # {}
        \/ w = "playbook" /\ delivery = "client" /\ ~({"discovery", "va", "pt"} \subseteq steps)
        \/ w = "human" /\ delivery = "client" /\ type = "pt" /\ ~(HumanPhases \subseteq phases)
        \/ w = "draft" /\ delivery = "draft"}
=============================================================================
