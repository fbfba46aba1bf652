--------------------------- MODULE FindingReaders ---------------------------
(***************************************************************************)
(* The other readers of the findings table: the compliance reports, the    *)
(* dashboard, the digest and what SOC chat retrieves, as operators over    *)
(* the rows each of them loads.                                            *)
(*                                                                         *)
(* Beside what ReportRules reads, a finding has an id, an asset, and ctl,  *)
(* the controls it is tagged with per framework; cde (its asset holds card *)
(* data), personal (a GDPR flag, or words of its text), kev, overdue (the  *)
(* SLA date has passed), hit (a keyword of the question is in it) and own  *)
(* (its asset is of the organization that asks, as it is itself).          *)
(***************************************************************************)
EXTENDS ReportRules, FiniteSetsExt

Severities == {"critical", "high", "medium", "low", "info", "unknown"}
Ranks == [critical |-> 1, high |-> 2, medium |-> 3, low |-> 4, info |-> 5, unknown |-> 6]

Active(fs) == {f \in fs : f.status \in ActiveStatuses}
OfSeverity(fs, s) == {f \in fs : f.severity = s}

\* What may be left of a list that is cut after n.
Cut(S, n) ==
  {top \in SUBSET S : Cardinality(top) = IF n < Cardinality(S) THEN n ELSE Cardinality(S)}

\* ORDER BY severity LIMIT n: the database breaks ties as it likes.
Firsts(fs, n) ==
  {top \in Cut(fs, n) : \A f \in top, g \in fs \ top : Ranks[f.severity] <= Ranks[g.severity]}

-----------------------------------------------------------------------------
(* Compliance reports.  They load the rows of every organization.          *)

Standards == {"iso", "pci", "gdpr", "nist"}

DefaultControl == [iso |-> "A.8.8", pci |-> "11.3.1", gdpr |-> "Art.32", nist |-> "ID.RA-01"]

\* Requirements 6 and 11
ScanRequirements == {"11.2", "11.3.1", "11.3.2", "6.2.4", "6.3"}

IsGdprRisk(f) == f.personal \/ f.ctl.gdpr # {}

\* A bug: a report beyond the card data environment goes by the tags alone.
PciByControl(fs, cdeOnly) ==
  IF cdeOnly THEN {f \in fs : f.cde}
  ELSE {f \in fs : f.ctl.pci = {} \/ f.ctl.pci \cap ScanRequirements # {}}

PciScope(fs, cdeOnly) ==
  LET tagged == {f \in fs : f.cde \/ f.ctl.pci = {} \/ f.ctl.pci \cap ScanRequirements # {}}
  IN IF cdeOnly THEN {f \in fs : f.cde}
     ELSE IF \E f \in tagged : f.cde THEN tagged
     ELSE fs

InReport(standard, fs, cdeOnly) ==
  CASE standard = "pci" -> PciScope(fs, cdeOnly)
    [] standard = "gdpr" -> {f \in fs : IsGdprRisk(f)}
    [] OTHER -> fs

\* The controls a row shows; NIST's 800-53 ones only for want of others.
Shown(standard, f) ==
  LET tags == CASE standard = "gdpr" -> f.ctl.gdpr \cup f.ctl.iso
                [] standard = "nist" -> IF f.ctl.csf # {} THEN f.ctl.csf ELSE f.ctl.sp
                [] OTHER -> f.ctl[standard]
  IN IF tags = {} THEN {DefaultControl[standard]} ELSE tags

\* _bucket_by_control
Buckets(standard, rows) ==
  [c \in UNION {Shown(standard, f) : f \in rows} |-> {f \in rows : c \in Shown(standard, f)}]

-----------------------------------------------------------------------------
(* Dashboard and digest. *)

\* Ten times _RISK_WEIGHTS
RiskWeight == [critical |-> 100, high |-> 50, medium |-> 20, low |-> 10, info |-> 1, unknown |-> 5]

ActiveBySeverity(fs) == [s \in Severities |-> Cardinality(OfSeverity(Active(fs), s))]

StatusBreakdown(fs) ==
  [s \in {f.status : f \in fs} |-> Cardinality({f \in fs : f.status = s})]

\* AssetRiskSummary, of an asset with active findings
RiskOf(fs, a) ==
  LET on == {f \in Active(fs) : f.own /\ f.asset = a}
  IN [critical |-> Cardinality(OfSeverity(on, "critical")),
      high     |-> Cardinality(OfSeverity(on, "high")),
      total    |-> Cardinality(on),
      score    |-> SumFunction([f \in on |-> RiskWeight[f.severity]])]

Outranks(p, q) ==
  \/ p.score > q.score
  \/ p.score = q.score /\ p.critical > q.critical
  \/ p.score = q.score /\ p.critical = q.critical /\ p.high > q.high

\* asset_risk_posture: the first n assets, ties in the order of the rows
RiskPosture(fs, n) ==
  LET assets == {f.asset : f \in {g \in Active(fs) : g.own}}
  IN {[a \in top |-> RiskOf(fs, a)] :
        top \in {some \in Cut(assets, n) :
                   \A a \in some, b \in assets \ some : ~Outranks(RiskOf(fs, b), RiskOf(fs, a))}}

\* build_digest: overdue findings first, and others if there is room
DigestTops(fs, n) ==
  LET late == {f \in Active(fs) : f.overdue}
      room == n - Cardinality(late)
  IN IF late = {} THEN Firsts(Active(fs), n)
     ELSE IF room <= 0 THEN {top \in SUBSET late : Cardinality(top) = n}
     ELSE UNION {{late \cup rest : rest \in Firsts(top \ late, room)} : top \in Firsts(Active(fs), n)}

\* run_for_all_orgs sends no digest that has none of these.
Quiet(fs) ==
  \A f \in Active(fs) : ~f.overdue /\ f.severity \notin Serious

-----------------------------------------------------------------------------
(* What SOC chat retrieves for an intent, a set of flags. *)

\* _retrieve_pci_cde
CdeQuotes(fs, n) == Firsts({f \in Active(fs) : f.cde}, n)

\* _retrieve_vulnerabilities
Asked(fs, intent) ==
  {f \in fs :
     /\ IF "false_positive" \in intent THEN f.status = "false_positive" ELSE f.status \in ActiveStatuses
     /\ "high" \in intent => f.severity \in Serious
     /\ "critical" \in intent /\ "high" \notin intent => f.severity = "critical"
     /\ "kev" \in intent => f.kev}

\* _retrieve_keyword_hits: whatever their status, the first eight
KeywordHits(fs) == Firsts({f \in fs : f.hit}, 8)

Retrievals(fs, intent, n) ==
  LET vulns == "vulnerabilities" \in intent
      cde == IF {"pci_dss", "cde"} \cap intent # {} THEN CdeQuotes(fs, n) ELSE {{}}
      asked == IF vulns THEN Firsts(Asked(fs, intent), n) ELSE {{}}
      hits == IF vulns THEN KeywordHits(fs) ELSE {{}}
  IN {[cde |-> c, asked |-> v, hits |-> h \ (c \cup v)] : c \in cde, v \in asked, h \in hits}
=============================================================================
