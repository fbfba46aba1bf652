----------------------------- MODULE ThreatIntel -----------------------------
(***************************************************************************)
(* Threat intelligence (services/threat_intel, threat_intel_tasks): tasks  *)
(* that copy the KEV catalog into threat_intel_cves, and tasks that match  *)
(* the findings with it, asking NVD and EPSS on the way.                   *)
(*                                                                         *)
(* A task is one session: nothing of it is visible before its commit.  An  *)
(* enrichment flushes after every answer it stores, which locks that row   *)
(* and the findings it has matched so far.  A flush writes the columns     *)
(* that differ from what was loaded.  The identity map is weak: a row of   *)
(* intel nobody changed is read again.  Scans insert findings and reset    *)
(* their severity meanwhile.                                               *)
(***************************************************************************)
EXTENDS Integers, FiniteSets

CONSTANTS
  Findings,
  Cve,        \* Cve[f]: its cve_id
  Own,        \* Own[f]: the severity its scanner reports
  Cvss,       \* Cvss[f]: its cvss_score, 0 for none
  Cves,
  Nvd,        \* Nvd[c]: the page NVD answers with, or None
  Epss,       \* Epss[c]: its EPSS score in per cent, or None
  Kev, Listed,  \* the CVEs CISA may list, and those it lists at the start
  Ransom,     \* entries of the KEV catalog with known ransomware use
  Beat,       \* enrichments beat starts
  Manual,     \* enrichments of POST /threat-intel/sync
  WithNvd,    \* those that ask NVD: beat's, and requests that want it (fetch_nvd)
  Syncs,      \* KEV synchronisations, of either
  Limit,      \* Limit[e]: the LIMIT of its query (1000 for beat, enrich_limit in a request)
  Budget,     \* NVD lookups that fit in a task's time limit
  None,
  MaxFeeds,   \* bound: changes of the KEV catalog
  MaxScans,   \* bound: times a scan reports a finding
  MaxFails    \* bound: sources that fail, tasks that die

Enrichers == Beat \cup Manual
Severities == {"critical", "high", "medium", "low", "info", "unknown"}
Sources == {"cisa_kev", "nvd", "epss"}

\* A page of NVD: kinds of its references, base scores by CVSS version (-1: none).
References == {"tagged_exploit", "exploit_host", "github", "vendor"}
Page == [refs : SUBSET References, v31 : -1 .. 10, v30 : -1 .. 10, v2 : -1 .. 10]

ASSUME ConstantsAssumption ==
  /\ Cve \in [Findings -> Cves] /\ Own \in [Findings -> Severities] /\ Cvss \in [Findings -> 0 .. 10]
  /\ Nvd \in [Cves -> Page \cup {None}]
  /\ Epss \in [Cves -> 0 .. 100 \cup {None}] /\ None \notin 0 .. 100
  /\ Kev \subseteq Cves /\ Listed \subseteq Kev /\ Ransom \subseteq Kev
  /\ Beat \subseteq WithNvd /\ Beat \cap Manual = {} /\ Syncs \cap (Beat \cup Manual) = {} /\ Findings \cap Cves = {}
  /\ Limit \in [Beat \cup Manual -> Nat \ {0}]
  /\ Budget \in Nat /\ MaxFeeds \in Nat /\ MaxScans \in Nat /\ MaxFails \in Nat

VARIABLES
  feed,    \* the KEV catalog as CISA publishes it
  listed,  \* what it has ever listed (history)
  intel,   \* threat_intel_cves, as committed
  fin,     \* vulnerabilities, as committed
  enr,     \* the enrichments
  syn,     \* the KEV synchronisations
  feeds, scans, fails

vars == <<feed, listed, intel, fin, enr, syn, feeds, scans, fails>>

\* cvss: nvd_cvss_score, 0 for null.
Intel == [known : BOOLEAN, kev : BOOLEAN, exploit : BOOLEAN, ransom : BOOLEAN,
          cvss : 0 .. 10, epss : 0 .. 100 \cup {None}, sources : SUBSET Sources]
NoIntel == [known |-> FALSE, kev |-> FALSE, exploit |-> FALSE, ransom |-> FALSE,
            cvss |-> 0, epss |-> None, sources |-> {}]

\* kev: is_actively_exploited.  score: threat_risk_score, -1 for null.
Row == [found : BOOLEAN, sev : Severities, kev : BOOLEAN, exploit : BOOLEAN,
        epss : 0 .. 100 \cup {None}, score : -1 .. 100]
NoRow == [found |-> FALSE, sev |-> "unknown", kev |-> FALSE, exploit |-> FALSE,
          epss |-> None, score |-> -1]

\* rows, old: findings and intel as loaded.  out, new: as the session has them.
\* got: intel it has stored an answer in.  epss: EPSS has answered.
Session == [pc : {"idle", "selected", "flushing", "visiting"}, epss : BOOLEAN,
            todo : SUBSET Findings, rows : [Findings -> Row], out : [Findings -> Row],
            got : SUBSET Cves, old : [Cves -> Intel], new : [Cves -> Intel],
            held : SUBSET (Findings \cup Cves), lookups : Nat]
Idle == [pc |-> "idle", epss |-> FALSE, todo |-> {},
         rows |-> [f \in Findings |-> NoRow], out |-> [f \in Findings |-> NoRow],
         got |-> {}, old |-> [c \in Cves |-> NoIntel], new |-> [c \in Cves |-> NoIntel],
         held |-> {}, lookups |-> 0]

\* kev: the catalog as downloaded.
Sync == [pc : {"idle", "loaded"}, kev : SUBSET Cves, old : [Cves -> Intel]]
NoSync == [pc |-> "idle", kev |-> {}, old |-> [c \in Cves |-> NoIntel]]

TypeOK ==
  /\ feed \subseteq Kev /\ listed \subseteq Kev
  /\ intel \in [Cves -> Intel] /\ fin \in [Findings -> Row]
  /\ enr \in [Enrichers -> Session] /\ syn \in [Syncs -> Sync]
  /\ feeds \in Nat /\ scans \in Nat /\ fails \in Nat

-----------------------------------------------------------------------------
(* What the sources say, and the score. *)

\* detect_public_exploits: any link to GitHub counts.
HasExploit(page) == page.refs \cap {"tagged_exploit", "exploit_host", "github"} # {}

\* _extract_cvss: the newest version that is there.
BaseScore(page) == IF page.v31 # -1 THEN page.v31 ELSE IF page.v30 # -1 THEN page.v30 ELSE page.v2

SeverityBase == [critical |-> 90, high |-> 70, medium |-> 45, low |-> 20, info |-> 5, unknown |-> 30]
AtLeast(a, b) == IF a > b THEN a ELSE b
Boost(b, points) == IF b THEN points ELSE 0

\* compute_threat_risk_score, the intel and the row's severity as they are.
RiskScore(sev, cvss, i, epss) ==
  LET score == AtLeast(SeverityBase[sev], 10 * cvss)
               + Boost(i.kev, 25) + Boost(i.exploit, 15) + Boost(i.ransom, 10)
               + (IF epss = None THEN 0 ELSE epss \div 5)
  IN IF score > 100 THEN 100 ELSE score

KevUpserted(i, c) ==
  [i EXCEPT !.known = TRUE, !.kev = TRUE, !.ransom = c \in Ransom, !.sources = @ \cup {"cisa_kev"}]
NvdUpserted(i, page) ==
  [i EXCEPT !.known = TRUE, !.exploit = @ \/ HasExploit(page),
            !.cvss = IF BaseScore(page) # -1 THEN BaseScore(page) ELSE @,
            !.sources = @ \cup {"nvd"}]
EpssUpserted(i, epss) == [i EXCEPT !.known = TRUE, !.epss = epss, !.sources = @ \cup {"epss"}]

\* The columns a session changed; the others keep what others committed.
Column(cur, old, new) == IF new # old THEN new ELSE cur

\* A bug: a row that was changed is written whole.
WrittenWhole(cur, old, new) == IF new = old THEN cur ELSE new

Written(cur, old, new) == [k \in DOMAIN cur |-> Column(cur[k], old[k], new[k])]

-----------------------------------------------------------------------------
(* The world outside: scanners and CISA. *)

Locked(x) == \E e \in Enrichers : x \in enr[e].held

\* An ingest inserts the finding, or sets its severity to the report's.
Report(f) ==
  /\ scans < MaxScans /\ ~Locked(f)
  /\ scans' = scans + 1
  /\ fin' = [fin EXCEPT ![f] = IF @.found THEN [@ EXCEPT !.sev = Own[f]]
                               ELSE [NoRow EXCEPT !.found = TRUE, !.sev = Own[f]]]
  /\ UNCHANGED <<feed, listed, intel, enr, syn, feeds, fails>>

\* CISA adds an entry, or takes one back.
ChangeFeed(c) ==
  /\ feeds < MaxFeeds
  /\ feeds' = feeds + 1
  /\ feed' = IF c \in feed THEN feed \ {c} ELSE feed \cup {c}
  /\ listed' = listed \cup feed'
  /\ UNCHANGED <<intel, fin, enr, syn, scans, fails>>

-----------------------------------------------------------------------------
(* sync_kev_catalog. *)

Download(k) ==
  /\ syn[k].pc = "idle"
  /\ syn' = [syn EXCEPT ![k] = [pc |-> "loaded", kev |-> feed, old |-> intel]]
  /\ UNCHANGED <<feed, listed, intel, fin, enr, feeds, scans, fails>>

Upserted(k) == [c \in Cves |-> IF c \in syn[k].kev THEN KevUpserted(syn[k].old[c], c) ELSE syn[k].old[c]]
Upserts(k) == {c \in Cves : Upserted(k)[c] # syn[k].old[c]}

\* The flush waits for the rows it writes; an entry that somebody has inserted
\* since is refused, and the whole catalog with it.
Ready(k) == syn[k].pc = "loaded" /\ \A c \in Upserts(k) : ~Locked(c)
InsertedSince(S, old) == \E c \in S : ~old[c].known /\ intel[c].known

SaveKev(k) ==
  /\ Ready(k) /\ ~InsertedSince(Upserts(k), syn[k].old)
  /\ intel' = [c \in Cves |-> Written(intel[c], syn[k].old[c], Upserted(k)[c])]
  /\ syn' = [syn EXCEPT ![k] = NoSync]
  /\ UNCHANGED <<feed, listed, fin, enr, feeds, scans, fails>>

KevConflict(k) ==
  /\ Ready(k) /\ InsertedSince(Upserts(k), syn[k].old)
  /\ syn' = [syn EXCEPT ![k] = NoSync]
  /\ UNCHANGED <<feed, listed, intel, fin, enr, feeds, scans, fails>>

\* The feed cannot be read, or the worker dies.  The record of the run, failed
\* or not, goes with the transaction.
SyncFails(k) ==
  /\ syn[k].pc = "loaded" /\ fails < MaxFails
  /\ fails' = fails + 1
  /\ syn' = [syn EXCEPT ![k] = NoSync]
  /\ UNCHANGED <<feed, listed, intel, fin, enr, feeds, scans>>

-----------------------------------------------------------------------------
(* enrich_vulnerabilities. *)

SessionOnly == UNCHANGED <<feed, listed, intel, fin, syn, feeds, scans>>
Becomes(e, s) == enr' = [enr EXCEPT ![e] = s]

\* What LIMIT n leaves of a result without an order.
Limited(S, n) == {B \in SUBSET S : Cardinality(B) <= n /\ (B = S \/ Cardinality(B) = n)}

Batch(S) == [f \in Findings |-> IF f \in S THEN fin[f] ELSE NoRow]
Load(e, S) ==
  Becomes(e, [Idle EXCEPT !.pc = "selected", !.todo = S, !.rows = Batch(S), !.out = Batch(S)])

\* A bug: only_unenriched.
SelectUnenriched(e) ==
  /\ enr[e].pc = "idle"
  /\ \E S \in Limited({f \in Findings : fin[f].found /\ fin[f].score = -1}, Limit[e]) \ {{}} : Load(e, S)
  /\ SessionOnly /\ UNCHANGED fails

\* Some of the findings there are; with nothing to do a task changes nothing.
Select(e) ==
  /\ enr[e].pc = "idle"
  /\ \E S \in Limited({f \in Findings : fin[f].found}, Limit[e]) \ {{}} : Load(e, S)
  /\ SessionOnly /\ UNCHANGED fails

Scored(S) == {c \in {Cve[f] : f \in S} : Epss[c] # None}

\* fetch_epss_scores, and every answer stored; the flushes are taken as one.
AskEpss(e) ==
  LET S == Scored(enr[e].todo) IN
  /\ enr[e].pc = "selected"
  /\ Becomes(e, [enr[e] EXCEPT
       !.pc = "flushing", !.epss = TRUE, !.got = S,
       !.old = [c \in Cves |-> IF c \in S THEN intel[c] ELSE NoIntel],
       !.new = [c \in Cves |-> IF c \in S THEN EpssUpserted(intel[c], Epss[c]) ELSE NoIntel]])
  /\ SessionOnly /\ UNCHANGED fails

\* A batch that cannot be had is logged and left out.
EpssDown(e) ==
  /\ enr[e].pc = "selected" /\ fails < MaxFails
  /\ fails' = fails + 1
  /\ Becomes(e, [enr[e] EXCEPT !.pc = "visiting"])
  /\ SessionOnly

\* What a flush writes: scores are stored with the time, so their rows always.
Touched(s) == {c \in s.got : s.new[c] # s.old[c] \/ (s.epss /\ Epss[c] # None)}
              \cup {f \in Findings : s.rows[f].found /\ f \notin s.todo}
WaitsFor(e, o) == o # e /\ Touched(enr[e]) \cap enr[o].held # {}
Waiting(e) == enr[e].pc = "flushing" \/ (enr[e].pc = "visiting" /\ enr[e].todo = {})
CanLock(e) == \A o \in Enrichers : ~WaitsFor(e, o)
Fresh(s) == s.got \ s.held

Flush(e) ==
  /\ enr[e].pc = "flushing" /\ CanLock(e)
  /\ ~InsertedSince(Fresh(enr[e]), enr[e].old)
  /\ Becomes(e, [enr[e] EXCEPT !.pc = "visiting", !.held = @ \cup Touched(enr[e])])
  /\ SessionOnly /\ UNCHANGED fails

Conflict(e) ==
  /\ enr[e].pc = "flushing" /\ CanLock(e)
  /\ InsertedSince(Fresh(enr[e]), enr[e].old)
  /\ Becomes(e, Idle)
  /\ SessionOnly /\ UNCHANGED fails

\* The intel the session works with: what it has stored, or what is committed.
View(e, c) == IF c \in enr[e].got THEN enr[e].new[c] ELSE intel[c]
Old(e, c) == IF c \in enr[e].got THEN enr[e].old[c] ELSE intel[c]
NeedsNvd(e, f) == e \in WithNvd /\ "nvd" \notin View(e, Cve[f]).sources

Promoted(sev, i) == IF i.kev /\ sev \in {"low", "info", "unknown"} THEN "high" ELSE sev

\* The score is that of the severity before the promotion.
Enriched(r, f, i, epss) ==
  [found |-> r.found, sev |-> Promoted(r.sev, i), kev |-> i.kev, exploit |-> i.exploit, epss |-> epss,
   score |-> RiskScore(r.sev, IF Cvss[f] # 0 THEN Cvss[f] ELSE i.cvss, i, epss)]

Seen(e, f, i) ==
  [enr[e] EXCEPT !.todo = @ \ {f}, !.out[f] = Enriched(enr[e].rows[f], f, i, i.epss)]

\* A bug: whatever has an entry in the table counts as exploited.
MatchedAny(e, f) == LET i == View(e, Cve[f]) IN Seen(e, f, [i EXCEPT !.kev = i.known])

\* EPSS falls back to the score of an earlier run.
Matched(e, f) == Seen(e, f, View(e, Cve[f]))

Match(e, f) ==
  /\ enr[e].pc = "visiting" /\ f \in enr[e].todo /\ ~NeedsNvd(e, f)
  /\ Becomes(e, Matched(e, f))
  /\ SessionOnly /\ UNCHANGED fails

\* fetch_nvd_cve.  NVD is asked again in each run about a CVE it does not know,
\* and never again about one it does.
Lookup(e, f) ==
  LET c == Cve[f] IN
  /\ enr[e].pc = "visiting" /\ f \in enr[e].todo /\ NeedsNvd(e, f) /\ enr[e].lookups < Budget
  /\ Becomes(e, IF Nvd[c] = None
                THEN [Matched(e, f) EXCEPT !.lookups = @ + 1]
                ELSE [enr[e] EXCEPT !.pc = "flushing", !.lookups = @ + 1, !.got = @ \cup {c},
                        !.old[c] = Old(e, c), !.new[c] = NvdUpserted(View(e, c), Nvd[c])])
  /\ SessionOnly /\ UNCHANGED fails

\* The soft time limit: everything the session has learnt is rolled back.
Overrun(e) ==
  /\ enr[e].pc = "visiting" /\ enr[e].lookups = Budget /\ \E f \in enr[e].todo : NeedsNvd(e, f)
  /\ Becomes(e, Idle)
  /\ SessionOnly /\ UNCHANGED fails

Deadlocked(e) ==
  \E S \in SUBSET Enrichers :
    e \in S /\ \A p \in S : Waiting(p) /\ \E q \in S : WaitsFor(p, q)

\* The database ends a deadlock at the cost of one of its sessions.
Victim(e) ==
  /\ Deadlocked(e)
  /\ Becomes(e, Idle)
  /\ SessionOnly /\ UNCHANGED fails

\* NVD answers with an error, the worker dies, or the session is a victim.
Fail(e) ==
  /\ enr[e].pc # "idle" /\ (fails < MaxFails \/ Deadlocked(e))
  /\ fails' = IF Deadlocked(e) THEN fails ELSE fails + 1
  /\ Becomes(e, Idle)
  /\ SessionOnly

Finish(e) ==
  LET s == enr[e] IN
  /\ s.pc = "visiting" /\ s.todo = {} /\ CanLock(e)
  /\ intel' = [c \in Cves |-> IF c \in s.got THEN Written(intel[c], s.old[c], s.new[c]) ELSE intel[c]]
  /\ fin' = [f \in Findings |-> Written(fin[f], s.rows[f], s.out[f])]
  /\ Becomes(e, Idle)
  /\ UNCHANGED <<feed, listed, syn, feeds, scans, fails>>

-----------------------------------------------------------------------------
Init ==
  /\ feed = Listed /\ listed = Listed
  /\ intel = [c \in Cves |-> NoIntel] /\ fin = [f \in Findings |-> NoRow]
  /\ enr = [e \in Enrichers |-> Idle] /\ syn = [k \in Syncs |-> NoSync]
  /\ feeds = 0 /\ scans = 0 /\ fails = 0

Step(e) ==
  \/ AskEpss(e) \/ Flush(e) \/ Conflict(e) \/ Overrun(e) \/ Finish(e)
  \/ \E f \in Findings : Match(e, f) \/ Lookup(e, f)

Next ==
  \/ \E f \in Findings : Report(f)
  \/ \E c \in Kev : ChangeFeed(c)
  \/ \E k \in Syncs : Download(k) \/ SaveKev(k) \/ KevConflict(k) \/ SyncFails(k)
  \/ \E e \in Enrichers : Select(e) \/ Step(e) \/ EpssDown(e) \/ Fail(e)

Spec == Init /\ [][Next]_vars

\* Beat starts its tasks again and again, what is started goes on, and a lock
\* is given to those who wait for it in turn.
Fairness ==
  /\ \A k \in Syncs : WF_vars(Download(k)) /\ SF_vars(SaveKev(k) \/ KevConflict(k))
  /\ \A e \in Beat : WF_vars(Select(e))
  /\ \A e \in Enrichers : WF_vars(Step(e) \/ Victim(e)) /\ SF_vars(Flush(e) \/ Conflict(e) \/ Finish(e))
FairSpec == Spec /\ Fairness

-----------------------------------------------------------------------------
(* Properties. *)

\* What a finding says of exploitation was said by CISA or NVD, and is in the
\* table it was matched with: no session that was rolled back leaves a flag
\* (enrich_vulnerabilities, upsert_kev_entries).
FlagsAreFounded ==
  /\ \A f \in Findings :
       /\ fin[f].kev => intel[Cve[f]].kev
       /\ fin[f].exploit => intel[Cve[f]].exploit
  /\ \A c \in Cves :
       /\ intel[c].kev => c \in listed
       /\ intel[c].exploit => Nvd[c] # None /\ HasExploit(Nvd[c])

\* What is known of exploitation is never unlearnt, although overlapping
\* sessions write what they computed from rows they read minutes before
\* (enrich_vulnerabilities, upsert_nvd_enrichment).
ExposureIsKept ==
  [][/\ \A c \in Cves : (intel[c].kev => intel'[c].kev) /\ (intel[c].exploit => intel'[c].exploit)
     /\ \A f \in Findings : (fin[f].kev => fin'[f].kev) /\ (fin[f].exploit => fin'[f].exploit)]_vars

\* What a finding should say by what the sources say now.
Current(f) ==
  LET c == Cve[f]
      i == intel[c]
  IN /\ c \in feed => i.kev
     /\ Nvd[c] # None => (HasExploit(Nvd[c]) => i.exploit)
     /\ fin[f].kev = i.kev /\ fin[f].exploit = i.exploit
     /\ Promoted(fin[f].sev, i) = fin[f].sev
     /\ fin[f].score = RiskScore(fin[f].sev, IF Cvss[f] # 0 THEN Cvss[f] ELSE i.cvss, i, Epss[c])

\* Lookups the next run has before it.
Outstanding == {f \in Findings : fin[f].found /\ "nvd" \notin intel[Cve[f]].sources}

\* A run of beat under way took f, or a batch without it.
Selected(f) == \E e \in Beat : enr[e].pc # "idle" /\ enr[e].rows[f].found
PassedOver(f) == fin[f].found /\ \E e \in Beat : enr[e].pc # "idle" /\ ~enr[e].rows[f].found

\* Once scans, the catalog and failures leave it in peace, threat intelligence
\* comes to the truth about a finding and stays there, whatever runs overlapped,
\* lost each other's columns or refused each other's rows; unless the lookups
\* outlast the time limit of a run, or the LIMIT passes the finding over from
\* some time on, as the query has no order (enrich_vulnerabilities,
\* sync_kev_catalog).
EnrichmentConverges ==
  \A f \in Findings :
    \/ []<>PassedOver(f) /\ <>[]~Selected(f)
    \/ <>[](Cardinality(Outstanding) > Budget \/ (fin[f].found => Current(f)))
=============================================================================
