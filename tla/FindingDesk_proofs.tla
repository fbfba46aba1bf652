-------------------------- MODULE FindingDesk_proofs --------------------------
(***************************************************************************)
(* Theorems about FindingDesk and the modules it is composed of: the AI    *)
(* settings, the engagement report and the other readers of the findings.  *)
(*                                                                         *)
(* DeskIInv is the inductive invariant.  To TypeOK it adds what a request  *)
(* carries from one step to the next: the columns it is going to write are *)
(* well formed, hold a template only where MockAllowed, and, unless an     *)
(* analyst sent the request, are the columns of the model's advice alone.  *)
(* A row can only be as good as what was flushed before its commit.        *)
(***************************************************************************)
EXTENDS FindingDesk, FiniteSetTheorems, TLAPS

-----------------------------------------------------------------------------
(***************************************************************************)
(* The settings page.                                                      *)
(***************************************************************************)

LEMMA RowIsSetting == ASSUME SettingsTypeOK PROVE Row \in Setting
BY DEF SettingsTypeOK, Row, Blank, Setting

LEMMA MergeIsSetting ==
  ASSUME NEW s \in Setting, NEW new \in Payload PROVE Merge(s, new) \in Setting
BY SettingsAssumption DEF Merge, MergeBase, Setting, Payload

LEMMA SettingsInitHolds == ASSUME SettingsInit PROVE SettingsTypeOK
BY DEF SettingsInit, SettingsTypeOK, Fresh

LEMMA SettingsNextHolds == ASSUME SettingsTypeOK, SettingsNext PROVE SettingsTypeOK'
<1>1. /\ stored \in Setting \cup {None} /\ shared \in Setting \cup {None}
      /\ cache \in [Procs -> Setting \cup {None}]
      /\ Row \in Setting
      /\ page \in [Admins -> {Fresh, Ended}
            \cup [pc : {"read"}, proc : Procs, seen : Setting]
            \cup [pc : {"merged", "flushed"}, proc : Procs, first : BOOLEAN, new : Setting]]
  BY RowIsSetting DEF SettingsTypeOK
<1>2. PICK a \in Admins :
        \/ \E p \in Procs : AskView(a, p) \/ \E new \in Payload : AskSave(a, p, new)
        \/ Load(a) \/ FlushSave(a) \/ CommitSave(a) \/ SaveFails(a)
  BY DEF SettingsNext
<1>3. CASE \E p \in Procs : AskView(a, p)
  BY <1>1, <1>3 DEF AskView, SettingsTypeOK
<1>4. ASSUME NEW p \in Procs, NEW new \in Payload, AskSave(a, p, new)
      PROVE  SettingsTypeOK'
  <2>1. Merge(Row, new) \in Setting
    BY <1>1, MergeIsSetting
  <2>2. QED
    BY <1>1, <1>4, <2>1 DEF AskSave, SettingsTypeOK
<1>5. CASE Load(a)
  <2>1. page[a].proc \in Procs /\ page[a].seen \in Setting
    BY <1>1, <1>5 DEF Load, Fresh, Ended
  <2>2. QED
    BY <1>1, <1>5, <2>1 DEF Load, SetCached, SettingsTypeOK
<1>6. CASE FlushSave(a)
  <2>1. page[a] \in [pc : {"merged", "flushed"}, proc : Procs, first : BOOLEAN, new : Setting]
    BY <1>1, <1>6 DEF FlushSave, Fresh, Ended
  <2>2. [page[a] EXCEPT !.pc = "flushed"] \in
          [pc : {"merged", "flushed"}, proc : Procs, first : BOOLEAN, new : Setting]
    BY <2>1
  <2>3. CASE page[a].first /\ stored # None
    BY <1>1, <1>6, <2>3 DEF FlushSave, SettingsTypeOK
  <2>4. CASE ~(page[a].first /\ stored # None)
    <3>1. page' = [page EXCEPT ![a] = [page[a] EXCEPT !.pc = "flushed"]]
      BY <1>1, <1>6, <2>4 DEF FlushSave
    <3>2. page' \in [Admins -> {Fresh, Ended}
            \cup [pc : {"read"}, proc : Procs, seen : Setting]
            \cup [pc : {"merged", "flushed"}, proc : Procs, first : BOOLEAN, new : Setting]]
      BY <1>1, <2>2, <3>1
    <3>3. UNCHANGED stored /\ cache' \in [Procs -> Setting \cup {None}] /\ shared' \in Setting
      BY <1>1, <1>6, <2>1, <2>4 DEF FlushSave, SetCached
    <3>4. QED
      BY <1>1, <3>2, <3>3 DEF SettingsTypeOK
  <2>5. QED
    BY <2>3, <2>4
<1>7. CASE CommitSave(a) \/ SaveFails(a)
  <2>1. page[a].new \in Setting
    BY <1>1, <1>7 DEF CommitSave, SaveFails, Fresh, Ended
  <2>2. QED
    BY <1>1, <1>7, <2>1 DEF CommitSave, SaveFails, SettingsTypeOK
<1>8. QED
  BY <1>2, <1>3, <1>4, <1>5, <1>6, <1>7

\* A masked key is no key, and a base URL that was made of another stays.
LEMMA ViewIsNeutral == ASSUME SettingsTypeOK PROVE SavingTheViewIsNeutral
<1>1. /\ None \notin Keys \cup Bases \cup {Masked} /\ Masked \notin Keys /\ "" \notin Bases
      /\ \A b \in Bases : Api[b] \in Bases /\ Api[Api[b]] = Api[b]
      /\ EnvBase \in Bases
  BY SettingsAssumption
<1>2. Row \in Setting
  BY RowIsSetting
<1> DEFINE base == IF Row.base # None THEN Row.base ELSE EnvBase
<1> DEFINE saved == Merge(Row, [key |-> View(Row).key, base |-> View(Row).base, clear |-> FALSE])
<1>3. base \in Bases
  BY <1>1, <1>2 DEF Setting
<1>4. View(Row).key \in {None, Masked} /\ View(Row).base = Api[base]
  BY DEF View, Effective
<1>5. saved.key = Row.key /\ saved.base = Api[Api[base]]
  BY <1>1, <1>3, <1>4 DEF Merge, MergeBase
<1>6. Effective(saved) = Effective(Row)
  BY <1>1, <1>3, <1>5 DEF Effective
<1>7. QED
  BY <1>6 DEF SavingTheViewIsNeutral

-----------------------------------------------------------------------------
(***************************************************************************)
(* Reports.                                                                *)
(***************************************************************************)

LEMMA RowsAreRead ==
  ASSUME NEW f \in Findings
  PROVE  \E x \in Rows : /\ x.id = f /\ x.status = row[f].status /\ x.retest = row[f].retest
                         /\ x.severity = Severity[f]
<1> DEFINE x == [id |-> f, severity |-> Severity[f], owasp |-> Owasp[f], status |-> row[f].status,
                 retest |-> row[f].retest, ctl |-> [Tags[f] EXCEPT !.csf = @ \cup row[f].controls],
                 asset |-> Traits[f].asset, cde |-> Traits[f].cde, personal |-> Traits[f].personal,
                 kev |-> Traits[f].kev, overdue |-> Traits[f].overdue, hit |-> Traits[f].hit,
                 own |-> TRUE]
<1>1. x \in Rows
  BY DEF Rows
<1>2. x.id = f /\ x.status = row[f].status /\ x.retest = row[f].retest /\ x.severity = Severity[f]
  OBVIOUS
<1>3. QED
  BY <1>1, <1>2

LEMMA RowsAreFindings ==
  ASSUME NEW x \in Rows
  PROVE  \E f \in Findings : x.id = f /\ x.status = row[f].status
BY DEF Rows

Discovered(scans) == "discovery" \in Types(scans) \/ Engines(scans) \cap {"nmap", "osint"} # {}
Assessed(scans) == "va" \in Types(scans) \/ Engines(scans) \cap VaEngines # {}

\* What a step of the playbook and a phase of the PTES checklist stand for.
LEMMA StepsStandFor ==
  ASSUME NEW scans, NEW fs, NEW type, NEW approved, NEW delivery
  PROVE  LET steps == Playbook(scans, fs, type, approved, delivery) IN
         /\ "discovery" \in steps <=> Discovered(scans)
         /\ "va" \in steps <=> Assessed(scans)
         /\ "pt" \in steps <=> (Confirmed(fs) # {} \/ type # "pt")
         /\ "approval" \in steps <=> (approved \/ delivery = "draft")
BY DEF Playbook, Discovered, Assessed

LEMMA PhasesStandFor ==
  ASSUME NEW scans, NEW fs, NEW type, NEW approved, NEW delivery
  PROVE  LET phases == PtesAuto(scans, fs, type, approved, delivery) IN
         /\ "intelligence_gathering" \in phases <=> Discovered(scans)
         /\ "vulnerability_analysis" \in phases <=> Assessed(scans)
         /\ "exploitation" \in phases <=> (Confirmed(fs) # {} /\ type = "pt")
         /\ "reporting" \in phases <=> (approved \/ delivery = "draft")
         /\ "threat_modeling" \notin phases /\ "post_exploitation" \notin phases
BY DEF PtesAuto, PtesPhases, Discovered, Assessed

LEMMA ChaptersStandFor ==
  ASSUME NEW scans, NEW fs, NEW s \in scans, s.engine \in VaEngines
  PROVE  {"V9", "V13"} \subseteq AsvsAuto(scans, fs)
<1>1. Engines(scans) \cap VaEngines # {}
  BY DEF Engines
<1>2. "V9" \in AsvsAuto(scans, fs)
  BY <1>1 DEF AsvsAuto, AsvsChapters
<1>3. "V13" \in AsvsAuto(scans, fs)
  BY <1>1 DEF AsvsAuto, AsvsChapters
<1>4. QED
  BY <1>2, <1>3

\* A client report that warns of nothing.
LEMMA SilenceMeans ==
  ASSUME NEW loaded, NEW fs, NEW type, NEW approved,
         Warnings(loaded, fs, type, approved, "client") = {}
  PROVE  LET scans == {loaded[n] : n \in DOMAIN loaded}
             steps == Playbook(scans, fs, type, approved, "client")
             phases == Ptes(loaded, PtesAuto(scans, fs, type, approved, "client"))
         IN /\ ClosedWithoutRetest(fs) = {} /\ OpenWithoutRetest(fs) = {}
            /\ "discovery" \in steps /\ "va" \in steps /\ "pt" \in steps
            /\ type = "pt" => HumanPhases \subseteq phases
BY DEF Warnings

\* An item no tool sees is done by a pentester's mark that nobody took back ...
LEMMA MarkStands ==
  ASSUME NEW loaded, NEW items, NEW auto, NEW i \in Merged(loaded, items, auto), i \notin auto
  PROVE  \E n \in DOMAIN loaded :
           /\ loaded[n].marks[i] = "done"
           /\ \A m \in DOMAIN loaded : m > n => loaded[m].marks[i] \in {"none", "done"}
<1>1. PICK n \in DOMAIN loaded :
        /\ loaded[n].marks[i] = "done"
        /\ \A m \in DOMAIN loaded : m > n => loaded[m].marks[i] = "none"
  BY DEF Merged, Says
<1>2. QED
  BY <1>1

\* ... and one the tools see is missing by a mark.
LEMMA MarkHides ==
  ASSUME NEW loaded, NEW items, NEW auto, NEW i \in items \cap auto, i \notin Merged(loaded, items, auto)
  PROVE  \E n \in DOMAIN loaded : loaded[n].marks[i] = "pending"
BY DEF Merged, Says

\* What a silent report comes to.
Clean(scans, InScope, type, phases, chapters) ==
  /\ \A f \in Findings :
       \/ row[f].status \in {"remediated", "resolved"}
       \/ row[f].status \in ActiveStatuses /\ Severity[f] \in Serious
       => row[f].retest
  /\ \E s \in InScope : s.type = "discovery" \/ s.engine \in {"nmap", "osint"}
  /\ \E s \in InScope : s.type = "va" \/ s.engine \in VaEngines
  /\ type = "pt" =>
       /\ \E f \in Findings : row[f].status = "confirmed"
       /\ \A p \in {"threat_modeling", "post_exploitation"} :
            \E n \in DOMAIN scans :
              /\ scans[n].marks[p] = "done"
              /\ \A m \in DOMAIN scans : m > n => scans[m].marks[p] \in {"none", "done"}
  /\ \A p \in {"intelligence_gathering", "vulnerability_analysis"} \ phases :
       \E n \in DOMAIN scans : scans[n].marks[p] = "pending"
  /\ (\E s \in InScope : s.engine \in VaEngines) =>
       \A c \in {"V9", "V13"} \ chapters :
         \E n \in DOMAIN scans : scans[n].marks[c] = "pending"

LEMMA SilenceIsClean == SilentReportIsClean
<1>1. SUFFICES ASSUME NEW scans \in ScanLists, NEW requested \in {"any", "pt"}, NEW approved \in BOOLEAN,
                      Warnings(scans, Rows, EngagementType({scans[n] : n \in DOMAIN scans}, requested),
                               approved, "client") = {}
               PROVE  LET InScope == {scans[n] : n \in DOMAIN scans}
                          type == EngagementType(InScope, requested)
                      IN Clean(scans, InScope, type, Ptes(scans, PtesAuto(InScope, Rows, type, approved, "client")),
                               Asvs(scans, Rows))
  BY DEF SilentReportIsClean, Clean
<1> DEFINE InScope == {scans[n] : n \in DOMAIN scans}
           type == EngagementType(InScope, requested)
           auto == PtesAuto(InScope, Rows, type, approved, "client")
           steps == Playbook(InScope, Rows, type, approved, "client")
           phases == Ptes(scans, auto)
           chapters == Asvs(scans, Rows)
<1> HIDE DEF type
<1>2. /\ ClosedWithoutRetest(Rows) = {} /\ OpenWithoutRetest(Rows) = {}
      /\ "discovery" \in steps /\ "va" \in steps /\ "pt" \in steps
      /\ type = "pt" => HumanPhases \subseteq phases
  BY <1>1, SilenceMeans DEF type
<1>3. ASSUME NEW f \in Findings,
             \/ row[f].status \in {"remediated", "resolved"}
             \/ row[f].status \in ActiveStatuses /\ Severity[f] \in Serious
      PROVE  row[f].retest
  <2>1. PICK x \in Rows : x.status = row[f].status /\ x.retest = row[f].retest
                          /\ x.severity = Severity[f]
    BY RowsAreRead
  <2>2. QED
    BY <1>2, <1>3, <2>1 DEF ClosedWithoutRetest, OpenWithoutRetest, VerificationState
<1>4. Discovered(InScope) /\ Assessed(InScope)
  BY <1>2, StepsStandFor
<1>5. /\ \E s \in InScope : s.type = "discovery" \/ s.engine \in {"nmap", "osint"}
      /\ \E s \in InScope : s.type = "va" \/ s.engine \in VaEngines
  BY <1>4 DEF Discovered, Assessed, Types, Engines
<1>6. ASSUME type = "pt" PROVE \E f \in Findings : row[f].status = "confirmed"
  <2>1. PICK x \in Rows : x.status = "confirmed"
    BY <1>2, <1>6, StepsStandFor DEF Confirmed
  <2>2. QED
    BY <2>1, RowsAreFindings
<1>7. ASSUME type = "pt", NEW p \in {"threat_modeling", "post_exploitation"}
      PROVE  \E n \in DOMAIN scans :
               /\ scans[n].marks[p] = "done"
               /\ \A m \in DOMAIN scans : m > n => scans[m].marks[p] \in {"none", "done"}
  <2>1. p \in Merged(scans, PtesPhases, auto) /\ p \notin auto
    BY <1>1, <1>2, <1>7, PhasesStandFor DEF HumanPhases, Ptes
  <2> HIDE DEF auto
  <2>2. QED
    BY <2>1, MarkStands
<1>8. ASSUME NEW p \in {"intelligence_gathering", "vulnerability_analysis"} \ phases
      PROVE  \E n \in DOMAIN scans : scans[n].marks[p] = "pending"
  <2>1. p \in PtesPhases \cap auto /\ p \notin Merged(scans, PtesPhases, auto)
    BY <1>1, <1>4, <1>8, PhasesStandFor DEF PtesPhases, Ptes
  <2> HIDE DEF auto
  <2>2. QED
    BY <2>1, MarkHides
<1>9. ASSUME NEW s \in InScope, s.engine \in VaEngines, NEW c \in {"V9", "V13"} \ chapters
      PROVE  \E n \in DOMAIN scans : scans[n].marks[c] = "pending"
  <2>1. c \in AsvsChapters \cap AsvsAuto(InScope, Rows)
    BY <1>9, ChaptersStandFor DEF AsvsChapters
  <2>2. c \notin Merged(scans, AsvsChapters, AsvsAuto(InScope, Rows))
    BY <1>1, <1>9 DEF Asvs
  <2>3. QED
    BY <2>1, <2>2, MarkHides
<1>10. QED
  BY <1>3, <1>5, <1>6, <1>7, <1>8, <1>9 DEF Clean, type

-----------------------------------------------------------------------------
(***************************************************************************)
(* The desk.                                                               *)
(***************************************************************************)

\* A text a model was asked for is a template only where that is allowed.
Told(src) == src \in Sources /\ (src = "template" => MockAllowed)

\* What may stand in a column.
OfColumn(c, v) ==
  /\ c \in {"status", "retest", "guide", "notes", "controls"}
  /\ c = "status" => v \in Statuses
  /\ c = "retest" => v \in BOOLEAN
  /\ c = "guide" => Told(v)
  /\ c = "notes" => /\ v \in [ai : Sources, fp : Sources, nist : Sources]
                    /\ Told(v.ai) /\ Told(v.fp)
  /\ c = "controls" => v \in SUBSET {"model", "template", "person"}

RowOK(x) ==
  /\ x \in Finding
  /\ \A c \in {"status", "retest", "guide", "notes", "controls"} : OfColumn(c, x[c])

\* What a request of a kind may write to a finding.
People == {"triage", "accept"}
WriteOK(kind, w) ==
  /\ \A c \in DOMAIN w : OfColumn(c, w[c])
  /\ kind \notin People => DOMAIN w \subseteq {"guide", "notes"}

Shaped(q) == q = [pc |-> q.pc, kind |-> q.kind, proc |-> q.proc, todo |-> q.todo,
                  old |-> q.old, to |-> q.to, writes |-> q.writes]

Running(q) ==
  /\ Shaped(q)
  /\ q.pc \in {"load", "call", "flush", "commit"}
  /\ q.kind \in Kinds /\ q.proc \in Procs /\ q.todo \in Seq(Findings)
  /\ q.pc \in {"load", "call"} => q.kind \notin People
  /\ q.pc \in {"load", "call", "flush"} /\ q.kind # "chat" => q.todo # <<>>
  /\ q.pc = "call" /\ q.kind # "chat" => RowOK(q.old)
  /\ q.pc \in {"flush", "commit"} => q.kind # "chat"
  /\ q.kind \in People => Len(q.todo) <= 1
  /\ WriteOK(q.kind, q.to)
  /\ DOMAIN q.writes \subseteq Findings /\ \A f \in DOMAIN q.writes : WriteOK(q.kind, q.writes[f])

RequestOK(q) == q \in {New, Done} \/ Running(q)

DeskIInv ==
  /\ SettingsTypeOK
  /\ DOMAIN row = Findings /\ row = [f \in Findings |-> row[f]]
  /\ \A f \in Findings : RowOK(row[f])
  /\ DOMAIN req = Requests /\ req = [r \in Requests |-> req[r]]
  /\ \A r \in Requests : RequestOK(req[r])

LEMMA ColumnsMakeARow ==
  ASSUME NEW x, x = [c \in {"status", "retest", "guide", "notes", "controls"} |-> x[c]],
         \A c \in {"status", "retest", "guide", "notes", "controls"} : OfColumn(c, x[c])
  PROVE  RowOK(x)
<1>1. x \in Finding
  BY DEF Finding, OfColumn, Told
<1>2. QED
  BY <1>1 DEF RowOK

LEMMA RowsHaveColumns ==
  ASSUME NEW x, RowOK(x)
  PROVE  /\ DOMAIN x = {"status", "retest", "guide", "notes", "controls"}
         /\ x.status \in Statuses /\ x.retest \in BOOLEAN /\ Told(x.guide)
         /\ x.notes \in [ai : Sources, fp : Sources, nist : Sources]
         /\ Told(x.notes.ai) /\ Told(x.notes.fp)
         /\ x.controls \in SUBSET {"model", "template", "person"}
BY DEF RowOK, Finding, OfColumn

LEMMA NothingIsWritten == ASSUME NEW kind PROVE WriteOK(kind, NoWrites) /\ DOMAIN NoWrites = {}
BY DEF WriteOK, NoWrites

\* A template where the settings, or the way a call failed, lead to one.
LEMMA TemplatesAreAllowed ==
  ASSUME NEW kind \in Kinds \ (People \cup {"suggest"}), NEW p, NEW failure
  PROVE  /\ Resolve(kind, p) = "template" => MockAllowed
         /\ FallsBack(kind, failure) => MockAllowed
<1>1. /\ ForRemediation(p) = "template" => MockAllowed
      /\ ForAnalysis(p) = "template" => MockAllowed
  BY DEF ForRemediation, ForAnalysis, MockAllowed
<1>2. QED
  BY <1>1 DEF Resolve, FallsBack, MockAllowed, Kinds, People

\* What comes of an answer may be written.
LEMMA AnswersMayBeWritten ==
  ASSUME NEW q, NEW got \in {"model", "template"},
         q.kind \in Kinds \ (People \cup {"chat"}), RowOK(q.old),
         got = "template" /\ q.kind # "suggest" => MockAllowed
  PROVE  WriteOK(q.kind, Changed(q, got))
<1>1. /\ q.old.notes \in [ai : Sources, fp : Sources, nist : Sources]
      /\ Told(q.old.notes.ai) /\ Told(q.old.notes.fp)
  BY RowsHaveColumns
<1>2. got \in Sources /\ (q.kind # "suggest" => Told(got))
  BY DEF Sources, Told
<1>3. CASE q.kind \in {"generate", "bulk"}
  <2>1. Changed(q, got) = [guide |-> got, notes |-> [q.old.notes EXCEPT !.ai = got]]
    BY <1>3 DEF Changed
  <2>2. OfColumn("guide", got) /\ OfColumn("notes", [q.old.notes EXCEPT !.ai = got])
    BY <1>1, <1>2, <1>3 DEF OfColumn
  <2>3. QED
    BY <2>1, <2>2 DEF WriteOK
<1>4. CASE q.kind = "analyze"
  <2>1. Changed(q, got) = [notes |-> [q.old.notes EXCEPT !.fp = got]]
    BY <1>4 DEF Changed
  <2>2. OfColumn("notes", [q.old.notes EXCEPT !.fp = got])
    BY <1>1, <1>2, <1>4 DEF OfColumn
  <2>3. QED
    BY <2>1, <2>2 DEF WriteOK
<1>5. CASE q.kind = "suggest"
  <2>1. Changed(q, got) = [notes |-> [q.old.notes EXCEPT !.nist = got]]
    BY <1>5 DEF Changed
  <2>2. OfColumn("notes", [q.old.notes EXCEPT !.nist = got])
    BY <1>1, <1>2 DEF OfColumn
  <2>3. QED
    BY <2>1, <2>2 DEF WriteOK
<1>6. QED
  BY <1>3, <1>4, <1>5 DEF Kinds, People

-----------------------------------------------------------------------------
\* Steps from one record of a request to the next.

LEMMA RestRuns ==
  ASSUME NEW q, Running(q), q.todo # <<>>, q.kind # "chat"
  PROVE  RequestOK(Rest(q))
<1> DEFINE pc == IF Len(q.todo) > 1 THEN "load" ELSE "commit"
<1>1. Shaped(q) /\ q.todo \in Seq(Findings) /\ (q.kind \in People => Len(q.todo) <= 1)
  BY DEF Running
<1>2. PICK todo \in Seq(Findings) : todo = Tail(q.todo) /\ Len(todo) = Len(q.todo) - 1
  <2>1. Tail(q.todo) \in Seq(Findings) /\ Len(Tail(q.todo)) = Len(q.todo) - 1
    BY <1>1
  <2>2. QED
    BY <2>1, Zenon
<1>3. Len(q.todo) \in Nat /\ Len(todo) \in Nat /\ (Len(todo) > 0 => todo # <<>>)
  BY <1>1
<1>4. pc = "load" => todo # <<>> /\ q.kind \notin People
  BY <1>1, <1>2, <1>3
<1> HIDE DEF pc
<1>5. Rest(q) = [q EXCEPT !.todo = todo, !.pc = pc, !.old = NoWrites, !.to = NoWrites]
  BY <1>2 DEF Rest, pc
<1>6. Rest(q) = [pc |-> pc, kind |-> q.kind, proc |-> q.proc, todo |-> todo,
                 old |-> NoWrites, to |-> NoWrites, writes |-> q.writes]
  BY <1>1, <1>5 DEF Shaped
<1>7. /\ Shaped(Rest(q)) /\ Rest(q).pc = pc /\ Rest(q).kind = q.kind /\ Rest(q).proc = q.proc
      /\ Rest(q).todo = todo /\ Rest(q).to = NoWrites /\ Rest(q).writes = q.writes
  BY <1>6 DEF Shaped
<1>8. pc \in {"load", "commit"} /\ (q.kind \in People => Len(todo) <= 1)
  BY <1>1, <1>2, <1>3 DEF pc
<1>9. Running(Rest(q))
  BY <1>4, <1>7, <1>8, NothingIsWritten DEF Running
<1>10. QED
  BY <1>9 DEF RequestOK

LEMMA FailedRuns ==
  ASSUME NEW q, Running(q), q.pc \in {"load", "call", "flush"} PROVE RequestOK(Failed(q))
<1>1. CASE q.kind = "bulk"
  BY <1>1, RestRuns DEF Failed, Running
<1>2. CASE q.kind # "bulk"
  BY <1>2 DEF Failed, RequestOK
<1>3. QED
  BY <1>1, <1>2

\* The finding of q has been read.
LEMMA AnsweredRuns ==
  ASSUME NEW q, NEW got \in {"model", "template"}, Running(q), q.pc \in {"load", "call"},
         q.kind # "chat" => RowOK(q.old),
         got = "template" /\ q.kind \notin {"suggest", "chat"} => MockAllowed
  PROVE  RequestOK(Answered(q, got))
<1>1. CASE q.kind = "chat"
  BY <1>1 DEF Answered, RequestOK
<1>2. CASE q.kind # "chat"
  <2>1. Answered(q, got) = [pc |-> "flush", kind |-> q.kind, proc |-> q.proc, todo |-> q.todo,
                            old |-> q.old, to |-> Changed(q, got), writes |-> q.writes]
    <3>1. Shaped(q)
      BY DEF Running
    <3>2. QED
      BY <1>2, <3>1 DEF Answered, Shaped
  <2>2. WriteOK(q.kind, Changed(q, got))
    BY <1>2, AnswersMayBeWritten DEF Running
  <2>3. Shaped(Answered(q, got)) /\ Running(Answered(q, got))
    <3>1. Shaped(Answered(q, got))
      BY <2>1 DEF Shaped
    <3>2. QED
      BY <1>2, <2>1, <2>2, <3>1 DEF Running
  <2>4. QED
    BY <2>3 DEF RequestOK
<1>3. QED
  BY <1>1, <1>2

-----------------------------------------------------------------------------
\* A step of one request, whose settings and rows may have changed with it.
LEMMA RequestStep ==
  ASSUME DeskIInv, NEW r \in Requests, cfg' = cfg, SettingsTypeOK',
         row' = [f \in Findings |-> row'[f]], \A f \in Findings : RowOK(row'[f]),
         req' = [req EXCEPT ![r] = req'[r]], RequestOK(req'[r])
  PROVE  DeskIInv'
<1>1. MockAllowed' = MockAllowed
  BY DEF MockAllowed
<1>2. \A c, v : OfColumn(c, v)' = OfColumn(c, v)
  BY <1>1 DEF OfColumn, Told
<1>3. /\ \A x : RowOK(x)' = RowOK(x)
      /\ \A x : RequestOK(x)' = RequestOK(x)
  <2>1. \A x : RowOK(x)' = RowOK(x)
    BY <1>2 DEF RowOK
  <2>2. \A kind, w : WriteOK(kind, w)' = WriteOK(kind, w)
    BY <1>2 DEF WriteOK
  <2>3. \A x : Running(x)' = Running(x)
    BY <2>1, <2>2 DEF Running
  <2>4. QED
    BY <2>1, <2>3 DEF RequestOK
<1>4. req' = [o \in Requests |-> req'[o]] /\ DOMAIN req' = Requests
  BY DEF DeskIInv
<1>5. \A o \in Requests : RequestOK(req'[o])
  BY DEF DeskIInv
<1>6. QED
  BY <1>3, <1>4, <1>5 DEF DeskIInv

\* Steps that leave settings and rows alone.
LEMMA QuietStep ==
  ASSUME DeskIInv, NEW r \in Requests, UNCHANGED <<settingsVars, cfg, row>>,
         req' = [req EXCEPT ![r] = req'[r]], RequestOK(req'[r])
  PROVE  DeskIInv'
<1>1. SettingsTypeOK'
  BY DEF DeskIInv, SettingsTypeOK, settingsVars
<1>2. row' = [f \in Findings |-> row'[f]] /\ \A f \in Findings : RowOK(row'[f])
  BY DEF DeskIInv
<1>3. QED
  BY <1>1, <1>2, RequestStep

LEMMA AskHolds ==
  ASSUME DeskIInv, NEW r \in Requests, NEW kind \in Kinds, NEW p \in Procs,
         NEW todo \in Seq(Findings), NEW pc \in {"load", "flush"}, NEW to,
         Ask(r, kind, p, todo, pc, to), WriteOK(kind, to),
         pc = "load" <=> kind \notin People,
         kind # "chat" => todo # <<>>, kind \in People => Len(todo) <= 1
  PROVE  DeskIInv'
<1>1. req' = [req EXCEPT ![r] = req'[r]]
      /\ req'[r] = [pc |-> pc, kind |-> kind, proc |-> p, todo |-> todo,
                    old |-> NoWrites, to |-> to, writes |-> NoWrites]
  BY DEF Ask, DeskIInv
<1>2. Running(req'[r])
  <2>1. Shaped(req'[r])
    BY <1>1 DEF Shaped
  <2>2. QED
    BY <1>1, <2>1, NothingIsWritten DEF Running, People
<1>3. QED
  BY <1>1, <1>2, QuietStep DEF Ask, RequestOK

LEMMA AskTriageHolds ==
  ASSUME DeskIInv, NEW r \in Requests, NEW p \in Procs, NEW f \in Findings,
         NEW s \in Statuses, NEW t \in BOOLEAN, AskTriage(r, p, f, s, t)
  PROVE  DeskIInv'
<1>1. WriteOK("triage", Decided(row[f], s, t))
  BY DEF WriteOK, Decided, OfColumn, People
<1>2. <<f>> \in Seq(Findings) /\ <<f>> # <<>> /\ Len(<<f>>) <= 1
  OBVIOUS
<1>3. Ask(r, "triage", p, <<f>>, "flush", Decided(row[f], s, t))
  BY DEF AskTriage
<1>4. QED
  BY <1>1, <1>2, <1>3, AskHolds DEF Kinds, People

LEMMA AskAcceptHolds ==
  ASSUME DeskIInv, NEW r \in Requests, NEW p \in Procs, NEW f \in Findings,
         NEW named \in BOOLEAN, AskAccept(r, p, f, named)
  PROVE  DeskIInv'
<1> DEFINE old == row[f]
<1>1. /\ old.notes \in [ai : Sources, fp : Sources, nist : Sources]
      /\ Told(old.notes.ai) /\ Told(old.notes.fp)
      /\ old.controls \in SUBSET {"model", "template", "person"}
  BY RowsHaveColumns DEF DeskIInv
<1> DEFINE controls == old.controls \cup {IF named THEN "person" ELSE old.notes.nist}
<1>2. controls \in SUBSET {"model", "template", "person"}
  BY <1>1 DEF AskAccept, Sources
<1>3. OfColumn("controls", controls) /\ OfColumn("notes", old.notes)
  BY <1>1, <1>2 DEF OfColumn
<1>4. Accepted(old, named) \in {[controls |-> controls], [controls |-> controls, notes |-> old.notes]}
  BY DEF Accepted
<1>5. WriteOK("accept", Accepted(old, named))
  BY <1>3, <1>4 DEF WriteOK, People
<1>6. <<f>> \in Seq(Findings) /\ <<f>> # <<>> /\ Len(<<f>>) <= 1
  OBVIOUS
<1>7. Ask(r, "accept", p, <<f>>, "flush", Accepted(old, named))
  BY DEF AskAccept
<1>8. QED
  BY <1>5, <1>6, <1>7, AskHolds DEF Kinds, People

LEMMA LoadHolds == ASSUME DeskIInv, NEW r \in Requests, LoadFinding(r) PROVE DeskIInv'
<1> DEFINE q == [req[r] EXCEPT !.old = IF req[r].todo = <<>> THEN @ ELSE row[Head(req[r].todo)]]
<1> DEFINE how == Resolve(q.kind, q.proc)
<1>1. Running(req[r]) /\ req[r].pc = "load"
  BY DEF DeskIInv, RequestOK, LoadFinding, New, Done
<1>2. /\ q = [pc |-> "load", kind |-> req[r].kind, proc |-> req[r].proc, todo |-> req[r].todo,
              old |-> q.old, to |-> req[r].to, writes |-> req[r].writes]
      /\ req[r].todo # <<>> => q.old = row[Head(req[r].todo)]
  <2>1. Shaped(req[r])
    BY <1>1 DEF Running
  <2> DEFINE old == IF req[r].todo = <<>> THEN req[r].old ELSE row[Head(req[r].todo)]
  <2>2. q = [req[r] EXCEPT !.old = old]
    OBVIOUS
  <2> HIDE DEF q, old
  <2>3. q = [pc |-> req[r].pc, kind |-> req[r].kind, proc |-> req[r].proc, todo |-> req[r].todo,
             old |-> old, to |-> req[r].to, writes |-> req[r].writes]
    BY <2>1, <2>2 DEF Shaped
  <2>4. q.old = old
    BY <2>3
  <2>5. QED
    BY <1>1, <2>3, <2>4 DEF old
<1> HIDE DEF q, how
<1>3. /\ cfg' = cfg /\ row' = row /\ req' = [req EXCEPT ![r] = req'[r]]
      /\ req'[r] = CASE how = "error" -> Failed(q)
                     [] how = "template" -> Answered(q, "template")
                     [] how = "model" -> [q EXCEPT !.pc = "call"]
  <2> DEFINE next == CASE how = "error" -> Failed(q)
                       [] how = "template" -> Answered(q, "template")
                       [] how = "model" -> [q EXCEPT !.pc = "call"]
  <2>1. cfg' = cfg /\ row' = row /\ req' = [req EXCEPT ![r] = next]
    BY DEF LoadFinding, q, how
  <2> HIDE DEF next
  <2>2. DOMAIN req = Requests
    BY DEF DeskIInv
  <2>3. req'[r] = next /\ req' = [req EXCEPT ![r] = req'[r]]
    BY <2>1, <2>2
  <2>4. QED
    BY <2>1, <2>3 DEF next
<1>4. req[r].todo # <<>> => RowOK(q.old)
  <2>1. req[r].todo \in Seq(Findings)
    BY <1>1 DEF Running
  <2>2. req[r].todo # <<>> => Head(req[r].todo) \in Findings
    BY <2>1
  <2>3. QED
    BY <1>2, <2>2 DEF DeskIInv
<1>5. /\ q.pc = "load" /\ Running(q) /\ q.kind \in Kinds \ People
      /\ q.kind # "chat" => RowOK(q.old)
  <2>1. Shaped(q) /\ q.pc = "load" /\ q.kind = req[r].kind /\ q.proc = req[r].proc
        /\ q.todo = req[r].todo /\ q.to = req[r].to /\ q.writes = req[r].writes
    BY <1>2 DEF Shaped
  <2>2. QED
    BY <1>1, <1>4, <2>1 DEF Running
<1>6. how \in {"error", "template", "model"}
  <2>1. \A p : ForRemediation(p) \in {"error", "template", "model"}
    BY DEF ForRemediation
  <2>2. \A p : ForAnalysis(p) \in {"error", "template", "model"}
    BY DEF ForAnalysis
  <2>3. \A p : ForControls(p) \in {"error", "template", "model"}
    BY DEF ForControls
  <2>4. QED
    BY <1>5, <2>1, <2>2, <2>3 DEF how, Resolve, Kinds, People
<1>7. RequestOK(req'[r])
  <2>1. CASE how = "error"
    BY <1>3, <1>5, <2>1, FailedRuns
  <2>2. CASE how = "template"
    <3>1. q.kind \notin {"suggest", "chat"} => MockAllowed
      BY <1>5, <2>2, TemplatesAreAllowed DEF how
    <3>2. RequestOK(Answered(q, "template"))
      BY <1>5, <3>1, AnsweredRuns
    <3>3. QED
      BY <1>3, <2>2, <3>2
  <2>3. CASE how = "model"
    <3>1. req'[r] = [q EXCEPT !.pc = "call"]
      BY <1>3, <2>3
    <3>2. req'[r] = [pc |-> "call", kind |-> q.kind, proc |-> q.proc, todo |-> q.todo,
                     old |-> q.old, to |-> q.to, writes |-> q.writes]
      <4>1. Shaped(q)
        BY <1>5 DEF Running
      <4>2. QED
        BY <3>1, <4>1 DEF Shaped
    <3>3. Shaped(req'[r])
      BY <3>2 DEF Shaped
    <3>4. Running(req'[r])
      BY <1>5, <3>2, <3>3 DEF Running
    <3>5. QED
      BY <3>4 DEF RequestOK
  <2>4. QED
    BY <1>6, <2>1, <2>2, <2>3
<1>8. SettingsTypeOK'
  BY DEF LoadFinding, DeskIInv, SettingsTypeOK
<1>9. row' = [f \in Findings |-> row'[f]] /\ \A f \in Findings : RowOK(row'[f])
  BY <1>3 DEF DeskIInv
<1>10. QED
  BY <1>3, <1>7, <1>8, <1>9, RequestStep

\* The call ends: with an answer, or with a failure and perhaps a template.
LEMMA CallHolds ==
  ASSUME DeskIInv, NEW r \in Requests, Answer(r) \/ Timeout(r) PROVE DeskIInv'
<1>1. Running(req[r]) /\ req[r].pc = "call"
  BY DEF DeskIInv, RequestOK, Answer, Timeout, CallFails, New, Done
<1>2. req[r].kind \in Kinds \ People /\ (req[r].kind # "chat" => RowOK(req[r].old))
  BY <1>1 DEF Running
<1>3. UNCHANGED <<settingsVars, cfg, row>> /\ req' = [req EXCEPT ![r] = req'[r]]
  BY DEF Answer, Timeout, CallFails, DeskIInv
<1>4. \/ req'[r] = Answered(req[r], "model")
      \/ req'[r] = Failed(req[r])
      \/ \E failure : FallsBack(req[r].kind, failure) /\ req'[r] = Answered(req[r], "template")
  BY DEF Answer, Timeout, CallFails, DeskIInv
<1>5. RequestOK(Answered(req[r], "model")) /\ RequestOK(Failed(req[r]))
  BY <1>1, <1>2, AnsweredRuns, FailedRuns
<1>6. ASSUME NEW failure, FallsBack(req[r].kind, failure)
      PROVE  RequestOK(Answered(req[r], "template"))
  <2>1. req[r].kind \notin {"suggest", "chat"} => MockAllowed
    BY <1>2, <1>6, TemplatesAreAllowed
  <2>2. QED
    BY <1>1, <1>2, <2>1, AnsweredRuns
<1>7. RequestOK(req'[r])
  BY <1>4, <1>5, <1>6
<1>8. QED
  BY <1>3, <1>7, QuietStep

LEMMA FlushHolds == ASSUME DeskIInv, NEW r \in Requests, Flush(r) PROVE DeskIInv'
<1> DEFINE f == Head(req[r].todo)
<1> DEFINE writes == [g \in DOMAIN req[r].writes \cup {f} |-> IF g = f THEN req[r].to ELSE req[r].writes[g]]
<1> DEFINE q == [req[r] EXCEPT !.writes = writes]
<1>1. Running(req[r]) /\ req[r].pc = "flush"
  BY DEF DeskIInv, RequestOK, Flush, New, Done
<1>2. UNCHANGED <<settingsVars, cfg, row>> /\ req' = [req EXCEPT ![r] = req'[r]] /\ req'[r] = Rest(q)
  BY DEF Flush, DeskIInv
<1>3. /\ req[r].kind # "chat" /\ req[r].todo # <<>> /\ req[r].todo \in Seq(Findings)
      /\ WriteOK(req[r].kind, req[r].to) /\ DOMAIN req[r].writes \subseteq Findings
      /\ \A g \in DOMAIN req[r].writes : WriteOK(req[r].kind, req[r].writes[g])
      /\ Shaped(req[r])
  BY <1>1 DEF Running
<1>4. f \in Findings
  BY <1>3
<1> HIDE DEF f
<1>5. DOMAIN writes \subseteq Findings /\ \A g \in DOMAIN writes : WriteOK(req[r].kind, writes[g])
  BY <1>3, <1>4
<1> HIDE DEF writes
<1>6. q = [pc |-> "flush", kind |-> req[r].kind, proc |-> req[r].proc, todo |-> req[r].todo,
           old |-> req[r].old, to |-> req[r].to, writes |-> writes]
  BY <1>1, <1>3 DEF Shaped
<1> HIDE DEF q
<1>7. /\ Shaped(q) /\ q.pc = "flush" /\ q.kind = req[r].kind /\ q.proc = req[r].proc
      /\ q.todo = req[r].todo /\ q.to = req[r].to /\ q.writes = writes
  BY <1>6 DEF Shaped
<1>8. Running(q)
  BY <1>1, <1>5, <1>7 DEF Running
<1>9. RequestOK(Rest(q))
  BY <1>3, <1>7, <1>8, RestRuns
<1>10. QED
  BY <1>2, <1>9, QuietStep

LEMMA CommitHolds ==
  ASSUME DeskIInv, NEW r \in Requests, Commit(r) \/ DeadlockVictim(r) PROVE DeskIInv'
<1>1. cfg' = cfg /\ req' = [req EXCEPT ![r] = req'[r]] /\ req'[r] = Done /\ RequestOK(Done)
      /\ UNCHANGED settingsVars
  BY DEF DeskIInv, Commit, DeadlockVictim, RequestOK
<1>2. CASE DeadlockVictim(r)
  BY <1>1, <1>2, QuietStep DEF DeadlockVictim
<1>3. CASE Commit(r)
  <2>1. Running(req[r])
    BY <1>3 DEF Commit, DeskIInv, RequestOK, New, Done
  <2> DEFINE w == req[r].writes
  <2>2. row' = [f \in Findings |->
          IF f \in DOMAIN w
          THEN [c \in DOMAIN row[f] |-> IF c \in DOMAIN w[f] THEN w[f][c] ELSE row[f][c]]
          ELSE row[f]]
    BY <1>3 DEF Commit
  <2>3. ASSUME NEW f \in Findings PROVE RowOK(row'[f])
    <3>1. RowOK(row[f]) /\ DOMAIN row[f] = {"status", "retest", "guide", "notes", "controls"}
      BY RowsHaveColumns DEF DeskIInv
    <3>2. CASE f \in DOMAIN w
      <4>1. row'[f] = [c \in {"status", "retest", "guide", "notes", "controls"} |->
                         IF c \in DOMAIN w[f] THEN w[f][c] ELSE row[f][c]]
        BY <2>2, <3>1, <3>2
      <4>2. \A c \in DOMAIN w[f] : OfColumn(c, w[f][c])
        BY <2>1, <3>2 DEF Running, WriteOK
      <4>3. \A c \in {"status", "retest", "guide", "notes", "controls"} : OfColumn(c, row[f][c])
        BY <3>1 DEF RowOK
      <4>4. \A c \in {"status", "retest", "guide", "notes", "controls"} : OfColumn(c, row'[f][c])
        BY <4>1, <4>2, <4>3
      <4>5. QED
        BY <4>1, <4>4, ColumnsMakeARow
    <3>3. CASE f \notin DOMAIN w
      BY <2>2, <3>1, <3>3
    <3>4. QED
      BY <3>2, <3>3
  <2>4. row' = [f \in Findings |-> row'[f]]
    BY <2>2
  <2>5. SettingsTypeOK'
    BY <1>1 DEF DeskIInv, SettingsTypeOK, settingsVars
  <2>6. QED
    BY <1>1, <2>3, <2>4, <2>5, RequestStep
<1>4. QED
  BY <1>2, <1>3

LEMMA DeskInitHolds == Init => DeskIInv
<1>1. SUFFICES ASSUME Init PROVE DeskIInv
  OBVIOUS
<1>2. \A f \in Findings : RowOK(row[f])
  BY <1>1 DEF Init, RowOK, Finding, OfColumn, Told, Sources, Statuses
<1>3. QED
  BY <1>1, <1>2, SettingsInitHolds DEF Init, DeskIInv, RequestOK

LEMMA DeskNextHolds == ASSUME DeskIInv, [Next]_vars PROVE DeskIInv'
<1>1. CASE SettingsNext /\ UNCHANGED <<cfg, row, req>>
  <2>1. SettingsTypeOK'
    BY <1>1, SettingsNextHolds DEF DeskIInv
  <2>2. QED
    BY <1>1, <2>1
    DEF DeskIInv, RequestOK, Running, WriteOK, RowOK, OfColumn, Told, MockAllowed
<1>2. ASSUME NEW r \in Requests, NEW p \in Procs, NEW f \in Findings,
             \/ \E s \in Decisions \cup {row[f].status}, t \in BOOLEAN : AskTriage(r, p, f, s, t)
             \/ \E named \in BOOLEAN : AskAccept(r, p, f, named)
      PROVE  DeskIInv'
  <2>1. Decisions \cup {row[f].status} \subseteq Statuses
    BY DeskAssumption, RowsHaveColumns DEF DeskIInv
  <2>2. QED
    BY <1>2, <2>1, AskTriageHolds, AskAcceptHolds
<1>3. ASSUME NEW r \in Requests, NEW p \in Procs, NEW f \in Findings, NEW kind \in Kinds,
             AskModel(r, kind, p, f)
      PROVE  DeskIInv'
  <2>1. <<f>> \in Seq(Findings) /\ <<f>> # <<>> /\ Ask(r, kind, p, <<f>>, "load", NoWrites)
        /\ kind \in Kinds \ (People \cup {"chat"})
    BY <1>3 DEF AskModel, Kinds, People
  <2>2. QED
    BY <2>1, NothingIsWritten, AskHolds
<1>4. ASSUME NEW r \in Requests, NEW p \in Procs, NEW batch \in Batches, AskBulk(r, p, batch)
      PROVE  DeskIInv'
  <2>1. batch \in Seq(Findings) /\ batch # <<>> /\ Ask(r, "bulk", p, batch, "load", NoWrites)
    BY <1>4, DeskAssumption DEF AskBulk
  <2>2. QED
    BY <2>1, NothingIsWritten, AskHolds DEF Kinds, People
<1>5. ASSUME NEW r \in Requests, NEW p \in Procs, AskChat(r, p)
      PROVE  DeskIInv'
  <2>1. <<>> \in Seq(Findings) /\ Ask(r, "chat", p, <<>>, "load", NoWrites)
    BY <1>5 DEF AskChat
  <2>2. QED
    BY <2>1, NothingIsWritten, AskHolds DEF Kinds, People
<1>6. ASSUME NEW r \in Requests, Answer(r) \/ Proceed(r)
      PROVE  DeskIInv'
  BY <1>6, LoadHolds, CallHolds, FlushHolds, CommitHolds DEF Proceed
<1>7. CASE UNCHANGED vars
  BY <1>7
  DEF vars, settingsVars, DeskIInv, SettingsTypeOK, RequestOK, Running, WriteOK, RowOK, OfColumn, Told, MockAllowed
<1>8. QED
  BY <1>1, <1>2, <1>3, <1>4, <1>5, <1>6, <1>7 DEF Next

LEMMA DeskInductive == Spec => []DeskIInv
BY DeskInitHolds, DeskNextHolds, PTL DEF Spec

-----------------------------------------------------------------------------
(***************************************************************************)
(* Sums.  SumFunction is a recursive function over the subsets of its      *)
(* argument's domain.  That the recursion has a solution, and what the     *)
(* solution adds up to, are proved by induction on subsets, where the      *)
(* property is a set, Good, so that the provers can instantiate it.        *)
(***************************************************************************)

Choice(s) == CHOOSE x \in s : TRUE

\* it adds up w over every subset of S.
AddsUp(it, w, S) ==
  it = [s \in SUBSET S |-> IF s = {} THEN 0 ELSE w[Choice(s)] + it[s \ {Choice(s)}]]

\* A minimal subset that is not Good would have only Good ones below it.
LEMMA SubsetInduction ==
  ASSUME NEW S, IsFiniteSet(S), NEW Good,
         \A T \in SUBSET S : (\A x \in T : T \ {x} \in Good) => T \in Good
  PROVE  SUBSET S \subseteq Good
<1>1. IsWellFoundedOn(StrictSubsetOrdering(S), SUBSET S)
  BY FS_StrictSubsetOrderingWellFounded, FS_FiniteSubsetsOfFinite
<1> DEFINE Bad == (SUBSET S) \ Good
<1>2. SUFFICES ASSUME Bad # {} PROVE FALSE
  OBVIOUS
<1>3. PICK T \in Bad : \A U \in Bad : <<U, T>> \notin StrictSubsetOrdering(S)
  <2> HIDE DEF Bad
  <2>1. Bad \subseteq SUBSET S
    BY DEF Bad
  <2>2. QED
    BY <1>1, <1>2, <2>1, WFMin
<1>4. \A x \in T : T \ {x} \in Good
  <2>1. ASSUME NEW x \in T, T \ {x} \notin Good PROVE FALSE
    <3>1. <<T \ {x}, T>> \in StrictSubsetOrdering(S)
      BY DEF StrictSubsetOrdering
    <3>2. QED
      BY <1>3, <2>1, <3>1
  <2>2. QED
    BY <2>1
<1>5. QED
  BY <1>3, <1>4

\* The recursion has a solution: by the size of the subsets it is right for.
LEMMA SumExists == ASSUME NEW w, NEW S, IsFiniteSet(S) PROVE \E it : AddsUp(it, w, S)
<1> DEFINE Right(it, s) == it[s] = IF s = {} THEN 0 ELSE w[Choice(s)] + it[s \ {Choice(s)}]
           Good == {T \in SUBSET S : \E it : \A s \in SUBSET S : Cardinality(s) <= Cardinality(T) => Right(it, s)}
<1>1. \A s \in SUBSET S : IsFiniteSet(s) /\ Cardinality(s) \in Nat
  BY FS_Subset, FS_CardinalityType
<1>2. \A s \in SUBSET S : \A x \in s : s \ {x} \in SUBSET S /\ Cardinality(s \ {x}) = Cardinality(s) - 1
  BY <1>1, FS_RemoveElement
<1>3. ASSUME NEW T \in SUBSET S, \A x \in T : T \ {x} \in Good
      PROVE  T \in Good
  <2>1. CASE T = {}
    <3> DEFINE it == [s \in SUBSET S |-> 0]
    <3>1. \A s \in SUBSET S : Cardinality(s) <= Cardinality(T) => s = {}
      BY <1>1, <2>1, FS_EmptySet
    <3>2. \A s \in SUBSET S : Cardinality(s) <= Cardinality(T) => Right(it, s)
      BY <3>1
    <3>3. QED
      BY <3>2
  <2>2. CASE T # {}
    <3>1. PICK x \in T : TRUE
      BY <2>2
    <3>2. PICK old : \A s \in SUBSET S : Cardinality(s) <= Cardinality(T) - 1 => Right(old, s)
      <4>1. T \ {x} \in Good /\ Cardinality(T \ {x}) = Cardinality(T) - 1
        BY <1>2, <1>3, <3>1
      <4>2. PICK old : \A s \in SUBSET S : Cardinality(s) <= Cardinality(T \ {x}) => Right(old, s)
        BY <4>1
      <4>3. QED
        BY <4>1, <4>2
    <3> DEFINE it == [s \in SUBSET S |-> IF Cardinality(s) < Cardinality(T) THEN old[s]
                                         ELSE w[Choice(s)] + old[s \ {Choice(s)}]]
    <3>3. ASSUME NEW s \in SUBSET S, Cardinality(s) <= Cardinality(T)
          PROVE  Right(it, s)
      <4>1. s # {} => Choice(s) \in s
        BY DEF Choice
      <4>2. s # {} => it[s \ {Choice(s)}] = old[s \ {Choice(s)}]
        BY <1>1, <1>2, <3>3, <4>1
      <4>3. CASE Cardinality(s) < Cardinality(T)
        <5>1. Right(old, s)
          BY <1>1, <3>2, <4>3
        <5>2. it[s] = old[s]
          BY <4>3
        <5> HIDE DEF it
        <5>3. QED
          BY <4>2, <5>1, <5>2
      <4>4. CASE ~(Cardinality(s) < Cardinality(T))
        <5>1. s # {}
          BY <1>1, <2>2, <3>3, <4>4, FS_EmptySet
        <5>2. it[s] = w[Choice(s)] + old[s \ {Choice(s)}]
          BY <4>4
        <5> HIDE DEF it
        <5>3. QED
          BY <4>2, <5>1, <5>2
      <4>5. QED
        BY <4>3, <4>4
    <3> HIDE DEF it
    <3>4. \E f : \A s \in SUBSET S : Cardinality(s) <= Cardinality(T) => Right(f, s)
      BY <3>3
    <3>5. QED
      BY <3>4
  <2>3. QED
    BY <2>1, <2>2
<1>4. S \in Good
  <2> HIDE DEF Good
  <2>1. SUBSET S \subseteq Good
    BY <1>3, SubsetInduction
  <2>2. QED
    BY <2>1
<1>5. PICK it : \A s \in SUBSET S : Right(it, s)
  <2>1. PICK it : \A s \in SUBSET S : Cardinality(s) <= Cardinality(S) => Right(it, s)
    BY <1>4
  <2>2. \A s \in SUBSET S : Cardinality(s) <= Cardinality(S)
    BY FS_Subset
  <2>3. QED
    BY <2>1, <2>2
<1> DEFINE sums == [s \in SUBSET S |-> it[s]]
<1>6. \A s \in SUBSET S : sums[s] = IF s = {} THEN 0 ELSE w[Choice(s)] + sums[s \ {Choice(s)}]
  <2>1. \A s \in SUBSET S : s \ {Choice(s)} \in SUBSET S
    OBVIOUS
  <2>2. QED
    BY <1>5, <2>1
<1>7. sums = [s \in SUBSET S |-> IF s = {} THEN 0 ELSE w[Choice(s)] + sums[s \ {Choice(s)}]]
  <2>1. DOMAIN sums = SUBSET S /\ sums = [s \in SUBSET S |-> sums[s]]
    OBVIOUS
  <2> HIDE DEF sums
  <2>2. QED
    BY <1>6, <2>1
<1> HIDE DEF sums
<1>8. AddsUp(sums, w, S)
  BY <1>7 DEF AddsUp
<1>9. QED
  BY <1>8


LEMMA SumIsInt ==
  ASSUME NEW it, NEW w, NEW S, AddsUp(it, w, S), IsFiniteSet(S), \A x \in S : w[x] \in Int
  PROVE  it[{}] = 0 /\ \A s \in SUBSET S : it[s] \in Int
<1>1. it[{}] = 0 /\ \A s \in SUBSET S : s # {} => it[s] = w[Choice(s)] + it[s \ {Choice(s)}]
  BY DEF AddsUp
<1>2. \A s \in SUBSET S : s # {} => Choice(s) \in s
  BY DEF Choice
<1> DEFINE Good == {s \in SUBSET S : it[s] \in Int}
<1>3. ASSUME NEW s \in SUBSET S, \A x \in s : s \ {x} \in Good
      PROVE  s \in Good
  <2>1. CASE s = {}
    BY <1>1, <2>1
  <2>2. CASE s # {}
    <3>1. PICK c \in s : it[s] = w[c] + it[s \ {c}]
      BY <1>1, <1>2, <2>2
    <3>2. it[s \ {c}] \in Int /\ w[c] \in Int
      BY <1>3, <3>1
    <3> DEFINE rest == it[s \ {c}]
    <3>3. it[s] = w[c] + rest /\ rest \in Int
      BY <3>1, <3>2
    <3> HIDE DEF rest
    <3>4. it[s] \in Int
      BY <3>2, <3>3
    <3>5. QED
      BY <3>4
  <2>3. QED
    BY <2>1, <2>2
<1>4. SUBSET S \subseteq Good
  <2> HIDE DEF Good
  <2>1. QED
    BY <1>3, SubsetInduction
<1>5. QED
  BY <1>1, <1>4

\* Any element may be added last.
LEMMA SumTakesAny ==
  ASSUME NEW it, NEW w, NEW S, AddsUp(it, w, S), IsFiniteSet(S), \A x \in S : w[x] \in Int
  PROVE  \A s \in SUBSET S : \A x \in s : it[s] = w[x] + it[s \ {x}]
<1>1. /\ \A s \in SUBSET S : s # {} => it[s] = w[Choice(s)] + it[s \ {Choice(s)}]
      /\ \A s \in SUBSET S : it[s] \in Int
  BY SumIsInt DEF AddsUp
<1>2. \A s \in SUBSET S : s # {} => Choice(s) \in s
  BY DEF Choice
<1> DEFINE Good == {s \in SUBSET S : \A x \in s : it[s] = w[x] + it[s \ {x}]}
<1>3. ASSUME NEW s \in SUBSET S, \A x \in s : s \ {x} \in Good
      PROVE  s \in Good
  <2>1. ASSUME NEW x \in s PROVE it[s] = w[x] + it[s \ {x}]
    <3>1. PICK c \in s : it[s] = w[c] + it[s \ {c}]
      BY <1>1, <1>2
    <3>2. CASE x = c
      BY <3>1, <3>2
    <3>3. CASE x # c
      <4>1. it[s \ {c}] = w[x] + it[(s \ {c}) \ {x}]
        BY <1>3, <3>1, <3>3
      <4>2. it[s \ {x}] = w[c] + it[(s \ {x}) \ {c}]
        BY <1>3, <3>1, <3>3
      <4>3. (s \ {c}) \ {x} = (s \ {x}) \ {c}
        OBVIOUS
      <4>4. it[(s \ {x}) \ {c}] \in Int /\ w[x] \in Int /\ w[c] \in Int
        <5>1. (s \ {x}) \ {c} \in SUBSET S
          OBVIOUS
        <5>2. QED
          BY <1>1, <5>1
      <4> DEFINE rest == it[(s \ {x}) \ {c}]
      <4>5. it[s] = w[c] + (w[x] + rest) /\ it[s \ {x}] = w[c] + rest
        BY <3>1, <4>1, <4>2, <4>3
      <4> HIDE DEF rest
      <4>6. QED
        BY <4>4, <4>5 DEF rest
    <3>4. QED
      BY <3>2, <3>3
  <2>2. QED
    BY <2>1
<1>4. SUBSET S \subseteq Good
  <2> HIDE DEF Good
  <2>1. QED
    BY <1>3, SubsetInduction
<1>5. QED
  BY <1>4

\* What a function sums up to, as partial sums that any element may end.
LEMMA SumIsPartial ==
  ASSUME NEW w, IsFiniteSet(DOMAIN w), \A x \in DOMAIN w : w[x] \in Int
  PROVE  \E it : /\ SumFunction(w) = it[DOMAIN w] /\ it[{}] = 0
                 /\ \A s \in SUBSET DOMAIN w : it[s] \in Int
                 /\ \A s \in SUBSET DOMAIN w : \A x \in s : it[s] = w[x] + it[s \ {x}]
<1> DEFINE it == CHOOSE iter : AddsUp(iter, w, DOMAIN w)
<1>1. AddsUp(it, w, DOMAIN w)
  BY SumExists
<1>2. SumFunction(w) = it[DOMAIN w]
  BY DEF SumFunction, SumFunctionOnSet, FoldFunctionOnSet, MapThenFoldSet, AddsUp, Choice
<1> HIDE DEF it
<1>3. it[{}] = 0 /\ \A s \in SUBSET DOMAIN w : it[s] \in Int
  BY <1>1, SumIsInt
<1>4. \A s \in SUBSET DOMAIN w : \A x \in s : it[s] = w[x] + it[s \ {x}]
  <2> DEFINE S == DOMAIN w
  <2>1. IsFiniteSet(S) /\ AddsUp(it, w, S) /\ \A x \in S : w[x] \in Int
    BY <1>1
  <2> HIDE DEF S
  <2>2. \A s \in SUBSET S : \A x \in s : it[s] = w[x] + it[s \ {x}]
    <3>1. ASSUME NEW s \in SUBSET S, NEW x \in s PROVE it[s] = w[x] + it[s \ {x}]
      BY <2>1, SumTakesAny
    <3>2. QED
      BY <3>1
  <2>3. QED
    BY <2>2 DEF S
<1>5. QED
  BY <1>2, <1>3, <1>4

\* Classes of a finite set, counted and added up.
LEMMA ClassesAddUp ==
  ASSUME NEW w, IsFiniteSet(DOMAIN w), NEW F, IsFiniteSet(F), NEW class, 
         \A f \in F : class[f] \in DOMAIN w,
         \A c \in DOMAIN w : w[c] = Cardinality({f \in F : class[f] = c})
  PROVE  SumFunction(w) = Cardinality(F)
<1> DEFINE Of(s) == {f \in F : class[f] \in s}
<1>1. \A s : IsFiniteSet(Of(s)) /\ Cardinality(Of(s)) \in Nat
  BY FS_Subset, FS_CardinalityType
<1>2. ASSUME NEW c \in DOMAIN w
      PROVE  w[c] \in Int /\ Of({c}) = {f \in F : class[f] = c}
  <2>1. Of({c}) = {f \in F : class[f] = c}
    OBVIOUS
  <2> HIDE DEF Of
  <2>2. QED
    BY <1>1, <2>1
<1>3. PICK it : /\ SumFunction(w) = it[DOMAIN w] /\ it[{}] = 0
                /\ \A s \in SUBSET DOMAIN w : it[s] \in Int
                /\ \A s \in SUBSET DOMAIN w : \A x \in s : it[s] = w[x] + it[s \ {x}]
  BY <1>2, SumIsPartial
<1> DEFINE Good == {s \in SUBSET DOMAIN w : it[s] = Cardinality(Of(s))}
<1>4. ASSUME NEW s \in SUBSET DOMAIN w, \A x \in s : s \ {x} \in Good
      PROVE  s \in Good
  <2>1. CASE s = {}
    <3>1. Of(s) = {}
      BY <2>1
    <3>2. QED
      BY <1>3, <2>1, <3>1, FS_EmptySet
  <2>2. CASE s # {}
    <3>1. PICK c \in s : TRUE
      BY <2>2
    <3>2. Of(s) = Of(s \ {c}) \cup Of({c}) /\ Of(s \ {c}) \cap Of({c}) = {}
      BY <3>1
    <3> HIDE DEF Of
    <3>3. Cardinality(Of(s)) = Cardinality(Of(s \ {c})) + Cardinality(Of({c}))
      <4> DEFINE A == Of(s \ {c})
                 B == Of({c})
      <4>1. IsFiniteSet(A) /\ IsFiniteSet(B) /\ Cardinality(A) \in Nat /\ Cardinality(B) \in Nat
        BY <1>1
      <4>2. Of(s) = A \cup B /\ A \cap B = {}
        BY <3>2
      <4> HIDE DEF A, B
      <4>3. Cardinality(A \cup B) = Cardinality(A) + Cardinality(B) - Cardinality(A \cap B)
        BY <4>1, FS_Union
      <4>4. Cardinality(A \cap B) = 0
        BY <4>2, FS_EmptySet
      <4>5. Cardinality(Of(s)) = Cardinality(A) + Cardinality(B)
        BY <4>1, <4>2, <4>3, <4>4
      <4>6. QED
        BY <4>5 DEF A, B
    <3>4. it[s] = w[c] + it[s \ {c}] /\ it[s \ {c}] = Cardinality(Of(s \ {c}))
      BY <1>3, <1>4
    <3>5. w[c] = Cardinality(Of({c}))
      BY <1>2
    <3>6. Cardinality(Of({c})) \in Nat /\ Cardinality(Of(s \ {c})) \in Nat
      BY <1>1
    <3>7. QED
      BY <3>3, <3>4, <3>5, <3>6
  <2>3. QED
    BY <2>1, <2>2
<1>5. SUBSET DOMAIN w \subseteq Good
  <2> HIDE DEF Good
  <2>1. QED
    BY <1>4, SubsetInduction
<1>6. Of(DOMAIN w) = F
  OBVIOUS
<1>7. QED
  BY <1>3, <1>5, <1>6

\* A sum of naturals is no less than each of them.
LEMMA SumIsAtLeast ==
  ASSUME NEW w, IsFiniteSet(DOMAIN w), \A x \in DOMAIN w : w[x] \in Nat
  PROVE  SumFunction(w) \in Int /\ \A x \in DOMAIN w : SumFunction(w) >= w[x]
<1>0. \A x \in DOMAIN w : w[x] \in Int
  OBVIOUS
<1>1. PICK it : /\ SumFunction(w) = it[DOMAIN w] /\ it[{}] = 0
                /\ \A s \in SUBSET DOMAIN w : it[s] \in Int
                /\ \A s \in SUBSET DOMAIN w : \A x \in s : it[s] = w[x] + it[s \ {x}]
  BY <1>0, SumIsPartial
<1> DEFINE Good == {s \in SUBSET DOMAIN w : it[s] >= 0}
<1>2. ASSUME NEW s \in SUBSET DOMAIN w, \A x \in s : s \ {x} \in Good
      PROVE  s \in Good
  <2>1. CASE s = {}
    BY <1>1, <2>1
  <2>2. CASE s # {}
    <3>1. PICK x \in s : TRUE
      BY <2>2
    <3>2. it[s] = w[x] + it[s \ {x}] /\ it[s \ {x}] >= 0
      BY <1>1, <1>2
    <3>3. it[s \ {x}] \in Int /\ w[x] \in Nat
      BY <1>1
    <3>4. QED
      BY <3>2, <3>3
  <2>3. QED
    BY <2>1, <2>2
<1>3. SUBSET DOMAIN w \subseteq Good
  <2> DEFINE S == DOMAIN w
  <2>1. IsFiniteSet(S) /\ \A s \in SUBSET S : (\A x \in s : s \ {x} \in Good) => s \in Good
    BY <1>2
  <2> HIDE DEF Good, S
  <2>2. SUBSET S \subseteq Good
    BY <2>1, SubsetInduction
  <2>3. QED
    BY <2>2 DEF S
<1>4. ASSUME NEW x \in DOMAIN w PROVE it[DOMAIN w] >= w[x]
  <2>1. it[DOMAIN w] = w[x] + it[DOMAIN w \ {x}]
    BY <1>1
  <2>2. it[DOMAIN w \ {x}] \in Int /\ it[DOMAIN w \ {x}] >= 0 /\ w[x] \in Nat
    <3>1. DOMAIN w \ {x} \in SUBSET DOMAIN w
      OBVIOUS
    <3>2. QED
      BY <1>1, <1>3, <3>1
  <2>3. QED
    BY <2>1, <2>2
<1>5. QED
  BY <1>1, <1>4

-----------------------------------------------------------------------------
(***************************************************************************)
(* The other readers.  None of them looks at anything but the rows, so     *)
(* this holds in every state; the rows are finite because Findings are.    *)
(***************************************************************************)

LEMMA RowsAreFinite == IsFiniteSet(Rows)
<1> DEFINE Read == [f \in Findings |->
      [id |-> f, severity |-> Severity[f], owasp |-> Owasp[f], status |-> row[f].status,
       retest |-> row[f].retest, ctl |-> [Tags[f] EXCEPT !.csf = @ \cup row[f].controls],
       asset |-> Traits[f].asset, cde |-> Traits[f].cde, personal |-> Traits[f].personal,
       kev |-> Traits[f].kev, overdue |-> Traits[f].overdue, hit |-> Traits[f].hit,
       own |-> TRUE]]
<1>1. Rows = {Read[f] : f \in Findings}
  BY DEF Rows
<1> HIDE DEF Read
<1>2. Read \in Surjection(Findings, Rows)
  <2>1. DOMAIN Read = Findings /\ Read = [f \in Findings |-> Read[f]]
    BY DEF Read
  <2>2. QED
    BY <1>1, <2>1 DEF Surjection
<1>3. QED
  BY <1>2, DeskAssumption, FS_Surjection

\* Any LIMIT n of the rows in some order: no more than n, and none only of none.
LEMMA FirstsAreFew ==
  ASSUME NEW fs, IsFiniteSet(fs), NEW n \in Nat, NEW top \in Firsts(fs, n)
  PROVE  /\ top \subseteq fs /\ IsFiniteSet(top) /\ Cardinality(top) <= n
         /\ n > 0 /\ fs # {} => top # {}
<1>1. top \in SUBSET fs /\ Cardinality(top) = IF n < Cardinality(fs) THEN n ELSE Cardinality(fs)
  BY DEF Firsts, Cut
<1>2. Cardinality(fs) \in Nat /\ IsFiniteSet(top)
  BY <1>1, FS_CardinalityType, FS_Subset
<1>3. fs # {} => Cardinality(fs) > 0
  BY <1>2, FS_EmptySet
<1>4. top = {} => Cardinality(top) = 0
  BY FS_EmptySet
<1>5. QED
  BY <1>1, <1>2, <1>3, <1>4

\* Overdue findings first, and others only if there is room.
LEMMA DigestListsLateFirst ==
  ASSUME NEW fs, IsFiniteSet(fs), NEW n \in Nat \ {0}, NEW top \in DigestTops(fs, n)
  PROVE  /\ top \subseteq Active(fs) /\ Cardinality(top) <= n
         /\ (\E f \in Active(fs) \ top : f.overdue) => \A f \in top : f.overdue
         /\ Active(fs) # {} => top # {}
<1> DEFINE late == {f \in Active(fs) : f.overdue}
           room == n - Cardinality(late)
<1>1. Active(fs) \subseteq fs /\ IsFiniteSet(Active(fs))
  BY FS_Subset DEF Active
<1>2. late \subseteq Active(fs) /\ IsFiniteSet(late) /\ Cardinality(late) \in Nat
  <2>1. late \in SUBSET Active(fs)
    OBVIOUS
  <2>2. QED
    BY <1>1, <2>1, FS_Subset, FS_CardinalityType
<1>3. CASE late = {}
  <2>1. top \in Firsts(Active(fs), n)
    BY <1>3 DEF DigestTops
  <2>2. QED
    BY <1>1, <1>3, <2>1, FirstsAreFew
<1>4. CASE late # {} /\ room <= 0
  <2>1. top \in SUBSET late /\ Cardinality(top) = n
    BY <1>4 DEF DigestTops
  <2>2. top # {}
    BY <2>1, FS_EmptySet
  <2>3. QED
    BY <1>2, <2>1, <2>2
<1>5. CASE late # {} /\ ~(room <= 0)
  <2>1. PICK first \in Firsts(Active(fs), n) : \E rest \in Firsts(first \ late, room) : top = late \cup rest
    <3> DEFINE Lists(first) == {late \cup rest : rest \in Firsts(first \ late, room)}
    <3>1. DigestTops(fs, n) = UNION {Lists(first) : first \in Firsts(Active(fs), n)}
      BY <1>5, Zenon DEF DigestTops
    <3>2. PICK first \in Firsts(Active(fs), n) : top \in Lists(first)
      <4> HIDE DEF Lists
      <4>1. QED
        BY <3>1
    <3>3. QED
      BY <3>2, Zenon
  <2>2. PICK rest \in Firsts(first \ late, room) : top = late \cup rest
    BY <2>1
  <2>3. room \in Nat
    BY <1>2, <1>5
  <2>4. first \subseteq Active(fs) /\ IsFiniteSet(first \ late)
    <3>1. first \subseteq Active(fs) /\ IsFiniteSet(first)
      BY <1>1, FirstsAreFew
    <3>2. QED
      BY <3>1, FS_Subset
  <2> HIDE DEF room
  <2>5. rest \subseteq first \ late /\ IsFiniteSet(rest) /\ Cardinality(rest) <= room
    BY <2>3, <2>4, FirstsAreFew
  <2>6. /\ Cardinality(top) = Cardinality(late) + Cardinality(rest) - Cardinality(late \cap rest)
        /\ Cardinality(rest) \in Nat /\ Cardinality(late \cap rest) = 0
    <3>1. late \cap rest = {}
      BY <2>5
    <3>2. QED
      BY <1>2, <2>2, <2>5, <3>1, FS_Union, FS_CardinalityType, FS_EmptySet
  <2>7. Cardinality(top) <= n
    BY <1>2, <2>5, <2>6 DEF room
  <2>8. QED
    BY <1>2, <1>5, <2>2, <2>4, <2>5, <2>7
<1>6. QED
  BY <1>3, <1>4, <1>5


\* What an asset is said to come to.
LEMMA RiskIsSummed ==
  ASSUME NEW a
  PROVE  /\ RiskOf(Rows, a).total = Cardinality({f \in Active(Rows) : f.asset = a})
         /\ RiskOf(Rows, a).score \in Int
         /\ \A f \in Active(Rows) : f.asset = a => RiskOf(Rows, a).score >= RiskWeight[f.severity]
<1> DEFINE on == {f \in Active(Rows) : f.asset = a}
           weights == [f \in on |-> RiskWeight[f.severity]]
<1>1. \A f \in Active(Rows) : f.severity \in Severities /\ f.own
  BY DeskAssumption DEF Active, Rows
<1>2. {f \in Active(Rows) : f.own /\ f.asset = a} = on
  BY <1>1
<1>3. RiskOf(Rows, a).total = Cardinality(on) /\ RiskOf(Rows, a).score = SumFunction(weights)
  BY <1>2 DEF RiskOf
<1>4. DOMAIN weights = on /\ IsFiniteSet(on)
  BY RowsAreFinite, FS_Subset DEF Active
<1>5. \A f \in on : weights[f] = RiskWeight[f.severity] /\ weights[f] \in Nat
  BY <1>1 DEF RiskWeight, Severities
<1>6. SumFunction(weights) \in Int /\ \A f \in on : SumFunction(weights) >= weights[f]
  <2> HIDE DEF weights, on
  <2>1. QED
    BY <1>4, <1>5, SumIsAtLeast
<1>7. QED
  BY <1>3, <1>5, <1>6

\* The dashboard: every row has one severity and one asset.
LEMMA DashboardHolds == DashboardAddsUp
<1> DEFINE active == Active(Rows)
           bySeverity == ActiveBySeverity(Rows)
           assets == {f.asset : f \in active}
<1>1. IsFiniteSet(active)
  BY RowsAreFinite, FS_Subset DEF Active
<1>2. \A f \in active : f.severity \in Severities /\ f.own
  BY DeskAssumption DEF Active, Rows
<1>3. SumFunction(bySeverity) = Cardinality(active)
  <2> DEFINE class == [f \in active |-> f.severity]
  <2>1. DOMAIN bySeverity = Severities /\ IsFiniteSet(DOMAIN bySeverity)
    <3>1. ASSUME NEW x, NEW y PROVE IsFiniteSet({x, y})
      <4>1. {x, y} = {x} \cup {y} /\ IsFiniteSet({x}) /\ IsFiniteSet({y})
        BY FS_Singleton
      <4>2. IsFiniteSet({x} \cup {y})
        BY <4>1, FS_Union
      <4>3. QED
        BY <4>1, <4>2
    <3>2. Severities = ({"critical", "high"} \cup {"medium", "low"}) \cup {"info", "unknown"}
      BY DEF Severities
    <3>3. IsFiniteSet(Severities)
      BY <3>1, <3>2, FS_Union
    <3>4. QED
      BY <3>3 DEF ActiveBySeverity
  <2>2. \A f \in active : class[f] \in DOMAIN bySeverity
    BY <1>2, <2>1
  <2>3. \A s \in DOMAIN bySeverity : bySeverity[s] = Cardinality({f \in active : class[f] = s})
    BY DEF ActiveBySeverity, OfSeverity
  <2> HIDE DEF active, bySeverity, class
  <2>4. QED
    BY <1>1, <2>1, <2>2, <2>3, ClassesAddUp
<1>4. IsFiniteSet(assets)
  <2> DEFINE class == [f \in active |-> f.asset]
  <2>1. class \in Surjection(active, assets)
    BY DEF Surjection
  <2> HIDE DEF class, assets, active
  <2>2. QED
    BY <1>1, <2>1, FS_Surjection
<1>5. ASSUME NEW posture \in RiskPosture(Rows, PostureLimit),
             NEW listed, listed = {f \in active : f.asset \in DOMAIN posture}
      PROVE  /\ SumFunction([a \in DOMAIN posture |-> posture[a].total]) = Cardinality(listed)
             /\ Cardinality(assets) <= PostureLimit => listed = active
             /\ \A f \in active \ listed : f.severity = "critical" =>
                  \A a \in DOMAIN posture : posture[a].score >= RiskWeight["critical"]
  <2>1. {f.asset : f \in {g \in active : g.own}} = assets
    BY <1>2
  <2>2. PICK top \in Cut(assets, PostureLimit) :
          /\ \A a \in top, b \in assets \ top : ~Outranks(RiskOf(Rows, b), RiskOf(Rows, a))
          /\ posture = [a \in top |-> RiskOf(Rows, a)]
    <3> HIDE DEF assets, active
    <3>1. QED
      BY <1>5, <2>1 DEF RiskPosture, active
  <2>3. DOMAIN posture = top /\ top \subseteq assets /\ \A a \in top : posture[a] = RiskOf(Rows, a)
    BY <2>2 DEF Cut
  <2> DEFINE totals == [a \in DOMAIN posture |-> posture[a].total]
             class == [f \in listed |-> f.asset]
  <2>4. SumFunction(totals) = Cardinality(listed)
    <3>1. IsFiniteSet(listed) /\ IsFiniteSet(top)
      BY <1>1, <1>4, <1>5, <2>3, FS_Subset
    <3>2. DOMAIN totals = top /\ \A f \in listed : class[f] \in DOMAIN totals
      BY <1>5, <2>3
    <3>3. ASSUME NEW a \in DOMAIN totals
          PROVE  totals[a] = Cardinality({f \in listed : class[f] = a})
      <4>1. totals[a] = Cardinality({f \in active : f.asset = a})
        BY <2>3, <3>3, RiskIsSummed
      <4>2. {f \in active : f.asset = a} = {f \in listed : class[f] = a}
        BY <1>5, <3>3
      <4>3. QED
        BY <4>1, <4>2
    <3> HIDE DEF totals, class
    <3>4. QED
      BY <3>1, <3>2, <3>3, ClassesAddUp
  <2>5. ASSUME Cardinality(assets) <= PostureLimit PROVE listed = active
    <3> HIDE DEF assets
    <3>1. Cardinality(top) = Cardinality(assets)
      BY <1>4, <2>2, <2>5, FS_CardinalityType, DeskAssumption DEF Cut
    <3>2. top = assets
      BY <1>4, <2>3, <3>1, FS_Subset
    <3>3. QED
      BY <1>5, <2>3, <3>2 DEF assets
  <2>6. ASSUME NEW f \in active \ listed, f.severity = "critical", NEW a \in DOMAIN posture
        PROVE  posture[a].score >= RiskWeight["critical"]
    <3>1. f.asset \in assets \ top /\ a \in top /\ posture[a] = RiskOf(Rows, a)
      BY <1>5, <2>3, <2>6
    <3>2. ~(RiskOf(Rows, f.asset).score > RiskOf(Rows, a).score)
      BY <2>2, <3>1 DEF Outranks
    <3>3. RiskOf(Rows, f.asset).score \in Int /\ RiskOf(Rows, a).score \in Int
      BY RiskIsSummed
    <3>4. RiskOf(Rows, f.asset).score >= RiskWeight["critical"]
      BY <2>6, RiskIsSummed
    <3>5. RiskWeight["critical"] \in Int
      BY DEF RiskWeight
    <3>6. QED
      BY <3>1, <3>2, <3>3, <3>4, <3>5
  <2>7. QED
    BY <2>4, <2>5, <2>6
<1>6. QED
  BY <1>3, <1>5 DEF DashboardAddsUp

LEMMA DigestHolds == DigestIsHonest
<1>1. ASSUME NEW top \in DigestTops(Rows, Limit)
      PROVE  /\ top \subseteq Active(Rows) /\ Cardinality(top) <= Limit
             /\ (\E f \in Active(Rows) \ top : f.overdue) => \A f \in top : f.overdue
             /\ Active(Rows) # {} => top # {}
  BY RowsAreFinite, DigestListsLateFirst, DeskAssumption
<1>2. ASSUME Quiet(Rows)
      PROVE  ActiveBySeverity(Rows)["critical"] + ActiveBySeverity(Rows)["high"] = 0
  <2>1. OfSeverity(Active(Rows), "critical") = {} /\ OfSeverity(Active(Rows), "high") = {}
    BY <1>2 DEF Quiet, OfSeverity, Serious
  <2>2. QED
    BY <2>1, FS_EmptySet DEF ActiveBySeverity, Severities
<1>3. QED
  BY <1>1, <1>2 DEF DigestIsHonest

\* A row shows some control: its tags, or the default of the standard.
LEMMA EveryRowIsShown ==
  ASSUME NEW standard, NEW rows
  PROVE  UNION {Buckets(standard, rows)[c] : c \in DOMAIN Buckets(standard, rows)} = rows
<1>1. \A f \in rows : Shown(standard, f) # {}
  BY DEF Shown
<1> DEFINE controls == UNION {Shown(standard, f) : f \in rows}
<1>2. /\ DOMAIN Buckets(standard, rows) = controls
      /\ \A c \in controls : Buckets(standard, rows)[c] = {f \in rows : c \in Shown(standard, f)}
  BY DEF Buckets
<1>3. \A f \in rows : \E c \in controls : f \in {g \in rows : c \in Shown(standard, g)}
  BY <1>1
<1>4. QED
  BY <1>2, <1>3

\* Of the retrievals only the card data query and the question's own quote
\* findings as active.
LEMMA RetrievedIsActive ==
  ASSUME NEW intent, NEW got \in Retrievals(Rows, intent, Limit)
  PROVE  /\ got.cde \subseteq {f \in Active(Rows) : f.cde}
         /\ "false_positive" \notin intent => got.asked \subseteq Active(Rows)
         /\ got.hits \cap (got.cde \cup got.asked) = {}
<1> DEFINE cde == IF {"pci_dss", "cde"} \cap intent # {} THEN CdeQuotes(Rows, Limit) ELSE {{}}
           asked == IF "vulnerabilities" \in intent THEN Firsts(Asked(Rows, intent), Limit) ELSE {{}}
<1>1. PICK c \in cde, v \in asked : \E h : got = [cde |-> c, asked |-> v, hits |-> h \ (c \cup v)]
  BY DEF Retrievals
<1>2. c \subseteq {f \in Active(Rows) : f.cde}
  BY <1>1 DEF CdeQuotes, Firsts, Cut
<1>3. v \subseteq Asked(Rows, intent)
  BY <1>1 DEF Firsts, Cut
<1>4. "false_positive" \notin intent => Asked(Rows, intent) \subseteq Active(Rows)
  BY DEF Asked, Active
<1>5. QED
  BY <1>1, <1>2, <1>3, <1>4

LEMMA QuotesHold == QuotesAreReported
<1>1. \A standard \in Standards, cdeOnly \in BOOLEAN :
        LET rows == InReport(standard, Rows, cdeOnly)
            buckets == Buckets(standard, rows)
        IN UNION {buckets[c] : c \in DOMAIN buckets} = rows
  BY EveryRowIsShown
<1>2. \A cdeOnly \in BOOLEAN : {f \in Active(Rows) : f.cde} \subseteq PciScope(Rows, cdeOnly)
  BY DEF PciScope, Active
<1>3. QED
  BY <1>1, <1>2, RetrievedIsActive DEF QuotesAreReported

-----------------------------------------------------------------------------
(***************************************************************************)
(* The theorems.                                                           *)
(***************************************************************************)

LEMMA DeskIsTyped == ASSUME DeskIInv PROVE TypeOK
<1>1. row \in [Findings -> Finding]
  BY DEF DeskIInv, RowOK
<1>2. ASSUME NEW r \in Requests, Running(req[r])
      PROVE  /\ req[r].pc \in {"load", "call", "flush", "commit"} /\ req[r].kind \in Kinds
             /\ req[r].proc \in Procs /\ DOMAIN req[r].writes \subseteq Findings
             /\ \A f \in DOMAIN req[r].writes :
                  DOMAIN req[r].writes[f] \subseteq {"status", "retest", "guide", "notes", "controls"}
             /\ req[r].pc = "flush" => req[r].todo # <<>>
  BY <1>2 DEF Running, WriteOK, OfColumn
<1>3. QED
  BY <1>1, <1>2 DEF DeskIInv, RequestOK, TypeOK

\* Settings, findings and requests keep their types; a request that is about to
\* flush has a finding to write to (bulk_generate_ai_patch).
THEOREM TypeCorrect == Spec => []TypeOK
BY DeskInductive, DeskIsTyped, PTL

\* However requests overlap, fail and fall back, and whatever the settings are
\* changed to meanwhile, no finding holds a template for the model's remediation
\* or analysis unless the deployment allows it (generate, resolve_provider).
THEOREM TemplatesAreTold == Spec => []NoSilentTemplate
<1>1. ASSUME DeskIInv PROVE NoSilentTemplate
  BY <1>1, RowsHaveColumns DEF DeskIInv, NoSilentTemplate, Told
<1>2. QED
  BY <1>1, DeskInductive, PTL

\* To save the AI settings as they are shown never changes the key or the
\* endpoint that calls use (public_ai_settings_view, save_ai_settings).
THEOREM SettingsNeutral == Spec => []SavingTheViewIsNeutral
<1>1. ASSUME DeskIInv PROVE SavingTheViewIsNeutral
  BY <1>1, ViewIsNeutral DEF DeskIInv
<1>2. QED
  BY <1>1, DeskInductive, PTL

\* For every list of scans and every state of the findings, a client report that
\* warns of nothing leaves nothing unsaid, and its checklists agree (generate).
THEOREM ReportsAreClean == Spec => []SilentReportIsClean
BY SilenceIsClean, PTL

\* The dashboard, the digest, the compliance reports and SOC chat agree on the
\* findings, for any table, limit and question (asset_risk_posture, build_digest,
\* generate_pci_dss, retrieve).
THEOREM ReadersHold == Spec => []ReadersAgree
<1>1. ReadersAgree
  BY DashboardHolds, DigestHolds, QuotesHold DEF ReadersAgree
<1>2. QED
  BY <1>1, PTL

\* Only the commit of an analyst's request changes the status, the retest link
\* or the accepted controls of a finding, although model requests hold rows they
\* loaded before it (generate_ai_patch, analyze_false_positive, suggest).
THEOREM ModelOnlyAdvises == Spec => AdvisoryOnly
<1> DEFINE Kept(f) ==
      <<row'[f].status, row'[f].retest, row'[f].controls>> # <<row[f].status, row[f].retest, row[f].controls>> =>
         \E r \in Requests : /\ req[r].pc = "commit" /\ req'[r] = Done
                             /\ req[r].kind \in {"triage", "accept"} /\ f \in DOMAIN req[r].writes
<1>1. ASSUME DeskIInv, Next PROVE \A f \in Findings : Kept(f)
  <2> HIDE DEF Kept
  <2>1. row' = row \/ \E r \in Requests : Commit(r)
    <3>1. \A r, kind, p, todo, pc, to : Ask(r, kind, p, todo, pc, to) => row' = row
      BY DEF Ask
    <3>2. \A r \in Requests, p \in Procs, f \in Findings :
            /\ \A s, t : AskTriage(r, p, f, s, t) => row' = row
            /\ \A named : AskAccept(r, p, f, named) => row' = row
            /\ \A kind : AskModel(r, kind, p, f) => row' = row
      BY <3>1 DEF AskTriage, AskAccept, AskModel
    <3>3. \A r \in Requests, p \in Procs :
            (\A batch : AskBulk(r, p, batch) => row' = row) /\ (AskChat(r, p) => row' = row)
      BY <3>1 DEF AskBulk, AskChat
    <3>4. \A r \in Requests :
            Answer(r) \/ LoadFinding(r) \/ Timeout(r) \/ Flush(r) \/ DeadlockVictim(r) => row' = row
      BY DEF Answer, CallFails, Timeout, LoadFinding, Flush, DeadlockVictim
    <3>5. QED
      BY <1>1, <3>2, <3>3, <3>4 DEF Next, Proceed
  <2>2. ASSUME NEW r \in Requests, Commit(r), NEW f \in Findings PROVE Kept(f)
    <3> USE DEF Kept
    <3> DEFINE w == req[r].writes
    <3>1. Running(req[r]) /\ req[r].pc = "commit" /\ req'[r] = Done
      BY <1>1, <2>2 DEF Commit, DeskIInv, RequestOK, New, Done
    <3>2. row'[f] = IF f \in DOMAIN w
                    THEN [c \in DOMAIN row[f] |-> IF c \in DOMAIN w[f] THEN w[f][c] ELSE row[f][c]]
                    ELSE row[f]
      BY <2>2 DEF Commit
    <3>3. CASE f \notin DOMAIN w
      BY <3>2, <3>3
    <3>4. CASE f \in DOMAIN w /\ req[r].kind \in People
      BY <3>1, <3>4 DEF People
    <3>5. CASE f \in DOMAIN w /\ req[r].kind \notin People
      <4>1. DOMAIN w[f] \subseteq {"guide", "notes"}
        BY <3>1, <3>5 DEF Running, WriteOK
      <4>2. DOMAIN row[f] = {"status", "retest", "guide", "notes", "controls"}
        BY <1>1, RowsHaveColumns DEF DeskIInv
      <4>3. \A c \in {"status", "retest", "controls"} : row'[f][c] = row[f][c]
        BY <3>2, <3>5, <4>1, <4>2
      <4>4. QED
        BY <4>3
    <3>6. QED
      BY <3>3, <3>4, <3>5
  <2>3. QED
    BY <2>1, <2>2 DEF Kept
<1>2. ASSUME DeskIInv, [Next]_vars PROVE [\A f \in Findings : Kept(f)]_vars
  BY <1>1, <1>2
<1> HIDE DEF Kept
<1>3. Spec => [][\A f \in Findings : Kept(f)]_vars
  BY <1>2, DeskInductive, PTL DEF Spec
<1>4. QED
  BY <1>3 DEF AdvisoryOnly, Kept
=============================================================================
