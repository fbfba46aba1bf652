------------------------- MODULE ThreatIntel_proofs -------------------------
(***************************************************************************)
(* Theorems about ThreatIntel, for every number of findings, entries,      *)
(* enrichments and synchronisations, changes of the catalog and failures.  *)
(*                                                                         *)
(* A session works on rows that others change under it.  What it has read  *)
(* stays true because flags are never taken back (Grows), and what it has  *)
(* computed is founded on what is committed or on answers it will commit   *)
(* with it (Sound).  No lock is needed for that.                           *)
(***************************************************************************)
EXTENDS ThreatIntel, TLAPS

\* Only findings that were reported carry flags.
FlagsAreOfFindings == \A f \in Findings : fin[f].kev \/ fin[f].exploit => fin[f].found

\* What a session has stored: it leaves KEV alone and never takes an exploit back.
AnswersAreSound(s) ==
  \A c \in s.got :
    /\ s.new[c].kev = s.old[c].kev /\ (s.old[c].kev => intel[c].kev)
    /\ s.old[c].exploit => s.new[c].exploit /\ intel[c].exploit
    /\ s.new[c].exploit => Nvd[c] # None /\ HasExploit(Nvd[c])

\* What it has read is still so, and what it has computed is founded.
RowsAreSound(s) ==
  \A f \in Findings :
    /\ s.out[f].found = s.rows[f].found
    /\ s.rows[f].found => fin[f].found
    /\ f \in s.todo => s.rows[f].found
    /\ s.rows[f].kev => s.out[f].kev /\ intel[Cve[f]].kev
    /\ s.rows[f].exploit => s.out[f].exploit /\ intel[Cve[f]].exploit
    /\ s.out[f].kev => s.rows[f].found /\ intel[Cve[f]].kev
    /\ s.out[f].exploit =>
         /\ s.rows[f].found
         /\ intel[Cve[f]].exploit \/ (Cve[f] \in s.got /\ s.new[Cve[f]].exploit)
    /\ Cve[f] \in s.got =>
         /\ s.rows[f].kev => s.old[Cve[f]].kev
         /\ s.rows[f].exploit => s.old[Cve[f]].exploit

Sound(s) == AnswersAreSound(s) /\ RowsAreSound(s) /\ (s.pc = "selected" => s.got = {})

IInv ==
  /\ TypeOK
  /\ FlagsAreFounded
  /\ FlagsAreOfFindings
  /\ feed \subseteq listed /\ \A k \in Syncs : syn[k].kev \subseteq listed
  /\ \A e \in Enrichers : Sound(enr[e])

\* A flush writes an entry column by column.
LEMMA WrittenIntel ==
  ASSUME NEW cur \in Intel, NEW old \in Intel, NEW new \in Intel
  PROVE  LET w == Written(cur, old, new)
         IN /\ w \in Intel
            /\ w.kev = Column(cur.kev, old.kev, new.kev)
            /\ w.exploit = Column(cur.exploit, old.exploit, new.exploit)
BY DEF Written, Column, Intel

LEMMA WrittenRow ==
  ASSUME NEW cur \in Row, NEW old \in Row, NEW new \in Row
  PROVE  LET w == Written(cur, old, new)
         IN /\ w \in Row
            /\ w.found = Column(cur.found, old.found, new.found)
            /\ w.kev = Column(cur.kev, old.kev, new.kev)
            /\ w.exploit = Column(cur.exploit, old.exploit, new.exploit)
BY DEF Written, Column, Row

\* Nothing read, nothing stored.
LEMMA Starts == /\ NoIntel \in Intel /\ NoRow \in Row /\ Idle \in Session /\ NoSync \in Sync
BY DEF NoIntel, Intel, NoRow, Row, Idle, Session, NoSync, Sync, Severities, Sources

\* The score is a percentage.
LEMMA ScoreRange ==
  ASSUME NEW sev \in Severities, NEW cvss \in 0 .. 10, NEW i \in Intel, NEW epss \in 0 .. 100 \cup {None}
  PROVE  RiskScore(sev, cvss, i, epss) \in 0 .. 100
BY ConstantsAssumption DEF RiskScore, SeverityBase, AtLeast, Boost, Severities, Intel

\* A finding takes its flags from its entry.
LEMMA EnrichedType ==
  ASSUME NEW r \in Row, NEW f \in Findings, NEW i \in Intel
  PROVE  LET n == Enriched(r, f, i, i.epss)
         IN /\ n \in Row
            /\ n.found = r.found /\ n.kev = i.kev /\ n.exploit = i.exploit
<1>1. RiskScore(r.sev, IF Cvss[f] # 0 THEN Cvss[f] ELSE i.cvss, i, i.epss) \in 0 .. 100
  BY ScoreRange, ConstantsAssumption DEF Row, Intel
<1>2. Promoted(r.sev, i) \in Severities
  BY DEF Promoted, Row, Severities
<1>3. i.kev \in BOOLEAN /\ i.exploit \in BOOLEAN /\ i.epss \in 0 .. 100 \cup {None}
  BY DEF Intel
<1>4. r.found \in BOOLEAN
  BY DEF Row
<1>5. QED
  BY <1>1, <1>2, <1>3, <1>4 DEF Enriched, Row

\* KEV adds its flag, NVD may add an exploit, EPSS neither.
LEMMA StoredAnswers ==
  ASSUME NEW i \in Intel, NEW c \in Cves
  PROVE  /\ KevUpserted(i, c) \in Intel
         /\ KevUpserted(i, c).kev /\ KevUpserted(i, c).exploit = i.exploit
         /\ Nvd[c] # None =>
              /\ NvdUpserted(i, Nvd[c]) \in Intel
              /\ NvdUpserted(i, Nvd[c]).kev = i.kev
              /\ NvdUpserted(i, Nvd[c]).exploit = (i.exploit \/ HasExploit(Nvd[c]))
         /\ Epss[c] # None =>
              /\ EpssUpserted(i, Epss[c]) \in Intel
              /\ EpssUpserted(i, Epss[c]).kev = i.kev /\ EpssUpserted(i, Epss[c]).exploit = i.exploit
<1>1. KevUpserted(i, c) \in Intel /\ KevUpserted(i, c).kev /\ KevUpserted(i, c).exploit = i.exploit
  <2>1. i.sources \cup {"cisa_kev"} \in SUBSET Sources /\ (c \in Ransom) \in BOOLEAN
    BY DEF Intel, Sources
  <2>2. QED
    BY <2>1 DEF KevUpserted, Intel
<1>2. ASSUME Nvd[c] # None
      PROVE  /\ NvdUpserted(i, Nvd[c]) \in Intel
             /\ NvdUpserted(i, Nvd[c]).kev = i.kev
             /\ NvdUpserted(i, Nvd[c]).exploit = (i.exploit \/ HasExploit(Nvd[c]))
  <2>1. Nvd[c] \in Page
    BY <1>2, ConstantsAssumption
  <2>2. BaseScore(Nvd[c]) \in -1 .. 10 /\ HasExploit(Nvd[c]) \in BOOLEAN
    BY <2>1 DEF BaseScore, Page, HasExploit
  <2>3. i.sources \cup {"nvd"} \in SUBSET Sources /\ (i.exploit \/ HasExploit(Nvd[c])) \in BOOLEAN
    BY DEF Intel, Sources
  <2>4. (IF BaseScore(Nvd[c]) # -1 THEN BaseScore(Nvd[c]) ELSE i.cvss) \in 0 .. 10
    BY <2>2 DEF Intel
  <2>5. QED
    BY <2>3, <2>4 DEF NvdUpserted, Intel
<1>3. ASSUME Epss[c] # None
      PROVE  /\ EpssUpserted(i, Epss[c]) \in Intel
             /\ EpssUpserted(i, Epss[c]).kev = i.kev /\ EpssUpserted(i, Epss[c]).exploit = i.exploit
  BY <1>3, ConstantsAssumption DEF EpssUpserted, Intel, Sources
<1>4. QED
  BY <1>1, <1>2, <1>3

-----------------------------------------------------------------------------
(* Types. *)

LEMMA InitTypeOK == Init => TypeOK
BY Starts, ConstantsAssumption DEF Init, TypeOK

\* A step that only moves a session.
LEMMA BecomesType ==
  ASSUME TypeOK, NEW e \in Enrichers, NEW s \in Session, Becomes(e, s), SessionOnly, fails' \in Nat
  PROVE  TypeOK'
BY DEF TypeOK, Becomes, SessionOnly

\* The sessions the actions make.
LEMMA SelectedType ==
  ASSUME TypeOK, NEW S \in SUBSET Findings
  PROVE  LET s == [Idle EXCEPT !.pc = "selected", !.todo = S, !.rows = Batch(S), !.out = Batch(S)]
         IN /\ s \in Session /\ s.todo = S /\ s.rows = Batch(S) /\ s.out = Batch(S)
            /\ s.got = {} /\ s.pc = "selected"
<1>1. Batch(S) \in [Findings -> Row]
  BY Starts DEF TypeOK, Batch
<1>2. QED
  BY Starts, <1>1 DEF TypeOK, Idle, Session

LEMMA SeenType ==
  ASSUME TypeOK, NEW e \in Enrichers, NEW f \in Findings, NEW i \in Intel
  PROVE  LET s == Seen(e, f, i)
         IN /\ s \in Session /\ s.todo = enr[e].todo \ {f} /\ s.rows = enr[e].rows
            /\ s.got = enr[e].got /\ s.old = enr[e].old /\ s.new = enr[e].new /\ s.pc = enr[e].pc
            /\ s.out = [enr[e].out EXCEPT ![f] = Enriched(enr[e].rows[f], f, i, i.epss)]
<1>1. enr[e] \in Session /\ enr[e].rows[f] \in Row
  BY DEF TypeOK, Session
<1>2. Enriched(enr[e].rows[f], f, i, i.epss) \in Row
  BY <1>1, EnrichedType
<1>3. QED
  BY <1>1, <1>2 DEF Seen, Session

LEMMA ViewType ==
  ASSUME TypeOK, NEW e \in Enrichers, NEW c \in Cves
  PROVE  View(e, c) \in Intel /\ Old(e, c) \in Intel
BY DEF TypeOK, View, Old, Session

\* The session of each action that stores answers.
Asked(e) ==
  LET S == Scored(enr[e].todo)
  IN [enr[e] EXCEPT
       !.pc = "flushing", !.epss = TRUE, !.got = S,
       !.old = [c \in Cves |-> IF c \in S THEN intel[c] ELSE NoIntel],
       !.new = [c \in Cves |-> IF c \in S THEN EpssUpserted(intel[c], Epss[c]) ELSE NoIntel]]

LEMMA AskedType ==
  ASSUME TypeOK, NEW e \in Enrichers
  PROVE  LET s == Asked(e)
             S == Scored(enr[e].todo)
         IN /\ s \in Session /\ S \subseteq Cves /\ \A c \in S : Epss[c] # None
            /\ s.pc = "flushing" /\ s.got = S /\ s.todo = enr[e].todo
            /\ s.rows = enr[e].rows /\ s.out = enr[e].out
            /\ \A c \in S : s.old[c] = intel[c] /\ s.new[c] = EpssUpserted(intel[c], Epss[c])
<1> DEFINE S == Scored(enr[e].todo)
           old == [c \in Cves |-> IF c \in S THEN intel[c] ELSE NoIntel]
           new == [c \in Cves |-> IF c \in S THEN EpssUpserted(intel[c], Epss[c]) ELSE NoIntel]
<1>1. enr[e] \in Session /\ enr[e].todo \in SUBSET Findings
  BY DEF TypeOK, Session
<1>2. S \in SUBSET Cves /\ \A c \in S : Epss[c] # None
  BY <1>1, ConstantsAssumption DEF Scored
<1>3. old \in [Cves -> Intel]
  BY Starts DEF TypeOK
<1>4. new \in [Cves -> Intel]
  <2>1. \A c \in S : EpssUpserted(intel[c], Epss[c]) \in Intel
    BY <1>2, StoredAnswers DEF TypeOK
  <2>2. QED
    BY <2>1, Starts
<1>5. \A c \in S : old[c] = intel[c] /\ new[c] = EpssUpserted(intel[c], Epss[c])
  BY <1>2
<1> HIDE DEF S, old, new
<1>6. LET s == [enr[e] EXCEPT !.pc = "flushing", !.epss = TRUE, !.got = S, !.old = old, !.new = new]
      IN /\ s \in Session /\ s.pc = "flushing" /\ s.got = S /\ s.todo = enr[e].todo
         /\ s.rows = enr[e].rows /\ s.out = enr[e].out /\ s.old = old /\ s.new = new
  BY <1>1, <1>2, <1>3, <1>4 DEF Session
<1>7. Asked(e) = [enr[e] EXCEPT !.pc = "flushing", !.epss = TRUE, !.got = S, !.old = old, !.new = new]
  BY DEF Asked, S, old, new
<1>8. QED
  BY <1>2, <1>5, <1>6, <1>7 DEF S

Answered(e, c) ==
  [enr[e] EXCEPT !.pc = "flushing", !.lookups = @ + 1, !.got = @ \cup {c},
                 !.old[c] = Old(e, c), !.new[c] = NvdUpserted(View(e, c), Nvd[c])]

LEMMA AnsweredType ==
  ASSUME TypeOK, NEW e \in Enrichers, NEW c \in Cves, Nvd[c] # None
  PROVE  LET s == Answered(e, c)
         IN /\ s \in Session
            /\ s.pc = "flushing" /\ s.got = enr[e].got \cup {c} /\ s.todo = enr[e].todo
            /\ s.rows = enr[e].rows /\ s.out = enr[e].out
            /\ s.old = [enr[e].old EXCEPT ![c] = Old(e, c)]
            /\ s.new = [enr[e].new EXCEPT ![c] = NvdUpserted(View(e, c), Nvd[c])]
<1>1. enr[e] \in Session
  BY DEF TypeOK
<1>2. Old(e, c) \in Intel /\ NvdUpserted(View(e, c), Nvd[c]) \in Intel
  BY ViewType, StoredAnswers
<1> DEFINE old == [enr[e].old EXCEPT ![c] = Old(e, c)]
           new == [enr[e].new EXCEPT ![c] = NvdUpserted(View(e, c), Nvd[c])]
           got == enr[e].got \cup {c}
           lookups == enr[e].lookups + 1
<1>3. old \in [Cves -> Intel] /\ new \in [Cves -> Intel]
  BY <1>1, <1>2 DEF Session
<1>4. got \in SUBSET Cves /\ lookups \in Nat
  BY <1>1 DEF Session
<1>5. Answered(e, c) = [enr[e] EXCEPT !.pc = "flushing", !.lookups = lookups, !.got = got,
                                      !.old = old, !.new = new]
  BY <1>1 DEF Answered, Session
<1> HIDE DEF old, new, got, lookups
<1>6. LET s == [enr[e] EXCEPT !.pc = "flushing", !.lookups = lookups, !.got = got, !.old = old, !.new = new]
      IN /\ s \in Session /\ s.pc = "flushing" /\ s.got = got /\ s.todo = enr[e].todo
         /\ s.rows = enr[e].rows /\ s.out = enr[e].out /\ s.old = old /\ s.new = new
  BY <1>1, <1>3, <1>4 DEF Session
<1>7. QED
  BY <1>5, <1>6 DEF old, new, got

LEMMA CountedType ==
  ASSUME NEW s \in Session
  PROVE  LET n == [s EXCEPT !.lookups = @ + 1]
         IN /\ n \in Session /\ n.pc = s.pc /\ n.todo = s.todo /\ n.rows = s.rows /\ n.out = s.out
            /\ n.got = s.got /\ n.old = s.old /\ n.new = s.new
BY DEF Session

LEMMA LockedType ==
  ASSUME TypeOK, NEW e \in Enrichers
  PROVE  LET s == [enr[e] EXCEPT !.pc = "visiting", !.held = @ \cup Touched(enr[e])]
         IN /\ s \in Session /\ s.pc = "visiting" /\ s.todo = enr[e].todo
            /\ s.rows = enr[e].rows /\ s.out = enr[e].out
            /\ s.got = enr[e].got /\ s.old = enr[e].old /\ s.new = enr[e].new
<1>1. enr[e] \in Session
  BY DEF TypeOK
<1>2. Touched(enr[e]) \subseteq Findings \cup Cves
  BY <1>1 DEF Touched, Session
<1>3. QED
  BY <1>1, <1>2 DEF Session

\* What an enrichment commits.
LEMMA FinishRows ==
  ASSUME TypeOK, NEW e \in Enrichers, Finish(e)
  PROVE  /\ intel' \in [Cves -> Intel] /\ fin' \in [Findings -> Row] /\ enr' = [enr EXCEPT ![e] = Idle]
         /\ \A c \in Cves \ enr[e].got : intel'[c] = intel[c]
         /\ \A c \in enr[e].got :
              /\ intel'[c].kev = Column(intel[c].kev, enr[e].old[c].kev, enr[e].new[c].kev)
              /\ intel'[c].exploit = Column(intel[c].exploit, enr[e].old[c].exploit, enr[e].new[c].exploit)
         /\ \A f \in Findings :
              /\ fin'[f].found = Column(fin[f].found, enr[e].rows[f].found, enr[e].out[f].found)
              /\ fin'[f].kev = Column(fin[f].kev, enr[e].rows[f].kev, enr[e].out[f].kev)
              /\ fin'[f].exploit = Column(fin[f].exploit, enr[e].rows[f].exploit, enr[e].out[f].exploit)
<1> DEFINE s == enr[e]
<1>1. /\ s.got \subseteq Cves /\ s.old \in [Cves -> Intel] /\ s.new \in [Cves -> Intel]
      /\ s.rows \in [Findings -> Row] /\ s.out \in [Findings -> Row]
  BY DEF TypeOK, Session
<1>2. /\ intel' = [c \in Cves |-> IF c \in s.got THEN Written(intel[c], s.old[c], s.new[c]) ELSE intel[c]]
      /\ fin' = [f \in Findings |-> Written(fin[f], s.rows[f], s.out[f])]
      /\ enr' = [enr EXCEPT ![e] = Idle]
  BY DEF Finish, Becomes
<1>3. intel \in [Cves -> Intel] /\ fin \in [Findings -> Row]
  BY DEF TypeOK
<1> HIDE DEF s
<1>4. ASSUME NEW c \in Cves
      PROVE  LET w == Written(intel[c], s.old[c], s.new[c])
             IN /\ w \in Intel
                /\ w.kev = Column(intel[c].kev, s.old[c].kev, s.new[c].kev)
                /\ w.exploit = Column(intel[c].exploit, s.old[c].exploit, s.new[c].exploit)
  <2>1. intel[c] \in Intel /\ s.old[c] \in Intel /\ s.new[c] \in Intel
    BY <1>1, <1>3
  <2>2. QED
    BY <2>1, WrittenIntel
<1>5. ASSUME NEW f \in Findings
      PROVE  LET w == Written(fin[f], s.rows[f], s.out[f])
             IN /\ w \in Row
                /\ w.found = Column(fin[f].found, s.rows[f].found, s.out[f].found)
                /\ w.kev = Column(fin[f].kev, s.rows[f].kev, s.out[f].kev)
                /\ w.exploit = Column(fin[f].exploit, s.rows[f].exploit, s.out[f].exploit)
  <2>1. fin[f] \in Row /\ s.rows[f] \in Row /\ s.out[f] \in Row
    BY <1>1, <1>3
  <2>2. QED
    BY <2>1, WrittenRow
<1>6. QED
  BY <1>1, <1>2, <1>3, <1>4, <1>5 DEF s

\* What a synchronisation commits.
LEMMA SavedEntries ==
  ASSUME TypeOK, NEW k \in Syncs, SaveKev(k)
  PROVE  /\ intel' \in [Cves -> Intel]
         /\ \A c \in Cves :
              /\ intel[c].kev => intel'[c].kev
              /\ intel'[c].kev => intel[c].kev \/ c \in syn[k].kev
              /\ intel'[c].exploit = intel[c].exploit
<1>1. syn[k].old \in [Cves -> Intel] /\ intel \in [Cves -> Intel]
  BY DEF TypeOK, Sync
<1>2. ASSUME NEW c \in Cves
      PROVE  /\ intel'[c] \in Intel
             /\ intel[c].kev => intel'[c].kev
             /\ intel'[c].kev => intel[c].kev \/ c \in syn[k].kev
             /\ intel'[c].exploit = intel[c].exploit
  <2> DEFINE old == syn[k].old[c]  new == Upserted(k)[c]
  <2>1. /\ intel[c] \in Intel /\ old \in Intel /\ new \in Intel
        /\ c \in syn[k].kev => new.kev
        /\ c \notin syn[k].kev => new = old
        /\ new.exploit = old.exploit
    <3>1. KevUpserted(old, c) \in Intel /\ KevUpserted(old, c).kev /\ KevUpserted(old, c).exploit = old.exploit
      BY <1>1, StoredAnswers
    <3>2. QED
      BY <1>1, <3>1 DEF Upserted
  <2>2. intel'[c] = Written(intel[c], old, new)
    BY DEF SaveKev
  <2>3. /\ intel'[c] \in Intel
        /\ intel'[c].kev = Column(intel[c].kev, old.kev, new.kev)
        /\ intel'[c].exploit = Column(intel[c].exploit, old.exploit, new.exploit)
    BY <2>1, <2>2, WrittenIntel
  <2> HIDE DEF old, new
  <2>4. QED
    BY <2>1, <2>3 DEF Column
<1>3. intel' = [c \in Cves |-> intel'[c]]
  BY DEF SaveKev
<1>4. QED
  BY <1>2, <1>3

-----------------------------------------------------------------------------
(* Sessions stay sound. *)

LEMMA IdleSound == Sound(Idle)
BY DEF Sound, AnswersAreSound, RowsAreSound, Idle, NoRow

\* A step that only moves a session, and keeps it sound.
LEMMA SessionStep ==
  ASSUME IInv, NEW e \in Enrichers, NEW s \in Session, Sound(s),
         Becomes(e, s), SessionOnly, fails' \in Nat
  PROVE  IInv'
<1>1. TypeOK'
  BY BecomesType DEF IInv
<1>2. /\ feed' = feed /\ listed' = listed /\ intel' = intel /\ fin' = fin /\ syn' = syn
      /\ enr' = [enr EXCEPT ![e] = s]
  BY DEF SessionOnly, Becomes
<1>3. ASSUME NEW p \in Enrichers PROVE Sound(enr[p])'
  <2>1. enr'[p] = IF p = e THEN s ELSE enr[p]
    BY <1>2 DEF IInv, TypeOK
  <2>2. Sound(s) /\ Sound(enr[p])
    BY DEF IInv
  <2>3. QED
    BY <1>2, <2>1, <2>2 DEF Sound, AnswersAreSound, RowsAreSound
<1>4. QED
  BY <1>1, <1>2, <1>3 DEF IInv, FlagsAreFounded, FlagsAreOfFindings

LEMMA SelectedSound ==
  ASSUME IInv, NEW S \in SUBSET Findings, \A f \in S : fin[f].found
  PROVE  Sound([Idle EXCEPT !.pc = "selected", !.todo = S, !.rows = Batch(S), !.out = Batch(S)])
<1> DEFINE s == [Idle EXCEPT !.pc = "selected", !.todo = S, !.rows = Batch(S), !.out = Batch(S)]
<1>1. s.todo = S /\ s.rows = Batch(S) /\ s.out = Batch(S) /\ s.got = {}
  BY SelectedType DEF IInv
<1> HIDE DEF s
<1>2. Sound(s)
  BY <1>1 DEF Sound, AnswersAreSound, RowsAreSound, IInv, FlagsAreFounded, FlagsAreOfFindings, Batch, NoRow
<1>3. QED
  BY <1>2 DEF s

LEMMA AskedSound ==
  ASSUME IInv, NEW e \in Enrichers, enr[e].pc = "selected"
  PROVE  Sound(Asked(e))
<1> DEFINE s == Asked(e)
<1>1. /\ s.got \subseteq Cves /\ \A c \in s.got : Epss[c] # None
      /\ s.pc = "flushing" /\ s.todo = enr[e].todo /\ s.rows = enr[e].rows /\ s.out = enr[e].out
      /\ \A c \in s.got : s.old[c] = intel[c] /\ s.new[c] = EpssUpserted(intel[c], Epss[c])
  BY AskedType DEF IInv
<1>2. Sound(enr[e]) /\ enr[e].got = {}
  BY DEF IInv, Sound
<1>3. \A c \in s.got : s.new[c].kev = intel[c].kev /\ s.new[c].exploit = intel[c].exploit
  BY <1>1, StoredAnswers DEF IInv, TypeOK
<1> HIDE DEF s
<1>4. AnswersAreSound(s)
  BY <1>1, <1>3 DEF AnswersAreSound, IInv, FlagsAreFounded
<1>5. RowsAreSound(s)
  BY <1>1, <1>2 DEF Sound, RowsAreSound
<1>6. QED
  BY <1>1, <1>4, <1>5 DEF Sound, s

\* The intel a session works with is what is committed, and what it adds.
LEMMA ViewFacts ==
  ASSUME IInv, NEW e \in Enrichers, NEW c \in Cves
  PROVE  /\ View(e, c).kev = Old(e, c).kev
         /\ Old(e, c).kev => intel[c].kev
         /\ Old(e, c).exploit => View(e, c).exploit /\ intel[c].exploit
         /\ View(e, c).exploit => /\ Nvd[c] # None /\ HasExploit(Nvd[c])
                                  /\ intel[c].exploit \/ (c \in enr[e].got /\ enr[e].new[c].exploit)
         /\ \A f \in Findings : Cve[f] = c =>
              /\ enr[e].rows[f].kev => Old(e, c).kev
              /\ enr[e].rows[f].exploit => Old(e, c).exploit
<1>1. AnswersAreSound(enr[e]) /\ RowsAreSound(enr[e])
  BY DEF IInv, Sound
<1>2. CASE c \in enr[e].got
  BY <1>1, <1>2 DEF View, Old, AnswersAreSound, RowsAreSound
<1>3. CASE c \notin enr[e].got
  BY <1>1, <1>3 DEF View, Old, RowsAreSound, IInv, FlagsAreFounded
<1>4. QED
  BY <1>2, <1>3

LEMMA MatchedSound ==
  ASSUME IInv, NEW e \in Enrichers, NEW f \in enr[e].todo, enr[e].pc = "visiting"
  PROVE  Matched(e, f) \in Session /\ Sound(Matched(e, f))
<1> DEFINE s == Matched(e, f)  i == View(e, Cve[f])  n == Enriched(enr[e].rows[f], f, i, i.epss)
<1>1. f \in Findings /\ Cve[f] \in Cves /\ enr[e] \in Session /\ enr[e].rows[f] \in Row
  BY ConstantsAssumption DEF IInv, TypeOK, Session
<1>2. i \in Intel
  BY <1>1, ViewType DEF IInv
<1>3. /\ s \in Session /\ s.todo = enr[e].todo \ {f} /\ s.rows = enr[e].rows
      /\ s.got = enr[e].got /\ s.old = enr[e].old /\ s.new = enr[e].new /\ s.pc = enr[e].pc
      /\ s.out = [enr[e].out EXCEPT ![f] = n]
  BY <1>1, <1>2, SeenType DEF IInv, Matched
<1>4. n.found = enr[e].rows[f].found /\ n.kev = i.kev /\ n.exploit = i.exploit
  BY <1>1, <1>2, EnrichedType
<1>5. /\ i.kev => intel[Cve[f]].kev
      /\ i.exploit => intel[Cve[f]].exploit \/ (Cve[f] \in enr[e].got /\ enr[e].new[Cve[f]].exploit)
      /\ enr[e].rows[f].kev => i.kev
      /\ enr[e].rows[f].exploit => i.exploit
  BY <1>1, ViewFacts
<1>6. Sound(enr[e]) /\ enr[e].out \in [Findings -> Row]
  BY <1>1 DEF IInv, Session
<1> HIDE DEF s, i, n
<1>7. AnswersAreSound(s)
  BY <1>3, <1>6 DEF Sound, AnswersAreSound
<1>8. ASSUME NEW g \in Findings, g # f PROVE s.out[g] = enr[e].out[g]
  BY <1>3, <1>6, <1>8
<1>9. s.out[f] = n
  BY <1>1, <1>3, <1>6
<1>10. RowsAreSound(s)
  BY <1>1, <1>3, <1>4, <1>5, <1>6, <1>8, <1>9 DEF Sound, RowsAreSound
<1>11. s \in Session /\ Sound(s)
  BY <1>3, <1>7, <1>10 DEF Sound
<1>12. QED
  BY <1>11 DEF s

LEMMA AnsweredSound ==
  ASSUME IInv, NEW e \in Enrichers, NEW c \in Cves, Nvd[c] # None
  PROVE  Sound(Answered(e, c))
<1> DEFINE s == Answered(e, c)  old == Old(e, c)  new == NvdUpserted(View(e, c), Nvd[c])
<1>1. /\ s.pc = "flushing" /\ s.got = enr[e].got \cup {c} /\ s.todo = enr[e].todo
      /\ s.rows = enr[e].rows /\ s.out = enr[e].out
      /\ s.old = [enr[e].old EXCEPT ![c] = old] /\ s.new = [enr[e].new EXCEPT ![c] = new]
  BY AnsweredType DEF IInv
<1>2. Sound(enr[e]) /\ enr[e].old \in [Cves -> Intel] /\ enr[e].new \in [Cves -> Intel] /\ enr[e].got \subseteq Cves
  BY DEF IInv, TypeOK, Session
<1>3. new.kev = View(e, c).kev /\ new.exploit = (View(e, c).exploit \/ HasExploit(Nvd[c]))
  BY StoredAnswers, ViewType DEF IInv
<1>4. /\ new.kev = old.kev /\ (old.kev => intel[c].kev)
      /\ old.exploit => new.exploit /\ intel[c].exploit
      /\ new.exploit => HasExploit(Nvd[c])
      /\ \A f \in Findings : Cve[f] = c =>
           /\ enr[e].rows[f].kev => old.kev
           /\ enr[e].rows[f].exploit => old.exploit
      /\ c \in enr[e].got /\ enr[e].new[c].exploit => new.exploit
  BY <1>3, ViewFacts DEF View
<1> HIDE DEF s, old, new
<1>5. /\ s.old[c] = old /\ s.new[c] = new
      /\ \A d \in Cves \ {c} : s.old[d] = enr[e].old[d] /\ s.new[d] = enr[e].new[d]
  BY <1>1, <1>2
<1>6. AnswersAreSound(s)
  BY <1>1, <1>2, <1>4, <1>5 DEF Sound, AnswersAreSound
<1>7. RowsAreSound(s)
  BY <1>1, <1>2, <1>4, <1>5, ConstantsAssumption DEF Sound, RowsAreSound
<1>8. Sound(s)
  BY <1>1, <1>6, <1>7 DEF Sound
<1>9. QED
  BY <1>8 DEF s

\* Flags and rows only ever appear.
Grows ==
  /\ \A c \in Cves : (intel[c].kev => intel'[c].kev) /\ (intel[c].exploit => intel'[c].exploit)
  /\ \A f \in Findings :
       /\ fin[f].found => fin'[f].found
       /\ fin[f].kev => fin'[f].kev
       /\ fin[f].exploit => fin'[f].exploit

LEMMA StillSound ==
  ASSUME IInv, Grows, NEW e \in Enrichers, enr'[e] = enr[e]
  PROVE  Sound(enr[e])'
<1>1. Sound(enr[e]) /\ enr[e].got \subseteq Cves
  BY DEF IInv, TypeOK, Session
<1>2. QED
  BY <1>1, ConstantsAssumption DEF Sound, AnswersAreSound, RowsAreSound, Grows

LEMMA StutterGrows == UNCHANGED <<intel, fin>> => Grows
BY DEF Grows

\* The steps one by one.
LEMMA ReportStep == ASSUME IInv, NEW f \in Findings, Report(f) PROVE IInv' /\ Grows
<1> DEFINE r == IF fin[f].found THEN [fin[f] EXCEPT !.sev = Own[f]]
                ELSE [NoRow EXCEPT !.found = TRUE, !.sev = Own[f]]
<1>1. /\ fin' = [fin EXCEPT ![f] = r] /\ intel' = intel /\ enr' = enr /\ syn' = syn
      /\ feed' = feed /\ listed' = listed /\ scans' = scans + 1 /\ feeds' = feeds /\ fails' = fails
  BY DEF Report
<1>2. fin \in [Findings -> Row] /\ Own[f] \in Severities
  BY ConstantsAssumption DEF IInv, TypeOK
<1>3. /\ r \in Row /\ r.found
      /\ r.kev = (fin[f].found /\ fin[f].kev) /\ r.exploit = (fin[f].found /\ fin[f].exploit)
  <2>1. CASE fin[f].found
    BY <1>2, <2>1 DEF Row
  <2>2. CASE ~fin[f].found
    <3>1. NoRow \in Row /\ NoRow.kev = FALSE /\ NoRow.exploit = FALSE
      BY Starts DEF NoRow
    <3>2. r = [NoRow EXCEPT !.found = TRUE, !.sev = Own[f]]
      BY <2>2
    <3> HIDE DEF r
    <3>3. r \in Row /\ r.found = TRUE /\ r.kev = FALSE /\ r.exploit = FALSE
      BY <1>2, <3>1, <3>2 DEF Row
    <3>4. QED
      BY <2>2, <3>3
  <2>3. QED
    BY <2>1, <2>2
<1> HIDE DEF r
<1>4. /\ fin' \in [Findings -> Row] /\ fin'[f] = r
      /\ \A g \in Findings \ {f} : fin'[g] = fin[g]
  BY <1>1, <1>2, <1>3
<1>5. Grows
  BY <1>1, <1>3, <1>4 DEF Grows, IInv, FlagsAreOfFindings
<1>6. TypeOK'
  BY <1>1, <1>4 DEF IInv, TypeOK
<1>7. FlagsAreFounded' /\ FlagsAreOfFindings'
  BY <1>1, <1>3, <1>4 DEF IInv, FlagsAreFounded, FlagsAreOfFindings
<1>8. \A e \in Enrichers : Sound(enr[e])'
  BY <1>1, <1>5, StillSound
<1>9. QED
  BY <1>1, <1>5, <1>6, <1>7, <1>8 DEF IInv

LEMMA ChangeFeedStep == ASSUME IInv, NEW c \in Kev, ChangeFeed(c) PROVE IInv' /\ Grows
<1>1. /\ feed' \subseteq Kev /\ feed' \subseteq listed' /\ listed \subseteq listed' /\ listed' \subseteq Kev
      /\ intel' = intel /\ fin' = fin /\ enr' = enr /\ syn' = syn
      /\ feeds' = feeds + 1 /\ scans' = scans /\ fails' = fails
  BY DEF ChangeFeed, IInv, TypeOK
<1>2. Grows
  BY <1>1, StutterGrows
<1>3. \A e \in Enrichers : Sound(enr[e])'
  BY <1>1, <1>2, StillSound
<1>4. TypeOK' /\ FlagsAreFounded' /\ FlagsAreOfFindings'
  BY <1>1 DEF IInv, TypeOK, FlagsAreFounded, FlagsAreOfFindings
<1>5. QED
  BY <1>1, <1>2, <1>3, <1>4 DEF IInv

\* The steps of a synchronisation that commit nothing.
LEMMA SyncStep ==
  ASSUME IInv, NEW k \in Syncs, Download(k) \/ KevConflict(k) \/ SyncFails(k)
  PROVE  IInv' /\ Grows
<1>1. PICK y \in Sync : y.kev \subseteq listed /\ syn' = [syn EXCEPT ![k] = y]
  <2>1. CASE Download(k)
    <3> DEFINE y == [pc |-> "loaded", kev |-> feed, old |-> intel]
    <3>1. y \in Sync /\ y.kev \subseteq listed
      BY ConstantsAssumption DEF IInv, TypeOK, Sync
    <3>2. QED
      BY <2>1, <3>1 DEF Download
  <2>2. CASE KevConflict(k) \/ SyncFails(k)
    <3>1. NoSync \in Sync /\ NoSync.kev \subseteq listed
      BY Starts DEF NoSync
    <3>2. QED
      BY <2>2, <3>1 DEF KevConflict, SyncFails
  <2>3. QED
    BY <2>1, <2>2
<1>2. /\ feed' = feed /\ listed' = listed /\ intel' = intel /\ fin' = fin /\ enr' = enr
      /\ feeds' = feeds /\ scans' = scans /\ fails' \in Nat
  BY DEF Download, KevConflict, SyncFails, IInv, TypeOK
<1>3. Grows
  BY <1>2, StutterGrows
<1>4. \A e \in Enrichers : Sound(enr[e])'
  BY <1>2, <1>3, StillSound
<1>5. TypeOK' /\ FlagsAreFounded' /\ FlagsAreOfFindings'
  BY <1>1, <1>2 DEF IInv, TypeOK, FlagsAreFounded, FlagsAreOfFindings
<1>6. \A q \in Syncs : syn'[q].kev \subseteq listed'
  BY <1>1, <1>2 DEF IInv, TypeOK
<1>7. QED
  BY <1>2, <1>3, <1>4, <1>5, <1>6 DEF IInv

LEMMA SaveKevStep == ASSUME IInv, NEW k \in Syncs, SaveKev(k) PROVE IInv' /\ Grows
<1>1. /\ intel' \in [Cves -> Intel]
      /\ \A c \in Cves :
           /\ intel[c].kev => intel'[c].kev
           /\ intel'[c].kev => intel[c].kev \/ c \in syn[k].kev
           /\ intel'[c].exploit = intel[c].exploit
  BY SavedEntries DEF IInv
<1>2. /\ feed' = feed /\ listed' = listed /\ fin' = fin /\ enr' = enr /\ syn' = [syn EXCEPT ![k] = NoSync]
      /\ feeds' = feeds /\ scans' = scans /\ fails' = fails
  BY DEF SaveKev
<1>3. Grows
  BY <1>1, <1>2 DEF Grows
<1>4. \A e \in Enrichers : Sound(enr[e])'
  BY <1>2, <1>3, StillSound
<1>5. TypeOK'
  BY <1>1, <1>2, Starts DEF IInv, TypeOK
<1>6. FlagsAreFounded' /\ FlagsAreOfFindings'
  BY <1>1, <1>2, ConstantsAssumption DEF IInv, FlagsAreFounded, FlagsAreOfFindings
<1>7. \A q \in Syncs : syn'[q].kev \subseteq listed'
  BY <1>2 DEF IInv, TypeOK, NoSync
<1>8. QED
  BY <1>2, <1>3, <1>4, <1>5, <1>6, <1>7 DEF IInv

\* The commit of an enrichment.
LEMMA FinishStep == ASSUME IInv, NEW e \in Enrichers, Finish(e) PROVE IInv' /\ Grows
<1> DEFINE s == enr[e]
<1>1. /\ intel' \in [Cves -> Intel] /\ fin' \in [Findings -> Row] /\ enr' = [enr EXCEPT ![e] = Idle]
      /\ \A c \in Cves \ s.got : intel'[c] = intel[c]
      /\ \A c \in s.got :
           /\ intel'[c].kev = Column(intel[c].kev, s.old[c].kev, s.new[c].kev)
           /\ intel'[c].exploit = Column(intel[c].exploit, s.old[c].exploit, s.new[c].exploit)
      /\ \A f \in Findings :
           /\ fin'[f].found = Column(fin[f].found, s.rows[f].found, s.out[f].found)
           /\ fin'[f].kev = Column(fin[f].kev, s.rows[f].kev, s.out[f].kev)
           /\ fin'[f].exploit = Column(fin[f].exploit, s.rows[f].exploit, s.out[f].exploit)
  BY FinishRows DEF IInv
<1>2. /\ feed' = feed /\ listed' = listed /\ syn' = syn
      /\ feeds' = feeds /\ scans' = scans /\ fails' = fails
  BY DEF Finish
<1>3. AnswersAreSound(s) /\ RowsAreSound(s) /\ s \in Session
  BY DEF IInv, Sound, TypeOK
<1>4. /\ s.got \subseteq Cves /\ s.old \in [Cves -> Intel] /\ s.new \in [Cves -> Intel]
      /\ s.rows \in [Findings -> Row] /\ s.out \in [Findings -> Row]
  BY <1>3 DEF Session
<1> HIDE DEF s
<1>5. ASSUME NEW c \in Cves
      PROVE  /\ intel'[c].kev = intel[c].kev
             /\ intel[c].exploit => intel'[c].exploit
             /\ intel'[c].exploit => intel[c].exploit \/ (c \in s.got /\ s.new[c].exploit)
             /\ c \in s.got /\ s.new[c].exploit => intel'[c].exploit
  <2>1. CASE c \notin s.got
    BY <1>1, <2>1
  <2>2. CASE c \in s.got
    <3>1. /\ s.new[c].kev = s.old[c].kev
          /\ s.old[c].exploit => s.new[c].exploit /\ intel[c].exploit
      BY <1>3, <2>2 DEF AnswersAreSound
    <3>2. s.old[c].exploit \in BOOLEAN /\ s.new[c].exploit \in BOOLEAN
      BY <1>4 DEF Intel
    <3>3. intel'[c].kev = intel[c].kev
      BY <1>1, <2>2, <3>1 DEF Column
    <3>4. intel'[c].exploit = Column(intel[c].exploit, s.old[c].exploit, s.new[c].exploit)
      BY <1>1, <2>2
    <3>5. QED
      BY <2>2, <3>1, <3>2, <3>3, <3>4 DEF Column
  <2>3. QED
    BY <2>1, <2>2
<1>6. ASSUME NEW f \in Findings
      PROVE  /\ fin'[f].found = fin[f].found
             /\ fin[f].kev => fin'[f].kev
             /\ fin[f].exploit => fin'[f].exploit
             /\ fin'[f].kev => fin[f].kev \/ s.out[f].kev
             /\ fin'[f].exploit => fin[f].exploit \/ s.out[f].exploit
  <2>1. /\ s.out[f].found = s.rows[f].found
        /\ s.rows[f].kev => s.out[f].kev
        /\ s.rows[f].exploit => s.out[f].exploit
    BY <1>3 DEF RowsAreSound
  <2>2. /\ s.rows[f].kev \in BOOLEAN /\ s.out[f].kev \in BOOLEAN
        /\ s.rows[f].exploit \in BOOLEAN /\ s.out[f].exploit \in BOOLEAN
    BY <1>4 DEF Row
  <2>3. QED
    BY <1>1, <2>1, <2>2 DEF Column
<1>7. Grows
  BY <1>5, <1>6 DEF Grows
<1>8. ASSUME NEW p \in Enrichers PROVE Sound(enr[p])'
  <2>1. CASE p = e
    <3>1. enr'[p] = Idle
      BY <1>1, <2>1 DEF IInv, TypeOK
    <3>2. QED
      BY <3>1 DEF Sound, AnswersAreSound, RowsAreSound, Idle, NoRow
  <2>2. CASE p # e
    BY <1>1, <1>7, <2>2, StillSound DEF IInv, TypeOK
  <2>3. QED
    BY <2>1, <2>2
<1>9. TypeOK'
  BY <1>1, <1>2, Starts DEF IInv, TypeOK
<1>10. ASSUME NEW f \in Findings
       PROVE  /\ fin'[f].kev => intel'[Cve[f]].kev
              /\ fin'[f].exploit => intel'[Cve[f]].exploit
              /\ fin'[f].kev \/ fin'[f].exploit => fin'[f].found
  <2>1. Cve[f] \in Cves
    BY ConstantsAssumption
  <2>2. /\ fin[f].kev => intel[Cve[f]].kev
        /\ fin[f].exploit => intel[Cve[f]].exploit
        /\ fin[f].kev \/ fin[f].exploit => fin[f].found
    BY DEF IInv, FlagsAreFounded, FlagsAreOfFindings
  <2>3. /\ s.out[f].kev => s.rows[f].found /\ intel[Cve[f]].kev
        /\ s.out[f].exploit =>
             /\ s.rows[f].found
             /\ intel[Cve[f]].exploit \/ (Cve[f] \in s.got /\ s.new[Cve[f]].exploit)
        /\ s.rows[f].found => fin[f].found
    BY <1>3 DEF RowsAreSound
  <2>4. QED
    BY <1>5, <1>6, <2>1, <2>2, <2>3
<1>11. ASSUME NEW c \in Cves
       PROVE  /\ intel'[c].kev => c \in listed'
              /\ intel'[c].exploit => Nvd[c] # None /\ HasExploit(Nvd[c])
  BY <1>2, <1>3, <1>5 DEF IInv, FlagsAreFounded, AnswersAreSound
<1>12. FlagsAreFounded' /\ FlagsAreOfFindings'
  BY <1>10, <1>11 DEF FlagsAreFounded, FlagsAreOfFindings
<1>13. QED
  BY <1>2, <1>7, <1>8, <1>9, <1>12 DEF IInv

-----------------------------------------------------------------------------
(* The invariant. *)

LEMMA InitIInv == Init => IInv
BY InitTypeOK, IdleSound, ConstantsAssumption
DEF Init, IInv, FlagsAreFounded, FlagsAreOfFindings, NoIntel, NoRow, NoSync

\* What an enrichment does before its commit moves its session only.
LEMMA EnrichmentStep ==
  ASSUME IInv, NEW e \in Enrichers,
         Select(e) \/ AskEpss(e) \/ EpssDown(e) \/ Flush(e) \/ Conflict(e) \/ Overrun(e) \/ Fail(e)
           \/ \E f \in Findings : Match(e, f) \/ Lookup(e, f)
  PROVE  IInv' /\ UNCHANGED <<intel, fin>>
<1>1. fails \in Nat /\ enr[e] \in Session /\ Sound(enr[e])
  BY DEF IInv, TypeOK
<1>2. CASE Select(e)
  <2>0. PICK S \in SUBSET {f \in Findings : fin[f].found} : Load(e, S)
    BY <1>2 DEF Select, Limited
  <2> DEFINE s == [Idle EXCEPT !.pc = "selected", !.todo = S, !.rows = Batch(S), !.out = Batch(S)]
  <2>1. s \in Session /\ Sound(s)
    BY SelectedType, SelectedSound DEF IInv
  <2>2. Becomes(e, s) /\ SessionOnly /\ fails' = fails
    BY <1>2, <2>0 DEF Select, Load
  <2>3. QED
    BY <1>1, <2>1, <2>2, SessionStep DEF SessionOnly
<1>3. CASE AskEpss(e)
  <2>1. Asked(e) \in Session /\ Sound(Asked(e))
    BY <1>3, AskedType, AskedSound DEF IInv, AskEpss
  <2>2. Becomes(e, Asked(e)) /\ SessionOnly /\ fails' = fails
    BY <1>3 DEF AskEpss, Asked
  <2>3. QED
    BY <1>1, <2>1, <2>2, SessionStep DEF SessionOnly
<1>4. CASE EpssDown(e)
  <2> DEFINE s == [enr[e] EXCEPT !.pc = "visiting"]
  <2>1. /\ s \in Session /\ s.todo = enr[e].todo /\ s.rows = enr[e].rows /\ s.out = enr[e].out
        /\ s.got = enr[e].got /\ s.old = enr[e].old /\ s.new = enr[e].new /\ s.pc = "visiting"
    BY <1>1 DEF Session
  <2>2. Becomes(e, s) /\ SessionOnly /\ fails' = fails + 1
    BY <1>4 DEF EpssDown
  <2> HIDE DEF s
  <2>3. Sound(s)
    BY <1>1, <2>1 DEF Sound, AnswersAreSound, RowsAreSound
  <2>4. QED
    BY <1>1, <2>1, <2>2, <2>3, SessionStep DEF SessionOnly
<1>5. CASE Flush(e)
  <2> DEFINE s == [enr[e] EXCEPT !.pc = "visiting", !.held = @ \cup Touched(enr[e])]
  <2>1. /\ s \in Session /\ s.todo = enr[e].todo /\ s.rows = enr[e].rows /\ s.out = enr[e].out
        /\ s.got = enr[e].got /\ s.old = enr[e].old /\ s.new = enr[e].new /\ s.pc = "visiting"
    BY LockedType DEF IInv
  <2>2. Becomes(e, s) /\ SessionOnly /\ fails' = fails
    BY <1>5 DEF Flush
  <2> HIDE DEF s
  <2>3. Sound(s)
    BY <1>1, <2>1 DEF Sound, AnswersAreSound, RowsAreSound
  <2>4. QED
    BY <1>1, <2>1, <2>2, <2>3, SessionStep DEF SessionOnly
<1>6. CASE Conflict(e) \/ Overrun(e) \/ Fail(e)
  <2>1. Becomes(e, Idle) /\ SessionOnly /\ fails' \in Nat
    BY <1>1, <1>6 DEF Conflict, Overrun, Fail
  <2>2. QED
    BY <2>1, Starts, IdleSound, SessionStep DEF SessionOnly
<1>7. ASSUME NEW f \in Findings, Match(e, f) PROVE IInv' /\ UNCHANGED <<intel, fin>>
  <2>1. Matched(e, f) \in Session /\ Sound(Matched(e, f))
    BY <1>7, MatchedSound DEF Match
  <2>2. Becomes(e, Matched(e, f)) /\ SessionOnly /\ fails' = fails
    BY <1>7 DEF Match
  <2>3. QED
    BY <1>1, <2>1, <2>2, SessionStep DEF SessionOnly
<1>8. ASSUME NEW f \in Findings, Lookup(e, f) PROVE IInv' /\ UNCHANGED <<intel, fin>>
  <2>1. Cve[f] \in Cves /\ SessionOnly /\ fails' = fails /\ f \in enr[e].todo /\ enr[e].pc = "visiting"
    BY <1>8, ConstantsAssumption DEF Lookup
  <2>2. CASE Nvd[Cve[f]] = None
    <3> DEFINE m == Matched(e, f)
               s == [m EXCEPT !.lookups = @ + 1]
    <3>1. m \in Session /\ Sound(m)
      BY <2>1, MatchedSound
    <3>2. Becomes(e, s)
      BY <1>8, <2>2 DEF Lookup
    <3> HIDE DEF m
    <3>3. /\ s \in Session /\ s.pc = m.pc /\ s.todo = m.todo /\ s.rows = m.rows /\ s.out = m.out
          /\ s.got = m.got /\ s.old = m.old /\ s.new = m.new
      BY <3>1, CountedType
    <3> HIDE DEF s
    <3>4. Sound(s)
      BY <3>1, <3>3 DEF Sound, AnswersAreSound, RowsAreSound
    <3>5. QED
      BY <1>1, <2>1, <3>2, <3>3, <3>4, SessionStep DEF SessionOnly
  <2>3. CASE Nvd[Cve[f]] # None
    <3>1. Answered(e, Cve[f]) \in Session /\ Sound(Answered(e, Cve[f]))
      BY <2>1, <2>3, AnsweredType, AnsweredSound DEF IInv
    <3>2. Becomes(e, Answered(e, Cve[f]))
      BY <1>8, <2>3 DEF Lookup, Answered
    <3>3. QED
      BY <1>1, <2>1, <3>1, <3>2, SessionStep DEF SessionOnly
  <2>4. QED
    BY <2>2, <2>3
<1>9. QED
  BY <1>2, <1>3, <1>4, <1>5, <1>6, <1>7, <1>8

LEMMA NextIInv == ASSUME IInv, [Next]_vars PROVE IInv' /\ Grows
<1>1. CASE UNCHANGED vars
  <2>1. Grows
    BY <1>1, StutterGrows DEF vars
  <2>2. \A e \in Enrichers : Sound(enr[e])'
    BY <1>1, <2>1, StillSound DEF vars
  <2>3. QED
    BY <1>1, <2>1, <2>2 DEF vars, IInv, TypeOK, FlagsAreFounded, FlagsAreOfFindings
<1>2. ASSUME NEW f \in Findings, Report(f) PROVE IInv' /\ Grows
  BY <1>2, ReportStep
<1>3. ASSUME NEW c \in Kev, ChangeFeed(c) PROVE IInv' /\ Grows
  BY <1>3, ChangeFeedStep
<1>4. ASSUME NEW k \in Syncs, Download(k) \/ SaveKev(k) \/ KevConflict(k) \/ SyncFails(k)
      PROVE  IInv' /\ Grows
  BY <1>4, SyncStep, SaveKevStep
<1>5. ASSUME NEW e \in Enrichers, Select(e) \/ Step(e) \/ EpssDown(e) \/ Fail(e)
      PROVE  IInv' /\ Grows
  BY <1>5, EnrichmentStep, FinishStep, StutterGrows DEF Step
<1>6. QED
  BY <1>1, <1>2, <1>3, <1>4, <1>5 DEF Next

LEMMA SpecIInv == Spec => []IInv
<1>1. IInv /\ [Next]_vars => IInv'
  BY NextIInv
<1>2. QED
  BY <1>1, InitIInv, PTL DEF Spec

-----------------------------------------------------------------------------
\* The tables and every session keep their types (threat_intel_cves,
\* vulnerabilities, enrich_vulnerabilities).
THEOREM TypeCorrect == Spec => []TypeOK
<1>1. IInv => TypeOK
  BY DEF IInv
<1>2. QED
  BY <1>1, SpecIInv, PTL

\* A finding's flags are those of its entry, and an entry's were given by CISA
\* or NVD, for any number of overlapping runs, whoever waits for whose locks
\* (enrich_vulnerabilities, upsert_kev_entries, upsert_nvd_enrichment).
THEOREM FlagsHold == Spec => []FlagsAreFounded
<1>1. IInv => FlagsAreFounded
  BY DEF IInv
<1>2. QED
  BY <1>1, SpecIInv, PTL

\* No run, however late it commits what it computed from old rows, takes back
\* what is known of exploitation (enrich_vulnerabilities, sync_kev_catalog).
THEOREM ExposureStays == Spec => ExposureIsKept
<1> DEFINE Kept ==
      /\ \A c \in Cves : (intel[c].kev => intel'[c].kev) /\ (intel[c].exploit => intel'[c].exploit)
      /\ \A f \in Findings : (fin[f].kev => fin'[f].kev) /\ (fin[f].exploit => fin'[f].exploit)
<1>1. IInv /\ [Next]_vars => [Kept]_vars
  BY NextIInv DEF Grows
<1>2. QED
  BY <1>1, SpecIInv, PTL DEF Spec, ExposureIsKept
=============================================================================
