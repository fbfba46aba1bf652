------------------------ MODULE FindingIngest_proofs ------------------------
(***************************************************************************)
(* Theorems about FindingIngest, for every number of findings, scans,      *)
(* analysts, runs and failures, and every report.                          *)
(*                                                                         *)
(* A session in progress accounts for its whole report: a finding is still *)
(* to be read, or is to be inserted, or was found in the table.  What was  *)
(* found stays, because no session removes a row; so the commit leaves no  *)
(* finding out, and the scan it names had the finding in its report.  The  *)
(* row locks are not needed for that.                                      *)
(***************************************************************************)
EXTENDS FindingIngest, TLAPS

ToRead(s, f) == \E n \in 1 .. Len(s.todo) : s.todo[n] = f

\* What the session of scan i knows is in its report and still in the table.
SessionIsSound(i) ==
  /\ \A f \in Findings : Present(ing[i].seen[f]) => Present(row[f]) /\ Reports(i, f)
  /\ \A f \in ing[i].new : Reports(i, f)
  /\ \A f \in Findings : ToRead(ing[i], f) => Reports(i, f)

\* No finding of the report has been forgotten.
SessionIsComplete(i) ==
  /\ ing[i].pc \in {"read", "flushed"} =>
       \A f \in Findings : Reports(i, f) =>
         f \in ing[i].new \/ Present(ing[i].seen[f]) \/ ToRead(ing[i], f)
  /\ ing[i].pc = "flushed" => ing[i].todo = <<>>

\* The findings that triage and enrichment have loaded are still in the table.
LoadedStay ==
  /\ \A a \in Analysts : an[a].pc = "decided" => an[a].on \in Findings /\ Present(row[an[a].on])
  /\ \A f \in Findings : Present(en.seen[f]) => Present(row[f])

IInv ==
  /\ TypeOK
  /\ ReportsAreKept
  /\ EvidenceIsCommitted
  /\ \A i \in Scans : SessionIsSound(i) /\ SessionIsComplete(i)
  /\ LoadedStay

\* No step removes a finding.
Grows == \A f \in Findings : Present(row[f]) => Present(row'[f])

-----------------------------------------------------------------------------
LEMMA Starts ==
  /\ AbsentRow \in Row /\ ~Present(AbsentRow)
  /\ Nothing \in [Findings -> Row]
  /\ NoSession \in Session /\ NoTriage \in Triage /\ NoJob \in Job
  /\ \A i \in Scans : NewRow(i) \in Row /\ Present(NewRow(i)) /\ NewRow(i).by = i
<1>1. AbsentRow \in Row /\ ~Present(AbsentRow)
  BY DEF AbsentRow, Row, Present
<1>2. Nothing \in [Findings -> Row]
  BY <1>1 DEF Nothing
<1>3. NoSession \in Session /\ NoTriage \in Triage /\ NoJob \in Job
  BY <1>2 DEF NoSession, Session, NoTriage, Triage, NoJob, Job, Status
<1>4. \A i \in Scans : NewRow(i) \in Row /\ Present(NewRow(i)) /\ NewRow(i).by = i
  BY DEF NewRow, Row, Present, Status
<1>5. QED
  BY <1>1, <1>2, <1>3, <1>4

\* A session refreshes a finding without losing it, and names its own scan or
\* the one that is there.
LEMMA RefreshedRow ==
  ASSUME NEW cur \in Row, NEW old \in Row, NEW i \in Scans, Present(cur), Present(old)
  PROVE  /\ Refreshed(cur, old, i) \in Row
         /\ Present(Refreshed(cur, old, i))
         /\ Refreshed(cur, old, i).by \in {i, cur.by}
BY DEF Refreshed, Row, Present, Column, Status

LEMMA ColumnType ==
  ASSUME NEW S, NEW cur \in S, NEW old \in S, NEW new \in S
  PROVE  Column(cur, old, new) \in S
BY DEF Column

\* The enrichment changes flags only.
LEMMA EnrichedRow ==
  ASSUME NEW cur \in Row, NEW old \in Row, NEW f
  PROVE  /\ Enriched(cur, old, f) \in Row
         /\ Enriched(cur, old, f).status = cur.status
         /\ Enriched(cur, old, f).by = cur.by
<1> DEFINE k == Column(cur.kev, old.kev, f \in Kev)
           p == Column(cur.promoted, old.promoted, old.promoted \/ f \in Kev)
<1>1. /\ cur.kev \in BOOLEAN /\ cur.promoted \in BOOLEAN
      /\ old.kev \in BOOLEAN /\ old.promoted \in BOOLEAN
  BY DEF Row
<1>2. (f \in Kev) \in BOOLEAN /\ (old.promoted \/ f \in Kev) \in BOOLEAN
  OBVIOUS
<1>3. k \in BOOLEAN /\ p \in BOOLEAN
  BY <1>1, <1>2, ColumnType
<1>4. Enriched(cur, old, f) = [cur EXCEPT !.kev = k, !.promoted = p]
  BY DEF Enriched
<1> HIDE DEF k, p
<1>5. QED
  BY <1>3, <1>4 DEF Row

\* Reading one finding of a sequence takes it off the rest.
LEMMA HeadTail ==
  ASSUME NEW S, NEW q \in Seq(S), q # <<>>
  PROVE  /\ Head(q) \in S /\ Tail(q) \in Seq(S)
         /\ \E n \in 1 .. Len(q) : q[n] = Head(q)
         /\ \A x : (\E n \in 1 .. Len(q) : q[n] = x)
                     <=> x = Head(q) \/ \E n \in 1 .. Len(Tail(q)) : Tail(q)[n] = x
<1>1. Len(q) \in Nat /\ Len(q) >= 1 /\ Head(q) = q[1] /\ Tail(q) \in Seq(S)
  BY Z3
<1>2. Len(Tail(q)) = Len(q) - 1 /\ \A n \in 1 .. Len(Tail(q)) : Tail(q)[n] = q[n + 1]
  BY <1>1
<1>3. ASSUME NEW n \in 1 .. Len(q), n # 1
      PROVE  n - 1 \in 1 .. Len(Tail(q)) /\ Tail(q)[n - 1] = q[n]
  <2>1. n - 1 \in 1 .. Len(Tail(q)) /\ (n - 1) + 1 = n
    BY <1>1, <1>2, <1>3
  <2>2. Tail(q)[n - 1] = q[(n - 1) + 1]
    BY <2>1, <1>2
  <2>3. QED
    BY <2>1, <2>2
<1>4. \A n \in 1 .. Len(Tail(q)) : n + 1 \in 1 .. Len(q)
  BY <1>1, <1>2
<1>5. 1 \in 1 .. Len(q) /\ Head(q) \in S
  BY <1>1
<1>6. QED
  BY <1>1, <1>2, <1>3, <1>4, <1>5

-----------------------------------------------------------------------------
\* A step that removes no finding and leaves a session alone keeps it sound.
LEMMA OthersStay ==
  ASSUME IInv, Grows, NEW i \in Scans, ing'[i] = ing[i]
  PROVE  SessionIsSound(i)' /\ SessionIsComplete(i)'
BY DEF IInv, Grows, SessionIsSound, SessionIsComplete, ToRead, Reports, Present

\* A session that is over knows nothing.
LEMMA OverIsSound ==
  ASSUME NEW i \in Scans, NEW pc \in {"idle", "done", "gone"},
         ing'[i] = [NoSession EXCEPT !.pc = pc]
  PROVE  SessionIsSound(i)' /\ SessionIsComplete(i)' /\ ing'[i] \in Session
<1>1. /\ ing'[i].pc = pc /\ ing'[i].todo = <<>> /\ ing'[i].new = {}
      /\ ing'[i].seen = Nothing /\ ing'[i].twice = FALSE
  BY DEF NoSession
<1>2. \A f \in Findings : ~Present(Nothing[f]) /\ ~ToRead(ing'[i], f)
  BY <1>1, Starts DEF Nothing, ToRead
<1>3. ing'[i] \in Session
  BY Starts DEF Session
<1>4. QED
  BY <1>1, <1>2, <1>3 DEF SessionIsSound, SessionIsComplete, ToRead

\* Loaded rows stay loaded where nothing is loaded anew.
LEMMA LoadedStays ==
  ASSUME IInv, Grows, UNCHANGED <<an, en>>
  PROVE  LoadedStay'
BY DEF IInv, Grows, LoadedStay, Present

\* A step that only moves one session, and leaves the table alone.
LEMMA OnlySession ==
  ASSUME IInv, NEW i \in Scans, UNCHANGED <<row, completed, an, en>>,
         NEW s \in Session, ing' = [ing EXCEPT ![i] = s],
         runs' \in [Scans -> Nat], triages' \in Nat, aborts' \in Nat,
         SessionIsSound(i)', SessionIsComplete(i)'
  PROVE  IInv'
<1>1. Grows
  BY DEF Grows
<1>2. TypeOK'
  BY DEF IInv, TypeOK
<1>3. \A j \in Scans : SessionIsSound(j)' /\ SessionIsComplete(j)'
  <2>1. ASSUME NEW j \in Scans, j # i
        PROVE  SessionIsSound(j)' /\ SessionIsComplete(j)'
    <3>1. ing'[j] = ing[j]
      BY <2>1 DEF IInv, TypeOK
    <3>2. QED
      BY <3>1, <1>1, OthersStay
  <2>2. QED
    BY <2>1
<1>4. LoadedStay'
  BY <1>1, LoadedStays
<1>5. ReportsAreKept' /\ EvidenceIsCommitted'
  BY DEF IInv, ReportsAreKept, EvidenceIsCommitted, Present, Reports
<1>6. QED
  BY <1>2, <1>3, <1>4, <1>5 DEF IInv

\* A step that writes the table and leaves the sessions alone.
LEMMA OnlyRows ==
  ASSUME IInv, UNCHANGED <<ing, completed, bounds>>,
         row' \in [Findings -> Row],
         \A f \in Findings : (Present(row'[f]) <=> Present(row[f])) /\ row'[f].by = row[f].by,
         an' \in [Analysts -> Triage], en' \in Job, LoadedStay'
  PROVE  IInv'
<1>1. Grows
  BY DEF Grows
<1>2. TypeOK'
  BY DEF IInv, TypeOK, bounds
<1>3. \A j \in Scans : SessionIsSound(j)' /\ SessionIsComplete(j)'
  BY <1>1, OthersStay
<1>4. ReportsAreKept' /\ EvidenceIsCommitted'
  <2>1. \A j \in Scans, f \in Findings : Reports(j, f)' <=> Reports(j, f)
    BY DEF Reports
  <2>2. ReportsAreKept'
    BY <2>1, <1>1 DEF IInv, TypeOK, ReportsAreKept, Grows, Present, Reports
  <2>3. EvidenceIsCommitted'
    BY DEF IInv, EvidenceIsCommitted, Present, Reports
  <2>4. QED
    BY <2>2, <2>3
<1>5. QED
  BY <1>2, <1>3, <1>4 DEF IInv

-----------------------------------------------------------------------------
LEMMA InitHolds == Init => IInv
<1>1. SUFFICES ASSUME Init PROVE IInv
  OBVIOUS
<1>2. TypeOK
  BY <1>1, Starts DEF Init, TypeOK
<1>3. \A f \in Findings : ~Present(row[f])
  BY <1>1, Starts DEF Init, Nothing
<1>4. \A i \in Scans : SessionIsSound(i) /\ SessionIsComplete(i)
  BY <1>1, <1>3, Starts
     DEF Init, NoSession, Nothing, SessionIsSound, SessionIsComplete, ToRead
<1>5. LoadedStay
  BY <1>1, Starts DEF Init, LoadedStay, NoTriage, NoJob, Nothing
<1>6. ReportsAreKept /\ EvidenceIsCommitted
  BY <1>1, <1>3 DEF Init, ReportsAreKept, EvidenceIsCommitted
<1>7. QED
  BY <1>2, <1>4, <1>5, <1>6 DEF IInv

LEMMA BeginHolds == ASSUME IInv, NEW i \in Scans, Begin(i) PROVE IInv'
<1> DEFINE s == [NoSession EXCEPT !.pc = "read", !.todo = Report[i]]
<1>1. s \in Session /\ s.pc = "read" /\ s.todo = Report[i] /\ s.new = {} /\ s.seen = Nothing
  <2>1. Report[i] \in Seq(Findings)
    BY ConstantsAssumption
  <2>2. QED
    BY <2>1, Starts DEF NoSession, Session
<1>2. ing'[i] = s
  BY DEF IInv, TypeOK, Begin
<1>3. \A f \in Findings : ~Present(Nothing[f])
  BY Starts DEF Nothing
<1>4. SessionIsSound(i)' /\ SessionIsComplete(i)'
  BY <1>1, <1>2, <1>3 DEF SessionIsSound, SessionIsComplete, ToRead, Reports
<1>5. /\ ing' = [ing EXCEPT ![i] = s]
      /\ runs' \in [Scans -> Nat] /\ triages' \in Nat /\ aborts' \in Nat
      /\ UNCHANGED <<row, completed, an, en>>
  BY DEF IInv, TypeOK, Begin
<1> HIDE DEF s
<1>6. QED
  BY <1>1, <1>4, <1>5, OnlySession

LEMMA ReadHolds == ASSUME IInv, NEW i \in Scans, Read(i) PROVE IInv'
<1> DEFINE f0 == Head(ing[i].todo)
           s == ing[i]
           n == IF Present(row[f0]) THEN s.new ELSE s.new \cup {f0}
           w == s.twice \/ (~Present(row[f0]) /\ f0 \in s.new)
           r == IF Present(s.seen[f0]) THEN s.seen[f0] ELSE row[f0]
           t == [s EXCEPT !.todo = Tail(s.todo), !.twice = w, !.new = n,
                          !.seen = [s.seen EXCEPT ![f0] = r]]
<1>1. ing[i] \in Session /\ ing[i].todo \in Seq(Findings) /\ ing[i].todo # <<>> /\ row \in [Findings -> Row]
  BY DEF IInv, TypeOK, Read, Session
<1>2. f0 \in Findings /\ Tail(ing[i].todo) \in Seq(Findings)
  BY <1>1, HeadTail
<1>3. /\ t.pc = "read" /\ t.todo = Tail(s.todo) /\ t.new = n
      /\ t.seen = [s.seen EXCEPT ![f0] = r]
      /\ t \in Session
  <2>1. w \in BOOLEAN /\ r \in Row /\ n \in SUBSET Findings
    BY <1>1, <1>2 DEF Session
  <2>2. [s.seen EXCEPT ![f0] = r] \in [Findings -> Row]
    BY <1>1, <1>2, <2>1 DEF Session
  <2>3. s.pc = "read"
    BY DEF Read
  <2> HIDE DEF w, r, n
  <2>4. QED
    BY <1>1, <1>2, <2>1, <2>2, <2>3 DEF Session
<1>4. ing' = [ing EXCEPT ![i] = t] /\ ing'[i] = t
  BY <1>1 DEF IInv, TypeOK, Read, Session
<1> HIDE DEF t
<1>5. \A f \in Findings : ToRead(ing[i], f) <=> f = f0 \/ ToRead(t, f)
  <2>1. \A f : (\E k \in 1 .. Len(s.todo) : s.todo[k] = f)
                  <=> f = f0 \/ \E k \in 1 .. Len(Tail(s.todo)) : Tail(s.todo)[k] = f
    BY <1>1, HeadTail
  <2>2. t.todo = Tail(s.todo)
    BY <1>3
  <2>3. QED
    BY <2>1, <2>2, Zenon DEF ToRead
<1>6. \A f \in Findings :
        /\ Present(ing[i].seen[f]) => Present(t.seen[f])
        /\ Present(t.seen[f]) => Present(ing[i].seen[f]) \/ (f = f0 /\ Present(row[f0]))
        /\ Present(row[f0]) => Present(t.seen[f0])
  BY <1>1, <1>2, <1>3 DEF Session, Present
<1>7. row' = row
  BY DEF Read
<1>8. Reports(i, f0) /\ SessionIsSound(i) /\ SessionIsComplete(i) /\ ing[i].pc = "read"
  BY <1>2, <1>5 DEF IInv, SessionIsSound, Read
<1>9. SessionIsSound(i)'
  <2>1. \A f \in Findings : Present(t.seen[f]) => Present(row'[f]) /\ Reports(i, f)
    BY <1>6, <1>7, <1>8 DEF SessionIsSound
  <2>2. \A f \in t.new : Reports(i, f)
    BY <1>3, <1>8 DEF SessionIsSound
  <2>3. \A f \in Findings : ToRead(t, f) => Reports(i, f)
    BY <1>5, <1>8 DEF SessionIsSound
  <2>4. QED
    BY <2>1, <2>2, <2>3, <1>4 DEF SessionIsSound, ToRead, Reports, Present
<1>10. SessionIsComplete(i)'
  <2>1. \A f \in Findings : Reports(i, f) => f \in t.new \/ Present(t.seen[f]) \/ ToRead(t, f)
    BY <1>3, <1>5, <1>6, <1>8 DEF SessionIsComplete
  <2>2. t.pc # "flushed" /\ ing'[i] = t
    BY <1>3, <1>4
  <2>3. QED
    BY <2>1, <2>2 DEF SessionIsComplete, ToRead, Reports, Present
<1>11. UNCHANGED <<row, completed, an, en>> /\ runs' \in [Scans -> Nat] /\ triages' \in Nat /\ aborts' \in Nat
  BY DEF IInv, TypeOK, Read, bounds
<1>12. QED
  BY <1>3, <1>4, <1>9, <1>10, <1>11, OnlySession

LEMMA FlushHolds == ASSUME IInv, NEW i \in Scans, Flush(i) PROVE IInv'
<1> DEFINE s == [ing[i] EXCEPT !.pc = "flushed"]
<1>1. /\ ing[i] \in Session /\ s \in Session
      /\ s.pc = "flushed" /\ s.todo = ing[i].todo /\ s.new = ing[i].new /\ s.seen = ing[i].seen
  BY DEF IInv, TypeOK, Session
<1>2. ing' = [ing EXCEPT ![i] = s] /\ ing'[i] = s
  BY DEF IInv, TypeOK, Flush
<1>3. UNCHANGED <<row, completed, an, en>> /\ runs' \in [Scans -> Nat] /\ triages' \in Nat /\ aborts' \in Nat
  BY DEF IInv, TypeOK, Flush, bounds
<1>4. SessionIsSound(i)'
  BY <1>1, <1>2, <1>3 DEF IInv, SessionIsSound, ToRead, Reports, Present
<1>5. SessionIsComplete(i)'
  BY <1>1, <1>2, <1>3 DEF IInv, Flush, SessionIsComplete, ToRead, Reports, Present
<1> HIDE DEF s
<1>6. QED
  BY <1>1, <1>2, <1>3, <1>4, <1>5, OnlySession

\* A conflict and an abort leave no trace.
LEMMA GoneHolds == ASSUME IInv, NEW i \in Scans, Conflict(i) \/ Abort(i) PROVE IInv'
<1> DEFINE s == [NoSession EXCEPT !.pc = "gone"]
<1>1. ing' = [ing EXCEPT ![i] = s] /\ ing'[i] = s
  BY DEF IInv, TypeOK, Conflict, Abort
<1>2. SessionIsSound(i)' /\ SessionIsComplete(i)' /\ s \in Session
  BY <1>1, OverIsSound
<1>3. UNCHANGED <<row, completed, an, en>> /\ runs' \in [Scans -> Nat] /\ triages' \in Nat /\ aborts' \in Nat
  BY DEF IInv, TypeOK, Conflict, Abort, bounds
<1> HIDE DEF s
<1>4. QED
  BY <1>1, <1>2, <1>3, OnlySession

LEMMA CommitHolds == ASSUME IInv, NEW i \in Scans, Commit(i) PROVE IInv'
<1>1. ing[i] \in Session /\ row \in [Findings -> Row] /\ ing[i].pc = "flushed" /\ ing[i].todo = <<>>
  BY DEF IInv, TypeOK, Commit, SessionIsComplete
<1>2. ASSUME NEW f \in Findings
      PROVE  /\ row'[f] \in Row
             /\ f \in ing[i].new \/ Present(ing[i].seen[f]) => Present(row'[f])
             /\ Present(row[f]) => Present(row'[f])
             /\ Present(row'[f]) => \/ row'[f].by = i /\ Reports(i, f)
                                    \/ Present(row[f]) /\ row'[f].by = row[f].by
  <2>1. CASE f \in ing[i].new
    <3>1. row'[f] = NewRow(i) /\ Reports(i, f)
      BY <2>1 DEF Commit, IInv, SessionIsSound
    <3>2. QED
      BY <3>1, Starts
  <2>2. CASE f \notin ing[i].new /\ Present(ing[i].seen[f])
    <3>1. row'[f] = Refreshed(row[f], ing[i].seen[f], i)
      BY <2>2 DEF Commit
    <3>2. Present(row[f]) /\ Reports(i, f)
      BY <2>2 DEF IInv, SessionIsSound
    <3>3. row[f] \in Row /\ ing[i].seen[f] \in Row
      BY <1>1 DEF Session
    <3>4. /\ Refreshed(row[f], ing[i].seen[f], i) \in Row
          /\ Present(Refreshed(row[f], ing[i].seen[f], i))
          /\ Refreshed(row[f], ing[i].seen[f], i).by \in {i, row[f].by}
      BY <3>2, <3>3, <2>2, RefreshedRow
    <3>5. QED
      BY <3>1, <3>2, <3>4
  <2>3. CASE f \notin ing[i].new /\ ~Present(ing[i].seen[f])
    BY <2>3, <1>1 DEF Commit
  <2>4. QED
    BY <2>1, <2>2, <2>3
<1>3. Grows
  BY <1>2 DEF Grows
<1>4. ing' = [ing EXCEPT ![i] = [NoSession EXCEPT !.pc = "done"]] /\ completed' = completed \cup {i}
  BY DEF Commit
<1>5. ing'[i] = [NoSession EXCEPT !.pc = "done"] /\ \A j \in Scans \ {i} : ing'[j] = ing[j]
  BY <1>4 DEF IInv, TypeOK
<1>6. SessionIsSound(i)' /\ SessionIsComplete(i)' /\ ing'[i] \in Session
  BY <1>5, OverIsSound
<1>7. \A j \in Scans : SessionIsSound(j)' /\ SessionIsComplete(j)'
  BY <1>3, <1>5, <1>6, OthersStay
<1>8. TypeOK'
  <2>1. row' \in [Findings -> Row]
    BY <1>2 DEF Commit
  <2>2. ing' \in [Scans -> Session]
    BY <1>4, <1>5, <1>6 DEF IInv, TypeOK
  <2>3. QED
    BY <2>1, <2>2, <1>4 DEF IInv, TypeOK, Commit, bounds
<1>9. LoadedStay'
  BY <1>3, LoadedStays DEF Commit
<1>10. ReportsAreKept'
  <2>1. SUFFICES ASSUME NEW j \in completed', NEW f \in Findings, Reports(j, f)
                 PROVE  Present(row'[f])
    BY DEF ReportsAreKept, Reports, Present
  <2>2. CASE j \in completed
    BY <2>1, <2>2, <1>2 DEF IInv, ReportsAreKept
  <2>3. CASE j = i
    <3>1. f \in ing[i].new \/ Present(ing[i].seen[f]) \/ ToRead(ing[i], f)
      BY <2>1, <2>3, <1>1 DEF IInv, SessionIsComplete
    <3>2. ~ToRead(ing[i], f)
      BY <1>1 DEF ToRead
    <3>3. QED
      BY <3>1, <3>2, <1>2
  <2>4. QED
    BY <2>2, <2>3, <1>4
<1>11. EvidenceIsCommitted'
  <2>1. SUFFICES ASSUME NEW f \in Findings, Present(row'[f])
                 PROVE  row'[f].by \in completed' /\ Reports(row'[f].by, f)
    BY DEF EvidenceIsCommitted, Reports, Present
  <2>2. CASE row'[f].by = i /\ Reports(i, f)
    BY <2>2, <1>4
  <2>3. CASE Present(row[f]) /\ row'[f].by = row[f].by
    BY <2>3, <1>4 DEF IInv, EvidenceIsCommitted
  <2>4. QED
    BY <2>1, <2>2, <2>3, <1>2
<1>12. QED
  BY <1>7, <1>8, <1>9, <1>10, <1>11 DEF IInv

LEMMA DecideHolds ==
  ASSUME IInv, NEW a \in Analysts, NEW f \in Findings, NEW st \in Status, Decide(a, f, st)
  PROVE  IInv'
<1> DEFINE t == [pc |-> "decided", on |-> f, was |-> row[f].status, to |-> st]
<1>1. t \in Triage
  BY DEF IInv, TypeOK, Row, Triage
<1>2. an' = [an EXCEPT ![a] = t] /\ Present(row[f])
  BY DEF Decide
<1>3. TypeOK'
  BY <1>1, <1>2 DEF IInv, TypeOK, Decide
<1>4. Grows
  BY DEF Grows, Decide
<1>5. \A i \in Scans : SessionIsSound(i)' /\ SessionIsComplete(i)'
  BY <1>4, OthersStay DEF Decide
<1>6. LoadedStay'
  <2>1. ASSUME NEW b \in Analysts, an'[b].pc = "decided"
        PROVE  an'[b].on \in Findings /\ Present(row'[an'[b].on])
    <3>1. CASE b = a
      BY <3>1, <1>2 DEF IInv, TypeOK, Decide
    <3>2. CASE b # a
      BY <3>2, <2>1, <1>2 DEF IInv, TypeOK, Decide, LoadedStay
    <3>3. QED
      BY <3>1, <3>2
  <2>2. QED
    BY <2>1 DEF IInv, LoadedStay, Decide, Present
<1>7. ReportsAreKept' /\ EvidenceIsCommitted'
  BY DEF IInv, ReportsAreKept, EvidenceIsCommitted, Decide, Present, Reports
<1>8. QED
  BY <1>3, <1>5, <1>6, <1>7 DEF IInv

LEMMA SaveHolds == ASSUME IInv, NEW a \in Analysts, Save(a) PROVE IInv'
<1> DEFINE f == an[a].on
           r == [row[f] EXCEPT !.status = Column(@, an[a].was, an[a].to)]
<1>1. f \in Findings /\ Present(row[f]) /\ row[f] \in Row /\ an[a] \in Triage
  BY DEF IInv, TypeOK, LoadedStay, Save
<1>2. r \in Row /\ Present(r) /\ r.by = row[f].by
  BY <1>1 DEF Row, Present, Column, Triage, Status
<1>3. row' = [row EXCEPT ![f] = r]
  BY DEF Save
<1>4. /\ row' \in [Findings -> Row]
      /\ \A g \in Findings : (Present(row'[g]) <=> Present(row[g])) /\ row'[g].by = row[g].by
  BY <1>1, <1>2, <1>3 DEF IInv, TypeOK
<1>5. an' \in [Analysts -> Triage] /\ en' \in Job
  BY Starts DEF IInv, TypeOK, Save
<1>6. LoadedStay'
  <2>1. ASSUME NEW b \in Analysts, an'[b].pc = "decided"
        PROVE  b # a /\ an'[b] = an[b]
    BY <2>1 DEF IInv, TypeOK, Save, NoTriage
  <2>2. en' = en
    BY DEF Save
  <2>3. QED
    BY <2>1, <2>2, <1>4 DEF IInv, LoadedStay, Present
<1>7. UNCHANGED <<ing, completed, bounds>>
  BY DEF Save
<1>8. QED
  BY <1>4, <1>5, <1>6, <1>7, OnlyRows

LEMMA EnrichLoadHolds == ASSUME IInv, EnrichLoad PROVE IInv'
<1>1. PICK S \in SUBSET Candidates \ {{}} :
        en' = [pc |-> "loaded", seen |-> [f \in Findings |-> IF f \in S THEN row[f] ELSE AbsentRow]]
  BY DEF EnrichLoad
<1>2. en' \in Job
  BY <1>1, Starts DEF IInv, TypeOK, Job
<1>3. \A f \in Findings : Present(en'.seen[f]) => Present(row[f])
  BY <1>1, Starts
<1>4. row' = row /\ an' = an /\ UNCHANGED <<ing, completed, bounds>>
  BY DEF EnrichLoad
<1>5. LoadedStay'
  BY <1>3, <1>4 DEF IInv, LoadedStay, Present
<1>6. QED
  BY <1>2, <1>4, <1>5, OnlyRows DEF IInv, TypeOK

LEMMA EnrichSaveHolds == ASSUME IInv, EnrichSave PROVE IInv'
<1>1. ASSUME NEW f \in Findings
      PROVE  /\ row'[f] \in Row
             /\ Present(row'[f]) <=> Present(row[f])
             /\ row'[f].by = row[f].by
  <2>1. row[f] \in Row /\ en.seen[f] \in Row
    BY DEF IInv, TypeOK, Job
  <2>2. row'[f] = IF Present(en.seen[f]) THEN Enriched(row[f], en.seen[f], f) ELSE row[f]
    BY DEF EnrichSave
  <2>3. QED
    BY <2>1, <2>2, EnrichedRow DEF Present
<1>2. row' \in [Findings -> Row]
  BY <1>1 DEF EnrichSave
<1>3. en' = NoJob /\ an' = an /\ UNCHANGED <<ing, completed, bounds>>
  BY DEF EnrichSave
<1>4. LoadedStay'
  BY <1>1, <1>3, Starts DEF IInv, LoadedStay, NoJob, Nothing, Present
<1>5. QED
  BY <1>1, <1>2, <1>3, <1>4, Starts, OnlyRows DEF IInv, TypeOK

LEMMA EnrichFailHolds == ASSUME IInv, EnrichFail PROVE IInv'
<1>1. en' = NoJob /\ UNCHANGED <<row, completed, ing, an, runs, triages>> /\ aborts' \in Nat
  BY DEF EnrichFail, IInv, TypeOK
<1>2. Grows
  BY <1>1 DEF Grows
<1>3. TypeOK'
  BY <1>1, Starts DEF IInv, TypeOK
<1>4. \A i \in Scans : SessionIsSound(i)' /\ SessionIsComplete(i)'
  BY <1>1, <1>2, OthersStay
<1>5. LoadedStay'
  BY <1>1, Starts DEF IInv, LoadedStay, NoJob, Nothing, Present
<1>6. ReportsAreKept' /\ EvidenceIsCommitted'
  BY <1>1 DEF IInv, ReportsAreKept, EvidenceIsCommitted, Present, Reports
<1>7. QED
  BY <1>3, <1>4, <1>5, <1>6 DEF IInv

-----------------------------------------------------------------------------
LEMMA StepHolds == IInv /\ [Next]_vars => IInv'
<1>1. SUFFICES ASSUME IInv, [Next]_vars PROVE IInv'
  OBVIOUS
<1>2. ASSUME NEW i \in Scans, Ingest(i) \/ Renormalize(i)
      PROVE  IInv'
  <2>1. Begin(i)
    BY <1>2 DEF Ingest, Renormalize
  <2>2. QED
    BY <2>1, <1>1, BeginHolds
<1>3. ASSUME NEW i \in Scans, Proceed(i)
      PROVE  IInv'
  BY <1>1, <1>3, ReadHolds, FlushHolds, GoneHolds, CommitHolds DEF Proceed
<1>4. ASSUME NEW i \in Scans, Abort(i)
      PROVE  IInv'
  BY <1>1, <1>4, GoneHolds
<1>5. ASSUME NEW a \in Analysts, NEW f \in Findings, NEW st \in Status, Decide(a, f, st)
      PROVE  IInv'
  BY <1>1, <1>5, DecideHolds
<1>6. ASSUME NEW a \in Analysts, Save(a)
      PROVE  IInv'
  BY <1>1, <1>6, SaveHolds
<1>7. CASE EnrichLoad \/ EnrichSave \/ EnrichFail
  BY <1>1, <1>7, EnrichLoadHolds, EnrichSaveHolds, EnrichFailHolds
<1>8. CASE UNCHANGED vars
  BY <1>1, <1>8 DEF IInv, TypeOK, ReportsAreKept, EvidenceIsCommitted, SessionIsSound,
     SessionIsComplete, LoadedStay, ToRead, Reports, Present, vars, bounds
<1>9. QED
  BY <1>1, <1>2, <1>3, <1>4, <1>5, <1>6, <1>7, <1>8 DEF Next

LEMMA Inductive == Spec => []IInv
BY InitHolds, StepHolds, PTL DEF Spec

\* The table and the sessions always hold values of their types: the status a
\* flush writes, the rows a session remembers, the rest of a report.
THEOREM TypeCorrect == Spec => []TypeOK
<1>1. IInv => TypeOK
  BY DEF IInv
<1>2. QED
  BY <1>1, Inductive, PTL

\* A completed scan has lost none of its findings (FindingIngestionService.ingest),
\* however many sessions insert, refresh, triage, enrich, fail or are repeated.
THEOREM FindingsAreKept == Spec => []ReportsAreKept
<1>1. IInv => ReportsAreKept
  BY DEF IInv
<1>2. QED
  BY <1>1, Inductive, PTL

\* The scan a finding refers to reported it and was committed: no rolled-back
\* session leaves a trace, however many write the row.
THEOREM EvidenceHolds == Spec => []EvidenceIsCommitted
<1>1. IInv => EvidenceIsCommitted
  BY DEF IInv
<1>2. QED
  BY <1>1, Inductive, PTL
=============================================================================
