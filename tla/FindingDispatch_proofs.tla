------------------------ MODULE FindingDispatch_proofs ------------------------
(***************************************************************************)
(* Theorems about FindingDispatch, for every number of findings, analysts, *)
(* workers and requests, crashes and failures of the provider.             *)
(*                                                                         *)
(* A dispatch works on a row it has read: what it has seen was committed   *)
(* once (SeenIsPast).  It creates a ticket only if it has seen no key; a    *)
(* key that the row has all the same was stored by another dispatch while   *)
(* this one was under way, and that one's ticket is a raced one             *)
(* (OvertakenAreRaced), so that no other ticket is ever forgotten.          *)
(***************************************************************************)
EXTENDS FindingDispatch, TLAPS

Active(p) == job[p].pc \notin {"idle", "done"}

\* A dispatch in progress is about a finding; the others hold nothing.
JobsAreJobs ==
  \A p \in Dispatchers :
    /\ Active(p) => job[p].on \in Findings
    /\ job[p].pc # "ticketed" => job[p].key = 0
    /\ p \in Workers => job[p].pc # "done"

TriagesAreTriages == \A a \in Analysts : an[a].pc # "idle" => an[a].on \in Findings

\* Statuses that were read were committed before.
SeenIsPast ==
  /\ \A f \in Findings : fin[f].status \in past[f]
  /\ \A p \in Dispatchers : Active(p) => job[p].seen.status \in past[job[p].on]

\* A ticket is created by who has seen no key.
KeysAreNew ==
  \A p \in Dispatchers : job[p].key # 0 /\ job[p].seen.key # 0 => job[p].key = job[p].seen.key
ContestedAreRaced == Contested(job) \subseteq raced
OvertakenAreRaced ==
  \A p \in Dispatchers :
    Active(p) /\ job[p].seen.key = 0 /\ fin[job[p].on].key # 0 => fin[job[p].on].key \in raced

Base == TypeOK /\ JobsAreJobs /\ TriagesAreTriages /\ SeenIsPast
Counted == KeysAreNew /\ ContestedAreRaced /\ OvertakenAreRaced /\ TicketsAreAccounted
IInv == Base /\ AlertsAreCommitted /\ Counted

-----------------------------------------------------------------------------
\* Only what a worker and a request do with their own dispatch.
LEMMA StartingJobs ==
  /\ NoJob \in Job /\ NoJob.pc = "idle" /\ NoJob.key = 0
  /\ Idle \in Triage /\ Idle.pc = "idle"
  /\ NewRow \in Row
BY DEF NoJob, Job, NewRow, Row, Status, Idle, Triage

LEMMA InitIInv == Init => IInv
<1> SUFFICES ASSUME Init PROVE IInv
  OBVIOUS
<1>1. PICK first \in [Findings -> {"open", "dismissed"}] :
        /\ fin = [f \in Findings |-> [NewRow EXCEPT !.status = first[f]]]
        /\ past = [f \in Findings |-> {first[f]}]
  BY DEF Init
<1>2. /\ fin \in [Findings -> Row] /\ past \in [Findings -> SUBSET Status]
      /\ \A f \in Findings : fin[f].status = first[f]
  BY <1>1 DEF NewRow, Row, Status
<1>3. TypeOK
  <2>1. queue \in Tasks
    BY DEF Init, Tasks
  <2>2. QED
    BY <1>2, <2>1, StartingJobs, ConstantsAssumption DEF Init, TypeOK
<1>4. \A p \in Dispatchers : job[p].pc = "idle" /\ job[p].key = 0
  BY StartingJobs DEF Init
<1>5. JobsAreJobs /\ TriagesAreTriages /\ SeenIsPast
  BY <1>1, <1>2, <1>4, StartingJobs DEF Init, JobsAreJobs, TriagesAreTriages, SeenIsPast, Active
<1>6. AlertsAreCommitted /\ Counted
  BY <1>4 DEF Init, AlertsAreCommitted, Counted, ContestedAreRaced, Contested, InProgress, OvertakenAreRaced,
              KeysAreNew, TicketsAreAccounted, Active
<1>7. QED
  BY <1>3, <1>5, <1>6 DEF IInv, Base

-----------------------------------------------------------------------------
LEMMA TasksStayTasks ==
  ASSUME queue \in Tasks, NEW f \in Findings, NEW s \in SUBSET Parts
  PROVE  /\ Publish(f, s) \in Tasks
         /\ queue[f][s] > 0 => [queue EXCEPT ![f][s] = @ - 1] \in Tasks
<1>1. queue[f] \in [SUBSET Parts -> Nat] /\ queue[f][s] \in Nat
  BY DEF Tasks
<1>2. [queue[f] EXCEPT ![s] = @ + 1] \in [SUBSET Parts -> Nat]
  BY <1>1
<1>3. queue[f][s] > 0 => [queue[f] EXCEPT ![s] = @ - 1] \in [SUBSET Parts -> Nat]
  BY <1>1
<1>4. QED
  BY <1>2, <1>3 DEF Tasks, Publish

\* The steps of triage leave the dispatches alone, those of dispatches triage.
Triages(a) ==
  \/ \E f \in Findings, to \in Decisions : Decide(a, f, to)
  \/ FlushAndPublish(a) \/ Commit(a) \/ Rollback(a)

LEMMA NextSteps ==
  Next <=> \/ \E a \in Analysts : Triages(a)
           \/ \E w \in Workers : Crash(w) \/ \E f \in Findings, s \in SUBSET Parts : Take(w, f, s)
           \/ \E c \in Callers, f \in Findings, s \in SUBSET Parts : Request(c, f, s)
           \/ \E p \in Dispatchers : Step(p) \/ RefuseTicket(p) \/ Raise(p)
BY DEF Next, Triages

LEMMA TriageSteps ==
  ASSUME Base, NEW a \in Analysts, Triages(a)
  PROVE  /\ UNCHANGED <<job, ticket, lost, raced, alerts, crashes, fails>>
         /\ Base'
         /\ \A f \in Findings : past[f] \subseteq past'[f] /\ fin'[f].key = fin[f].key
         /\ \A f \in Findings : fin'[f].status # fin[f].status => an[a].pc = "flushed" /\ an[a].on = f
<1>1. TypeOK /\ JobsAreJobs /\ TriagesAreTriages /\ SeenIsPast
  BY DEF Base
<1>2. ASSUME NEW f \in Findings, NEW to \in Decisions, Decide(a, f, to)
      PROVE  UNCHANGED <<job, ticket, lost, raced, alerts, crashes, fails, fin, past>> /\ Base'
  <2>1. TypeOK' /\ TriagesAreTriages'
    BY <1>1, <1>2, ConstantsAssumption DEF Decide, TypeOK, Triage, TriagesAreTriages, Status
  <2>2. QED
    BY <1>1, <1>2, <2>1 DEF Decide, Base, JobsAreJobs, SeenIsPast, Active
<1>3. CASE FlushAndPublish(a)
  <2>0. queue' \in Tasks
    BY <1>1, <1>3, TasksStayTasks DEF FlushAndPublish, TypeOK, TriagesAreTriages, Parts
  <2>1. TypeOK' /\ TriagesAreTriages'
    BY <1>1, <1>3, <2>0 DEF FlushAndPublish, TypeOK, Triage, TriagesAreTriages
  <2>2. QED
    BY <1>1, <1>3, <2>1 DEF FlushAndPublish, Base, JobsAreJobs, SeenIsPast, Active
<1>4. CASE Rollback(a)
  <2>1. TypeOK' /\ TriagesAreTriages'
    BY <1>1, <1>4, StartingJobs DEF Rollback, TypeOK, TriagesAreTriages
  <2>2. QED
    BY <1>1, <1>4, <2>1 DEF Rollback, Base, JobsAreJobs, SeenIsPast, Active
<1>5. CASE Commit(a)
  <2> DEFINE f == an[a].on
  <2>1. an[a].pc = "flushed" /\ f \in Findings /\ an[a].to \in Status
    BY <1>1, <1>5 DEF Commit, TriagesAreTriages, TypeOK, Triage
  <2>2. /\ fin' = [fin EXCEPT ![f].status = an[a].to]
        /\ past' = [past EXCEPT ![f] = @ \cup {an[a].to}]
        /\ an' = [an EXCEPT ![a] = Idle]
        /\ UNCHANGED <<queue, job, ticket, lost, raced, alerts, triages, crashes, fails>>
    BY <1>5 DEF Commit
  <2>3. fin' \in [Findings -> Row] /\ past' \in [Findings -> SUBSET Status] /\ an' \in [Analysts -> Triage]
    BY <1>1, <2>1, <2>2, StartingJobs DEF TypeOK, Row
  <2>4. retest' \in [Findings -> {"none", "stray", "queued"}]
    BY <1>1, <1>5, <2>1 DEF Commit, TypeOK, RetestOf
  <2>5. TypeOK'
    BY <1>1, <2>2, <2>3, <2>4 DEF TypeOK
  <2>6. /\ \A g \in Findings : past[g] \subseteq past'[g] /\ fin'[g].key = fin[g].key
        /\ \A g \in Findings : fin'[g].status # fin[g].status => g = f
        /\ fin'[f].status \in past'[f]
    BY <1>1, <2>1, <2>2 DEF TypeOK, Row
  <2>7. SeenIsPast' /\ JobsAreJobs'
    BY <1>1, <2>2, <2>6 DEF SeenIsPast, JobsAreJobs, Active
  <2>8. TriagesAreTriages'
    BY <1>1, <2>2, StartingJobs DEF TypeOK, TriagesAreTriages
  <2>9. QED
    BY <2>1, <2>2, <2>5, <2>6, <2>7, <2>8 DEF Base
<1>6. QED
  BY <1>2, <1>3, <1>4, <1>5 DEF Triages, FlushAndPublish, Rollback

-----------------------------------------------------------------------------
\* A dispatch becomes d, and the rows keep what dispatches do not write.
LEMMA OneJobChanges ==
  ASSUME Base, NEW p \in Dispatchers, NEW d \in Job, job' = [job EXCEPT ![p] = d],
         UNCHANGED <<past, retest, an, triages>>,
         fin' \in [Findings -> Row], \A f \in Findings : fin'[f].status = fin[f].status,
         queue' \in Tasks, ticket' \in [Keys -> Findings \cup {None}],
         lost' \subseteq Keys, raced' \subseteq Keys,
         alerts' \subseteq Findings \X Status, crashes' \in 0 .. MaxCrashes, fails' \in 0 .. MaxFails,
         d.pc \notin {"idle", "done"} => d.on \in Findings /\ d.seen.status \in past[d.on],
         d.pc # "ticketed" => d.key = 0,
         p \in Workers => d.pc # "done"
  PROVE  Base'
<1>1. TypeOK /\ JobsAreJobs /\ TriagesAreTriages /\ SeenIsPast
  BY DEF Base
<1>2. job'[p] = d /\ \A q \in Dispatchers \ {p} : job'[q] = job[q]
  BY <1>1 DEF TypeOK
<1>3. TypeOK'
  BY <1>1 DEF TypeOK
<1>4. JobsAreJobs'
  BY <1>1, <1>2 DEF JobsAreJobs, Active
<1>5. SeenIsPast'
  BY <1>1, <1>2 DEF SeenIsPast, Active
<1>6. TriagesAreTriages'
  BY <1>1 DEF TriagesAreTriages
<1>7. QED
  BY <1>3, <1>4, <1>5, <1>6 DEF Base

LEMMA LoadedIsJob ==
  ASSUME Base, NEW f \in Findings, NEW s \in SUBSET Parts
  PROVE  /\ Loaded(f, s) \in Job /\ Loaded(f, s).pc = "loaded" /\ Loaded(f, s).on = f
         /\ Loaded(f, s).seen = fin[f] /\ Loaded(f, s).key = 0 /\ fin[f].status \in past[f]
BY StartingJobs DEF Base, TypeOK, Loaded, NoJob, Job, SeenIsPast

LEMMA EndIsJob ==
  ASSUME Base, NEW p \in Dispatchers
  PROVE  \E d \in Job : /\ End(p) = [job EXCEPT ![p] = d] /\ d.pc \in {"idle", "done"} /\ d.key = 0
                        /\ p \in Workers => d.pc # "done"
<1>1. p \in Workers => p \notin Callers
  BY ConstantsAssumption
<1>2. \A pc \in {"idle", "done"} : [NoJob EXCEPT !.pc = pc] \in Job
  BY StartingJobs DEF Job
<1>3. QED
  BY <1>1, <1>2 DEF End, NoJob

LEMMA TicketedIsJob ==
  ASSUME Base, NEW p \in Dispatchers, NEW k \in Keys \cup {0}, Active(p)
  PROVE  \E d \in Job : /\ Ticketed(p, k) = [job EXCEPT ![p] = d] /\ d.pc = "ticketed" /\ d.key = k
                        /\ d.on = job[p].on /\ d.seen = job[p].seen
                        /\ d.on \in Findings /\ d.seen.status \in past[d.on]
<1>1. job[p] \in Job /\ job[p].on \in Findings /\ job[p].seen.status \in past[job[p].on]
  BY DEF Base, TypeOK, JobsAreJobs, SeenIsPast
<1>2. Ticketed(p, k) = [job EXCEPT ![p] = [job[p] EXCEPT !.pc = "ticketed", !.key = k]]
  BY DEF Ticketed, Base, TypeOK
<1>3. [job[p] EXCEPT !.pc = "ticketed", !.key = k] \in Job
  BY <1>1 DEF Job
<1>4. QED
  BY <1>1, <1>2, <1>3 DEF Job

\* How each step of a dispatch changes its job.
LEMMA AlertedIsJob ==
  ASSUME Base, NEW p \in Dispatchers, Alert(p)
  PROVE  \E d \in Job : /\ job' = [job EXCEPT ![p] = d] /\ d.pc = "alerted" /\ d.on = job[p].on
                        /\ d.seen = job[p].seen /\ d.key = job[p].key
<1> DEFINE t == ShouldAlert(p) /\ p \in Workers
           d == [job[p] EXCEPT !.pc = "alerted", !.tell = t]
<1>1. job' = [job EXCEPT ![p] = d] /\ job[p] \in Job
  BY DEF Alert, Base, TypeOK
<1>2. t \in BOOLEAN
  BY DEF ShouldAlert
<1> HIDE DEF t
<1>3. d \in Job /\ d.pc = "alerted" /\ d.on = job[p].on /\ d.seen = job[p].seen /\ d.key = job[p].key
  BY <1>1, <1>2 DEF Job
<1> HIDE DEF d
<1>4. QED
  BY <1>1, <1>3

LEMMA BaseTypes ==
  ASSUME Base
  PROVE  /\ fin \in [Findings -> Row] /\ queue \in Tasks
         /\ ticket \in [Keys -> Findings \cup {None}] /\ lost \subseteq Keys /\ raced \subseteq Keys
         /\ alerts \subseteq Findings \X Status /\ crashes \in 0 .. MaxCrashes /\ fails \in 0 .. MaxFails
BY DEF Base, TypeOK

LEMMA DispatchSteps ==
  ASSUME Base, [Next]_vars, ~ \E a \in Analysts : Triages(a)
  PROVE  /\ Base'
         /\ UNCHANGED <<past, an>>
         /\ \A f \in Findings : fin'[f].status = fin[f].status
<1> USE BaseTypes, ConstantsAssumption
<1>0. TypeOK /\ JobsAreJobs /\ SeenIsPast
  BY DEF Base
<1>1. CASE UNCHANGED vars
  BY <1>1 DEF vars, Base, TypeOK, JobsAreJobs, TriagesAreTriages, SeenIsPast, Active
<1>2. ASSUME NEW w \in Workers, NEW f \in Findings, NEW s \in SUBSET Parts, Take(w, f, s)
      PROVE  Base' /\ UNCHANGED <<past, an, fin>>
  <2>1. queue' \in Tasks /\ w \in Dispatchers
    BY <1>2, TasksStayTasks DEF Take, Dispatchers
  <2>2. UNCHANGED <<past, retest, an, triages, fin, ticket, lost, alerts, crashes, fails>>
        /\ job' = [job EXCEPT ![w] = Loaded(f, s)] /\ raced' \subseteq Keys
    BY <1>2 DEF Take, Contested
  <2>3. PICK d \in Job : d = Loaded(f, s)
    BY LoadedIsJob
  <2>4. d.pc = "loaded" /\ d.on = f /\ d.seen = fin[f] /\ d.key = 0 /\ fin[f].status \in past[f]
    BY <2>3, LoadedIsJob
  <2>5. QED
    BY <2>1, <2>2, <2>3, <2>4, OneJobChanges
<1>3. ASSUME NEW c \in Callers, NEW f \in Findings, NEW s \in SUBSET Parts, Request(c, f, s)
      PROVE  Base' /\ UNCHANGED <<past, an, fin>>
  <2>1. queue' \in Tasks /\ c \in Dispatchers /\ c \notin Workers
    <3>1. queue' = queue \/ queue' = Publish(f, s)
      BY <1>3 DEF Request
    <3>2. queue' \in Tasks
      <4>1. Publish(f, s) \in Tasks
        BY TasksStayTasks
      <4>2. QED
        BY <3>1, <4>1
    <3>3. c \in Dispatchers /\ c \notin Workers
      BY DEF Dispatchers
    <3>4. QED
      BY <3>2, <3>3
  <2>2. UNCHANGED <<past, retest, an, triages, fin, ticket, lost, alerts, crashes, fails>> /\ raced' \subseteq Keys
    BY <1>3 DEF Request, Contested
  <2>3. [NoJob EXCEPT !.pc = "done"] \in Job /\ [NoJob EXCEPT !.pc = "done"].pc = "done"
        /\ [NoJob EXCEPT !.pc = "done"].key = 0
    BY StartingJobs DEF Job, NoJob
  <2>4. job' = [job EXCEPT ![c] = [NoJob EXCEPT !.pc = "done"]] \/ job' = [job EXCEPT ![c] = Loaded(f, s)]
    BY <1>3 DEF Request
  <2>5. CASE job' = [job EXCEPT ![c] = [NoJob EXCEPT !.pc = "done"]]
    BY <2>1, <2>2, <2>3, <2>5, OneJobChanges
  <2>6. CASE job' = [job EXCEPT ![c] = Loaded(f, s)]
    <3>1. PICK d \in Job : d = Loaded(f, s)
      BY LoadedIsJob
    <3>2. d.pc = "loaded" /\ d.on = f /\ d.seen = fin[f] /\ d.key = 0 /\ fin[f].status \in past[f]
      BY <3>1, LoadedIsJob
    <3>3. QED
      BY <2>1, <2>2, <2>6, <3>1, <3>2, OneJobChanges
  <2>7. QED
    BY <2>2, <2>4, <2>5, <2>6
<1>4. ASSUME NEW p \in Dispatchers, Alert(p) PROVE Base' /\ UNCHANGED <<past, an, fin>>
  <2>1. /\ job[p].on \in Findings /\ job[p].seen.status \in past[job[p].on] /\ job[p].key = 0
        /\ job[p] \in Job
    BY <1>0, <1>4 DEF Alert, JobsAreJobs, SeenIsPast, Active, TypeOK
  <2>2. PICK d \in Job : /\ job' = [job EXCEPT ![p] = d] /\ d.pc = "alerted" /\ d.on = job[p].on
                         /\ d.seen = job[p].seen /\ d.key = job[p].key
    BY <1>4, AlertedIsJob
  <2>3. alerts' \subseteq Findings \X Status
    BY <1>4, <2>1 DEF Alert, Job, Row
  <2>4. UNCHANGED <<past, retest, an, triages, fin, ticket, lost, raced, queue, crashes, fails>>
    BY <1>4 DEF Alert
  <2>5. QED
    BY <2>1, <2>2, <2>3, <2>4, OneJobChanges
<1>5. ASSUME NEW p \in Dispatchers, SkipTicket(p) \/ UpdateTicket(p) PROVE Base' /\ UNCHANGED <<past, an, fin>>
  <2>1. PICK k \in Keys \cup {0} : job' = Ticketed(p, k)
    BY <1>0, <1>5 DEF SkipTicket, UpdateTicket, TypeOK, Job, Row
  <2>2. Active(p) /\ UNCHANGED <<past, retest, an, triages, fin, ticket, lost, raced, queue, alerts, crashes, fails>>
    BY <1>5 DEF SkipTicket, UpdateTicket, MustSync, Active
  <2>3. QED
    BY <1>0, <2>1, <2>2, TicketedIsJob, OneJobChanges DEF JobsAreJobs
<1>6. ASSUME NEW p \in Dispatchers, CreateTicket(p) \/ RefuseTicket(p) PROVE Base' /\ UNCHANGED <<past, an, fin>>
  <2>1. PICK k \in Keys \cup {0} : job' = Ticketed(p, k)
    BY <1>6 DEF CreateTicket, RefuseTicket
  <2>2. Active(p) /\ job[p].on \in Findings
    BY <1>0, <1>6 DEF CreateTicket, RefuseTicket, MustSync, Active, JobsAreJobs
  <2>3. ticket' \in [Keys -> Findings \cup {None}] /\ fails' \in 0 .. MaxFails /\ raced' \subseteq Keys
    BY <1>6, <2>2 DEF CreateTicket, RefuseTicket, Contested
  <2>4. UNCHANGED <<past, retest, an, triages, fin, lost, queue, alerts, crashes>>
    BY <1>6 DEF CreateTicket, RefuseTicket
  <2>5. QED
    BY <2>1, <2>2, <2>3, <2>4, TicketedIsJob, OneJobChanges
<1>7. ASSUME NEW p \in Dispatchers, Raise(p) PROVE Base' /\ UNCHANGED <<past, an, fin>>
  <2>1. job[p].on \in Findings
    BY <1>0, <1>7 DEF Raise, MustSync, Active, JobsAreJobs
  <2>2. ticket' \in [Keys -> Findings \cup {None}] /\ lost' \subseteq Keys /\ fails' \in 0 .. MaxFails
    BY <1>7, <2>1 DEF Raise
  <2>3. UNCHANGED <<past, retest, an, triages, fin, queue, raced, alerts, crashes>> /\ job' = End(p)
    BY <1>7 DEF Raise
  <2>4. QED
    BY <2>2, <2>3, EndIsJob, OneJobChanges
<1>8. ASSUME NEW p \in Dispatchers, Finish(p)
      PROVE  Base' /\ UNCHANGED <<past, an>> /\ \A f \in Findings : fin'[f].status = fin[f].status
  <2> DEFINE f == job[p].on
  <2>1. f \in Findings /\ job[p] \in Job
    BY <1>0, <1>8 DEF Finish, Active, JobsAreJobs, TypeOK
  <2>2. UNCHANGED <<past, retest, an, triages, ticket, lost, raced, queue, alerts, crashes, fails>> /\ job' = End(p)
    BY <1>8 DEF Finish
  <2>3. /\ fin' = [fin EXCEPT ![f].key = IF Unstored(p) THEN job[p].key ELSE @,
                              ![f].alerted = @ \/ job[p].tell]
    BY <1>8 DEF Finish
  <2>4. (fin[f].alerted \/ job[p].tell) \in BOOLEAN
    BY <2>1 DEF Job, Row
  <2>5. fin' \in [Findings -> Row]
    BY <2>1, <2>3, <2>4 DEF Job, Row, Unstored
  <2>6. \A g \in Findings : fin'[g].status = fin[g].status
    BY <2>1, <2>3 DEF Row
  <2>7. QED
    BY <2>2, <2>5, <2>6, EndIsJob, OneJobChanges
<1>9. ASSUME NEW w \in Workers, Crash(w) PROVE Base' /\ UNCHANGED <<past, an, fin>>
  <2>1. w \in Dispatchers /\ job[w].on \in Findings
    BY <1>0, <1>9 DEF Crash, Active, JobsAreJobs, Dispatchers
  <2>2. queue' \in Tasks /\ crashes' \in 0 .. MaxCrashes /\ lost' \subseteq Keys
    <3>1. job[w].parts \in SUBSET Parts /\ job[w].key \in Keys \cup {0}
      BY <1>0, <2>1 DEF TypeOK, Job
    <3>2. queue' \in Tasks
      BY <1>9, <2>1, <3>1, TasksStayTasks DEF Crash
    <3>3. Dropped(w) \subseteq Keys
      BY <3>1 DEF Dropped, Unstored
    <3>4. QED
      BY <1>9, <3>2, <3>3 DEF Crash
  <2>3. UNCHANGED <<past, retest, an, triages, fin, ticket, raced, alerts, fails>> /\ job' = [job EXCEPT ![w] = NoJob]
    BY <1>9 DEF Crash
  <2>4. QED
    BY <2>1, <2>2, <2>3, StartingJobs, OneJobChanges
<1>10. QED
  BY <1>1, <1>2, <1>3, <1>4, <1>5, <1>6, <1>7, <1>8, <1>9, NextSteps DEF Step

-----------------------------------------------------------------------------
LEMMA NextBase ==
  ASSUME Base, [Next]_vars
  PROVE  /\ Base'
         /\ \A f \in Findings : past[f] \subseteq past'[f]
         /\ \A f \in Findings : fin'[f].status # fin[f].status =>
              \E a \in Analysts : an[a].pc = "flushed" /\ an[a].on = f
<1>1. CASE \E a \in Analysts : Triages(a)
  BY <1>1, TriageSteps
<1>2. CASE ~ \E a \in Analysts : Triages(a)
  BY <1>2, DispatchSteps
<1>3. QED
  BY <1>1, <1>2

\* What is told was seen, and what is seen was committed.
LEMMA AlertsStay ==
  ASSUME Base, AlertsAreCommitted, [Next]_vars
  PROVE  AlertsAreCommitted'
<1>1. /\ alerts \subseteq Findings \X Status
      /\ \A f \in Findings : past[f] \subseteq past'[f]
  BY NextBase, BaseTypes
<1>2. \A e \in alerts : e[1] \in Findings /\ e[2] \in past[e[1]]
  BY <1>1 DEF AlertsAreCommitted
<1>3. alerts' = alerts \/ \E p \in Dispatchers : Alert(p)
  <2>1. CASE \E a \in Analysts : Triages(a)
    BY <2>1, TriageSteps
  <2>2. CASE ~ \E a \in Analysts : Triages(a)
    BY <2>2, NextSteps DEF Crash, Take, Request, Step, SkipTicket, UpdateTicket, CreateTicket, Finish,
                           RefuseTicket, Raise, vars
  <2>3. QED
    BY <2>1, <2>2
<1>4. CASE alerts' = alerts
  BY <1>1, <1>2, <1>4 DEF AlertsAreCommitted
<1>5. ASSUME NEW p \in Dispatchers, Alert(p)
      PROVE  AlertsAreCommitted'
  <2> DEFINE e == <<job[p].on, job[p].seen.status>>
  <2>1. job[p].on \in Findings /\ job[p].seen.status \in past[job[p].on]
    BY <1>5 DEF Alert, Base, JobsAreJobs, SeenIsPast, Active
  <2>2. e[1] \in Findings /\ e[2] \in past[e[1]]
    BY <2>1
  <2>3. alerts' \subseteq alerts \cup {e}
    BY <1>5 DEF Alert
  <2> HIDE DEF e
  <2>4. \A x \in alerts' : x[1] \in Findings /\ x[2] \in past[x[1]]
    BY <1>2, <2>2, <2>3
  <2>5. QED
    BY <1>1, <2>4 DEF AlertsAreCommitted
<1>6. QED
  BY <1>3, <1>4, <1>5

-----------------------------------------------------------------------------
\* The accounts of tickets.  A dispatch p becomes d.
LEMMA StayCounted ==
  ASSUME Base, Counted, Base', NEW p \in Dispatchers, NEW d \in Job, job' = [job EXCEPT ![p] = d],
         raced \subseteq raced', lost \subseteq lost',
         d.key # 0 /\ d.seen.key # 0 => d.key = d.seen.key,
         Contested(job') \subseteq raced',
         d.pc \notin {"idle", "done"} /\ d.seen.key = 0 /\ fin'[d.on].key # 0 => fin'[d.on].key \in raced',
         \A q \in Dispatchers \ {p} : Active(q) =>
            fin'[job[q].on].key = fin[job[q].on].key \/ fin'[job[q].on].key \in raced',
         \A f \in Findings : fin[f].key # 0 => fin'[f].key = fin[f].key \/ fin[f].key \in raced',
         Unstored(p) => \/ d.key = job[p].key /\ d.on = job[p].on /\ d.seen = job[p].seen
                        \/ job[p].key \in lost' \/ fin'[job[p].on].key = job[p].key,
         \A k \in Keys : \/ ticket'[k] = ticket[k]
                         \/ d.key = k /\ d.seen.key # k /\ d.on = ticket'[k]
                         \/ k \in lost'
  PROVE  Counted'
<1>1. KeysAreNew /\ ContestedAreRaced /\ OvertakenAreRaced /\ TicketsAreAccounted
  BY DEF Counted
<1>2. job'[p] = d /\ \A q \in Dispatchers \ {p} : job'[q] = job[q]
  BY DEF Base, TypeOK
<1>3. ContestedAreRaced'
  BY DEF ContestedAreRaced
<1>4. OvertakenAreRaced'
  BY <1>1, <1>2 DEF OvertakenAreRaced, Active
<1>5. KeysAreNew'
  BY <1>1, <1>2 DEF KeysAreNew
<1>6. TicketsAreAccounted'
  <2> SUFFICES ASSUME NEW k \in Keys, ticket'[k] # None, k \notin lost', k \notin raced'
               PROVE  \/ fin'[ticket'[k]].key = k
                      \/ \E q \in Dispatchers : Unstored(q)' /\ job'[q].key = k /\ job'[q].on = ticket'[k]
    BY DEF TicketsAreAccounted
  <2>0. k # 0
    BY DEF Keys
  <2>1. CASE d.key = k /\ d.seen.key # k /\ d.on = ticket'[k]
    BY <1>2, <2>0, <2>1 DEF Unstored
  <2>2. CASE ticket'[k] = ticket[k]
    <3>1. ticket[k] \in Findings /\ k \notin lost \cup raced
      BY <2>2, BaseTypes
    <3>2. CASE fin[ticket[k]].key = k
      BY <2>0, <2>2, <3>1, <3>2
    <3>3. ASSUME NEW q \in Dispatchers, Unstored(q), job[q].key = k, job[q].on = ticket[k], q # p
          PROVE  \E r \in Dispatchers : Unstored(r)' /\ job'[r].key = k /\ job'[r].on = ticket'[k]
      BY <1>2, <2>2, <3>3 DEF Unstored
    <3>4. CASE Unstored(p) /\ job[p].key = k /\ job[p].on = ticket[k]
      BY <1>2, <2>2, <3>4 DEF Unstored
    <3>5. QED
      BY <1>1, <2>2, <3>1, <3>2, <3>3, <3>4 DEF TicketsAreAccounted
  <2>3. QED
    BY <2>1, <2>2
<1>7. QED
  BY <1>3, <1>4, <1>5, <1>6 DEF Counted

\* A dispatch that gets no new ticket and is under way only if it was, about the
\* same finding, makes no ticket a contested one.
LEMMA ContestedStays ==
  ASSUME Base, ContestedAreRaced, raced \subseteq raced',
         NEW p \in Dispatchers, NEW d \in Job, job' = [job EXCEPT ![p] = d],
         d.key \in {0, d.seen.key} \/ (d.key = job[p].key /\ d.seen = job[p].seen /\ d.on = job[p].on),
         d.pc \notin {"idle", "done"} => Active(p) /\ d.on = job[p].on
  PROVE  Contested(job') \subseteq raced'
<1>1. job'[p] = d /\ \A q \in Dispatchers \ {p} : job'[q] = job[q]
  BY DEF Base, TypeOK
<1>2. SUFFICES ASSUME NEW k \in Keys, NEW a \in Dispatchers, NEW b \in Dispatchers, a # b,
                      job'[a].key = k, job'[a].seen.key # k, InProgress(job'[b], job'[a].on)
               PROVE  k \in Contested(job)
  BY DEF Contested, ContestedAreRaced
<1>3. k # 0
  BY DEF Keys
<1>4. job[a].key = k /\ job[a].seen.key # k /\ job[a].on = job'[a].on
  BY <1>1, <1>2, <1>3
<1>5. InProgress(job[b], job'[a].on)
  BY <1>1, <1>2 DEF InProgress, Active
<1>6. QED
  BY <1>2, <1>4, <1>5 DEF Contested

\* What each step makes of its dispatch.
LEMMA EndsCounted ==
  ASSUME Base, Counted, Base', NEW p \in Dispatchers, job' = End(p), raced' = raced, lost \subseteq lost',
         \A q \in Dispatchers \ {p} : Active(q) =>
            fin'[job[q].on].key = fin[job[q].on].key \/ fin'[job[q].on].key \in raced,
         \A f \in Findings : fin[f].key # 0 => fin'[f].key = fin[f].key \/ fin[f].key \in raced,
         Unstored(p) => fin'[job[p].on].key = job[p].key,
         \A k \in Keys : ticket'[k] = ticket[k] \/ k \in lost'
  PROVE  Counted'
<1>1. PICK d \in Job : End(p) = [job EXCEPT ![p] = d] /\ d.pc \in {"idle", "done"} /\ d.key = 0
  BY EndIsJob
<1>2. job' = [job EXCEPT ![p] = d] /\ ContestedAreRaced
  BY <1>1 DEF Counted
<1>3. Contested(job') \subseteq raced'
  BY <1>1, <1>2, ContestedStays
<1>4. QED
  BY <1>1, <1>2, <1>3, StayCounted

LEMMA TicketedCounted ==
  ASSUME Base, Counted, Base', NEW p \in Dispatchers, NEW k \in Keys \cup {0}, Active(p), job' = Ticketed(p, k),
         job[p].key = 0, UNCHANGED <<fin, lost>>, raced \subseteq raced',
         k # 0 /\ job[p].seen.key # 0 => k = job[p].seen.key,
         \/ k \in {0, job[p].seen.key} /\ UNCHANGED ticket
         \/ k # 0 /\ job[p].seen.key = 0 /\ ticket' = [ticket EXCEPT ![k] = job[p].on]
            /\ Contested(job') \subseteq raced'
  PROVE  Counted'
<1>1. PICK d \in Job : /\ Ticketed(p, k) = [job EXCEPT ![p] = d] /\ d.pc = "ticketed" /\ d.key = k
                       /\ d.on = job[p].on /\ d.seen = job[p].seen
  BY TicketedIsJob
<1>2. job' = [job EXCEPT ![p] = d] /\ fin' = fin /\ lost' = lost
  BY <1>1
<1>3. ContestedAreRaced /\ OvertakenAreRaced
  BY DEF Counted
<1>4. Contested(job') \subseteq raced'
  <2>1. CASE k \in {0, job[p].seen.key}
    BY <1>1, <1>2, <1>3, <2>1, ContestedStays
  <2>2. QED
    BY <2>1
<1>5. d.seen.key = 0 /\ fin'[d.on].key # 0 => fin'[d.on].key \in raced'
  BY <1>1, <1>2, <1>3 DEF OvertakenAreRaced
<1>6. \A j \in Keys : \/ ticket'[j] = ticket[j]
                      \/ d.key = j /\ d.seen.key # j /\ d.on = ticket'[j]
                      \/ j \in lost'
  BY <1>1, BaseTypes
<1>7. d.key # 0 /\ d.seen.key # 0 => d.key = d.seen.key
  BY <1>1
<1>8. ~Unstored(p)
  BY DEF Unstored
<1>9. /\ \A q \in Dispatchers \ {p} : Active(q) =>
           fin'[job[q].on].key = fin[job[q].on].key \/ fin'[job[q].on].key \in raced'
      /\ \A f \in Findings : fin[f].key # 0 => fin'[f].key = fin[f].key \/ fin[f].key \in raced'
      /\ lost \subseteq lost'
  BY <1>2
<1>10. QED
  BY <1>2, <1>4, <1>5, <1>6, <1>7, <1>8, <1>9, StayCounted

\* A dispatch that has just read the row has overtaken nobody; tickets held by
\* others are contested from now on.
LEMMA TakesCounted ==
  ASSUME Base, Counted, Base', NEW p \in Dispatchers, NEW f \in Findings, NEW s \in SUBSET Parts,
         job[p].pc = "idle", job' = [job EXCEPT ![p] = Loaded(f, s)], UNCHANGED <<fin, ticket, lost>>,
         raced' = raced \cup Contested(job')
  PROVE  Counted'
<1>1. ~Unstored(p)
  BY DEF Base, JobsAreJobs, Unstored
<1>2. PICK d \in Job : d = Loaded(f, s)
  BY LoadedIsJob
<1>3. d.pc = "loaded" /\ d.on = f /\ d.seen = fin[f] /\ d.key = 0 /\ job' = [job EXCEPT ![p] = d]
  BY <1>2, LoadedIsJob
<1>4. fin' = fin /\ ticket' = ticket /\ lost' = lost /\ raced \subseteq raced' /\ Contested(job') \subseteq raced'
  OBVIOUS
<1>5. /\ \A q \in Dispatchers \ {p} : Active(q) =>
           fin'[job[q].on].key = fin[job[q].on].key \/ fin'[job[q].on].key \in raced'
      /\ \A g \in Findings : fin[g].key # 0 => fin'[g].key = fin[g].key \/ fin[g].key \in raced'
      /\ lost \subseteq lost' /\ \A k \in Keys : ticket'[k] = ticket[k]
  BY <1>4
<1>6. d.seen.key = 0 => fin'[d.on].key = 0
  BY <1>3, <1>4
<1>7. QED
  BY <1>1, <1>3, <1>4, <1>5, <1>6, StayCounted

LEMMA NextCounted ==
  ASSUME Base, Counted, [Next]_vars
  PROVE  Counted'
<1> USE NextBase
<1>0. /\ TypeOK /\ JobsAreJobs
      /\ KeysAreNew /\ ContestedAreRaced /\ OvertakenAreRaced /\ TicketsAreAccounted
  BY DEF Base, Counted
<1>1. CASE UNCHANGED vars
  BY <1>0, <1>1 DEF vars, Counted, KeysAreNew, ContestedAreRaced, Contested, OvertakenAreRaced,
                    TicketsAreAccounted, Active, Unstored
<1>2. ASSUME NEW a \in Analysts, Triages(a) PROVE Counted'
  <2>1. /\ job' = job /\ ticket' = ticket /\ lost' = lost /\ raced' = raced
        /\ \A f \in Findings : fin'[f].key = fin[f].key
    BY <1>2, TriageSteps
  <2>2. KeysAreNew' /\ ContestedAreRaced'
    BY <1>0, <2>1 DEF KeysAreNew, ContestedAreRaced, Contested
  <2>3. OvertakenAreRaced'
    BY <1>0, <2>1 DEF OvertakenAreRaced, Active, JobsAreJobs
  <2>4. TicketsAreAccounted'
    BY <1>0, <2>1 DEF TicketsAreAccounted, TypeOK, Unstored
  <2>5. QED
    BY <2>2, <2>3, <2>4 DEF Counted
<1>3. ASSUME NEW w \in Workers, NEW f \in Findings, NEW s \in SUBSET Parts, Take(w, f, s) PROVE Counted'
  BY <1>3, TakesCounted DEF Take, Dispatchers
<1>4. ASSUME NEW c \in Callers, NEW f \in Findings, NEW s \in SUBSET Parts, Request(c, f, s) PROVE Counted'
  <2>1. /\ c \in Dispatchers /\ fin' = fin /\ ticket' = ticket /\ lost' = lost /\ job[c].pc = "idle"
        /\ raced' = raced \cup Contested(job')
    BY <1>4 DEF Request, Dispatchers
  <2>2. CASE job' = [job EXCEPT ![c] = Loaded(f, s)]
    BY <2>1, <2>2, TakesCounted
  <2>3. CASE job' = [job EXCEPT ![c] = [NoJob EXCEPT !.pc = "done"]]
    <3>1. job' = End(c)
      BY <1>4, <2>3 DEF End
    <3>2. job[c].key = 0
      BY <1>0, <2>1 DEF JobsAreJobs
    <3>3. PICK d \in Job : End(c) = [job EXCEPT ![c] = d] /\ d.pc \in {"idle", "done"} /\ d.key = 0
      BY <2>1, EndIsJob
    <3>4. job' = [job EXCEPT ![c] = d]
      BY <3>1, <3>3
    <3>5. Contested(job') \subseteq raced
      <4>1. \A q \in Dispatchers : job'[q] = IF q = c THEN d ELSE job[q]
        BY <1>0, <3>4 DEF TypeOK
      <4>2. Contested(job') \subseteq Contested(job)
        BY <3>3, <4>1 DEF Contested, InProgress, Keys
      <4>3. QED
        BY <1>0, <4>2 DEF ContestedAreRaced
    <3>6. raced' = raced
      BY <2>1, <3>5
    <3>7. ~Unstored(c)
      BY <3>2 DEF Unstored
    <3>8. QED
      BY <2>1, <3>1, <3>6, <3>7, EndsCounted
  <2>4. QED
    BY <1>4, <2>2, <2>3 DEF Request
<1>5. ASSUME NEW p \in Dispatchers, Alert(p) PROVE Counted'
  <2>1. PICK d \in Job : /\ job' = [job EXCEPT ![p] = d] /\ d.pc = "alerted" /\ d.on = job[p].on
                         /\ d.seen = job[p].seen /\ d.key = job[p].key
    BY <1>5, AlertedIsJob
  <2>2. fin' = fin /\ ticket' = ticket /\ lost' = lost /\ raced' = raced /\ Active(p) /\ job[p].key = 0
    BY <1>0, <1>5 DEF Alert, Active, JobsAreJobs
  <2>3. Contested(job') \subseteq raced'
    BY <1>0, <2>1, <2>2, ContestedStays
  <2>4. d.seen.key = 0 /\ fin'[d.on].key # 0 => fin'[d.on].key \in raced'
    BY <1>0, <2>1, <2>2 DEF OvertakenAreRaced
  <2>5. /\ \A q \in Dispatchers \ {p} : Active(q) =>
             fin'[job[q].on].key = fin[job[q].on].key \/ fin'[job[q].on].key \in raced'
        /\ \A f \in Findings : fin[f].key # 0 => fin'[f].key = fin[f].key \/ fin[f].key \in raced'
        /\ raced \subseteq raced' /\ lost \subseteq lost' /\ \A k \in Keys : ticket'[k] = ticket[k]
    BY <2>2
  <2>6. ~Unstored(p) /\ d.key = 0
    BY <2>1, <2>2 DEF Unstored
  <2>7. QED
    BY <2>1, <2>3, <2>4, <2>5, <2>6, StayCounted
<1>6. ASSUME NEW p \in Dispatchers, SkipTicket(p) \/ UpdateTicket(p) PROVE Counted'
  <2>1. Active(p) /\ job[p].key = 0 /\ fin' = fin /\ lost' = lost /\ ticket' = ticket /\ raced' = raced
    BY <1>0, <1>6 DEF SkipTicket, UpdateTicket, MustSync, Active, JobsAreJobs
  <2>2. job[p].seen.key \in Keys \cup {0}
    BY <1>0 DEF TypeOK, Job, Row
  <2>3. CASE SkipTicket(p)
    BY <2>1, <2>3, TicketedCounted DEF SkipTicket
  <2>4. CASE UpdateTicket(p)
    BY <2>1, <2>2, <2>4, TicketedCounted DEF UpdateTicket
  <2>5. QED
    BY <1>6, <2>3, <2>4
<1>7. ASSUME NEW p \in Dispatchers, CreateTicket(p) \/ RefuseTicket(p) PROVE Counted'
  <2>1. Active(p) /\ job[p].key = 0 /\ fin' = fin /\ lost' = lost /\ job[p].seen.key = 0
    BY <1>0, <1>7 DEF CreateTicket, RefuseTicket, MustSync, Active, JobsAreJobs
  <2>2. CASE RefuseTicket(p)
    BY <2>1, <2>2, TicketedCounted DEF RefuseTicket
  <2>3. CASE CreateTicket(p)
    <3>1. PICK k \in Keys : ticket' = [ticket EXCEPT ![k] = job[p].on] /\ job' = Ticketed(p, k)
      BY <2>3 DEF CreateTicket
    <3>2. k # 0 /\ k \in Keys \cup {0}
      BY DEF Keys
    <3>3. raced \subseteq raced' /\ Contested(job') \subseteq raced'
      BY <2>3 DEF CreateTicket
    <3>4. QED
      BY <2>1, <3>1, <3>2, <3>3, TicketedCounted
  <2>4. QED
    BY <1>7, <2>2, <2>3
<1>8. ASSUME NEW p \in Dispatchers, Raise(p) PROVE Counted'
  <2>1. fin' = fin /\ job' = End(p) /\ job[p].key = 0 /\ raced' = raced
    BY <1>0, <1>8 DEF Raise, MustSync, JobsAreJobs
  <2>2. lost \subseteq lost' /\ \A k \in Keys : ticket'[k] = ticket[k] \/ k \in lost'
    BY <1>0, <1>8 DEF Raise, TypeOK
  <2>3. ~Unstored(p)
    BY <2>1 DEF Unstored
  <2>4. QED
    BY <2>1, <2>2, <2>3, EndsCounted
<1>9. ASSUME NEW p \in Dispatchers, Finish(p) PROVE Counted'
  <2> DEFINE f == job[p].on
  <2>1. /\ Active(p) /\ f \in Findings /\ job' = End(p) /\ lost' = lost /\ ticket' = ticket /\ raced' = raced
        /\ job[p].key \in Keys \cup {0}
    BY <1>0, <1>9 DEF Finish, Active, JobsAreJobs, TypeOK, Job
  <2>2. /\ \A g \in Findings : g # f => fin'[g].key = fin[g].key
        /\ fin'[f].key = IF Unstored(p) THEN job[p].key ELSE fin[f].key
    BY <1>0, <1>9, <2>1 DEF Finish, TypeOK, Row
  <2>3. Unstored(p) /\ fin[f].key # 0 => fin[f].key \in raced
    BY <1>0, <2>1 DEF Unstored, KeysAreNew, OvertakenAreRaced
  <2>4. ASSUME NEW q \in Dispatchers \ {p}, Active(q), job[q].on = f, Unstored(p)
        PROVE  job[p].key \in raced
    BY <1>0, <2>1, <2>4 DEF ContestedAreRaced, Contested, InProgress, Unstored, Active
  <2>5. \A q \in Dispatchers \ {p} : Active(q) =>
           fin'[job[q].on].key = fin[job[q].on].key \/ fin'[job[q].on].key \in raced
    BY <1>0, <2>2, <2>4 DEF JobsAreJobs
  <2>6. \A g \in Findings : fin[g].key # 0 => fin'[g].key = fin[g].key \/ fin[g].key \in raced
    BY <2>2, <2>3
  <2>7. Unstored(p) => fin'[job[p].on].key = job[p].key
    BY <2>2
  <2> HIDE DEF f
  <2>8. QED
    BY <2>1, <2>5, <2>6, <2>7, EndsCounted
<1>10. ASSUME NEW w \in Workers, Crash(w) PROVE Counted'
  <2>1. /\ w \in Dispatchers /\ job' = [job EXCEPT ![w] = NoJob] /\ fin' = fin /\ ticket' = ticket /\ raced' = raced
    BY <1>10 DEF Crash, Dispatchers
  <2>2. lost \subseteq lost' /\ (Unstored(w) => job[w].key \in lost')
    BY <1>10 DEF Crash, Dropped
  <2>3. Contested(job') \subseteq raced'
    BY <1>0, <2>1, StartingJobs, ContestedStays
  <2>4. /\ \A q \in Dispatchers \ {w} : Active(q) =>
             fin'[job[q].on].key = fin[job[q].on].key \/ fin'[job[q].on].key \in raced'
        /\ \A f \in Findings : fin[f].key # 0 => fin'[f].key = fin[f].key \/ fin[f].key \in raced'
        /\ raced \subseteq raced' /\ \A k \in Keys : ticket'[k] = ticket[k]
    BY <2>1
  <2>5. QED
    BY <2>1, <2>2, <2>3, <2>4, StartingJobs, StayCounted
<1>11. QED
  BY <1>1, <1>2, <1>3, <1>4, <1>5, <1>6, <1>7, <1>8, <1>9, <1>10, NextSteps DEF Step

-----------------------------------------------------------------------------
LEMMA SpecIInv == Spec => []IInv
<1>1. Init => IInv
  BY InitIInv
<1>2. IInv /\ [Next]_vars => IInv'
  BY NextBase, AlertsStay, NextCounted DEF IInv
<1>3. QED
  BY <1>1, <1>2, PTL DEF Spec

\* Requests, tasks, rows and tickets keep their shape, whatever crashes, fails
\* or rolls back in between (VulnerabilityService.update,
\* dispatch_finding_integrations).
THEOREM TypeCorrect == Spec => []TypeOK
<1>1. IInv => TypeOK
  BY DEF IInv, Base
<1>2. QED
  BY <1>1, SpecIInv, PTL

\* The receiver is only ever told statuses that were committed, although tasks
\* are published before the commit (VulnerabilityService.update).
THEOREM AlertsHold == Spec => []AlertsAreCommitted
<1>1. IInv => AlertsAreCommitted
  BY DEF IInv
<1>2. QED
  BY <1>1, SpecIInv, PTL

\* Whatever a dispatch has read, only the commit of a decision changes a status
\* (dispatch_finding_integrations).
THEOREM TriageStays == Spec => TriageIsKept
<1>1. IInv /\ [Next]_vars =>
        [\A f \in Findings : fin'[f].status # fin[f].status =>
           \E a \in Analysts : an[a].pc = "flushed" /\ an[a].on = f]_vars
  BY NextBase DEF IInv
<1>2. QED
  BY <1>1, SpecIInv, PTL DEF Spec, TriageIsKept

\* Whatever is delivered twice, crashes or overlaps, a ticket that its finding
\* does not name has a reason: it is still to be stored, its creator died or
\* timed out, or a second dispatch of the finding was under way before it was
\* stored (dispatch_finding_integrations, sync_ticket).
THEOREM TicketsHold == Spec => []TicketsAreAccounted
<1>1. IInv => TicketsAreAccounted
  BY DEF IInv, Counted
<1>2. QED
  BY <1>1, SpecIInv, PTL
=============================================================================
