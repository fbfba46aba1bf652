--------------------------- MODULE FindingDispatch ---------------------------
(***************************************************************************)
(* Triage and the systems outside: an analyst's decision publishes a task  *)
(* (VulnerabilityService.update), and a worker, or a request that does not *)
(* want to wait for one, alerts the webhook, opens or updates the ticket,  *)
(* forwards to the SIEM and then stores the key of the ticket              *)
(* (dispatch_finding_integrations, dispatch_for_vulnerability).            *)
(*                                                                         *)
(* The task is published before the decision is committed.  The ticket is  *)
(* created before its key is committed.  The broker delivers a task again  *)
(* if the worker dies, and forgets it if the task raises.                  *)
(***************************************************************************)
EXTENDS Naturals, FiniteSets

CONSTANTS
  Findings,
  Severity,    \* Severity[f]: "critical", "high" or "low"
  Imported,    \* findings whose source_tool is an engine without a worker
  Analysts,    \* requests that triage
  Workers,     \* processes of the integrations queue
  Callers,     \* requests that dispatch themselves (async_mode = false), each once
  None,
  Decisions,   \* bound: the statuses that are decided on
  MaxTriages,  \* bound: decisions
  MaxTickets,  \* bound: tickets the provider can create
  MaxCrashes,  \* bound: workers that die in a task
  MaxFails     \* bound: errors and timeouts of the provider

Dispatchers == Workers \cup Callers
Keys == 1 .. MaxTickets

\* What a dispatch is asked for.  forward_siem changes nothing that is kept here.
Parts == {"send_webhook", "sync_ticket"}

ASSUME ConstantsAssumption ==
  /\ Severity \in [Findings -> {"critical", "high", "low"}]
  /\ Imported \subseteq Findings
  /\ Decisions \subseteq {"open", "confirmed", "remediated", "resolved", "dismissed"}
  /\ Workers \cap Callers = {} /\ None \notin Findings
  /\ MaxTriages \in Nat /\ MaxTickets \in Nat /\ MaxCrashes \in Nat /\ MaxFails \in Nat

VARIABLES
  fin,      \* the vulnerabilities rows, as committed
  past,     \* past[f]: the statuses f has had (history)
  retest,   \* retest[f]: the verification scan of f's last closing
  queue,    \* queue[f][s]: tasks for f in the broker, with the parts s
  an,       \* triage requests
  job,      \* dispatches in progress
  ticket,   \* ticket[k]: the finding the provider's ticket k is about, or None
  lost,     \* tickets whose creator did not live to store the key (history)
  raced,    \* tickets held unstored while another dispatch was under way (history)
  alerts,   \* <<finding, status>> the webhook has been told
  triages, crashes, fails

vars == <<fin, past, retest, queue, an, job, ticket, lost, raced, alerts, triages, crashes, fails>>

\* remediated and resolved both close a finding; dismissed: FALSE_POSITIVE and
\* ACCEPTED_RISK.
Status == {"open", "confirmed", "remediated", "resolved", "dismissed"}

\* key: external_ticket_key, 0 for null.  alerted: last_alerted_at is set.
Row == [status : Status, key : Keys \cup {0}, alerted : BOOLEAN]
Triage == [pc : {"idle", "loaded", "flushed"}, on : Findings \cup {None}, to : Status]
Idle == [pc |-> "idle", on |-> None, to |-> "open"]

\* seen: the row as the session loaded it.  key: what sync_ticket returned.
Job == [pc : {"idle", "loaded", "alerted", "ticketed", "done"}, on : Findings \cup {None},
        parts : SUBSET Parts, seen : Row, key : Keys \cup {0}, tell : BOOLEAN]
NewRow == [status |-> "open", key |-> 0, alerted |-> FALSE]
NoJob == [pc |-> "idle", on |-> None, parts |-> {}, seen |-> NewRow, key |-> 0, tell |-> FALSE]

Tasks == [Findings -> [SUBSET Parts -> Nat]]

TypeOK ==
  /\ fin \in [Findings -> Row]
  /\ past \in [Findings -> SUBSET Status]
  /\ retest \in [Findings -> {"none", "stray", "queued"}] /\ queue \in Tasks
  /\ an \in [Analysts -> Triage] /\ job \in [Dispatchers -> Job]
  /\ ticket \in [Keys -> Findings \cup {None}] /\ lost \subseteq Keys /\ raced \subseteq Keys
  /\ alerts \subseteq Findings \X Status
  /\ triages \in 0 .. MaxTriages /\ crashes \in 0 .. MaxCrashes /\ fails \in 0 .. MaxFails

-----------------------------------------------------------------------------
(* Triage. *)

Locked(f) == \E a \in Analysts : an[a].pc = "flushed" /\ an[a].on = f

Decide(a, f, to) ==
  /\ an[a].pc = "idle" /\ triages < MaxTriages
  /\ fin[f].status # to
  /\ triages' = triages + 1
  /\ an' = [an EXCEPT ![a] = [pc |-> "loaded", on |-> f, to |-> to]]
  /\ UNCHANGED <<fin, past, retest, queue, job, ticket, lost, raced, alerts, crashes, fails>>

Publish(f, s) == [queue EXCEPT ![f][s] = @ + 1]
Announced(f, to) == to = "confirmed" \/ Severity[f] \in {"critical", "high"}

\* The flush locks the row; then the task is published, unless the broker is
\* down, which is not told to anybody (_enqueue_integrations).
FlushAndPublish(a) ==
  LET f == an[a].on IN
  /\ an[a].pc = "loaded" /\ ~Locked(f)
  /\ an' = [an EXCEPT ![a].pc = "flushed"]
  /\ queue' \in IF Announced(f, an[a].to) THEN {queue, Publish(f, Parts)} ELSE {queue}
  /\ UNCHANGED <<fin, past, retest, job, ticket, lost, raced, alerts, triages, crashes, fails>>

\* assert_roe_for_scan, over the keys of scan.config that are true: outside
\* production lab_mode stands in for the acknowledgement.
RoeAcknowledged(config) == config \cap {"roe_acknowledged", "lab_mode"} # {}

\* An engine with a worker is refused before its scan is inserted; any other is
\* inserted first, and enqueue has no task for it.  Both refusals are swallowed.
RetestConfig == {"retest_of_vulnerability_id", "auto_retest"}
RetestOf(f) == IF f \in Imported THEN "stray"
               ELSE IF RoeAcknowledged(RetestConfig) THEN "queued" ELSE "none"

Commit(a) ==
  LET f == an[a].on IN
  /\ an[a].pc = "flushed"
  /\ fin' = [fin EXCEPT ![f].status = an[a].to]
  /\ past' = [past EXCEPT ![f] = @ \cup {an[a].to}]
  /\ retest' = IF an[a].to \in {"remediated", "resolved"} THEN [retest EXCEPT ![f] = RetestOf(f)] ELSE retest
  /\ an' = [an EXCEPT ![a] = Idle]
  /\ UNCHANGED <<queue, job, ticket, lost, raced, alerts, triages, crashes, fails>>

Rollback(a) ==
  /\ an[a].pc # "idle"
  /\ an' = [an EXCEPT ![a] = Idle]
  /\ UNCHANGED <<fin, past, retest, queue, job, ticket, lost, raced, alerts, triages, crashes, fails>>

-----------------------------------------------------------------------------
(* Dispatching. *)

InProgress(d, f) == d.pc \notin {"idle", "done"} /\ d.on = f

\* Tickets that one of the dispatches j has created and another one, already
\* under way, cannot know of.
Contested(j) ==
  {k \in Keys : \E p, q \in Dispatchers :
     p # q /\ j[p].key = k /\ j[p].seen.key # k /\ InProgress(j[q], j[p].on)}

\* A bug: the event carries the status of the request, not of the row.
LoadedAhead(f, s) ==
  [NoJob EXCEPT !.pc = "loaded", !.on = f, !.parts = s,
     !.seen = IF Locked(f)
              THEN [fin[f] EXCEPT !.status =
                      an[CHOOSE a \in Analysts : an[a].pc = "flushed" /\ an[a].on = f].to]
              ELSE fin[f]]

Loaded(f, s) == [NoJob EXCEPT !.pc = "loaded", !.on = f, !.parts = s, !.seen = fin[f]]

Take(w, f, s) ==
  /\ job[w].pc = "idle" /\ queue[f][s] > 0
  /\ queue' = [queue EXCEPT ![f][s] = @ - 1]
  /\ job' = [job EXCEPT ![w] = Loaded(f, s)]
  /\ raced' = raced \cup Contested(job')
  /\ UNCHANGED <<fin, past, retest, an, ticket, lost, alerts, triages, crashes, fails>>

\* POST .../dispatch publishes a task, or dispatches in the request itself.
Request(c, f, s) ==
  /\ job[c].pc = "idle"
  /\ \/ queue' = Publish(f, s) /\ job' = [job EXCEPT ![c] = [NoJob EXCEPT !.pc = "done"]]
     \/ job' = [job EXCEPT ![c] = Loaded(f, s)] /\ UNCHANGED queue
  /\ raced' = raced \cup Contested(job')
  /\ UNCHANGED <<fin, past, retest, an, ticket, lost, alerts, triages, crashes, fails>>

ShouldAlert(p) == "send_webhook" \in job[p].parts /\ Severity[job[p].on] \in {"critical", "high"}

\* A receiver that refuses or cannot be reached is logged: the alert counts.
Alert(p) ==
  /\ job[p].pc = "loaded"
  /\ alerts' \in IF ShouldAlert(p) THEN {alerts, alerts \cup {<<job[p].on, job[p].seen.status>>}} ELSE {alerts}
  /\ job' = [job EXCEPT ![p].pc = "alerted", ![p].tell = ShouldAlert(p) /\ p \in Workers]
  /\ UNCHANGED <<fin, past, retest, queue, an, ticket, lost, raced, triages, crashes, fails>>

\* sync_ticket: ticket_min_severity is critical, resolved findings are skipped.
Ticketable(f, status) == Severity[f] = "critical" /\ status \notin {"resolved", "dismissed"}
MustSync(p) ==
  /\ job[p].pc = "alerted" /\ "sync_ticket" \in job[p].parts
  /\ Ticketable(job[p].on, job[p].seen.status)

Ticketed(p, k) == [job EXCEPT ![p].pc = "ticketed", ![p].key = k]
NextKey(k) == ticket[k] = None /\ \A j \in Keys : j < k => ticket[j] # None

SkipTicket(p) ==
  /\ job[p].pc = "alerted" /\ ~MustSync(p)
  /\ job' = Ticketed(p, 0)
  /\ UNCHANGED <<fin, past, retest, queue, an, ticket, lost, raced, alerts, triages, crashes, fails>>

\* An update that the provider refuses is reported with the key all the same.
UpdateTicket(p) ==
  /\ MustSync(p) /\ job[p].seen.key # 0
  /\ job' = Ticketed(p, job[p].seen.key)
  /\ UNCHANGED <<fin, past, retest, queue, an, ticket, lost, raced, alerts, triages, crashes, fails>>

\* A bug: a ticket is created whether or not the finding has one.
CreateTicketAnyway(p) ==
  /\ MustSync(p)
  /\ \E k \in Keys : /\ NextKey(k)
                     /\ ticket' = [ticket EXCEPT ![k] = job[p].on]
                     /\ job' = Ticketed(p, k)
  /\ raced' = raced \cup Contested(job')
  /\ UNCHANGED <<fin, past, retest, queue, an, lost, alerts, triages, crashes, fails>>

CreateTicket(p) ==
  /\ MustSync(p) /\ job[p].seen.key = 0
  /\ \E k \in Keys : /\ NextKey(k)
                     /\ ticket' = [ticket EXCEPT ![k] = job[p].on]
                     /\ job' = Ticketed(p, k)
  /\ raced' = raced \cup Contested(job')
  /\ UNCHANGED <<fin, past, retest, queue, an, lost, alerts, triages, crashes, fails>>

\* The provider answers the creation with an error: no key.
RefuseTicket(p) ==
  /\ MustSync(p) /\ job[p].seen.key = 0 /\ fails < MaxFails
  /\ fails' = fails + 1
  /\ job' = Ticketed(p, 0)
  /\ UNCHANGED <<fin, past, retest, queue, an, ticket, lost, raced, alerts, triages, crashes>>

End(p) == [job EXCEPT ![p] = [NoJob EXCEPT !.pc = IF p \in Callers THEN "done" ELSE "idle"]]

\* The request to the provider times out, be it to update a ticket or to create
\* one, which is there afterwards or not: nothing catches it, the session rolls
\* back, the task is acknowledged.
Raise(p) ==
  /\ MustSync(p) /\ fails < MaxFails
  /\ fails' = fails + 1
  /\ \/ UNCHANGED <<ticket, lost>>
     \/ /\ job[p].seen.key = 0
        /\ \E k \in Keys : NextKey(k) /\ ticket' = [ticket EXCEPT ![k] = job[p].on] /\ lost' = lost \cup {k}
  /\ job' = End(p)
  /\ UNCHANGED <<fin, past, retest, queue, an, raced, alerts, triages, crashes>>

\* The key is a change only if it is not the one the session has read.
Unstored(p) == job[p].key \notin {0, job[p].seen.key}

\* A bug: the whole row is written back.
FinishWholeRow(p) ==
  LET f == job[p].on IN
  /\ job[p].pc = "ticketed" /\ ~Locked(f)
  /\ fin' = [fin EXCEPT ![f] = [job[p].seen EXCEPT !.key = IF job[p].key # 0 THEN job[p].key ELSE @,
                                                   !.alerted = @ \/ job[p].tell]]
  /\ job' = End(p)
  /\ UNCHANGED <<past, retest, queue, an, ticket, lost, raced, alerts, triages, crashes, fails>>

\* SIEM, which cannot fail the task; then the columns of the ticket and the
\* alert are written, those only.
Finish(p) ==
  LET f == job[p].on IN
  /\ job[p].pc = "ticketed" /\ ~Locked(f)
  /\ fin' = [fin EXCEPT ![f].key = IF Unstored(p) THEN job[p].key ELSE @,
                        ![f].alerted = @ \/ job[p].tell]
  /\ job' = End(p)
  /\ UNCHANGED <<past, retest, queue, an, ticket, lost, raced, alerts, triages, crashes, fails>>

Dropped(w) == IF Unstored(w) THEN {job[w].key} ELSE {}

\* A bug: early acknowledgement.
CrashAcked(w) ==
  /\ job[w].pc # "idle" /\ crashes < MaxCrashes
  /\ crashes' = crashes + 1
  /\ lost' = lost \cup Dropped(w)
  /\ job' = [job EXCEPT ![w] = NoJob]
  /\ UNCHANGED <<fin, past, retest, queue, an, ticket, raced, alerts, triages, fails>>

Crash(w) ==
  /\ job[w].pc # "idle" /\ crashes < MaxCrashes
  /\ crashes' = crashes + 1
  /\ queue' = Publish(job[w].on, job[w].parts)
  /\ lost' = lost \cup Dropped(w)
  /\ job' = [job EXCEPT ![w] = NoJob]
  /\ UNCHANGED <<fin, past, retest, an, ticket, raced, alerts, triages, fails>>

-----------------------------------------------------------------------------
Init ==
  /\ \E first \in [Findings -> {"open", "dismissed"}] :
       /\ fin = [f \in Findings |-> [NewRow EXCEPT !.status = first[f]]]
       /\ past = [f \in Findings |-> {first[f]}]
  /\ retest = [f \in Findings |-> "none"] /\ queue = [f \in Findings |-> [s \in SUBSET Parts |-> 0]]
  /\ an = [a \in Analysts |-> Idle] /\ job = [p \in Dispatchers |-> NoJob]
  /\ ticket = [k \in Keys |-> None] /\ lost = {} /\ raced = {} /\ alerts = {}
  /\ triages = 0 /\ crashes = 0 /\ fails = 0

Step(p) == Alert(p) \/ SkipTicket(p) \/ UpdateTicket(p) \/ CreateTicket(p) \/ Finish(p)

Next ==
  \/ \E a \in Analysts :
       \/ \E f \in Findings, to \in Decisions : Decide(a, f, to)
       \/ FlushAndPublish(a) \/ Commit(a) \/ Rollback(a)
  \/ \E w \in Workers : Crash(w) \/ \E f \in Findings, s \in SUBSET Parts : Take(w, f, s)
  \/ \E c \in Callers, f \in Findings, s \in SUBSET Parts : Request(c, f, s)
  \/ \E p \in Dispatchers : Step(p) \/ RefuseTicket(p) \/ Raise(p)

Spec == Init /\ [][Next]_vars

\* Requests end, workers go on with their tasks and take waiting ones.
Fairness ==
  /\ \A a \in Analysts : WF_vars(Commit(a) \/ Rollback(a))
  /\ \A p \in Dispatchers : WF_vars(Step(p))
  /\ \A w \in Workers, f \in Findings, s \in SUBSET Parts : WF_vars(Take(w, f, s))
FairSpec == Spec /\ Fairness

-----------------------------------------------------------------------------
(* Properties. *)

\* Every ticket at the provider is the one its finding names, or about to be,
\* or a casualty: of a crash or a timeout, or of a second dispatch of the finding
\* that was under way before the key was stored.  Redelivery and repeated triage
\* alone never open another one (dispatch_finding_integrations, sync_ticket).
TicketsAreAccounted ==
  \A k \in Keys : ticket[k] # None =>
    \/ fin[ticket[k]].key = k
    \/ k \in lost \cup raced
    \/ \E p \in Dispatchers : Unstored(p) /\ job[p].key = k /\ job[p].on = ticket[k]

\* The receiver is only ever told statuses that were committed, although tasks
\* are published before the commit (VulnerabilityService.update).
AlertsAreCommitted == \A e \in alerts : e[2] \in past[e[1]]

\* A dispatch, which holds a row it has read for as long as three systems take
\* to answer, never undoes a decision (dispatch_finding_integrations).
TriageIsKept ==
  [][\A f \in Findings : fin'[f].status # fin[f].status =>
       \E a \in Analysts : an[a].pc = "flushed" /\ an[a].on = f]_vars

\* A dispatch that was asked for a ticket and passes, because the status it has
\* read calls for none.
Passes(p, f) ==
  /\ job[p].pc = "ticketed" /\ job[p].on = f /\ "sync_ticket" \in job[p].parts
  /\ ~Ticketable(f, job[p].seen.status)

\* A task published for a ticket ends in one that the finding names, although
\* workers die on the way, unless the provider fails or a dispatch has read a
\* status that calls for none: it may be the status before the decision that
\* published the task, when the worker is faster than the commit
\* (VulnerabilityService.update, task_acks_late, sync_ticket).
TicketFollows ==
  \A f \in Findings :
    (\E s \in SUBSET Parts : "sync_ticket" \in s /\ queue[f][s] > 0) ~>
      (fin[f].key # 0 \/ fails > 0 \/ \E p \in Dispatchers : Passes(p, f))

\* A closed finding is being verified by a scan, as the usage guide promises of
\* the automatic retest (VulnerabilityService.update, _enqueue_retest).
ClosedIsRetested ==
  \A f \in Findings : fin[f].status \in {"remediated", "resolved"} => retest[f] = "queued"
=============================================================================
