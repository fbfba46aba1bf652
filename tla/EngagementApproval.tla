------------------------- MODULE EngagementApproval -------------------------
(***************************************************************************)
(* Dual control of engagement reports: admins approve a scope or revoke    *)
(* its approval (EngagementApprovalService), analysts export a report of a *)
(* scope as a draft or for the client (EngagementReportService.generate),  *)
(* while scans go on committing their findings.                            *)
(*                                                                         *)
(* Every request is one session at READ COMMITTED: each of its queries     *)
(* sees what is committed at that moment, and what it writes is committed  *)
(* when it ends.  Nothing locks a scope.                                   *)
(***************************************************************************)
EXTENDS Naturals, FiniteSets

CONSTANTS
  Scans,        \* scans of the organization; each is a scope of its own
  Wide,         \* the scope without scan_id (an asset, a type, everything)
  Admins,       \* users with the role admin or super_admin
  Creator,      \* Creator[c]: scan.created_by_id, a user or None
  Changes,      \* requests that approve or revoke, each made once
  Exports,      \* requests for a report, each made once
  None,
  MaxApprovals  \* bound: rows of engagement_approvals

Scopes == Scans \cup {Wide}
Requests == Changes \cup Exports

ASSUME ConstantsAssumption ==
  /\ Wide \notin Scans
  /\ None \notin Admins
  /\ Creator \in [Scans -> Admins \cup {None}]
  /\ Changes \cap Exports = {}
  /\ MaxApprovals \in Nat

VARIABLES
  job,    \* job[c]: "none" before scan c exists, then what its configuration says
  found,  \* found[c]: the findings committed for c
  row,    \* engagement_approvals by primary key, in the order of approved_at
  req,    \* the requests
  sent,   \* the reports handed out
  met     \* history: approvals whose request was open while another one
          \* approved the same scope

vars == <<job, found, row, req, sent, met>>

Ids == 1 .. MaxApprovals

\* What a scan's configuration says it is, and what its findings are: mock ones
\* are marked as such or not (is_synthetic_finding).
Job == {"none", "plain", "mock"}
Found == {"none", "real", "marked", "unmarked"}

\* free: no row.  new: in a session that has not committed.
Approval == [state : {"free", "new", "active", "revoked", "gone"},
             scope : Scopes \cup {None}, by : Admins \cup {None}]
FreeRow == [state |-> "free", scope |-> None, by |-> None]

\* old: the approval the session found.  new: the row it inserts.
\* scans, findings: what an export has loaded, in two queries.
Request == [pc : {"new", "approving", "revoking", "scans", "scope", "done"},
            scope : Scopes \cup {None}, client : BOOLEAN, allow : BOOLEAN,
            old : Ids \cup {0}, new : Ids \cup {0},
            scans : [Scans -> Job], findings : [Scans -> Found]]
Nothing == [c \in Scans |-> "none"]
NoRequest == [pc |-> "new", scope |-> None, client |-> FALSE, allow |-> FALSE,
              old |-> 0, new |-> 0, scans |-> Nothing, findings |-> Nothing]

Finished == [NoRequest EXCEPT !.pc = "done"]

\* approval: the row a report names in dual_control, or 0.  shows: the kinds of
\* the scans and the findings it lists.
Report == [scope : Scopes, class : {"client", "draft", "lab"}, client : BOOLEAN, approval : Ids \cup {0},
           shows : SUBSET (Job \cup Found)]

TypeOK ==
  /\ job \in [Scans -> Job] /\ found \in [Scans -> Found]
  /\ row \in [Ids -> Approval]
  /\ req \in [Requests -> Request]
  /\ sent \subseteq Report
  /\ \A d \in sent : d.client => d.approval \in Ids
  /\ met \subseteq Ids

-----------------------------------------------------------------------------
(* Scans and their findings. *)

\* A scan is created; its configuration may name a mock mode (is_mock_scan_config).
CreateScan(c) ==
  /\ job[c] = "none"
  /\ \E k \in {"plain", "mock"} : job' = [job EXCEPT ![c] = k]
  /\ UNCHANGED <<found, row, req, sent, met>>

\* A run commits its findings.  A configuration that names no mode takes the
\* worker's, which may be mock, and an imported report may carry marked ones;
\* OpenVAS's mock and ZAP's OWASP suite mark nothing.
CommitFindings(c) ==
  /\ job[c] # "none" /\ found[c] = "none"
  /\ \E k \in Found \ {"none"} :
       /\ job[c] = "mock" => k # "real"
       /\ found' = [found EXCEPT ![c] = k]
  /\ UNCHANGED <<job, row, req, sent, met>>

-----------------------------------------------------------------------------
(* Approving and revoking. *)

Active(s) == {i \in Ids : row[i].state = "active" /\ row[i].scope = s}

\* ORDER BY approved_at DESC LIMIT 1
FindActive(s) ==
  IF Active(s) = {} THEN 0
  ELSE CHOOSE i \in Active(s) : \A j \in Active(s) : j <= i

Makers(s) == IF s \in Scans THEN {Creator[s]} \ {None} ELSE {}

Approving(s) == {r \in Requests : req[r].pc = "approving" /\ req[r].scope = s}

\* The least free key: approved_at is taken now, before the commit.
NextId(i) == row[i].state = "free" /\ \A j \in Ids : j < i => row[j].state # "free"

\* The scan is looked up, the creator refused, the active approval read.
AskApprove(r, u, s) ==
  /\ req[r].pc = "new"
  /\ s \in Scans => job[s] # "none"
  /\ u \notin Makers(s)
  /\ \E i \in Ids :
       /\ NextId(i)
       /\ row' = [row EXCEPT ![i] = [state |-> "new", scope |-> s, by |-> u]]
       /\ req' = [req EXCEPT ![r] = [@ EXCEPT !.pc = "approving", !.scope = s,
                                              !.old = FindActive(s), !.new = i]]
       /\ met' = IF Approving(s) = {} THEN met
                 ELSE met \cup {i} \cup {req[q].new : q \in Approving(s)}
  /\ UNCHANGED <<job, found, sent>>

\* A bug: the approval found is not revoked.
CommitApproveOnly(r) ==
  /\ req[r].pc = "approving"
  /\ row' = [row EXCEPT ![req[r].new].state = "active"]
  /\ req' = [req EXCEPT ![r] = Finished]
  /\ UNCHANGED <<job, found, sent, met>>

CommitApprove(r) ==
  /\ req[r].pc = "approving"
  /\ row' = [i \in Ids |-> IF i = req[r].new THEN [row[i] EXCEPT !.state = "active"]
                           ELSE IF i = req[r].old THEN [row[i] EXCEPT !.state = "revoked"]
                           ELSE row[i]]
  /\ req' = [req EXCEPT ![r] = Finished]
  /\ UNCHANGED <<job, found, sent, met>>

AskRevoke(r, s) ==
  /\ req[r].pc = "new"
  /\ FindActive(s) # 0
  /\ req' = [req EXCEPT ![r] = [@ EXCEPT !.pc = "revoking", !.scope = s, !.old = FindActive(s)]]
  /\ UNCHANGED <<job, found, row, sent, met>>

CommitRevoke(r) ==
  /\ req[r].pc = "revoking"
  /\ row' = [row EXCEPT ![req[r].old].state = "revoked"]
  /\ req' = [req EXCEPT ![r] = Finished]
  /\ UNCHANGED <<job, found, sent, met>>

\* The transaction fails; the row was never there (gone: its place in time is).
Rollback(r) ==
  /\ req[r].pc \in {"approving", "revoking"}
  /\ row' = [i \in Ids |-> IF i = req[r].new THEN [row[i] EXCEPT !.state = "gone"] ELSE row[i]]
  /\ req' = [req EXCEPT ![r] = Finished]
  /\ UNCHANGED <<job, found, sent, met>>

-----------------------------------------------------------------------------
(* Exporting: scans, then findings, then the policy and the approval. *)

InScope(s, of) == [c \in Scans |-> IF s \in {c, Wide} THEN of[c] ELSE "none"]

\* _load_scope: the query of the scans
AskExport(r, s, client, allow) ==
  /\ req[r].pc = "new"
  /\ req' = [req EXCEPT ![r] = [@ EXCEPT !.pc = "scans", !.scope = s, !.client = client,
                                         !.allow = allow, !.scans = InScope(s, job)]]
  /\ UNCHANGED <<job, found, row, sent, met>>

\* _load_scope: the query of the findings, none if the scan was not found; the
\* scans of findings that turn up where there was no scan are looked up then.
LoadFindings(r) ==
  LET s == req[r].scope
      missing == s \in Scans /\ req[r].scans[s] = "none"
      findings == IF missing THEN Nothing ELSE InScope(s, found)
      late == [c \in Scans |-> IF findings[c] = "none" THEN "none" ELSE job[c]]
      scans == IF req[r].scans = Nothing THEN late ELSE req[r].scans
  IN
  /\ req[r].pc = "scans"
  /\ req' = [req EXCEPT ![r] = [@ EXCEPT !.pc = "scope", !.findings = findings, !.scans = scans]]
  /\ UNCHANGED <<job, found, row, sent, met>>

\* assert_engagement_export_allowed counts mock scans and synthetic findings.
HasMock(scans, findings) == \E c \in Scans : scans[c] = "mock" \/ findings[c] = "marked"

Blocked(q) == q.client /\ ~q.allow /\ HasMock(q.scans, q.findings)

Class(q) ==
  IF q.allow \/ HasMock(q.scans, q.findings) THEN "lab"
  ELSE IF q.client THEN "client" ELSE "draft"

Shown(q) == {q.scans[c] : c \in Scans} \cup {q.findings[c] : c \in Scans}

\* A bug: the export trusts an approval that has been revoked.
ReleaseRevoked(r) ==
  LET q == req[r]
      ever == {i \in Ids : row[i].state \in {"active", "revoked"} /\ row[i].scope = q.scope}
      a == IF ever = {} THEN 0 ELSE CHOOSE i \in ever : \A j \in ever : j <= i
  IN
  /\ q.pc = "scope"
  /\ req' = [req EXCEPT ![r] = Finished]
  /\ sent' = IF Blocked(q) \/ (q.client /\ a = 0) THEN sent
             ELSE sent \cup {[scope |-> q.scope, class |-> Class(q), client |-> q.client,
                              approval |-> a, shows |-> Shown(q)]}
  /\ UNCHANGED <<job, found, row, met>>

\* The policy, find_active and assert_client_delivery_allowed; the rest of
\* generate only reads what was loaded.
Release(r) ==
  LET q == req[r]
      a == FindActive(q.scope)
  IN
  /\ q.pc = "scope"
  /\ req' = [req EXCEPT ![r] = Finished]
  /\ sent' = IF Blocked(q) \/ (q.client /\ a = 0) THEN sent
             ELSE sent \cup {[scope |-> q.scope, class |-> Class(q), client |-> q.client,
                              approval |-> a, shows |-> Shown(q)]}
  /\ UNCHANGED <<job, found, row, met>>

-----------------------------------------------------------------------------
Init ==
  /\ job = Nothing /\ found = Nothing
  /\ row = [i \in Ids |-> FreeRow]
  /\ req = [r \in Requests |-> NoRequest]
  /\ sent = {} /\ met = {}

Next ==
  \/ \E c \in Scans : CreateScan(c) \/ CommitFindings(c)
  \/ \E r \in Changes, s \in Scopes : AskRevoke(r, s) \/ \E u \in Admins : AskApprove(r, u, s)
  \/ \E r \in Exports, s \in Scopes : \E client, allow \in BOOLEAN : AskExport(r, s, client, allow)
  \/ \E r \in Changes : CommitApprove(r) \/ CommitRevoke(r) \/ Rollback(r)
  \/ \E r \in Exports : LoadFindings(r) \/ Release(r)

Spec == Init /\ [][Next]_vars

-----------------------------------------------------------------------------
(* Properties. *)

\* What a mock connector made never reaches a client: a report classified as
\* the client's shows no mock scan and no mock finding, whatever scans commit
\* between its queries (generate, assert_engagement_export_allowed).
ClientReportIsReal ==
  \A d \in sent : d.class = "client" => d.shows \cap {"mock", "marked", "unmarked"} = {}

\* A scope has more than one approval in force, and a revocation then leaves one
\* behind, only if their requests overlapped: however late a request commits,
\* an approval that met no other is revoked by the next one (approve).
OneActiveApproval ==
  \A s \in Scopes : \A i, j \in Active(s) : i # j => i \in met \/ j \in met

\* However requests overlap, approve, revoke and generate implement dual control:
\* an approval is given once, by an admin who may, it is never in force again
\* after its end, and a client's report names one in force at that moment.
Standing == {[id |-> i, scope |-> row[i].scope, by |-> row[i].by] :
             i \in {i \in Ids : row[i].state = "active"}}
Delivered == {[id |-> d.approval, scope |-> d.scope, by |-> row[d.approval].by] :
              d \in {d \in sent : d.client}}
DC == INSTANCE DualControl WITH
        Barred <- [s \in Scopes |-> Makers(s)],
        standing <- Standing,
        ended <- {i \in Ids : row[i].state = "revoked"},
        released <- Delivered
ImplementsDualControl == DC!DCSpec
=============================================================================
