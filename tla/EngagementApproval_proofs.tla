---------------------- MODULE EngagementApproval_proofs ----------------------
(***************************************************************************)
(* Theorems about EngagementApproval, for every number of scans, admins,   *)
(* requests and approvals.                                                 *)
(*                                                                         *)
(* Dual control holds because a request commits what it has found and      *)
(* written, whatever else is committed meanwhile (ChangesAreSound).  That  *)
(* only approvals that met leave two in force rests on UnmetIsFound: an    *)
(* approval that met no other is the newest in force, so it is the one     *)
(* that any request now open has found.                                    *)
(***************************************************************************)
EXTENDS EngagementApproval, FiniteSetTheorems, WellFoundedInduction, TLAPS

\* What a change under way has read and written.
ChangesAreSound ==
  /\ \A r \in Requests : req[r].pc = "new" => req[r].new = 0
  /\ \A r \in Requests : req[r].pc = "approving" =>
       /\ req[r].scope \in Scopes /\ req[r].new \in Ids
       /\ row[req[r].new].state = "new" /\ row[req[r].new].scope = req[r].scope
       /\ row[req[r].new].by \in Admins \ Makers(req[r].scope)
  /\ \A r \in Requests : req[r].pc = "revoking" =>
       req[r].scope \in Scopes /\ req[r].old \in Ids /\ req[r].new = 0
  /\ \A r \in Requests : req[r].pc \in {"approving", "revoking"} /\ req[r].old # 0 =>
       row[req[r].old].state \in {"active", "revoked"} /\ row[req[r].old].scope = req[r].scope
  /\ \A r, q \in Requests :
       req[r].pc = "approving" /\ req[q].pc = "approving" /\ req[r].new = req[q].new => r = q

\* An export that has begun has a scope.
ExportsAreSound == \A r \in Requests : req[r].pc \in {"scans", "scope"} => req[r].scope \in Scopes

\* An approval that has been in force is somebody's; one that a client report
\* names has been in force.
ApprovalsAreSigned ==
  /\ \A i \in Ids : row[i].state \in {"active", "revoked"} => row[i].by \in Admins /\ row[i].scope \in Scopes
  /\ \A d \in sent : d.client => row[d.approval].state \in {"active", "revoked"}

\* A key that is free is newer than all that are used.
FreeIsNewer == \A i, j \in Ids : row[i].state = "free" /\ i <= j => row[j].state = "free"

\* An approval in force that met no other is the newest of its scope, and what
\* every open approval of the scope has found; an open one that met no other is
\* newer than all in force, and the only one open.
UnmetIsFound ==
  /\ \A i, j \in Ids : /\ row[i].state = "active" /\ row[j].state = "active"
                       /\ row[i].scope = row[j].scope /\ i \notin met
                       => j <= i
  /\ \A r \in Requests, i \in Ids :
       /\ req[r].pc = "approving" /\ row[i].state = "active" /\ row[i].scope = req[r].scope
       => /\ i \notin met => req[r].old = i
          /\ req[r].new \notin met => i < req[r].new
  /\ \A r, q \in Requests :
       /\ req[r].pc = "approving" /\ req[q].pc = "approving" /\ req[r].scope = req[q].scope
       /\ req[r].new \notin met
       => r = q

Base == TypeOK /\ ChangesAreSound /\ ExportsAreSound /\ ApprovalsAreSigned
IInv == Base /\ FreeIsNewer /\ UnmetIsFound

-----------------------------------------------------------------------------
\* The library's statement of induction over the natural numbers, turned into
\* the existence of a greatest element.
LEMMA LastOf ==
  ASSUME NEW N \in Nat, NEW S \in SUBSET (1 .. N), S # {}
  PROVE  \E i \in S : \A j \in S : j <= i
<1> DEFINE T == {n \in Nat : N - n \in S}
<1>1. T \subseteq Nat /\ T # {}
  <2>1. PICK i \in S : TRUE
    OBVIOUS
  <2>2. N - i \in Nat /\ N - (N - i) = i
    BY <2>1
  <2>3. N - i \in T
    BY <2>1, <2>2
  <2>4. QED
    BY <2>3
<1> HIDE DEF T
<1>2. PICK m \in T : \A n \in T : <<n, m>> \notin OpToRel(<, Nat)
  BY <1>1, WFMin, NatLessThanWellFounded, Zenon
<1>3. \A n \in T : ~ (n < m)
  BY <1>1, <1>2, Zenon DEF OpToRel
<1>4. N - m \in S /\ \A j \in S : j \in 1 .. N /\ N - j \in Nat /\ N - j \in T
  BY DEF T
<1>5. ASSUME NEW j \in S PROVE j <= N - m
  BY <1>1, <1>3, <1>4
<1>6. QED
  BY <1>4, <1>5

\* find_active finds an active approval of the scope if there is one.
LEMMA FindActiveFinds ==
  ASSUME NEW s
  PROVE  /\ Active(s) = {} => FindActive(s) = 0
         /\ Active(s) # {} => FindActive(s) \in Active(s)
<1>1. Active(s) \in SUBSET (1 .. MaxApprovals) /\ MaxApprovals \in Nat
  BY ConstantsAssumption DEF Active, Ids
<1>2. Active(s) # {} => \E i \in Active(s) : \A j \in Active(s) : j <= i
  BY <1>1, LastOf
<1>3. QED
  BY <1>2 DEF FindActive

LEMMA FindActiveIsKey == ASSUME NEW s PROVE FindActive(s) \in Ids \cup {0}
BY FindActiveFinds DEF Active

LEMMA ZeroIsNoKey == 0 \notin Ids
BY ConstantsAssumption DEF Ids

-----------------------------------------------------------------------------
LEMMA InitBase == Init => Base
<1> SUFFICES ASSUME Init PROVE Base
  OBVIOUS
<1>1. NoRequest \in Request /\ FreeRow \in Approval
  BY DEF NoRequest, Request, Nothing, Job, Found, FreeRow, Approval
<1>2. TypeOK
  BY <1>1 DEF Init, TypeOK, Nothing, Job, Found
<1>3. ChangesAreSound /\ ExportsAreSound /\ ApprovalsAreSigned
  BY DEF Init, ChangesAreSound, ExportsAreSound, ApprovalsAreSigned, NoRequest, FreeRow
<1>4. QED
  BY <1>2, <1>3 DEF Base

LEMMA FinishedIsRequest == Finished \in Request /\ Finished.pc = "done"
BY DEF Finished, NoRequest, Request, Nothing, Job, Found

\* Scans of a scope are scans.
LEMMA InScopeType ==
  ASSUME NEW s, NEW K, "none" \in K, NEW of \in [Scans -> K]
  PROVE  InScope(s, of) \in [Scans -> K]
BY DEF InScope

LEMMA NextTypes == ASSUME Base, [Next]_vars PROVE TypeOK'
<1>1. TypeOK /\ ChangesAreSound /\ ExportsAreSound
  BY DEF Base
<1> USE <1>1
<1>2. ASSUME NEW c \in Scans, CreateScan(c) \/ CommitFindings(c) PROVE TypeOK'
  BY <1>2 DEF CreateScan, CommitFindings, TypeOK, Job, Found
<1>3. ASSUME NEW r \in Changes, NEW s \in Scopes, AskRevoke(r, s) PROVE TypeOK'
  <2>1. FindActive(s) \in Ids \cup {0} /\ r \in Requests
    BY FindActiveIsKey DEF Requests
  <2>2. [req[r] EXCEPT !.pc = "revoking", !.scope = s, !.old = FindActive(s)] \in Request
    BY <2>1 DEF TypeOK, Request
  <2>3. QED
    BY <1>3, <2>2 DEF AskRevoke, TypeOK
<1>4. ASSUME NEW r \in Changes, NEW s \in Scopes, NEW u \in Admins, AskApprove(r, u, s) PROVE TypeOK'
  <2>1. FindActive(s) \in Ids \cup {0} /\ r \in Requests
    BY FindActiveIsKey DEF Requests
  <2>2. \A i \in Ids : [req[r] EXCEPT !.pc = "approving", !.scope = s, !.old = FindActive(s), !.new = i] \in Request
    BY <2>1 DEF TypeOK, Request
  <2>3. [state |-> "new", scope |-> s, by |-> u] \in Approval
    BY DEF Approval
  <2>4. \A q \in Approving(s) : req[q].new \in Ids
    BY DEF Approving, ChangesAreSound
  <2>5. PICK i \in Ids :
          /\ row' = [row EXCEPT ![i] = [state |-> "new", scope |-> s, by |-> u]]
          /\ req' = [req EXCEPT ![r] = [@ EXCEPT !.pc = "approving", !.scope = s,
                                               !.old = FindActive(s), !.new = i]]
          /\ met' = IF Approving(s) = {} THEN met
                    ELSE met \cup {i} \cup {req[q].new : q \in Approving(s)}
    BY <1>4 DEF AskApprove
  <2>6. met' \subseteq Ids
    BY <2>4, <2>5 DEF TypeOK
  <2>7. QED
    BY <1>4, <2>2, <2>3, <2>5, <2>6 DEF AskApprove, TypeOK
<1>5. ASSUME NEW r \in Exports, NEW s \in Scopes, NEW client \in BOOLEAN, NEW allow \in BOOLEAN,
             AskExport(r, s, client, allow)
      PROVE  TypeOK'
  <2>1. InScope(s, job) \in [Scans -> Job] /\ r \in Requests
    BY InScopeType DEF TypeOK, Requests, Job
  <2>2. [req[r] EXCEPT !.pc = "scans", !.scope = s, !.client = client,
                       !.allow = allow, !.scans = InScope(s, job)] \in Request
    BY <2>1 DEF TypeOK, Request
  <2>3. QED
    BY <1>5, <2>2 DEF AskExport, TypeOK
<1>6. ASSUME NEW r \in Changes, CommitApprove(r) PROVE TypeOK'
  BY <1>6, FinishedIsRequest DEF CommitApprove, TypeOK, Approval
<1>7. ASSUME NEW r \in Changes, CommitRevoke(r) PROVE TypeOK'
  BY <1>7, FinishedIsRequest DEF CommitRevoke, TypeOK, Approval
<1>8. ASSUME NEW r \in Changes, Rollback(r) PROVE TypeOK'
  BY <1>8, FinishedIsRequest DEF Rollback, TypeOK, Approval
<1>9. ASSUME NEW r \in Exports, LoadFindings(r) PROVE TypeOK'
  <2>1. r \in Requests
    BY DEF Requests
  <2>2. \E findings \in [Scans -> Found], scans \in [Scans -> Job] :
          req' = [req EXCEPT ![r] = [@ EXCEPT !.pc = "scope", !.findings = findings, !.scans = scans]]
    <3> DEFINE s == req[r].scope
               missing == s \in Scans /\ req[r].scans[s] = "none"
               findings == IF missing THEN Nothing ELSE InScope(s, found)
               late == [c \in Scans |-> IF findings[c] = "none" THEN "none" ELSE job[c]]
               scans == IF req[r].scans = Nothing THEN late ELSE req[r].scans
    <3>1. findings \in [Scans -> Found]
      BY InScopeType DEF TypeOK, Nothing, Found
    <3>2. late \in [Scans -> Job]
      BY DEF TypeOK, Job
    <3>3. scans \in [Scans -> Job]
      BY <2>1, <3>2 DEF TypeOK, Request
    <3>4. req' = [req EXCEPT ![r] = [@ EXCEPT !.pc = "scope", !.findings = findings, !.scans = scans]]
      BY <1>9, <2>1 DEF LoadFindings, TypeOK, Request
    <3>5. QED
      BY <3>1, <3>3, <3>4
  <2>3. (req \in [Requests -> Request])'
    <3>1. PICK findings \in [Scans -> Found], scans \in [Scans -> Job] :
            req' = [req EXCEPT ![r] = [@ EXCEPT !.pc = "scope", !.findings = findings, !.scans = scans]]
      BY <2>2
    <3>2. [req[r] EXCEPT !.pc = "scope", !.findings = findings, !.scans = scans] \in Request
      BY <2>1 DEF TypeOK, Request
    <3>3. QED
      BY <2>1, <3>1, <3>2 DEF TypeOK
  <2>4. QED
    BY <1>9, <2>3 DEF LoadFindings, TypeOK
<1>10. ASSUME NEW r \in Exports, Release(r) PROVE TypeOK'
  <2>1. r \in Requests /\ req[r] \in Request /\ req[r].scope \in Scopes
    BY <1>10 DEF Requests, TypeOK, Release, ExportsAreSound
  <2>2. Shown(req[r]) \in SUBSET (Job \cup Found)
    BY <2>1 DEF Shown, Request
  <2>3. Class(req[r]) \in {"client", "draft", "lab"}
    BY DEF Class
  <2>4. FindActive(req[r].scope) \in Ids \cup {0}
    BY FindActiveIsKey
  <2>5. [scope |-> req[r].scope, class |-> Class(req[r]), client |-> req[r].client,
         approval |-> FindActive(req[r].scope), shows |-> Shown(req[r])] \in Report
    BY <2>1, <2>2, <2>3, <2>4 DEF Report, Request
  <2>6. (sent \subseteq Report /\ \A d \in sent : d.client => d.approval \in Ids)'
    BY <1>10, <2>4, <2>5 DEF Release, TypeOK
  <2>7. QED
    BY <1>10, <2>6, FinishedIsRequest DEF Release, TypeOK
<1>11. CASE UNCHANGED vars
  BY <1>11 DEF vars, TypeOK
<1>12. QED
  BY <1>2, <1>3, <1>4, <1>5, <1>6, <1>7, <1>8, <1>9, <1>10, <1>11 DEF Next

-----------------------------------------------------------------------------
\* What the steps of a change do to the row and to its request.
LEMMA ChangeSteps ==
  ASSUME Base, NEW r \in Requests
  PROVE  /\ \A s \in Scopes, u \in Admins : AskApprove(r, u, s) =>
              \E i \in Ids : /\ NextId(i) /\ FindActive(s) # i
                             /\ row' = [row EXCEPT ![i] = [state |-> "new", scope |-> s, by |-> u]]
                             /\ req'[r].pc = "approving" /\ req'[r].scope = s
                             /\ req'[r].new = i /\ req'[r].old = FindActive(s)
                             /\ met' = IF Approving(s) = {} THEN met
                                       ELSE met \cup {i} \cup {req[q].new : q \in Approving(s)}
         /\ \A s \in Scopes : AskRevoke(r, s) =>
              /\ row' = row /\ req'[r].pc = "revoking" /\ req'[r].scope = s
              /\ req'[r].new = 0 /\ req'[r].old = FindActive(s)
<1>1. TypeOK
  BY DEF Base
<1>2. \A s, i : FindActive(s) = i /\ i \in Ids => row[i].state = "active"
  BY FindActiveFinds, ZeroIsNoKey DEF Active
<1>3. ASSUME NEW s \in Scopes, NEW u \in Admins, AskApprove(r, u, s)
      PROVE  \E i \in Ids : /\ NextId(i) /\ FindActive(s) # i
                            /\ row' = [row EXCEPT ![i] = [state |-> "new", scope |-> s, by |-> u]]
                            /\ req'[r].pc = "approving" /\ req'[r].scope = s
                            /\ req'[r].new = i /\ req'[r].old = FindActive(s)
                            /\ met' = IF Approving(s) = {} THEN met
                                      ELSE met \cup {i} \cup {req[q].new : q \in Approving(s)}
  <2>1. PICK i \in Ids :
          /\ NextId(i)
          /\ row' = [row EXCEPT ![i] = [state |-> "new", scope |-> s, by |-> u]]
          /\ req' = [req EXCEPT ![r] = [@ EXCEPT !.pc = "approving", !.scope = s,
                                               !.old = FindActive(s), !.new = i]]
          /\ met' = IF Approving(s) = {} THEN met
                    ELSE met \cup {i} \cup {req[q].new : q \in Approving(s)}
    BY <1>3 DEF AskApprove
  <2>2. FindActive(s) # i
    BY <1>2, <2>1 DEF NextId
  <2>3. /\ req'[r].pc = "approving" /\ req'[r].scope = s
        /\ req'[r].new = i /\ req'[r].old = FindActive(s)
    BY <1>1, <2>1 DEF TypeOK, Request
  <2>4. QED
    BY <2>1, <2>2, <2>3
<1>4. ASSUME NEW s \in Scopes, AskRevoke(r, s)
      PROVE  /\ row' = row /\ req'[r].pc = "revoking" /\ req'[r].scope = s
             /\ req'[r].new = 0 /\ req'[r].old = FindActive(s)
  BY <1>1, <1>4 DEF AskRevoke, TypeOK, Request, Base, ChangesAreSound
<1>5. QED
  BY <1>3, <1>4

\* The steps that leave approvals and their changes alone.
Elsewhere ==
  \/ \E c \in Scans : CreateScan(c) \/ CommitFindings(c)
  \/ \E r \in Exports, s \in Scopes : \E client, allow \in BOOLEAN : AskExport(r, s, client, allow)
  \/ \E r \in Exports : LoadFindings(r) \/ Release(r)
  \/ UNCHANGED vars

\* Those that end a change.
Ends(r) == CommitApprove(r) \/ CommitRevoke(r) \/ Rollback(r)

LEMMA NextSteps ==
  [Next]_vars =>
    \/ Elsewhere
    \/ \E r \in Requests, s \in Scopes : AskRevoke(r, s) \/ \E u \in Admins : AskApprove(r, u, s)
    \/ \E r \in Requests : Ends(r)
BY DEF Next, Elsewhere, Ends, Requests

LEMMA ElsewhereStays ==
  ASSUME TypeOK, Elsewhere
  PROVE  /\ row' = row
         /\ \A r \in Requests : req'[r] = req[r] \/ req'[r].pc \in {"scans", "scope", "done"}
         /\ \A r \in Requests : req[r].pc \in {"approving", "revoking"} => req'[r] = req[r]
<1>1. CASE (\E c \in Scans : CreateScan(c) \/ CommitFindings(c)) \/ UNCHANGED vars
  BY <1>1 DEF CreateScan, CommitFindings, vars
<1>2. ASSUME NEW r \in Exports, NEW s \in Scopes, NEW client, NEW allow, AskExport(r, s, client, allow)
      PROVE  /\ row' = row
             /\ \A q \in Requests : req'[q] = req[q] \/ req'[q].pc \in {"scans", "scope", "done"}
             /\ \A q \in Requests : req[q].pc \in {"approving", "revoking"} => req'[q] = req[q]
  BY <1>2 DEF AskExport, TypeOK, Request, Requests
<1>3. ASSUME NEW r \in Exports, LoadFindings(r)
      PROVE  /\ row' = row
             /\ \A q \in Requests : req'[q] = req[q] \/ req'[q].pc \in {"scans", "scope", "done"}
             /\ \A q \in Requests : req[q].pc \in {"approving", "revoking"} => req'[q] = req[q]
  BY <1>3 DEF LoadFindings, TypeOK, Request, Requests
<1>4. ASSUME NEW r \in Exports, Release(r)
      PROVE  /\ row' = row
             /\ \A q \in Requests : req'[q] = req[q] \/ req'[q].pc \in {"scans", "scope", "done"}
             /\ \A q \in Requests : req[q].pc \in {"approving", "revoking"} => req'[q] = req[q]
  BY <1>4, FinishedIsRequest DEF Release, TypeOK, Requests
<1>5. QED
  BY <1>1, <1>2, <1>3, <1>4 DEF Elsewhere

\* What the end of a change does.
LEMMA EndSteps ==
  ASSUME Base, NEW r \in Requests, Ends(r)
  PROVE  /\ req[r].pc \in {"approving", "revoking"}
         /\ req' = [req EXCEPT ![r] = Finished] /\ req'[r].pc = "done" /\ sent' = sent
         /\ \A i \in Ids \ {req[r].new, req[r].old} : row'[i] = row[i]
         /\ \A i \in Ids : row'[i].scope = row[i].scope /\ row'[i].by = row[i].by
         /\ req[r].pc = "approving" =>
              /\ req[r].new \in Ids /\ req[r].new # req[r].old
              /\ \/ row'[req[r].new].state = "active" /\ (req[r].old \in Ids => row'[req[r].old].state = "revoked")
                 \/ row'[req[r].new].state = "gone" /\ \A i \in Ids : i # req[r].new => row'[i] = row[i]
         /\ req[r].pc = "revoking" =>
              /\ req[r].old \in Ids /\ req[r].new \notin Ids
              /\ row'[req[r].old].state = "revoked" \/ row' = row
<1>1. TypeOK /\ ChangesAreSound
  BY DEF Base
<1>2. req' = [req EXCEPT ![r] = Finished] /\ req'[r].pc = "done" /\ sent' = sent
  BY <1>1, FinishedIsRequest DEF Ends, CommitApprove, CommitRevoke, Rollback, TypeOK
<1>3. row = [i \in Ids |-> row[i]] /\ \A i \in Ids : row[i] \in Approval
  BY <1>1 DEF TypeOK
<1>4. CASE CommitApprove(r)
  <2>1. req[r].pc = "approving" /\ req[r].new \in Ids /\ req[r].new # req[r].old
    BY <1>1, <1>4, ZeroIsNoKey DEF CommitApprove, ChangesAreSound
  <2>2. QED
    BY <1>2, <1>3, <1>4, <2>1 DEF CommitApprove, Approval
<1>5. CASE CommitRevoke(r)
  <2>1. req[r].pc = "revoking" /\ req[r].old \in Ids /\ req[r].new \notin Ids
    BY <1>1, <1>5, ZeroIsNoKey DEF CommitRevoke, ChangesAreSound
  <2>2. QED
    BY <1>2, <1>3, <1>5, <2>1 DEF CommitRevoke, Approval
<1>6. CASE Rollback(r)
  <2>1. /\ req[r].pc = "approving" => req[r].new \in Ids /\ req[r].new # req[r].old
        /\ req[r].pc = "revoking" => req[r].old \in Ids /\ req[r].new \notin Ids
    BY <1>1, <1>6, ZeroIsNoKey DEF Rollback, ChangesAreSound
  <2>2. QED
    BY <1>2, <1>3, <1>6, <2>1 DEF Rollback, Approval
<1>7. QED
  BY <1>4, <1>5, <1>6 DEF Ends

-----------------------------------------------------------------------------
\* A step asks for a change of r, for all that the other requests are told.
LEMMA OthersStay ==
  ASSUME TypeOK, NEW r \in Requests, NEW s \in Scopes,
         AskRevoke(r, s) \/ \E u \in Admins : AskApprove(r, u, s)
  PROVE  /\ \A q \in Requests \ {r} : req'[q] = req[q]
         /\ sent' = sent
BY DEF AskRevoke, AskApprove, TypeOK

LEMMA NextChanges == ASSUME Base, [Next]_vars PROVE ChangesAreSound'
<1>1. TypeOK /\ ChangesAreSound /\ \A i \in Ids : row[i] \in Approval
  BY DEF Base, TypeOK
<1>2. CASE Elsewhere
  <2>1. \A r \in Requests : req'[r].pc \in {"new", "approving", "revoking"} => req'[r] = req[r]
    BY <1>1, <1>2, ElsewhereStays
  <2>2. row' = row
    BY <1>1, <1>2, ElsewhereStays
  <2>3. QED
    BY <1>1, <2>1, <2>2 DEF ChangesAreSound
<1>3. ASSUME NEW r \in Requests, NEW s \in Scopes, NEW u \in Admins, AskApprove(r, u, s) PROVE ChangesAreSound'
  <2>1. PICK i \in Ids : /\ NextId(i) /\ FindActive(s) # i
                         /\ row' = [row EXCEPT ![i] = [state |-> "new", scope |-> s, by |-> u]]
                         /\ req'[r].pc = "approving" /\ req'[r].scope = s
                         /\ req'[r].new = i /\ req'[r].old = FindActive(s)
    BY <1>3, ChangeSteps
  <2>2. \A q \in Requests \ {r} : req'[q] = req[q]
    BY <1>1, <1>3, OthersStay
  <2>3. u \in Admins \ Makers(s)
    BY <1>3 DEF AskApprove
  <2>4. /\ row'[i].state = "new" /\ row'[i].scope = s /\ row'[i].by = u
        /\ \A j \in Ids \ {i} : row'[j] = row[j]
    BY <1>1, <2>1 DEF TypeOK
  <2>5. FindActive(s) # 0 => FindActive(s) \in Ids /\ row[FindActive(s)].state = "active" /\ row[FindActive(s)].scope = s
    BY FindActiveFinds DEF Active
  <2>6. ASSUME NEW q \in Requests \ {r}
        PROVE  /\ req[q].pc = "approving" => req[q].new \in Ids \ {i}
               /\ req[q].pc \in {"approving", "revoking"} /\ req[q].old # 0 => req[q].old \in Ids \ {i}
    BY <1>1, <2>1 DEF ChangesAreSound, TypeOK, Request, NextId
  <2>7. QED
    BY <1>1, <2>1, <2>2, <2>3, <2>4, <2>5, <2>6 DEF ChangesAreSound
<1>4. ASSUME NEW r \in Requests, NEW s \in Scopes, AskRevoke(r, s) PROVE ChangesAreSound'
  <2>1. /\ row' = row /\ req'[r].pc = "revoking" /\ req'[r].scope = s
        /\ req'[r].new = 0 /\ req'[r].old = FindActive(s)
    BY <1>4, ChangeSteps
  <2>2. \A q \in Requests \ {r} : req'[q] = req[q]
    BY <1>1, <1>4, OthersStay
  <2>3. FindActive(s) \in Ids /\ row[FindActive(s)].state = "active" /\ row[FindActive(s)].scope = s
    BY <1>4, FindActiveFinds DEF AskRevoke, Active
  <2>4. QED
    BY <1>1, <2>1, <2>2, <2>3 DEF ChangesAreSound
<1>5. ASSUME NEW r \in Requests, Ends(r) PROVE ChangesAreSound'
  <2>1. /\ req'[r].pc = "done" /\ \A q \in Requests \ {r} : req'[q] = req[q]
    BY <1>1, <1>5, EndSteps DEF TypeOK
  <2>2. \A i \in Ids : row'[i].scope = row[i].scope /\ row'[i].by = row[i].by
    BY <1>5, EndSteps
  <2>3. ASSUME NEW q \in Requests \ {r}, req[q].pc = "approving"
        PROVE  row'[req[q].new] = row[req[q].new]
    <3>1. req[q].new \in Ids /\ row[req[q].new].state = "new"
      BY <1>1, <2>3 DEF ChangesAreSound
    <3>2. req[q].new # req[r].new
      BY <1>1, <1>5, <2>3, <3>1, EndSteps DEF ChangesAreSound
    <3>3. req[q].new # req[r].old
      BY <1>1, <1>5, <3>1, EndSteps, ZeroIsNoKey DEF ChangesAreSound
    <3>4. QED
      BY <1>5, <3>1, <3>2, <3>3, EndSteps
  <2>4. ASSUME NEW i \in Ids, row[i].state \in {"active", "revoked"} PROVE row'[i].state \in {"active", "revoked"}
    <3>1. req[r].new \in Ids => row[req[r].new].state = "new"
      BY <1>1, <1>5, EndSteps DEF ChangesAreSound
    <3>2. QED
      BY <1>5, <2>4, <3>1, EndSteps
  <2>5. \A q \in Requests : req'[q].pc # "done" => q # r /\ req'[q] = req[q]
    BY <2>1
  <2>6. \A q \in Requests : req[q].pc \in {"approving", "revoking"} /\ req[q].old # 0 => req[q].old \in Ids
    BY <1>1 DEF TypeOK, Request
  <2>7. \A q \in Requests : req'[q].pc = "approving" =>
          /\ req'[q].scope \in Scopes /\ req'[q].new \in Ids
          /\ row'[req'[q].new].state = "new" /\ row'[req'[q].new].scope = req'[q].scope
          /\ row'[req'[q].new].by \in Admins \ Makers(req'[q].scope)
    BY <1>1, <2>3, <2>5 DEF ChangesAreSound
  <2>8. \A q \in Requests : req'[q].pc \in {"approving", "revoking"} /\ req'[q].old # 0 =>
          row'[req'[q].old].state \in {"active", "revoked"} /\ row'[req'[q].old].scope = req'[q].scope
    BY <1>1, <2>2, <2>4, <2>5, <2>6 DEF ChangesAreSound
  <2>9. QED
    BY <1>1, <2>5, <2>7, <2>8 DEF ChangesAreSound
<1>6. QED
  BY <1>2, <1>3, <1>4, <1>5, NextSteps

LEMMA NextExports == ASSUME Base, [Next]_vars PROVE ExportsAreSound'
<1>1. TypeOK /\ ExportsAreSound
  BY DEF Base
<1>2. ASSUME NEW r \in Exports, NEW s \in Scopes, NEW client, NEW allow, AskExport(r, s, client, allow)
      PROVE  ExportsAreSound'
  BY <1>1, <1>2 DEF AskExport, ExportsAreSound, TypeOK, Request, Requests
<1>3. ASSUME NEW r \in Exports, LoadFindings(r) PROVE ExportsAreSound'
  BY <1>1, <1>3 DEF LoadFindings, ExportsAreSound, TypeOK, Request, Requests
<1>4. ASSUME NEW r \in Exports, Release(r) PROVE ExportsAreSound'
  BY <1>1, <1>4, FinishedIsRequest DEF Release, ExportsAreSound, TypeOK
<1>5. CASE (\E c \in Scans : CreateScan(c) \/ CommitFindings(c)) \/ UNCHANGED vars
  BY <1>1, <1>5 DEF CreateScan, CommitFindings, ExportsAreSound, vars
<1>6. ASSUME NEW r \in Requests, NEW s \in Scopes, AskRevoke(r, s) \/ \E u \in Admins : AskApprove(r, u, s)
      PROVE  ExportsAreSound'
  BY <1>1, <1>6, OthersStay, ChangeSteps DEF ExportsAreSound
<1>7. ASSUME NEW r \in Requests, Ends(r) PROVE ExportsAreSound'
  BY <1>1, <1>7, EndSteps DEF ExportsAreSound, TypeOK
<1>8. QED
  BY <1>2, <1>3, <1>4, <1>5, <1>6, <1>7, NextSteps DEF Elsewhere

\* An approval that has been in force stays, signed as it was.
LEMMA SignedRowsStay ==
  ASSUME Base, [Next]_vars, NEW i \in Ids, row[i].state \in {"active", "revoked"}
  PROVE  row'[i].state \in {"active", "revoked"} /\ row'[i].by = row[i].by /\ row'[i].scope = row[i].scope
<1>1. TypeOK /\ ChangesAreSound
  BY DEF Base
<1>2. CASE Elsewhere
  BY <1>1, <1>2, ElsewhereStays
<1>3. ASSUME NEW r \in Requests, NEW s \in Scopes, NEW u \in Admins, AskApprove(r, u, s) PROVE row'[i] = row[i]
  BY <1>1, <1>3, ChangeSteps DEF TypeOK, NextId
<1>4. ASSUME NEW r \in Requests, NEW s \in Scopes, AskRevoke(r, s) PROVE row'[i] = row[i]
  BY <1>4, ChangeSteps
<1>5. ASSUME NEW r \in Requests, Ends(r)
      PROVE  row'[i].state \in {"active", "revoked"} /\ row'[i].by = row[i].by /\ row'[i].scope = row[i].scope
  <2>1. req[r].new \in Ids => row[req[r].new].state = "new"
    BY <1>1, <1>5, EndSteps DEF ChangesAreSound
  <2>2. QED
    BY <1>5, <2>1, EndSteps
<1>6. QED
  BY <1>2, <1>3, <1>4, <1>5, NextSteps

\* What a step adds to the reports handed out.
LEMMA SentGrows ==
  ASSUME TypeOK, [Next]_vars
  PROVE  sent' = sent \/ \E r \in Exports : Release(r)
BY DEF Next, vars, CreateScan, CommitFindings, AskRevoke, AskApprove, AskExport, CommitApprove,
   CommitRevoke, Rollback, LoadFindings

LEMMA NextSigned == ASSUME Base, [Next]_vars PROVE ApprovalsAreSigned'
<1>1. TypeOK /\ ChangesAreSound /\ ApprovalsAreSigned
  BY DEF Base
<1>2. ASSUME NEW i \in Ids, (row[i].state \in {"active", "revoked"})'
      PROVE  row'[i].by \in Admins /\ row'[i].scope \in Scopes
  <2>1. CASE row[i].state \in {"active", "revoked"}
    BY <1>1, <2>1, SignedRowsStay DEF ApprovalsAreSigned
  <2>2. CASE row[i].state \notin {"active", "revoked"}
    <3>1. CASE Elsewhere
      BY <1>1, <1>2, <2>2, <3>1, ElsewhereStays
    <3>2. ASSUME NEW r \in Requests, NEW s \in Scopes, AskRevoke(r, s) \/ \E u \in Admins : AskApprove(r, u, s)
          PROVE  row'[i].state = row[i].state \/ row'[i].state = "new"
      BY <1>1, <3>2, ChangeSteps DEF TypeOK
    <3>3. ASSUME NEW r \in Requests, Ends(r)
          PROVE  req[r].pc = "approving" /\ i = req[r].new /\ row'[i].by = row[i].by /\ row'[i].scope = row[i].scope
      <4>1. i # req[r].old
        BY <1>1, <2>2, <3>3, EndSteps, ZeroIsNoKey DEF ChangesAreSound
      <4>2. row'[i] # row[i]
        BY <1>2, <2>2
      <4>3. QED
        BY <3>3, <4>1, <4>2, EndSteps
    <3>4. QED
      BY <1>1, <1>2, <2>2, <3>1, <3>2, <3>3, NextSteps DEF ChangesAreSound
  <2>3. QED
    BY <2>1, <2>2
<1>3. ASSUME NEW d \in sent', d.client PROVE row'[d.approval].state \in {"active", "revoked"}
  <2>1. CASE d \in sent
    <3>1. d.approval \in Ids /\ row[d.approval].state \in {"active", "revoked"}
      BY <1>1, <1>3, <2>1 DEF TypeOK, ApprovalsAreSigned
    <3>2. QED
      BY <3>1, SignedRowsStay
  <2>2. ASSUME NEW r \in Exports, Release(r), d \notin sent PROVE row'[d.approval].state \in {"active", "revoked"}
    <3>1. d.approval = FindActive(req[r].scope) /\ d.approval # 0 /\ row' = row
      BY <1>3, <2>2 DEF Release
    <3>2. d.approval \in Active(req[r].scope)
      BY <3>1, FindActiveFinds
    <3>3. QED
      BY <3>1, <3>2 DEF Active
  <2>3. QED
    BY <1>1, <2>1, <2>2, SentGrows
<1>4. QED
  BY <1>2, <1>3 DEF ApprovalsAreSigned

LEMMA NextBase == ASSUME Base, [Next]_vars PROVE Base'
BY NextTypes, NextChanges, NextExports, NextSigned DEF Base

-----------------------------------------------------------------------------
\* Only asking for an approval adds to those that met.
LEMMA MetStays ==
  ASSUME [Next]_vars, ~ \E r \in Requests, s \in Scopes, u \in Admins : AskApprove(r, u, s)
  PROVE  met' = met
<1>1. Next \/ UNCHANGED vars
  OBVIOUS
<1>2. CASE \E c \in Scans : CreateScan(c) \/ CommitFindings(c)
  BY <1>2 DEF CreateScan, CommitFindings
<1>3. CASE \E r \in Changes, s \in Scopes : AskRevoke(r, s) \/ \E u \in Admins : AskApprove(r, u, s)
  BY <1>3 DEF AskRevoke, Requests
<1>4. CASE \E r \in Exports, s \in Scopes : \E client, allow \in BOOLEAN : AskExport(r, s, client, allow)
  BY <1>4 DEF AskExport
<1>5. CASE \E r \in Changes : CommitApprove(r) \/ CommitRevoke(r) \/ Rollback(r)
  BY <1>5 DEF CommitApprove, CommitRevoke, Rollback
<1>6. CASE \E r \in Exports : LoadFindings(r) \/ Release(r)
  BY <1>6 DEF LoadFindings, Release
<1>7. CASE UNCHANGED vars
  BY <1>7 DEF vars
<1>8. QED
  BY <1>1, <1>2, <1>3, <1>4, <1>5, <1>6, <1>7 DEF Next

\* Asking changes no approval in force.
LEMMA AskingKeepsActive ==
  ASSUME Base, NEW r \in Requests, NEW s \in Scopes, AskRevoke(r, s) \/ \E u \in Admins : AskApprove(r, u, s),
         NEW i \in Ids
  PROVE  \/ row'[i] = row[i]
         \/ row'[i].state = "new" /\ row[i].state = "free"
<1>1. TypeOK
  BY DEF Base
<1>2. QED
  BY <1>1, ChangeSteps DEF TypeOK, NextId

\* The end of a change of r touches the approval it found and the one it made.
LEMMA EndTouches ==
  ASSUME Base, NEW r \in Requests, Ends(r), NEW i \in Ids
  PROVE  /\ row[i].state = "free" <=> row'[i].state = "free"
         /\ row'[i].state = "active" =>
              \/ row[i].state = "active" /\ row'[i] = row[i]
              \/ req[r].pc = "approving" /\ i = req[r].new
         /\ row'[i].state = "active" /\ req[r].pc = "approving" /\ row'[req[r].new].state = "active" =>
              i # req[r].old
<1>1. ChangesAreSound /\ TypeOK
  BY DEF Base
<1>2. CASE req[r].pc = "approving"
  <2>1. /\ req[r].new \in Ids /\ row[req[r].new].state = "new"
        /\ req[r].old # 0 => row[req[r].old].state \in {"active", "revoked"}
    BY <1>1, <1>2 DEF ChangesAreSound
  <2>2. req[r].old \in Ids <=> req[r].old # 0
    BY <1>1, ZeroIsNoKey DEF TypeOK, Request
  <2>3. QED
    BY <1>2, <2>1, <2>2, EndSteps
<1>3. CASE req[r].pc = "revoking"
  <2>1. req[r].old \in Ids /\ req[r].new \notin Ids /\ row[req[r].old].state \in {"active", "revoked"}
    BY <1>1, <1>3, ZeroIsNoKey DEF ChangesAreSound
  <2>2. QED
    BY <1>3, <2>1, EndSteps
<1>4. QED
  BY <1>2, <1>3, EndSteps

LEMMA NextFree == ASSUME Base, FreeIsNewer, [Next]_vars PROVE FreeIsNewer'
<1>1. TypeOK
  BY DEF Base
<1>2. CASE Elsewhere
  <2>1. row' = row
    BY <1>1, <1>2, ElsewhereStays
  <2>2. QED
    BY <2>1 DEF FreeIsNewer
<1>3. ASSUME NEW r \in Requests, NEW s \in Scopes, NEW u \in Admins, AskApprove(r, u, s) PROVE FreeIsNewer'
  <2>1. PICK i \in Ids : NextId(i) /\ row' = [row EXCEPT ![i] = [state |-> "new", scope |-> s, by |-> u]]
    BY <1>3, ChangeSteps
  <2>2. row'[i].state = "new" /\ \A j \in Ids \ {i} : row'[j] = row[j]
    BY <1>1, <2>1 DEF TypeOK
  <2>3. ASSUME NEW j \in Ids, NEW k \in Ids, row'[j].state = "free", j <= k PROVE row'[k].state = "free"
    <3>1. j # i /\ row[j].state = "free" /\ row[k].state = "free"
      BY <2>2, <2>3 DEF FreeIsNewer
    <3>2. ~ (j < i) /\ k # i
      BY <2>1, <2>3, <3>1, ConstantsAssumption DEF NextId, Ids
    <3>3. QED
      BY <2>2, <3>1, <3>2
  <2>4. QED
    BY <2>3 DEF FreeIsNewer
<1>4. ASSUME NEW r \in Requests, NEW s \in Scopes, AskRevoke(r, s) PROVE FreeIsNewer'
  <2>1. row' = row
    BY <1>4, ChangeSteps
  <2>2. QED
    BY <2>1 DEF FreeIsNewer
<1>5. ASSUME NEW r \in Requests, Ends(r) PROVE FreeIsNewer'
  <2>1. \A i \in Ids : row[i].state = "free" <=> row'[i].state = "free"
    BY <1>5, EndTouches
  <2>2. QED
    BY <2>1 DEF FreeIsNewer
<1>6. QED
  BY <1>2, <1>3, <1>4, <1>5, NextSteps

\* find_active finds the newest.
LEMMA FindActiveIsNewest ==
  ASSUME NEW s, NEW i \in Active(s) PROVE FindActive(s) \in Active(s) /\ i <= FindActive(s)
<1>1. Active(s) \in SUBSET (1 .. MaxApprovals) /\ MaxApprovals \in Nat
  BY ConstantsAssumption DEF Active, Ids
<1>2. \E k \in Active(s) : \A j \in Active(s) : j <= k
  BY <1>1, LastOf
<1>3. QED
  BY <1>2 DEF FindActive

\* A request that asks for an approval finds the one that met no other.
LEMMA AskFindsUnmet ==
  ASSUME Base, FreeIsNewer, UnmetIsFound, NEW r \in Requests, NEW s \in Scopes, NEW u \in Admins,
         AskApprove(r, u, s)
  PROVE  UnmetIsFound'
<1>1. TypeOK /\ ChangesAreSound
  BY DEF Base
<1>2. PICK i \in Ids : /\ NextId(i) /\ FindActive(s) # i
                       /\ row' = [row EXCEPT ![i] = [state |-> "new", scope |-> s, by |-> u]]
                       /\ req'[r].pc = "approving" /\ req'[r].scope = s
                       /\ req'[r].new = i /\ req'[r].old = FindActive(s)
                       /\ met' = IF Approving(s) = {} THEN met
                                 ELSE met \cup {i} \cup {req[q].new : q \in Approving(s)}
  BY ChangeSteps
<1>3. \A q \in Requests \ {r} : req'[q] = req[q]
  BY <1>1, OthersStay
<1>4. met \subseteq met'
  BY <1>2
<1>5. row'[i].state = "new" /\ \A j \in Ids \ {i} : row'[j] = row[j]
  BY <1>1, <1>2 DEF TypeOK
<1>6. \A j \in Ids : row'[j].state = "active" => j # i /\ row'[j] = row[j]
  BY <1>5
<1>7. req[r].pc = "new"
  BY DEF AskApprove
<1>8. ASSUME NEW j \in Ids, NEW k \in Ids, row'[j].state = "active", row'[k].state = "active",
             row'[j].scope = row'[k].scope, j \notin met'
      PROVE  k <= j
  BY <1>4, <1>6, <1>8 DEF UnmetIsFound
<1>9. ASSUME NEW q \in Requests, NEW j \in Ids, req'[q].pc = "approving", row'[j].state = "active",
             row'[j].scope = req'[q].scope
      PROVE  (j \notin met' => req'[q].old = j) /\ (req'[q].new \notin met' => j < req'[q].new)
  <2>1. CASE q # r
    BY <1>3, <1>4, <1>6, <1>9, <2>1 DEF UnmetIsFound
  <2>2. CASE q = r
    <3>1. j \in Active(s) /\ j # i
      BY <1>2, <1>6, <1>9, <2>2 DEF Active
    <3>2. FindActive(s) \in Active(s) /\ j <= FindActive(s)
      BY <3>1, FindActiveIsNewest
    <3>3. j \notin met => FindActive(s) <= j
      BY <3>1, <3>2 DEF Active, UnmetIsFound
    <3>4. j \notin met => FindActive(s) = j
      BY <3>1, <3>2, <3>3, ConstantsAssumption DEF Active, Ids
    <3>5. ~ (i <= j)
      BY <1>2, <3>1 DEF NextId, FreeIsNewer, Active
    <3>6. j < i
      BY <3>1, <3>5, ConstantsAssumption DEF Active, Ids
    <3>7. QED
      BY <1>2, <1>4, <2>2, <3>4, <3>6
  <2>3. QED
    BY <2>1, <2>2
<1>10. ASSUME NEW p \in Requests, NEW q \in Requests, req'[p].pc = "approving", req'[q].pc = "approving",
              req'[p].scope = req'[q].scope, req'[p].new \notin met', p # q
       PROVE  FALSE
  <2>1. CASE p # r /\ q # r
    BY <1>3, <1>4, <1>10, <2>1 DEF UnmetIsFound
  <2>2. CASE p = r
    <3>1. q \in Approving(s)
      BY <1>2, <1>3, <1>10, <2>2 DEF Approving
    <3>2. QED
      BY <1>2, <1>10, <2>2, <3>1
  <2>3. CASE q = r
    <3>1. p \in Approving(s) /\ req'[p] = req[p]
      BY <1>2, <1>3, <1>10, <2>3 DEF Approving
    <3>2. QED
      BY <1>2, <1>10, <3>1
  <2>4. QED
    BY <2>1, <2>2, <2>3
<1>11. QED
  BY <1>8, <1>9, <1>10 DEF UnmetIsFound

\* A request that ends leaves the one that met no other the newest.
LEMMA EndKeepsUnmet ==
  ASSUME Base, UnmetIsFound, met' = met, NEW r \in Requests, Ends(r) PROVE UnmetIsFound'
<1>1. TypeOK /\ ChangesAreSound
  BY DEF Base
<1>2. req'[r].pc = "done" /\ \A q \in Requests \ {r} : req'[q] = req[q]
  BY <1>1, EndSteps DEF TypeOK
<1>3. \A q \in Requests : req'[q].pc = "approving" => q # r /\ req'[q] = req[q]
  BY <1>2
<1>4. \A i \in Ids : row'[i].scope = row[i].scope
  BY EndSteps
<1>5. \A i \in Ids : row'[i].state = "active" =>
        \/ row[i].state = "active"
        \/ req[r].pc = "approving" /\ i = req[r].new
  BY EndTouches
<1>6. \A i \in Ids : row'[i].state = "active" /\ req[r].pc = "approving" /\ row'[req[r].new].state = "active" =>
        i # req[r].old
  BY EndTouches
<1>7. req[r].pc = "approving" => req[r].new \in Ids /\ row[req[r].new].scope = req[r].scope
  BY <1>1 DEF ChangesAreSound
<1>8. ASSUME NEW i \in Ids, NEW j \in Ids, row'[i].state = "active", row'[j].state = "active",
             row'[i].scope = row'[j].scope, i \notin met
      PROVE  j <= i
  <2>1. row[i].scope = row[j].scope
    BY <1>4, <1>8
  <2>2. CASE i = j
    BY <2>2, ConstantsAssumption DEF Ids
  <2>3. CASE row[i].state = "active" /\ row[j].state = "active"
    BY <1>8, <2>1, <2>3 DEF UnmetIsFound
  <2>4. CASE row[i].state = "active" /\ req[r].pc = "approving" /\ j = req[r].new
    <3>1. req[r].old = i
      BY <1>7, <1>8, <2>1, <2>4 DEF UnmetIsFound
    <3>2. QED
      BY <1>6, <1>8, <2>4, <3>1
  <2>5. CASE req[r].pc = "approving" /\ i = req[r].new /\ row[j].state = "active"
    <3>1. j < i
      BY <1>7, <1>8, <2>1, <2>5 DEF UnmetIsFound
    <3>2. QED
      BY <3>1, ConstantsAssumption DEF Ids
  <2>6. QED
    BY <1>5, <1>8, <2>2, <2>3, <2>4, <2>5
<1>9. ASSUME NEW q \in Requests, NEW i \in Ids, req'[q].pc = "approving", row'[i].state = "active",
             row'[i].scope = req'[q].scope
      PROVE  (i \notin met => req'[q].old = i) /\ (req'[q].new \notin met => i < req'[q].new)
  <2>1. q # r /\ req'[q] = req[q] /\ row[i].scope = req[q].scope
    BY <1>3, <1>4, <1>9
  <2>2. CASE row[i].state = "active"
    BY <1>9, <2>1, <2>2 DEF UnmetIsFound
  <2>3. CASE req[r].pc = "approving" /\ i = req[r].new
    <3>1. req[r].scope = req[q].scope /\ req[q].pc = "approving"
      BY <1>7, <1>9, <2>1, <2>3
    <3>2. i \in met /\ req[q].new \in met
      BY <2>1, <2>3, <3>1 DEF UnmetIsFound
    <3>3. QED
      BY <2>1, <3>2
  <2>4. QED
    BY <1>5, <1>9, <2>2, <2>3
<1>10. ASSUME NEW p \in Requests, NEW q \in Requests, req'[p].pc = "approving", req'[q].pc = "approving",
              req'[p].scope = req'[q].scope, req'[p].new \notin met
       PROVE  p = q
  BY <1>3, <1>10 DEF UnmetIsFound
<1>11. QED
  BY <1>8, <1>9, <1>10 DEF UnmetIsFound

LEMMA NextUnmet == ASSUME Base, FreeIsNewer, UnmetIsFound, [Next]_vars PROVE UnmetIsFound'
<1>1. TypeOK /\ ChangesAreSound
  BY DEF Base
<1>2. CASE \E r \in Requests, s \in Scopes, u \in Admins : AskApprove(r, u, s)
  BY <1>2, AskFindsUnmet
<1>3. CASE ~ \E r \in Requests, s \in Scopes, u \in Admins : AskApprove(r, u, s)
  <2>1. met' = met
    BY <1>3, MetStays
  <2>2. CASE Elsewhere
    <3>1. row' = row /\ \A r \in Requests : req'[r].pc = "approving" => req'[r] = req[r]
      BY <1>1, <2>2, ElsewhereStays
    <3>2. QED
      BY <2>1, <3>1 DEF UnmetIsFound
  <2>3. ASSUME NEW r \in Requests, NEW s \in Scopes, AskRevoke(r, s) PROVE UnmetIsFound'
    <3>1. row' = row /\ req'[r].pc = "revoking"
      BY <2>3, ChangeSteps
    <3>2. \A q \in Requests : req'[q].pc = "approving" => req'[q] = req[q]
      BY <1>1, <2>3, <3>1, OthersStay
    <3>3. QED
      BY <2>1, <3>1, <3>2 DEF UnmetIsFound
  <2>4. ASSUME NEW r \in Requests, Ends(r) PROVE UnmetIsFound'
    BY <2>1, <2>4, EndKeepsUnmet
  <2>5. QED
    BY <1>3, <2>2, <2>3, <2>4, NextSteps
<1>4. QED
  BY <1>2, <1>3

LEMMA InitUnmet == Init => FreeIsNewer /\ UnmetIsFound
BY DEF Init, NoRequest, FreeRow, FreeIsNewer, UnmetIsFound

LEMMA SpecIInv == Spec => []IInv
<1>1. Init => IInv
  BY InitBase, InitUnmet DEF IInv
<1>2. IInv /\ [Next]_vars => IInv'
  BY NextBase, NextFree, NextUnmet DEF IInv
<1>3. QED
  BY <1>1, <1>2, PTL DEF Spec

-----------------------------------------------------------------------------
\* Requests, approvals and reports always have their types, and a client
\* report names an approval, however requests overlap.
THEOREM TypeCorrect == Spec => []TypeOK
<1>1. IInv => TypeOK
  BY DEF IInv, Base
<1>2. QED
  BY <1>1, SpecIInv, PTL

\* However requests overlap, two approvals of a scope are in force only if the
\* request of one of them was open while another one approved the scope.
THEOREM OneApproval == Spec => []OneActiveApproval
<1>1. ASSUME IInv PROVE OneActiveApproval
  <2>1. ASSUME NEW s \in Scopes, NEW i \in Active(s), NEW j \in Active(s), i # j, i \notin met, j \notin met
        PROVE  FALSE
    <3>1. i <= j /\ j <= i
      BY <1>1, <2>1 DEF IInv, UnmetIsFound, Active
    <3>2. QED
      BY <2>1, <3>1, ConstantsAssumption DEF Active, Ids
  <2>2. QED
    BY <2>1 DEF OneActiveApproval
<1>2. QED
  BY <1>1, SpecIInv, PTL

-----------------------------------------------------------------------------
(* Approvals implement dual control. *)

\* The keys in force and those revoked; the approval behind a key.
InForce == {i \in Ids : row[i].state = "active"}
Revoked == {i \in Ids : row[i].state = "revoked"}
Signed(i) == [id |-> i, scope |-> row[i].scope, by |-> row[i].by]

LEMMA StandingIs == Standing = {Signed(i) : i \in InForce}
BY DEF Standing, Signed, InForce

LEMMA StandingIsNext == Standing' = {Signed(i)' : i \in InForce'}
BY DEF Standing, Signed, InForce

\* What was delivered stays as it was, as long as nothing is handed out.
LEMMA DeliveredStays ==
  ASSUME Base, [Next]_vars, sent' = sent PROVE Delivered' = Delivered
<1>1. TypeOK /\ ApprovalsAreSigned
  BY DEF Base
<1>2. \A d \in sent : d.client => d.approval \in Ids /\ row'[d.approval].by = row[d.approval].by
  BY <1>1, SignedRowsStay DEF TypeOK, ApprovalsAreSigned
<1>3. QED
  BY <1>2 DEF Delivered

\* An approval that commits is granted, in the place of the one it has found.
LEMMA CommitGrants ==
  ASSUME Base, NEW r \in Requests, Ends(r), req[r].pc = "approving", row'[req[r].new].state = "active",
         req[r].old \in Ids => row'[req[r].old].state = "revoked"
  PROVE  \E i \in Ids, s \in Scopes, u \in Admins :
           /\ u \notin Makers(s)
           /\ i \notin Revoked \cup {g.id : g \in Standing}
           /\ \E old \in {{}} \cup {{g} : g \in Standing} :
                /\ \A g \in old : g.scope = s
                /\ Standing' = (Standing \ old) \cup {[id |-> i, scope |-> s, by |-> u]}
                /\ Revoked' = Revoked \cup {g.id : g \in old}
<1>1. TypeOK /\ ChangesAreSound
  BY DEF Base
<1> DEFINE n == req[r].new
           o == req[r].old
           s == req[r].scope
           u == row[n].by
<1>2. /\ n \in Ids /\ s \in Scopes /\ u \in Admins \ Makers(s)
      /\ row[n].state = "new" /\ row[n].scope = s
  BY <1>1 DEF ChangesAreSound
<1>3. o \in Ids => row[o].state \in {"active", "revoked"} /\ row[o].scope = s
  BY <1>1, ZeroIsNoKey DEF ChangesAreSound
<1>4. /\ \A i \in Ids : Signed(i)' = Signed(i)
      /\ \A i \in Ids \ {n, o} : row'[i] = row[i]
  BY EndSteps DEF Signed
<1>5. InForce' = (InForce \ {o}) \cup {n} /\ Revoked' = Revoked \cup ({o} \cap InForce)
  BY <1>2, <1>3, <1>4 DEF InForce, Revoked
<1>6. Signed(n) = [id |-> n, scope |-> s, by |-> u]
  BY <1>2 DEF Signed
<1>7. \A i, j : Signed(i) = Signed(j) => i = j
  BY DEF Signed
<1>8. n \notin Revoked \cup {g.id : g \in Standing}
  <2>1. n \notin InForce /\ n \notin Revoked
    BY <1>2 DEF InForce, Revoked
  <2>2. \A i : Signed(i).id = i
    BY DEF Signed
  <2>3. QED
    BY <2>1, <2>2, StandingIs
<1>9. InForce \subseteq Ids /\ InForce' \subseteq Ids
  BY DEF InForce
<1>10. Standing' = {Signed(i) : i \in InForce'}
  BY <1>4, <1>9, StandingIsNext
<1>11. CASE o \in InForce
  <2> DEFINE old == {Signed(o)}
  <2>1. old \in {{}} \cup {{g} : g \in Standing}
    BY <1>11, StandingIs
  <2>2. \A g \in old : g.scope = s
    BY <1>3, <1>9, <1>11 DEF Signed
  <2>3. Standing' = (Standing \ old) \cup {[id |-> n, scope |-> s, by |-> u]}
    BY <1>5, <1>6, <1>7, <1>10, StandingIs
  <2>4. Revoked' = Revoked \cup {g.id : g \in old}
    BY <1>5, <1>11 DEF Signed
  <2>5. QED
    BY <1>2, <1>8, <2>1, <2>2, <2>3, <2>4
<1>12. CASE o \notin InForce
  <2>1. Standing' = (Standing \ {}) \cup {[id |-> n, scope |-> s, by |-> u]}
    BY <1>5, <1>6, <1>10, <1>12, StandingIs
  <2>2. Revoked' = Revoked \cup {g.id : g \in {}}
    BY <1>5, <1>12
  <2>3. QED
    BY <1>2, <1>8, <2>1, <2>2
<1>13. QED
  BY <1>11, <1>12

\* A revocation that commits withdraws the approval it has found, if no other
\* request did.
LEMMA CommitWithdraws ==
  ASSUME Base, NEW r \in Requests, Ends(r), req[r].pc = "revoking", row'[req[r].old].state = "revoked"
  PROVE  \/ Standing' = Standing /\ Revoked' = Revoked
         \/ \E g \in Standing : Standing' = Standing \ {g} /\ Revoked' = Revoked \cup {g.id}
<1>1. TypeOK /\ ChangesAreSound
  BY DEF Base
<1> DEFINE o == req[r].old
<1>2. o \in Ids /\ req[r].new \notin Ids /\ row[o].state \in {"active", "revoked"}
  BY <1>1, ZeroIsNoKey DEF ChangesAreSound
<1>3. /\ \A i \in Ids : Signed(i)' = Signed(i)
      /\ \A i \in Ids \ {o} : row'[i] = row[i]
  BY <1>2, EndSteps DEF Signed
<1>4. InForce' = InForce \ {o} /\ Revoked' = Revoked \cup {o}
  BY <1>2, <1>3 DEF InForce, Revoked
<1>5. InForce \subseteq Ids /\ InForce' \subseteq Ids
  BY DEF InForce
<1>6. Standing' = {Signed(i) : i \in InForce'}
  BY <1>3, <1>5, StandingIsNext
<1>7. \A i, j : Signed(i) = Signed(j) => i = j
  BY DEF Signed
<1>8. CASE row[o].state = "active"
  <2>1. Signed(o) \in Standing /\ Signed(o).id = o
    BY <1>2, <1>8, StandingIs DEF InForce, Signed
  <2>2. Standing' = Standing \ {Signed(o)}
    BY <1>4, <1>6, <1>7, StandingIs
  <2>3. QED
    BY <1>4, <2>1, <2>2
<1>9. CASE row[o].state = "revoked"
  <2>1. o \notin InForce /\ o \in Revoked
    BY <1>2, <1>9 DEF InForce, Revoked
  <2>2. QED
    BY <1>4, <1>6, <2>1, StandingIs
<1>10. QED
  BY <1>2, <1>8, <1>9

\* A report handed out to the client names an approval of its scope in force.
LEMMA ReleaseNamesStanding ==
  ASSUME Base, NEW r \in Exports, Release(r)
  PROVE  \/ Delivered' = Delivered
         \/ \E g \in Standing : Delivered' = Delivered \cup {g}
<1>1. TypeOK /\ ExportsAreSound /\ row' = row
  BY DEF Base, Release
<1> DEFINE s == req[r].scope
           a == FindActive(s)
           d == [scope |-> s, class |-> Class(req[r]), client |-> req[r].client,
                 approval |-> a, shows |-> Shown(req[r])]
<1>2. CASE sent' = sent
  BY <1>1, <1>2 DEF Delivered
<1>3. CASE sent' # sent
  <2>1. sent' = sent \cup {d} /\ (d.client => a # 0)
    BY <1>3 DEF Release
  <2>2. CASE ~d.client
    BY <1>1, <2>1, <2>2 DEF Delivered
  <2>3. CASE d.client
    <3>1. a \in Active(s)
      BY <2>1, <2>3, FindActiveFinds
    <3>2. a \in InForce /\ row[a].scope = s
      BY <3>1 DEF Active, InForce
    <3>3. Signed(a) = [id |-> a, scope |-> s, by |-> row[a].by] /\ Signed(a) \in Standing
      BY <3>2, StandingIs DEF Signed
    <3>4. Delivered' = Delivered \cup {[id |-> a, scope |-> s, by |-> row[a].by]}
      <4> DEFINE named(x) == [id |-> x.approval, scope |-> x.scope, by |-> row[x.approval].by]
      <4>1. {x \in sent' : x.client} = {x \in sent : x.client} \cup {d}
        BY <2>1, <2>3
      <4>2. Delivered = {named(x) : x \in {x \in sent : x.client}}
        BY DEF Delivered
      <4>3. Delivered' = {named(x) : x \in {x \in sent' : x.client}}
        BY <1>1 DEF Delivered
      <4>4. named(d) = [id |-> a, scope |-> s, by |-> row[a].by]
        OBVIOUS
      <4>5. QED
        BY <4>1, <4>2, <4>3, <4>4
    <3>5. QED
      BY <3>3, <3>4
  <2>4. QED
    BY <2>2, <2>3
<1>4. QED
  BY <1>2, <1>3

\* However requests overlap, approve, revoke and generate are dual control: an
\* approval is given once, never by a maker of its scope, does not come back
\* after its end, and what a client gets names one in force at that moment.
THEOREM ApprovalIsDualControl == Spec => ImplementsDualControl
<1>1. Init => DC!DCInit
  <2> SUFFICES ASSUME Init PROVE DC!DCInit
    OBVIOUS
  <2>1. Standing = {} /\ Revoked = {} /\ Delivered = {}
    BY DEF Init, FreeRow, Standing, Revoked, Delivered
  <2>2. QED
    BY <2>1 DEF DC!DCInit, Revoked
<1>2. IInv /\ [Next]_vars => [DC!DCNext]_DC!dcVars
  <2> SUFFICES ASSUME IInv, [Next]_vars PROVE [DC!DCNext]_DC!dcVars
    OBVIOUS
  <2>1. Base /\ TypeOK
    BY DEF IInv, Base
  <2>2. \A s \in Scopes : [t \in Scopes |-> Makers(t)][s] = Makers(s)
    OBVIOUS
  <2>3. ASSUME InForce' = InForce, Revoked' = Revoked, Delivered' = Delivered,
               \A i \in InForce : Signed(i)' = Signed(i)
        PROVE  UNCHANGED DC!dcVars
    BY <2>3, StandingIs, StandingIsNext DEF DC!dcVars, Revoked
  <2>4. ASSUME NEW r \in Exports, Release(r) PROVE [DC!DCNext]_DC!dcVars
    <3>1. row' = row
      BY <2>4 DEF Release
    <3>2. Standing' = Standing /\ Revoked' = Revoked
      BY <3>1 DEF Standing, Revoked
    <3>3. CASE Delivered' = Delivered
      BY <3>2, <3>3 DEF DC!dcVars, Revoked
    <3>4. ASSUME NEW g \in Standing, Delivered' = Delivered \cup {g} PROVE DC!DCNext
      BY <3>2, <3>4 DEF DC!DCNext, DC!Release, Revoked
    <3>5. QED
      BY <2>1, <2>4, <3>3, <3>4, ReleaseNamesStanding
  <2>5. CASE Elsewhere /\ ~ \E r \in Exports : Release(r)
    <3>1. row' = row /\ Delivered' = Delivered
      BY <2>1, <2>5, ElsewhereStays, SentGrows, DeliveredStays
    <3>2. QED
      BY <2>3, <3>1 DEF InForce, Revoked, Signed
  <2>6. ASSUME NEW r \in Requests, NEW s \in Scopes, AskRevoke(r, s) \/ \E u \in Admins : AskApprove(r, u, s)
        PROVE  UNCHANGED DC!dcVars
    <3>1. \A i \in Ids : row'[i] = row[i] \/ (row'[i].state = "new" /\ row[i].state = "free")
      BY <2>1, <2>6, AskingKeepsActive
    <3>2. Delivered' = Delivered
      BY <2>1, <2>6, OthersStay, DeliveredStays
    <3>3. QED
      BY <2>3, <3>1, <3>2 DEF InForce, Revoked, Signed
  <2>7. ASSUME NEW r \in Requests, Ends(r) PROVE [DC!DCNext]_DC!dcVars
    <3>1. Delivered' = Delivered
      BY <2>1, <2>7, EndSteps, DeliveredStays
    <3>2. CASE /\ req[r].pc = "approving" /\ row'[req[r].new].state = "active"
               /\ req[r].old \in Ids => row'[req[r].old].state = "revoked"
      BY <2>1, <2>2, <2>7, <3>1, <3>2, CommitGrants DEF DC!DCNext, DC!Grant, DC!Names, Revoked
    <3>3. CASE req[r].pc = "revoking" /\ row'[req[r].old].state = "revoked"
      BY <2>1, <2>7, <3>1, <3>3, CommitWithdraws DEF DC!DCNext, DC!Withdraw, DC!dcVars, Revoked
    <3>4. CASE /\ req[r].pc = "approving" /\ row'[req[r].new].state = "gone"
               /\ \A i \in Ids : i # req[r].new => row'[i] = row[i]
      <4>1. row[req[r].new].state = "new"
        BY <2>1, <3>4 DEF Base, ChangesAreSound
      <4>2. QED
        BY <2>3, <3>1, <3>4, <4>1 DEF InForce, Revoked, Signed
    <3>5. CASE row' = row
      BY <2>3, <3>1, <3>5 DEF InForce, Revoked, Signed
    <3>6. QED
      BY <2>1, <2>7, <3>2, <3>3, <3>4, <3>5, EndSteps
  <2>8. QED
    BY <2>4, <2>5, <2>6, <2>7, NextSteps
<1>3. QED
  BY <1>1, <1>2, SpecIInv, PTL DEF Spec, ImplementsDualControl, DC!DCSpec
=============================================================================
