----------------------------- MODULE DualControl -----------------------------
(***************************************************************************)
(* What dual control promises a client: an approval of a scope is given    *)
(* once, by somebody who may, and ends once; nothing is released but under *)
(* an approval of its scope that is in force, by the person it names.      *)
(***************************************************************************)
CONSTANTS
  Scopes,    \* what can be approved and delivered
  Admins,    \* who may approve
  Barred,    \* Barred[s]: those who may not approve s, its makers
  Ids        \* names of approvals

VARIABLES
  standing,  \* the approvals in force
  ended,     \* the names of those withdrawn
  released   \* the approvals under which something went to the client

dcVars == <<standing, ended, released>>

Names(approvals) == {g.id : g \in approvals}

DCInit == standing = {} /\ ended = {} /\ released = {}

\* A new approval, which may end one of its scope.
Grant(i, s, u) ==
  /\ u \notin Barred[s]
  /\ i \notin ended \cup Names(standing)
  /\ \E old \in {{}} \cup {{g} : g \in standing} :
       /\ \A g \in old : g.scope = s
       /\ standing' = (standing \ old) \cup {[id |-> i, scope |-> s, by |-> u]}
       /\ ended' = ended \cup Names(old)
  /\ UNCHANGED released

Withdraw(g) ==
  /\ standing' = standing \ {g}
  /\ ended' = ended \cup {g.id}
  /\ UNCHANGED released

Release(g) ==
  /\ released' = released \cup {g}
  /\ UNCHANGED <<standing, ended>>

DCNext ==
  \/ \E i \in Ids, s \in Scopes, u \in Admins : Grant(i, s, u)
  \/ \E g \in standing : Withdraw(g) \/ Release(g)

DCSpec == DCInit /\ [][DCNext]_dcVars
=============================================================================
