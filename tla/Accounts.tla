------------------------------ MODULE Accounts ------------------------------
(***************************************************************************)
(* Accounts and organizations: registration with the bootstrap of the      *)
(* first account (AuthService.register), creation and update of tenants    *)
(* (OrganizationService), as requests of the API that overlap.             *)
(*                                                                         *)
(* Every request reads, decides, and writes when its session commits; only *)
(* the unique keys (users.email, organizations.slug) see what another      *)
(* request has committed in between.                                       *)
(***************************************************************************)
EXTENDS Tenancy, Naturals

CONSTANTS
  Emails,      \* keys of the users table, in lower case
  Orgs,        \* slugs of the organizations table
  DefaultOrg,  \* the slug "default"
  MaxRequests  \* bound: requests of the API

ASSUME AccountsAssumption ==
  /\ DefaultOrg \in Orgs
  /\ None \notin Emails \cup Orgs \cup Roles
  /\ MaxRequests \in Nat

\* Numbered in the order in which they arrive.
Requests == 1 .. MaxRequests

VARIABLES
  users,  \* users[e]: the account registered under e
  orgs,   \* orgs[o]: "absent", "active" or "inactive" (is_active)
  req     \* the requests

\* by: who registered the account; the first ones have nobody.
Account == [role : Roles, org : Orgs \cup {None}, by : Emails \cup {None}]
NoUser == [role |-> None]

Registered == {e \in Emails : users[e] # NoUser}

\* get_current_user_optional: None for a request without a valid token.
Actors == Registered \cup {None}

\* _ensure_default_organization inserts it.
DefaultMissing == orgs[DefaultOrg] = "absent"

New == [pc |-> "new"]
Done == [pc |-> "done"]
Arrives(r) == req[r] = New /\ \A q \in Requests : q < r => req[q] # New

\* Requests about to flush and commit what they have decided.
AccountRequest ==
  [pc : {"register"}, email : Emails, account : Account, newOrg : BOOLEAN]
  \cup [pc : {"create_org"}, org : Orgs]
  \cup [pc : {"update_org"}, org : Orgs, old : {"active", "inactive"}, to : {"active", "inactive"}]

\* Every tenant account has an organization.
Placed(a) == a.role # SuperAdmin => a.org # None

AccountsTypeOK ==
  /\ users \in [Emails -> Account \cup {NoUser}]
  /\ \A e \in Registered : Placed(users[e])
  /\ orgs \in [Orgs -> {"absent", "active", "inactive"}]

-----------------------------------------------------------------------------
(* Registration. *)

\* A bug: the role an admin asks for is not looked at.
GrantAnyRole(actor, role, org, new) ==
  \/ /\ Registered = {}
     /\ new = [role |-> SuperAdmin, org |-> DefaultOrg, by |-> None]
  \/ /\ actor \in Registered /\ users[actor].role \in {SuperAdmin, Admin}
     /\ new = [role |-> role, org |-> users[actor].org, by |-> actor]

\* The account register makes of the request of actor (None: no valid token)
\* for a role and an organization: the first account becomes super admin, and
\* afterwards super admins register anybody and admins their own people.
Grant(actor, role, org, new) ==
  \/ /\ Registered = {}
     /\ new = [role |-> SuperAdmin, org |-> DefaultOrg, by |-> None]
  \/ /\ actor \in Registered /\ users[actor].role = SuperAdmin
     /\ LET place == IF role = SuperAdmin \/ org # None THEN org ELSE users[actor].org
        IN /\ role # SuperAdmin => place # None
           /\ new = [role |-> role, org |-> place, by |-> actor]
  \/ /\ actor \in Registered /\ users[actor].role = Admin /\ users[actor].org # None
     /\ new = [role |-> IF role = SuperAdmin THEN Analyst ELSE role,
               org |-> users[actor].org, by |-> actor]

\* The e-mail and the accounts are looked up, and the organization; the first
\* account may have to insert it (_ensure_default_organization).
AskRegister(r, actor, email, role, org) ==
  /\ Arrives(r)
  /\ users[email] = NoUser
  /\ \E new \in Account :
       /\ Grant(actor, role, org, new)
       /\ LET newOrg == new.by = None /\ DefaultMissing
          IN /\ new.org # None => orgs[new.org] = "active" \/ newOrg
             /\ req' = [req EXCEPT ![r] = [pc |-> "register", email |-> email,
                                           account |-> new, newOrg |-> newOrg]]
  /\ UNCHANGED <<users, orgs>>

\* Both inserts, under their unique keys: whoever comes second is rolled back.
CommitRegister(r) ==
  LET q == req[r] IN
  /\ q.pc = "register"
  /\ req' = [req EXCEPT ![r] = Done]
  /\ IF users[q.email] # NoUser \/ (q.newOrg /\ ~DefaultMissing)
     THEN UNCHANGED <<users, orgs>>
     ELSE /\ users' = [users EXCEPT ![q.email] = q.account]
          /\ orgs' = IF q.newOrg THEN [orgs EXCEPT ![DefaultOrg] = "active"] ELSE orgs

-----------------------------------------------------------------------------
(* Organizations. *)

AskCreateOrg(r, actor, o) ==
  /\ Arrives(r)
  /\ Permitted(users[actor], SuperAdmins)
  /\ orgs[o] = "absent"
  /\ req' = [req EXCEPT ![r] = [pc |-> "create_org", org |-> o]]
  /\ UNCHANGED <<users, orgs>>

CommitCreateOrg(r) ==
  /\ req[r].pc = "create_org"
  /\ req' = [req EXCEPT ![r] = Done]
  /\ orgs' = [orgs EXCEPT ![req[r].org] = IF @ = "absent" THEN "active" ELSE @]
  /\ UNCHANGED users

\* PATCH /organizations/{id}: by a super admin, or by an admin of the tenant.
AskUpdateOrg(r, actor, header, o, to) ==
  /\ Arrives(r)
  /\ Permitted(users[actor], AdminsUp)
  /\ Scope(users[actor], header) # {}
  /\ CanAccess(users[actor], o)
  /\ orgs[o] # "absent"
  /\ req' = [req EXCEPT ![r] = [pc |-> "update_org", org |-> o, old |-> orgs[o], to |-> to]]
  /\ UNCHANGED <<users, orgs>>

\* The UPDATE carries the columns that differ from the row as it was loaded.
CommitUpdateOrg(r) ==
  LET q == req[r] IN
  /\ q.pc = "update_org"
  /\ req' = [req EXCEPT ![r] = Done]
  /\ orgs' = IF q.to = q.old THEN orgs ELSE [orgs EXCEPT ![q.org] = q.to]
  /\ UNCHANGED users

\* get_db rolls a session back when its request fails.
Rollback(r) ==
  /\ req[r].pc \notin {"new", "done"}
  /\ req' = [req EXCEPT ![r] = Done]
  /\ UNCHANGED <<users, orgs>>

-----------------------------------------------------------------------------
AccountsNext ==
  \E r \in Requests :
    \/ \E actor \in Actors, email \in Emails, role \in Roles,
          org \in Orgs \cup {None} :
         AskRegister(r, actor, email, role, org)
    \/ \E actor \in Registered, o \in Orgs :
         \/ AskCreateOrg(r, actor, o)
         \/ \E header \in Orgs \cup {None}, to \in {"active", "inactive"} :
              AskUpdateOrg(r, actor, header, o, to)
    \/ CommitRegister(r) \/ CommitCreateOrg(r) \/ CommitUpdateOrg(r)
    \/ Rollback(r)

AccountsInit ==
  /\ users = [e \in Emails |-> NoUser]
  /\ orgs \in {[o \in Orgs |-> IF o = DefaultOrg THEN s ELSE "absent"] : s \in {"absent", "active"}}
  /\ req = [r \in Requests |-> New]

AccountsSpec == AccountsInit /\ [][AccountsNext]_<<users, orgs, req>>

-----------------------------------------------------------------------------
(* Properties. *)

\* Whatever registrations overlap, every account was granted by somebody
\* entitled to grant it: nobody but a super admin makes super admins or
\* accounts of another organization, and an account nobody granted is a
\* bootstrap's, a super admin of the default organization (register).
GrantedBy(a) ==
  IF a.by = None THEN a.role = SuperAdmin /\ a.org = DefaultOrg
  ELSE /\ a.by \in Registered
       /\ LET g == users[a.by]
          IN g.role = SuperAdmin \/ (g.role = Admin /\ a.role # SuperAdmin /\ a.org = g.org)
AccountsAreGranted == \A e \in Registered : GrantedBy(users[e])
=============================================================================
