------------------------------ MODULE Tenancy ------------------------------
(***************************************************************************)
(* Who may do what, and in which organization: the dependencies every      *)
(* handler of the API is declared with (core/deps, core/tenancy).  An      *)
(* account is a record with a role and an organization, or None for it.    *)
(* Accounts are read from the database by every request: the role and the  *)
(* organization inside an access token decide nothing.                     *)
(***************************************************************************)
CONSTANT None

SuperAdmin == "super_admin"
Admin      == "admin"
Pentester  == "pentester"
Analyst    == "soc_analyst"
Roles == {SuperAdmin, Admin, Pentester, Analyst}

\* RequireSuperAdmin, RequireAdmin, RequirePentesterOrAdmin
SuperAdmins == {SuperAdmin}
AdminsUp    == {SuperAdmin, Admin}
TestersUp   == {SuperAdmin, Admin, Pentester}

\* require_roles: super_admin passes whatever lists admin.
Permitted(user, allowed) ==
  \/ user.role = SuperAdmin /\ {SuperAdmin, Admin} \cap allowed # {}
  \/ user.role \in allowed

\* A bug: X-Organization-Id is believed.
AnyScope(user, header) == {IF header # None THEN header ELSE user.org}

\* resolve_tenant_context: the organizations the request may be scoped to, one
\* or none at all if it is refused; None stands for a super admin's view of
\* every tenant.
Scope(user, header) ==
  IF user.role = SuperAdmin THEN {header}
  ELSE IF user.org = None \/ header \notin {None, user.org} THEN {}
  ELSE {user.org}

\* require_organization_id
OneOrg(user, header) == Scope(user, header) \ {None}

\* can_access_org, and org_filter of a query
CanAccess(user, org) == user.role = SuperAdmin \/ user.org = org
Visible(scope, org) == scope \in {None, org}
=============================================================================
