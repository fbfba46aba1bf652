----------------------- MODULE AssetInventory_proofs -----------------------
(***************************************************************************)
(* Theorems about Accounts and AssetInventory, for every set of accounts,  *)
(* tenants, assets and host names, and any number of overlapping requests. *)
(*                                                                         *)
(* Accounts and the organization of an asset never change once they exist, *)
(* so what a request found out when it was asked still holds when it       *)
(* commits: IInv keeps, for every request under way, what it has checked.  *)
(* Of the inventory it holds only for the assets that nobody has changed   *)
(* in between (since).                                                     *)
(***************************************************************************)
EXTENDS AssetInventory, TLAPS

\* A registration under way was granted, and its account has a place.
GrantsAreChecked ==
  \A r \in Requests : req[r].pc = "register" => GrantedBy(req[r].account) /\ Placed(req[r].account)

\* A request that makes assets is its actor's, for an organization of his.
MakersMay ==
  \A r \in Requests : req[r].pc \in {"create", "accept"} =>
    req[r].actor \in Registered /\ CanAccess(users[req[r].actor], req[r].org)

\* One that changes an asset found it in an organization of its actor's.
ChangersMay ==
  \A r \in Requests : req[r].pc \in {"edit", "delete"} =>
    /\ req[r].actor \in Registered /\ req[r].id \in Ids /\ assets[req[r].id] # Unused
    /\ req[r].id \in Live => CanAccess(users[req[r].actor], assets[req[r].id].org)

\* The names a host may be kept under.
NormalHost == {h \in Host : h.name # None => Normal[h.name] = h.name}

\* What a request is going to store is in the form the validators give it.
StoresNormal ==
  /\ \A r \in Requests : req[r].pc = "create" => req[r].host \in NormalHost
  /\ \A r \in Requests : req[r].pc = "edit" => req[r].host \in NormalHost /\ req[r].old \in NormalHost
  /\ \A r \in Requests : req[r].pc = "accept" => req[r].todo \in Seq(Host) /\ req[r].made \in Seq(Host)
  /\ \A i \in Live : assets[i].host \in NormalHost

\* The hosts made are apart from one another and from the assets rows has in S.
Apart(made, org, S, rows) ==
  \A n \in DOMAIN made : InStoredForm(made[n]) =>
    /\ \A i \in S : rows[i].org = org => ~FindDuplicate(made[n], {rows[i].host})
    /\ \A m \in 1 .. n - 1 : ~FindDuplicate(made[n], {Validated(made[m])})

\* The hosts an acceptance is going to add were looked up.
LookedUp ==
  \A r \in Requests : req[r].pc = "accept" =>
    Apart(req[r].made, req[r].org, Live \ since[r], assets)

Tables ==
  /\ users = [e \in Emails |-> users[e]] /\ req = [r \in Requests |-> req[r]]
  /\ assets = [i \in Ids |-> assets[i]] /\ since = [r \in Requests |-> since[r]]

IInv ==
  /\ TypeOK
  /\ GrantsAreChecked
  /\ AccountsAreGranted
  /\ MakersMay
  /\ ChangersMay
  /\ StoresNormal
  /\ LookedUp

-----------------------------------------------------------------------------
LEMMA TypesAreTables == TypeOK => Tables
BY DEF TypeOK, AccountsTypeOK, Tables

\* What the fields of a request under way are.
LEMMA RequestFields ==
  ASSUME TypeOK, NEW r \in Requests
  PROVE  /\ req[r].pc = "register" => req[r].email \in Emails /\ req[r].account \in Account
         /\ req[r].pc = "create" => req[r].actor \in Emails /\ req[r].org \in Orgs /\ req[r].host \in Host
         /\ req[r].pc = "edit" =>
              req[r].actor \in Emails /\ req[r].id \in Ids /\ req[r].old \in Host /\ req[r].host \in Host
         /\ req[r].pc = "delete" => req[r].actor \in Emails /\ req[r].id \in Ids
         /\ req[r].pc = "accept" =>
              /\ req[r] \in [pc : {"accept"}, actor : Emails, org : Orgs, todo : Seq(Host), made : Seq(Host)]
              /\ req[r].org \in Orgs /\ req[r].actor \in Emails
              /\ req[r].todo \in Seq(Host) /\ req[r].made \in Seq(Host)
         /\ req[r].pc \in {"create_org", "update_org"} => req[r].org \in Orgs
         /\ req[r].pc = "update_org" => req[r].to \in {"active", "inactive"}
BY DEF TypeOK, AccountRequest, AssetRequest, New, Done

\* The steps of AssetInventory that are not those of Accounts.
AssetStep(r) ==
  \/ \E actor \in Registered, header \in Orgs \cup {None} :
       \/ \E h \in Hosts : AskCreate(r, actor, header, h)
       \/ \E i \in Ids : AskDelete(r, actor, header, i)
       \/ \E i \in Ids, h \in Hosts : AskEdit(r, actor, header, i, h)
       \/ \E hosts \in Payloads : AskAccept(r, actor, header, hosts)
  \/ CommitCreate(r) \/ CommitEdit(r) \/ CommitDelete(r)
  \/ AcceptHost(r) \/ CommitAccept(r)

LEMMA NextSteps == Next <=> (AccountsNext /\ UNCHANGED <<assets, since>>) \/ \E r \in Requests : AssetStep(r)
BY DEF Next, AssetStep

\* Only the end of a registration writes users.
LEMMA NewAccounts ==
  ASSUME Tables, [Next]_vars PROVE users' = users \/ \E r \in Requests : CommitRegister(r)
<1>1. ASSUME NEW r \in Requests, AssetStep(r) PROVE users' = users
  BY <1>1 DEF AssetStep, AskCreate, AskDelete, AskEdit, AskAccept, CommitCreate, CommitEdit,
     CommitDelete, AcceptHost, CommitAccept
<1>2. ASSUME AccountsNext PROVE users' = users \/ \E r \in Requests : CommitRegister(r)
  BY <1>2 DEF AccountsNext, AskRegister, AskCreateOrg, AskUpdateOrg, CommitCreateOrg,
     CommitUpdateOrg, Rollback
<1>3. QED
  BY <1>1, <1>2, NextSteps DEF vars

\* No step changes an account.
LEMMA AccountsStay ==
  ASSUME Tables, [Next]_vars
  PROVE  \A e \in Registered : e \in Registered' /\ users'[e] = users[e]
<1>1. ASSUME NEW r \in Requests, CommitRegister(r)
      PROVE  \A e \in Registered : e \in Registered' /\ users'[e] = users[e]
  BY <1>1 DEF CommitRegister, Registered, Tables
<1>2. ASSUME users' = users
      PROVE  \A e \in Registered : e \in Registered' /\ users'[e] = users[e]
  BY <1>2 DEF Registered
<1>3. QED
  BY <1>1, <1>2, NewAccounts

\* Insert fills a free row for the organization, with a host of the list.
LEMMA InsertedRow ==
  ASSUME NEW org, NEW by, NEW S, NEW hosts \in Seq(S), Insert(org, by, hosts), NEW i \in Ids,
         assets'[i] # assets[i]
  PROVE  assets[i] = Unused /\ \E h \in S : assets'[i] = [org |-> org, by |-> by, host |-> h]
<1>1. PICK at \in [1 .. Len(hosts) -> {j \in Ids : assets[j] = Unused}] :
        assets' = [j \in Ids |-> IF \E n \in DOMAIN at : at[n] = j
                                 THEN [org |-> org, by |-> by,
                                       host |-> hosts[CHOOSE n \in DOMAIN at : at[n] = j]]
                                 ELSE assets[j]]
  BY DEF Insert
<1>2. \E n \in DOMAIN at : at[n] = i
  BY <1>1
<1> DEFINE k == CHOOSE n \in DOMAIN at : at[n] = i
<1>3. assets[i] = Unused /\ k \in 1 .. Len(hosts)
  BY <1>1, <1>2
<1>4. hosts[k] \in S
  BY <1>3
<1>5. assets'[i] = [org |-> org, by |-> by, host |-> hosts[k]]
  BY <1>1, <1>2
<1>6. QED
  BY <1>3, <1>4, <1>5

LEMMA InsertRows ==
  ASSUME NEW org, NEW by, NEW S, NEW hosts \in Seq(S), Insert(org, by, hosts), NEW i \in Ids,
         assets'[i] # assets[i]
  PROVE  /\ assets[i] = Unused
         /\ assets'[i].org = org /\ assets'[i].host \in S
         /\ assets'[i] \in [org : {org}, host : S, by : {by}]
<1>1. PICK h \in S : assets'[i] = [org |-> org, by |-> by, host |-> h]
  BY InsertedRow
<1>2. QED
  BY <1>1, InsertedRow

\* What the validators give back is in normal form.
LEMMA ValidatedIsNormal == ASSUME NEW h \in Host PROVE Validated(h) \in NormalHost
<1>1. h.name # None => h.name \in Names
  BY DEF Host
<1>2. h.name # None => Normal[h.name] \in Names /\ Normal[Normal[h.name]] = Normal[h.name]
  BY <1>1, InventoryAssumption
<1>3. QED
  BY <1>1, <1>2, InventoryAssumption DEF Validated, NormalHost, Host

LEMMA StoredIsNormal == ASSUME NEW hosts \in Seq(Host) PROVE Stored(hosts) \in Seq(NormalHost)
<1>1. \A n \in 1 .. Len(hosts) : hosts[n] \in Host
  OBVIOUS
<1>2. Stored(hosts) \in [1 .. Len(hosts) -> NormalHost]
  BY <1>1, ValidatedIsNormal DEF Stored
<1>3. QED
  BY <1>2

\* The requests stay the requests.
LEMMA RequestsStayTable == ASSUME Tables, [Next]_vars PROVE req' = [q \in Requests |-> req'[q]]
<1>1. ASSUME NEW r \in Requests, AssetStep(r) PROVE req' = [q \in Requests |-> req'[q]]
  BY <1>1 DEF AssetStep, AskCreate, AskDelete, AskEdit, AskAccept, CommitCreate,
     CommitEdit, CommitDelete, AcceptHost, CommitAccept, Tables
<1>2. ASSUME AccountsNext PROVE req' = [q \in Requests |-> req'[q]]
  BY <1>2 DEF AccountsNext, AskRegister, AskCreateOrg, AskUpdateOrg, CommitRegister, CommitCreateOrg,
     CommitUpdateOrg, Rollback, Tables
<1>3. QED
  BY <1>1, <1>2, NextSteps DEF vars, Tables

-----------------------------------------------------------------------------
\* A request that is not under way, or not about accounts or assets.
OrgRequest ==
  [pc : {"create_org"}, org : Orgs]
  \cup [pc : {"update_org"}, org : Orgs, old : {"active", "inactive"}, to : {"active", "inactive"}]
Over(q) == q \in {New, Done} \cup OrgRequest

LEMMA OverIsOver ==
  ASSUME NEW q, Over(q) PROVE q.pc \notin {"register", "create", "edit", "delete", "accept"}
BY DEF Over, OrgRequest, New, Done

\* What a step can have made of a request.
Began(q) ==
  \/ Over(req'[q])
  \/ /\ UNCHANGED <<users, orgs, assets, since>>
     /\ \/ \E actor \in Actors, email \in Emails, role \in Roles, org \in Orgs \cup {None} :
             AskRegister(q, actor, email, role, org)
        \/ \E actor \in Registered, header \in Orgs \cup {None} :
             \/ \E h \in Hosts : AskCreate(q, actor, header, h)
             \/ \E i \in Ids : AskDelete(q, actor, header, i)
             \/ \E i \in Ids, h \in Hosts : AskEdit(q, actor, header, i, h)
             \/ \E hosts \in Payloads : AskAccept(q, actor, header, hosts)
        \/ AcceptHost(q)

LEMMA RequestsBegin ==
  ASSUME TypeOK, [Next]_vars, NEW q \in Requests PROVE req'[q] = req[q] \/ Began(q)
<1>0. Tables
  BY TypesAreTables
<1>1. ASSUME NEW r \in Requests, AssetStep(r) PROVE req'[q] = req[q] \/ Began(q)
  <2>1. CASE r = q
    <3>1. CASE CommitCreate(q) \/ CommitEdit(q) \/ CommitDelete(q) \/ CommitAccept(q)
      BY <1>0, <3>1 DEF CommitCreate, CommitEdit, CommitDelete, CommitAccept, Began, Over, Tables
    <3>2. CASE AcceptHost(q)
      BY <3>2 DEF AcceptHost, Began
    <3>3. ASSUME NEW actor \in Registered, NEW header \in Orgs \cup {None},
                 \/ \E h \in Hosts : AskCreate(q, actor, header, h)
                 \/ \E i \in Ids : AskDelete(q, actor, header, i)
                 \/ \E i \in Ids, h \in Hosts : AskEdit(q, actor, header, i, h)
                 \/ \E hosts \in Payloads : AskAccept(q, actor, header, hosts)
          PROVE  Began(q)
      <4>1. UNCHANGED <<users, orgs, assets, since>>
        BY <3>3 DEF AskCreate, AskDelete, AskEdit, AskAccept
      <4>2. QED
        BY <3>3, <4>1 DEF Began
    <3>4. QED
      BY <1>1, <2>1, <3>1, <3>2, <3>3 DEF AssetStep
  <2>2. CASE r # q
    BY <1>0, <1>1, <2>2 DEF AssetStep, AskCreate, AskDelete, AskEdit, AskAccept, CommitCreate,
       CommitEdit, CommitDelete, AcceptHost, CommitAccept, Tables
  <2>3. QED
    BY <2>1, <2>2
<1>2. ASSUME AccountsNext, UNCHANGED <<assets, since>> PROVE req'[q] = req[q] \/ Began(q)
  <2>1. PICK r \in Requests :
          \/ \E actor \in Actors, email \in Emails, role \in Roles, org \in Orgs \cup {None} :
               AskRegister(r, actor, email, role, org)
          \/ \E actor \in Registered, o \in Orgs :
               \/ AskCreateOrg(r, actor, o)
               \/ \E header \in Orgs \cup {None}, to \in {"active", "inactive"} :
                    AskUpdateOrg(r, actor, header, o, to)
          \/ CommitRegister(r) \/ CommitCreateOrg(r) \/ CommitUpdateOrg(r)
          \/ Rollback(r)
    BY <1>2 DEF AccountsNext
  <2>2. CASE r # q
    BY <1>0, <2>1, <2>2 DEF AskRegister, AskCreateOrg, AskUpdateOrg, CommitRegister,
       CommitCreateOrg, CommitUpdateOrg, Rollback, Tables
  <2>3. CASE r = q
    <3>1. ASSUME NEW actor \in Actors, NEW email \in Emails, NEW role \in Roles,
                 NEW org \in Orgs \cup {None}, AskRegister(q, actor, email, role, org)
          PROVE  Began(q)
      BY <1>2, <3>1 DEF AskRegister, Began
    <3>2. ASSUME NEW actor \in Registered, NEW o \in Orgs, NEW header, NEW to \in {"active", "inactive"},
                 AskCreateOrg(q, actor, o) \/ AskUpdateOrg(q, actor, header, o, to)
          PROVE  Over(req'[q])
      BY <1>0, <3>2 DEF AskCreateOrg, AskUpdateOrg, Over, OrgRequest, TypeOK, AccountsTypeOK, Tables
    <3>3. ASSUME CommitRegister(q) \/ CommitCreateOrg(q) \/ CommitUpdateOrg(q) \/ Rollback(q)
          PROVE  Over(req'[q])
      BY <1>0, <3>3 DEF CommitRegister, CommitCreateOrg, CommitUpdateOrg, Rollback, Over, Tables
    <3>4. QED
      BY <2>1, <2>3, <3>1, <3>2, <3>3 DEF Began
  <2>4. QED
    BY <2>2, <2>3
<1>3. QED
  BY <1>1, <1>2, NextSteps DEF vars

\* What each way of beginning makes the request.
LEMMA BeganAs ==
  ASSUME Tables, NEW q \in Requests
  PROVE  /\ \A actor, email, role, org : AskRegister(q, actor, email, role, org) => req'[q].pc = "register"
         /\ \A actor, header, h : AskCreate(q, actor, header, h) => req'[q].pc = "create"
         /\ \A actor, header, i : AskDelete(q, actor, header, i) => req'[q].pc = "delete"
         /\ \A actor, header, i, h : AskEdit(q, actor, header, i, h) => req'[q].pc = "edit"
         /\ \A actor, header, hosts : AskAccept(q, actor, header, hosts) => req'[q].pc = "accept"
<1>1. \A actor, email, role, org : AskRegister(q, actor, email, role, org) => req'[q].pc = "register"
  BY DEF AskRegister, Tables
<1>2. /\ \A actor, header, h : AskCreate(q, actor, header, h) => req'[q].pc = "create"
      /\ \A actor, header, i : AskDelete(q, actor, header, i) => req'[q].pc = "delete"
      /\ \A actor, header, i, h : AskEdit(q, actor, header, i, h) => req'[q].pc = "edit"
  BY DEF AskCreate, AskDelete, AskEdit, Tables
<1>3. \A actor, header, hosts : AskAccept(q, actor, header, hosts) => req'[q].pc = "accept"
  BY DEF AskAccept, Tables
<1>4. QED
  BY <1>1, <1>2, <1>3

LEMMA AcceptanceGoesOn ==
  ASSUME TypeOK, NEW q \in Requests, AcceptHost(q)
  PROVE  req[q].pc = "accept" /\ req'[q].pc = "accept"
<1>1. Tables
  BY TypesAreTables
<1>2. req[q] \in [pc : {"accept"}, actor : Emails, org : Orgs, todo : Seq(Host), made : Seq(Host)]
  BY RequestFields DEF AcceptHost
<1>3. QED
  BY <1>1, <1>2 DEF AcceptHost, Tables

\* Only four handlers write assets.
Writes(r) == CommitCreate(r) \/ CommitEdit(r) \/ CommitDelete(r) \/ CommitAccept(r)

LEMMA AssetsChange ==
  ASSUME Tables, [Next]_vars PROVE assets' = assets \/ \E r \in Requests : Writes(r) /\ req'[r] = Done
<1>1. ASSUME NEW r \in Requests, AssetStep(r)
      PROVE  assets' = assets \/ (Writes(r) /\ req'[r] = Done)
  <2>1. CASE Writes(r)
    BY <2>1 DEF Writes, CommitCreate, CommitEdit, CommitDelete, CommitAccept, Tables
  <2>2. CASE ~Writes(r)
    BY <1>1, <2>2 DEF AssetStep, Writes, AskCreate, AskDelete, AskEdit, AskAccept, AcceptHost
  <2>3. QED
    BY <2>1, <2>2
<1>2. QED
  BY <1>1, NextSteps DEF vars

\* An asset keeps its organization while it lives, and never comes back.
LEMMA AssetsStay ==
  ASSUME TypeOK, StoresNormal, [Next]_vars, NEW i \in Ids, assets[i] # Unused
  PROVE  /\ assets'[i] # Unused
         /\ i \in Live' => i \in Live /\ assets'[i].org = assets[i].org
<1>0. Tables
  BY TypesAreTables
<1>1. ASSUME NEW r \in Requests, CommitCreate(r) \/ CommitAccept(r) PROVE assets'[i] = assets[i]
  <2>1. CASE CommitCreate(r)
    <3>1. <<req[r].host>> \in Seq(NormalHost)
      BY <2>1 DEF CommitCreate, StoresNormal
    <3>2. QED
      BY <2>1, <3>1, InsertRows DEF CommitCreate
  <2>2. CASE CommitAccept(r)
    <3>1. Stored(req[r].made) \in Seq(NormalHost)
      BY <2>2, StoredIsNormal DEF CommitAccept, StoresNormal
    <3>2. QED
      BY <2>2, <3>1, InsertRows DEF CommitAccept
  <2>3. QED
    BY <1>1, <2>1, <2>2
<1>2. ASSUME NEW r \in Requests, CommitEdit(r), assets'[i] # assets[i]
      PROVE  /\ i \in Live /\ assets'[i].org = assets[i].org
             /\ assets'[i] # Unused
  <2>1. i = req[r].id /\ i \in Live
    BY <1>0, <1>2 DEF CommitEdit, Tables
  <2>2. \E h : assets'[i] = [assets[i] EXCEPT !.host = h]
    BY <1>0, <1>2, <2>1 DEF CommitEdit, Tables
  <2>3. assets[i] \in Asset
    BY <2>1 DEF TypeOK, Live
  <2>4. QED
    BY <2>1, <2>2, <2>3, AccountsAssumption DEF Asset, Unused
<1>3. ASSUME NEW r \in Requests, CommitDelete(r), assets'[i] # assets[i] PROVE assets'[i] = Gone
  BY <1>0, <1>3 DEF CommitDelete, Tables
<1>4. Gone # Unused
  BY InventoryAssumption DEF Gone, Unused
<1>5. QED
  BY <1>0, <1>1, <1>2, <1>3, <1>4, AssetsChange DEF Writes, Live

-----------------------------------------------------------------------------
\* What register grants is granted.
LEMMA GrantsAreGranted ==
  ASSUME NEW actor, NEW role, NEW org, NEW new, Grant(actor, role, org, new), None \notin Registered
  PROVE  GrantedBy(new)
<1> USE DEF Grant, GrantedBy, SuperAdmin, Admin, Analyst
<1>1. CASE new.by = None
  BY <1>1
<1>2. CASE new.by # None
  BY <1>2
<1>3. QED
  BY <1>1, <1>2

\* Who grants an account may grant it, for ever.
LEMMA NextGrants == ASSUME IInv, [Next]_vars PROVE GrantsAreChecked' /\ AccountsAreGranted'
<1>1. TypeOK /\ Tables /\ GrantsAreChecked /\ AccountsAreGranted
  BY TypesAreTables DEF IInv
<1>2. \A e \in Registered : e \in Registered' /\ users'[e] = users[e]
  BY <1>1, AccountsStay
<1>3. ASSUME NEW q \in Requests, (req[q].pc = "register")'
      PROVE  (GrantedBy(req[q].account) /\ Placed(req[q].account))'
  <2>1. CASE req'[q] = req[q]
    BY <1>1, <1>2, <1>3, <2>1 DEF GrantsAreChecked, GrantedBy, Placed
  <2>2. CASE Began(q)
    <3>1. UNCHANGED <<users, orgs, assets, since>>
             /\ \E actor \in Actors, email \in Emails, role \in Roles, org \in Orgs \cup {None} :
                  AskRegister(q, actor, email, role, org)
      BY <1>1, <1>3, <2>2, BeganAs, AcceptanceGoesOn, OverIsOver DEF Began
    <3>2. PICK actor \in Actors, role \in Roles, org \in Orgs \cup {None} :
                 Grant(actor, role, org, req'[q].account)
      BY <1>1, <3>1 DEF AskRegister, Tables
    <3>3. (GrantedBy(req[q].account))'
      <4>1. Registered' = Registered
        BY <3>1 DEF Registered
      <4>2. None \notin Registered
        BY AccountsAssumption DEF Registered
      <4>3. GrantedBy(req'[q].account)
        BY <3>2, <4>2, GrantsAreGranted
      <4>4. QED
        BY <3>1, <4>1, <4>3 DEF GrantedBy
    <3>4. (Placed(req[q].account))'
      BY <1>1, <3>1, <3>2, AccountsAssumption
         DEF Grant, Placed, TypeOK, AccountsTypeOK, Registered, SuperAdmin, Admin, Analyst
    <3>5. QED
      BY <3>3, <3>4
  <2>3. QED
    BY <1>1, <2>1, <2>2, RequestsBegin
<1>4. ASSUME NEW e \in Registered', e \notin Registered PROVE GrantedBy(users[e])'
  <2>1. PICK r \in Requests : CommitRegister(r)
    BY <1>1, <1>4, NewAccounts DEF Registered
  <2>2. req[r].pc = "register" /\ users'[e] = req[r].account
    BY <1>1, <1>4, <2>1 DEF CommitRegister, Registered, Tables
  <2>3. GrantedBy(req[r].account)
    BY <1>1, <2>2 DEF GrantsAreChecked
  <2>4. QED
    BY <1>2, <2>2, <2>3 DEF GrantedBy
<1>5. ASSUME NEW e \in Registered PROVE GrantedBy(users[e])'
  BY <1>1, <1>2 DEF AccountsAreGranted, GrantedBy
<1>6. QED
  BY <1>3, <1>4, <1>5 DEF GrantsAreChecked, AccountsAreGranted

-----------------------------------------------------------------------------
\* The scope of a request is within its actor's reach.
LEMMA ScopeIsWithinReach ==
  ASSUME NEW user, NEW header, NEW org
  PROVE  /\ org \in OneOrg(user, header) => CanAccess(user, org)
         /\ (\E s \in Scope(user, header) : Visible(s, org)) => CanAccess(user, org)
BY DEF OneOrg, Scope, Visible, CanAccess

LEMMA NextMakersMay == ASSUME IInv, [Next]_vars PROVE MakersMay'
<1>1. TypeOK /\ Tables /\ MakersMay
  BY TypesAreTables DEF IInv
<1>2. \A e \in Registered : e \in Registered' /\ users'[e] = users[e]
  BY <1>1, AccountsStay
<1>3. SUFFICES ASSUME NEW q \in Requests, req'[q].pc \in {"create", "accept"}
               PROVE  req'[q].actor \in Registered' /\ CanAccess(users'[req'[q].actor], req'[q].org)
  BY DEF MakersMay, CanAccess
<1>4. CASE req'[q] = req[q]
  BY <1>1, <1>2, <1>3, <1>4 DEF MakersMay, CanAccess
<1>5. CASE Began(q)
  <2>1. CASE AcceptHost(q)
    <3>1. req[q] \in [pc : {"accept"}, actor : Emails, org : Orgs, todo : Seq(Host), made : Seq(Host)]
      BY <1>1, <2>1, RequestFields DEF AcceptHost
    <3>2. req'[q].actor = req[q].actor /\ req'[q].org = req[q].org
      BY <1>1, <2>1, <3>1 DEF AcceptHost, Tables
    <3>3. QED
      BY <1>1, <1>2, <2>1, <3>2 DEF AcceptHost, MakersMay, CanAccess
  <2>2. ASSUME NEW actor \in Registered, NEW header, NEW h, AskCreate(q, actor, header, h)
        PROVE  req'[q].actor \in Registered' /\ CanAccess(users'[req'[q].actor], req'[q].org)
    <3>1. PICK o \in OneOrg(users[actor], header) : req'[q].org = o /\ req'[q].actor = actor
      BY <1>1, <2>2 DEF AskCreate, Tables
    <3>2. QED
      BY <1>2, <3>1, ScopeIsWithinReach
  <2>3. ASSUME NEW actor \in Registered, NEW header, NEW hosts, AskAccept(q, actor, header, hosts)
        PROVE  req'[q].actor \in Registered' /\ CanAccess(users'[req'[q].actor], req'[q].org)
    <3>1. \E o \in OneOrg(users[actor], header) : \E todo :
            req'[q] = [pc |-> "accept", actor |-> actor, org |-> o, todo |-> todo, made |-> <<>>]
      BY <1>1, <2>3 DEF AskAccept, Tables
    <3>3. PICK o \in OneOrg(users[actor], header) : req'[q].org = o /\ req'[q].actor = actor
      BY <3>1
    <3>2. QED
      BY <1>2, <3>3, ScopeIsWithinReach
  <2>4. QED
    BY <1>1, <1>3, <1>5, <2>1, <2>2, <2>3, BeganAs, OverIsOver DEF Began
<1>6. QED
  BY <1>1, <1>4, <1>5, RequestsBegin

LEMMA NextChangersMay == ASSUME IInv, [Next]_vars PROVE ChangersMay'
<1>1. TypeOK /\ Tables /\ ChangersMay /\ StoresNormal
  BY TypesAreTables DEF IInv
<1>2. \A e \in Registered : e \in Registered' /\ users'[e] = users[e]
  BY <1>1, AccountsStay
<1>3. SUFFICES ASSUME NEW q \in Requests, req'[q].pc \in {"edit", "delete"}
               PROVE  /\ req'[q].actor \in Registered' /\ req'[q].id \in Ids
                      /\ assets'[req'[q].id] # Unused
                      /\ req'[q].id \in Live' =>
                           CanAccess(users'[req'[q].actor], assets'[req'[q].id].org)
  BY DEF ChangersMay, CanAccess
<1>4. CASE req'[q] = req[q]
  <2> DEFINE i == req[q].id
  <2>1. /\ req[q].actor \in Registered /\ i \in Ids /\ assets[i] # Unused
        /\ i \in Live => CanAccess(users[req[q].actor], assets[i].org)
    BY <1>1, <1>3, <1>4 DEF ChangersMay
  <2>2. assets'[i] # Unused /\ (i \in Live' => i \in Live /\ assets'[i].org = assets[i].org)
    BY <1>1, <2>1, AssetsStay
  <2>3. QED
    BY <1>2, <1>4, <2>1, <2>2 DEF CanAccess
<1>5. CASE Began(q)
  <2>1. ASSUME NEW actor \in Registered, NEW header, NEW i, NEW h,
               AskDelete(q, actor, header, i) \/ AskEdit(q, actor, header, i, h)
        PROVE  /\ req'[q].actor \in Registered' /\ req'[q].id \in Ids
               /\ assets'[req'[q].id] # Unused
               /\ CanAccess(users'[req'[q].actor], assets'[req'[q].id].org)
    <3>1. /\ Found(actor, header, i) /\ UNCHANGED <<users, assets>>
          /\ req'[q].actor = actor /\ req'[q].id = i
      BY <1>1, <2>1 DEF AskDelete, AskEdit, Tables
    <3>2. i \in Live /\ CanAccess(users[actor], assets[i].org)
      BY <3>1, ScopeIsWithinReach DEF Found
    <3>3. QED
      BY <1>2, <3>1, <3>2 DEF Live
  <2>2. QED
    BY <1>1, <1>3, <1>5, <2>1, BeganAs, AcceptanceGoesOn, OverIsOver DEF Began
<1>6. QED
  BY <1>1, <1>4, <1>5, RequestsBegin

-----------------------------------------------------------------------------
\* Steps of an acceptance keep lists of hosts.
LEMMA AcceptedHosts ==
  ASSUME TypeOK, NEW q \in Requests, AcceptHost(q)
  PROVE  \E made \in Seq(Host) :
           /\ req'[q] = [req[q] EXCEPT !.todo = Tail(req[q].todo), !.made = made]
           /\ req'[q] \in [pc : {"accept"}, actor : Emails, org : Orgs, todo : Seq(Host), made : Seq(Host)]
           /\ req'[q].pc = "accept" /\ req'[q].org = req[q].org
           /\ req'[q].made = made /\ req'[q].todo \in Seq(Host)
           /\ \/ made = req[q].made
              \/ /\ made = Append(req[q].made, Head(req[q].todo))
                 /\ Head(req[q].todo) \in Host
                 /\ ~FindDuplicate(Head(req[q].todo),
                       Inventory(req[q].org) \cup {Validated(req[q].made[n]) : n \in DOMAIN req[q].made})
<1>1. Tables /\ req[q].pc = "accept" /\ req[q].todo # <<>>
  BY TypesAreTables DEF AcceptHost
<1>2. /\ req[q] \in [pc : {"accept"}, actor : Emails, org : Orgs, todo : Seq(Host), made : Seq(Host)]
      /\ req[q].todo \in Seq(Host) /\ req[q].made \in Seq(Host)
  BY <1>1, RequestFields
<1> DEFINE h == Head(req[q].todo)
           known == Inventory(req[q].org) \cup {Validated(req[q].made[n]) : n \in DOMAIN req[q].made}
           skipped == (h.ip = None /\ h.name = None) \/ FindDuplicate(h, known) \/ ~Accepted(h)
           made == IF skipped THEN req[q].made ELSE Append(req[q].made, h)
<1>3. h \in Host /\ Tail(req[q].todo) \in Seq(Host)
  BY <1>1, <1>2
<1>4. Append(req[q].made, h) \in Seq(Host)
  BY <1>2, <1>3
<1>5. made \in Seq(Host)
  BY <1>2, <1>4
<1>6. req' = [req EXCEPT ![q].todo = Tail(req[q].todo), ![q].made = made]
  BY DEF AcceptHost
<1>7. made = req[q].made \/ (made = Append(req[q].made, h) /\ h \in Host /\ ~FindDuplicate(h, known))
  BY <1>3
<1> HIDE DEF made, skipped
<1>8. req'[q] = [req[q] EXCEPT !.todo = Tail(req[q].todo), !.made = made]
  BY <1>1, <1>6 DEF Tables
<1>9. req'[q] = [pc |-> "accept", actor |-> req[q].actor, org |-> req[q].org,
                 todo |-> Tail(req[q].todo), made |-> made]
  BY <1>2, <1>8
<1>10. req[q].actor \in Emails /\ req[q].org \in Orgs
  BY <1>1, <1>2
<1>11. req'[q] \in [pc : {"accept"}, actor : Emails, org : Orgs, todo : Seq(Host), made : Seq(Host)]
  <2>1. ASSUME NEW A, NEW B, NEW C, NEW a \in A, NEW b \in B, NEW c \in C, NEW d \in C
        PROVE  [pc |-> "accept", actor |-> a, org |-> b, todo |-> c, made |-> d]
                 \in [pc : {"accept"}, actor : A, org : B, todo : C, made : C]
    OBVIOUS
  <2>2. [pc |-> "accept", actor |-> req[q].actor, org |-> req[q].org,
         todo |-> Tail(req[q].todo), made |-> made]
          \in [pc : {"accept"}, actor : Emails, org : Orgs, todo : Seq(Host), made : Seq(Host)]
    BY <1>3, <1>5, <1>10, <2>1
  <2>3. QED
    BY <1>9, <2>2
<1>12. /\ req'[q].pc = "accept" /\ req'[q].org = req[q].org
       /\ req'[q].made = made /\ req'[q].todo = Tail(req[q].todo)
  BY <1>9
<1>13. QED
  BY <1>3, <1>5, <1>7, <1>8, <1>11, <1>12

LEMMA CutHosts ==
  ASSUME NEW hosts \in Payloads PROVE SubSeq(hosts, 1, LookedAt(hosts)) \in Seq(Host)
<1>1. hosts \in Seq(Host) /\ Len(hosts) \in Nat
  BY InventoryAssumption
<1>2. LookedAt(hosts) \in 0 .. Len(hosts)
  BY <1>1, InventoryAssumption DEF LookedAt
<1>3. QED
  BY <1>1, <1>2

LEMMA NextStoresNormal == ASSUME IInv, [Next]_vars PROVE StoresNormal'
<1>1. TypeOK /\ Tables /\ StoresNormal
  BY TypesAreTables DEF IInv
<1> DEFINE Kept(q) ==
             /\ req'[q].pc = "create" => req'[q].host \in NormalHost
             /\ req'[q].pc = "edit" => req'[q].host \in NormalHost /\ req'[q].old \in NormalHost
             /\ req'[q].pc = "accept" => req'[q].todo \in Seq(Host) /\ req'[q].made \in Seq(Host)
<1>2. ASSUME NEW q \in Requests PROVE Kept(q)
  <2>1. CASE req'[q] = req[q]
    BY <1>1, <2>1 DEF StoresNormal
  <2>2. CASE Over(req'[q])
    BY <2>2, OverIsOver
  <2>3. CASE AcceptHost(q)
    BY <1>1, <2>3, AcceptedHosts
  <2>4. ASSUME NEW actor, NEW header, NEW h \in Hosts, AskCreate(q, actor, header, h) PROVE Kept(q)
    BY <1>1, <2>4, InventoryAssumption, ValidatedIsNormal DEF AskCreate, Tables
  <2>5. ASSUME NEW actor, NEW header, NEW i, NEW h \in Hosts, AskEdit(q, actor, header, i, h) PROVE Kept(q)
    <3>1. i \in Live /\ assets[i].host \in NormalHost
      BY <1>1, <2>5 DEF AskEdit, Found, StoresNormal
    <3>2. Validated(h) \in NormalHost
      BY InventoryAssumption, ValidatedIsNormal
    <3>3. QED
      BY <1>1, <2>5, <3>1, <3>2 DEF AskEdit, Tables
  <2>6. ASSUME NEW actor, NEW header, NEW hosts \in Payloads, AskAccept(q, actor, header, hosts) PROVE Kept(q)
    <3>1. SubSeq(hosts, 1, LookedAt(hosts)) \in Seq(Host) /\ <<>> \in Seq(Host)
      BY CutHosts
    <3>2. req'[q].todo = SubSeq(hosts, 1, LookedAt(hosts)) /\ req'[q].made = <<>> /\ req'[q].pc = "accept"
      BY <1>1, <2>6 DEF AskAccept, Tables
    <3>3. QED
      BY <3>1, <3>2
  <2>7. ASSUME NEW actor, NEW email, NEW role, NEW org, NEW header, NEW i,
               AskRegister(q, actor, email, role, org) \/ AskDelete(q, actor, header, i)
        PROVE  Kept(q)
    BY <1>1, <2>7, BeganAs
  <2>8. QED
    BY <1>1, <2>1, <2>2, <2>3, <2>4, <2>5, <2>6, <2>7, RequestsBegin DEF Began
<1>3. ASSUME NEW i \in Live' PROVE assets'[i].host \in NormalHost
  <2>0. i \in Ids /\ assets'[i] # Gone
    BY DEF Live
  <2>1. CASE assets'[i] = assets[i]
    BY <1>1, <2>1 DEF Live, StoresNormal
  <2>2. ASSUME NEW r \in Requests, CommitCreate(r), assets'[i] # assets[i] PROVE assets'[i].host \in NormalHost
    <3>1. <<req[r].host>> \in Seq(NormalHost)
      BY <1>1, <2>2 DEF CommitCreate, StoresNormal
    <3>2. QED
      BY <2>0, <2>2, <3>1, InsertRows DEF CommitCreate
  <2>3. ASSUME NEW r \in Requests, CommitAccept(r), assets'[i] # assets[i] PROVE assets'[i].host \in NormalHost
    <3>1. Stored(req[r].made) \in Seq(NormalHost)
      BY <1>1, <2>3, StoredIsNormal DEF CommitAccept, StoresNormal
    <3>2. QED
      BY <2>0, <2>3, <3>1, InsertRows DEF CommitAccept
  <2>4. ASSUME NEW r \in Requests, CommitEdit(r), assets'[i] # assets[i] PROVE assets'[i].host \in NormalHost
    <3>1. i = req[r].id /\ i \in Live
      BY <1>1, <2>0, <2>4 DEF CommitEdit, Tables
    <3>2. assets[i] \in Asset /\ assets[i].host \in NormalHost
      BY <1>1, <3>1 DEF TypeOK, Live, StoresNormal
    <3>3. req[r].host \in NormalHost /\ req[r].old \in NormalHost
      BY <1>1, <2>4 DEF CommitEdit, StoresNormal
    <3>4. \E h \in NormalHost : assets'[i] = [assets[i] EXCEPT !.host = h]
      BY <1>1, <2>0, <2>4, <3>1, <3>2, <3>3 DEF CommitEdit, Tables, NormalHost, Host
    <3>5. QED
      BY <3>2, <3>4 DEF Asset
  <2>5. ASSUME NEW r \in Requests, CommitDelete(r), assets'[i] # assets[i] PROVE FALSE
    BY <1>1, <2>0, <2>5 DEF CommitDelete, Tables
  <2>6. QED
    BY <1>1, <2>1, <2>2, <2>3, <2>4, <2>5, AssetsChange DEF Writes
<1>4. QED
  BY <1>2, <1>3 DEF StoresNormal

-----------------------------------------------------------------------------
RequestType == {New, Done} \cup AccountRequest \cup AssetRequest

LEMMA OneOrgIsOrg ==
  ASSUME TypeOK, NEW actor \in Registered, NEW header \in Orgs \cup {None}
  PROVE  OneOrg(users[actor], header) \subseteq Orgs
<1>1. users[actor] \in Account
  BY DEF TypeOK, AccountsTypeOK, Registered
<1>2. users[actor].org \in Orgs \cup {None}
  BY <1>1 DEF Account
<1>3. QED
  BY <1>2 DEF OneOrg, Scope

\* Every step leaves requests that are requests.
LEMMA NextRequests ==
  ASSUME IInv, [Next]_vars, NEW q \in Requests PROVE req'[q] \in RequestType
<1>1. TypeOK /\ Tables /\ StoresNormal /\ req[q] \in RequestType
  BY TypesAreTables DEF IInv, TypeOK, RequestType
<1>2. CASE Over(req'[q])
  BY <1>2 DEF Over, OrgRequest, RequestType, AccountRequest
<1>3. CASE AcceptHost(q)
  BY <1>1, <1>3, AcceptedHosts DEF RequestType, AssetRequest
<1>4. ASSUME NEW actor \in Registered, NEW header \in Orgs \cup {None}, NEW h \in Hosts,
             AskCreate(q, actor, header, h)
      PROVE  req'[q] \in RequestType
  <2>1. Validated(h) \in Host
    BY InventoryAssumption, ValidatedIsNormal DEF NormalHost
  <2>2. PICK o \in OneOrg(users[actor], header) :
          req'[q] = [pc |-> "create", actor |-> actor, org |-> o, host |-> Validated(h)]
    BY <1>1, <1>4 DEF AskCreate, Tables
  <2>3. o \in Orgs
    BY <1>1, <1>4, <2>2, OneOrgIsOrg
  <2>4. QED
    BY <2>1, <2>2, <2>3 DEF RequestType, AssetRequest, Registered
<1>5. ASSUME NEW actor \in Registered, NEW header, NEW i \in Ids, AskDelete(q, actor, header, i)
      PROVE  req'[q] \in RequestType
  BY <1>1, <1>5 DEF AskDelete, Tables, RequestType, AssetRequest, Registered
<1>6. ASSUME NEW actor \in Registered, NEW header, NEW i \in Ids, NEW h \in Hosts,
             AskEdit(q, actor, header, i, h)
      PROVE  req'[q] \in RequestType
  <2>1. assets[i].host \in Host /\ Validated(h) \in Host
    BY <1>1, <1>6, InventoryAssumption, ValidatedIsNormal DEF AskEdit, Found, StoresNormal, NormalHost
  <2>2. req'[q] = [pc |-> "edit", actor |-> actor, id |-> i, old |-> assets[i].host, host |-> Validated(h)]
    BY <1>1, <1>6 DEF AskEdit, Tables
  <2>3. QED
    BY <2>1, <2>2 DEF RequestType, AssetRequest, Registered
<1>7. ASSUME NEW actor \in Registered, NEW header \in Orgs \cup {None}, NEW hosts \in Payloads,
             AskAccept(q, actor, header, hosts)
      PROVE  req'[q] \in RequestType
  <2>1. PICK o \in OneOrg(users[actor], header) :
          req'[q] = [pc |-> "accept", actor |-> actor, org |-> o,
                     todo |-> SubSeq(hosts, 1, LookedAt(hosts)), made |-> <<>>]
    BY <1>1, <1>7 DEF AskAccept, Tables
  <2>2. o \in Orgs
    BY <1>1, <2>1, OneOrgIsOrg
  <2>3. SubSeq(hosts, 1, LookedAt(hosts)) \in Seq(Host) /\ <<>> \in Seq(Host) /\ actor \in Emails
    BY CutHosts DEF Registered
  <2>4. ASSUME NEW A, NEW B, NEW C, NEW a \in A, NEW b \in B, NEW c \in C, NEW d \in C
        PROVE  [pc |-> "accept", actor |-> a, org |-> b, todo |-> c, made |-> d]
                 \in [pc : {"accept"}, actor : A, org : B, todo : C, made : C]
    OBVIOUS
  <2>5. req'[q] \in [pc : {"accept"}, actor : Emails, org : Orgs, todo : Seq(Host), made : Seq(Host)]
    BY <2>1, <2>2, <2>3, <2>4
  <2>6. QED
    BY <2>5 DEF RequestType, AssetRequest
<1>8. ASSUME NEW actor, NEW email \in Emails, NEW role, NEW org, AskRegister(q, actor, email, role, org)
      PROVE  req'[q] \in RequestType
  <2>1. \E new \in Account, newOrg \in BOOLEAN :
          req'[q] = [pc |-> "register", email |-> email, account |-> new, newOrg |-> newOrg]
    BY <1>1, <1>8 DEF AskRegister, Tables
  <2>2. QED
    BY <2>1 DEF RequestType, AccountRequest
<1>9. QED
  BY <1>1, <1>2, <1>3, <1>4, <1>5, <1>6, <1>7, <1>8, RequestsBegin DEF Began

\* What changes under an acceptance that goes on is noted.
LEMMA SinceGrows ==
  ASSUME TypeOK, [Next]_vars
  PROVE  /\ since' \in [Requests -> SUBSET Ids]
         /\ \A q \in Requests : since[q] \subseteq since'[q]
         /\ \A q \in Requests : req[q].pc = "accept" /\ req'[q].pc = "accept" =>
              \A i \in Ids : assets'[i] # assets[i] => i \in since'[q]
<1>1. Tables /\ since \in [Requests -> SUBSET Ids]
  BY TypesAreTables DEF TypeOK
<1>2. CASE assets' = assets /\ since' = since
  BY <1>1, <1>2
<1>3. ASSUME NEW r \in Requests, Witnessed(r), req'[r] = Done
      PROVE  /\ since' \in [Requests -> SUBSET Ids]
             /\ \A q \in Requests : since[q] \subseteq since'[q]
             /\ \A q \in Requests : req[q].pc = "accept" /\ req'[q].pc = "accept" =>
                  \A i \in Ids : assets'[i] # assets[i] => i \in since'[q]
  <2>1. req'[r].pc # "accept"
    BY <1>3 DEF Done
  <2>2. QED
    BY <1>1, <1>3, <2>1 DEF Witnessed
<1>4. ASSUME NEW r \in Requests, AssetStep(r)
      PROVE  (assets' = assets /\ since' = since) \/ (Witnessed(r) /\ req'[r] = Done)
  BY <1>1, <1>4 DEF AssetStep, AskCreate, AskDelete, AskEdit, AskAccept, CommitCreate,
     CommitEdit, CommitDelete, AcceptHost, CommitAccept, Tables
<1>5. QED
  BY <1>2, <1>3, <1>4, NextSteps DEF vars

\* FindDuplicate compares with one host at a time.
LEMMA DuplicateOfOne ==
  ASSUME NEW h, NEW S, NEW a \in S, ~FindDuplicate(h, S) PROVE ~FindDuplicate(h, {a})
BY DEF FindDuplicate

\* What was looked up stays true of the assets nobody changes.
LEMMA NextLookedUp == ASSUME IInv, [Next]_vars PROVE LookedUp'
<1>1. TypeOK /\ Tables /\ StoresNormal /\ LookedUp
  BY TypesAreTables DEF IInv
<1>2. ASSUME NEW q \in Requests, req[q].pc = "accept" PROVE Apart(req[q].made, req[q].org, Live \ since[q], assets)
  BY <1>1, <1>2 DEF LookedUp
<1>3. SUFFICES ASSUME NEW q \in Requests, req'[q].pc = "accept"
               PROVE  Apart(req'[q].made, req'[q].org, Live' \ since'[q], assets')
  BY DEF LookedUp
<1>4. CASE req'[q] = req[q]
  <2>1. \A i \in Live' \ since'[q] : i \in Live \ since[q] /\ assets'[i] = assets[i]
    BY <1>1, <1>3, <1>4, SinceGrows DEF Live
  <2>2. Apart(req[q].made, req[q].org, Live \ since[q], assets)
    BY <1>2, <1>3, <1>4
  <2>3. QED
    BY <1>4, <2>1, <2>2 DEF Apart
<1>5. CASE AcceptHost(q)
  <2>1. PICK made \in Seq(Host) :
          /\ req'[q].made = made /\ req'[q].org = req[q].org
          /\ \/ made = req[q].made
             \/ /\ made = Append(req[q].made, Head(req[q].todo))
                /\ Head(req[q].todo) \in Host
                /\ ~FindDuplicate(Head(req[q].todo),
                      Inventory(req[q].org) \cup {Validated(req[q].made[n]) : n \in DOMAIN req[q].made})
    BY <1>1, <1>5, AcceptedHosts
  <2>2. UNCHANGED <<assets, since>> /\ req[q].pc = "accept" /\ req[q].made \in Seq(Host)
    BY <1>1, <1>5 DEF AcceptHost, StoresNormal
  <2>3. Apart(req[q].made, req[q].org, Live \ since[q], assets)
    BY <1>2, <2>2
  <2>4. Apart(made, req[q].org, Live \ since[q], assets)
    <3>1. CASE made = req[q].made
      BY <2>3, <3>1
    <3>2. CASE made # req[q].made
      <4> DEFINE old == req[q].made
                 h == Head(req[q].todo)
                 known == Inventory(req[q].org) \cup {Validated(old[n]) : n \in DOMAIN old}
      <4>1. made = Append(old, h) /\ h \in Host /\ ~FindDuplicate(h, known) /\ old \in Seq(Host)
        BY <2>1, <2>2, <3>2
      <4>2. \A i \in Live : assets[i].org = req[q].org => assets[i].host \in known
        BY DEF Inventory
      <4>3. \A m \in DOMAIN old : Validated(old[m]) \in known
        OBVIOUS
      <4>4. DOMAIN old = 1 .. Len(old) /\ DOMAIN made = 1 .. Len(old) + 1
            /\ made[Len(old) + 1] = h /\ (\A n \in DOMAIN old : made[n] = old[n]) /\ Len(old) \in Nat
        BY <4>1
      <4>5. \A i \in Live \ since[q] : assets[i].org = req[q].org => ~FindDuplicate(h, {assets[i].host})
        BY <4>1, <4>2, DuplicateOfOne
      <4>6. \A m \in DOMAIN old : ~FindDuplicate(h, {Validated(old[m])})
        BY <4>1, <4>3, DuplicateOfOne
      <4> HIDE DEF old, h, known
      <4>7. Apart(old, req[q].org, Live \ since[q], assets)
        BY <2>3 DEF old
      <4>8. ASSUME NEW n \in DOMAIN made, InStoredForm(made[n])
            PROVE  /\ \A i \in Live \ since[q] : assets[i].org = req[q].org => ~FindDuplicate(made[n], {assets[i].host})
                   /\ \A m \in 1 .. n - 1 : ~FindDuplicate(made[n], {Validated(made[m])})
        <5>1. CASE n \in DOMAIN old
          <6>1. made[n] = old[n] /\ \A m \in 1 .. n - 1 : made[m] = old[m]
            BY <4>4, <5>1
          <6>2. QED
            BY <4>7, <4>8, <5>1, <6>1 DEF Apart
        <5>2. CASE n \notin DOMAIN old
          <6>1. n = Len(old) + 1 /\ made[n] = h
            BY <4>4, <5>2
          <6>2. \A m \in 1 .. n - 1 : m \in DOMAIN old /\ made[m] = old[m]
            BY <4>4, <6>1
          <6>3. QED
            BY <4>5, <4>6, <6>1, <6>2
        <5>3. QED
          BY <5>1, <5>2
      <4>9. QED
        BY <4>8 DEF Apart
    <3>3. QED
      BY <3>1, <3>2
  <2>5. Live' = Live
    BY <2>2 DEF Live
  <2>6. QED
    BY <2>1, <2>2, <2>4, <2>5 DEF Apart
<1>6. ASSUME NEW actor, NEW header, NEW hosts, AskAccept(q, actor, header, hosts)
      PROVE  Apart(req'[q].made, req'[q].org, Live' \ since'[q], assets')
  <2>1. req'[q].made = <<>>
    BY <1>1, <1>6 DEF AskAccept, Tables
  <2>2. QED
    BY <2>1 DEF Apart
<1>7. QED
  BY <1>1, <1>3, <1>4, <1>5, <1>6, RequestsBegin, BeganAs, OverIsOver DEF Began

LEMMA NextTypeOK == ASSUME IInv, [Next]_vars PROVE TypeOK'
<1>1. TypeOK /\ Tables /\ StoresNormal /\ GrantsAreChecked
  BY TypesAreTables DEF IInv
<1>2. (users \in [Emails -> Account \cup {NoUser}])' /\ \A e \in Registered' : Placed(users'[e])
  <2>1. CASE users' = users
    BY <1>1, <2>1 DEF TypeOK, AccountsTypeOK, Registered
  <2>2. ASSUME NEW r \in Requests, CommitRegister(r)
        PROVE  (users \in [Emails -> Account \cup {NoUser}])' /\ \A e \in Registered' : Placed(users'[e])
    <3>1. req[r].account \in Account /\ Placed(req[r].account)
      BY <1>1, <2>2, RequestFields DEF CommitRegister, GrantsAreChecked
    <3>2. QED
      BY <1>1, <2>2, <3>1 DEF CommitRegister, TypeOK, AccountsTypeOK, Registered
  <2>3. QED
    BY <1>1, <2>1, <2>2, NewAccounts
<1>3. (orgs \in [Orgs -> {"absent", "active", "inactive"}])'
  <2>1. ASSUME NEW r \in Requests, CommitRegister(r) \/ CommitCreateOrg(r)
        PROVE  (orgs \in [Orgs -> {"absent", "active", "inactive"}])'
    BY <1>1, <2>1 DEF CommitRegister, CommitCreateOrg, TypeOK, AccountsTypeOK
  <2>2. ASSUME NEW r \in Requests, CommitUpdateOrg(r)
        PROVE  (orgs \in [Orgs -> {"absent", "active", "inactive"}])'
    BY <1>1, <2>2, RequestFields DEF CommitUpdateOrg, TypeOK, AccountsTypeOK
  <2>3. CASE orgs' = orgs
    BY <1>1, <2>3 DEF TypeOK, AccountsTypeOK
  <2>4. ASSUME NEW r \in Requests, AssetStep(r) PROVE orgs' = orgs
    BY <2>4 DEF AssetStep, AskCreate, AskDelete, AskEdit, AskAccept, CommitCreate, CommitEdit,
       CommitDelete, AcceptHost, CommitAccept
  <2>5. ASSUME AccountsNext
        PROVE  orgs' = orgs \/ \E r \in Requests : CommitRegister(r) \/ CommitCreateOrg(r) \/ CommitUpdateOrg(r)
    BY <2>5 DEF AccountsNext, AskRegister, AskCreateOrg, AskUpdateOrg, Rollback
  <2>6. QED
    BY <2>1, <2>2, <2>3, <2>4, <2>5, NextSteps DEF vars
<1>4. (assets \in [Ids -> Asset \cup {Unused, Gone}])'
  <2>1. ASSUME NEW org \in Orgs, NEW by \in Emails, NEW hosts \in Seq(Host), Insert(org, by, hosts)
        PROVE  (assets \in [Ids -> Asset \cup {Unused, Gone}])'
    <3>1. assets' = [i \in Ids |-> assets'[i]]
      BY <2>1 DEF Insert
    <3>2. ASSUME NEW i \in Ids PROVE assets'[i] \in Asset \cup {Unused, Gone}
      <4>1. CASE assets'[i] = assets[i]
        BY <1>1, <4>1 DEF TypeOK
      <4>2. CASE assets'[i] # assets[i]
        <5>1. assets'[i] \in [org : {org}, host : Host, by : {by}]
          BY <2>1, <4>2, InsertRows
        <5>2. QED
          BY <5>1 DEF Asset
      <4>3. QED
        BY <4>1, <4>2
    <3>3. QED
      BY <3>1, <3>2
  <2>2. ASSUME NEW r \in Requests, CommitCreate(r) PROVE (assets \in [Ids -> Asset \cup {Unused, Gone}])'
    <3>1. /\ req[r].org \in Orgs /\ req[r].actor \in Emails /\ <<req[r].host>> \in Seq(Host)
          /\ Insert(req[r].org, req[r].actor, <<req[r].host>>)
      BY <1>1, <2>2, RequestFields DEF CommitCreate
    <3>2. QED
      BY <2>1, <3>1
  <2>3. ASSUME NEW r \in Requests, CommitAccept(r) PROVE (assets \in [Ids -> Asset \cup {Unused, Gone}])'
    <3>1. /\ req[r].org \in Orgs /\ req[r].actor \in Emails /\ req[r].made \in Seq(Host)
          /\ Insert(req[r].org, req[r].actor, Stored(req[r].made))
      BY <1>1, <2>3, RequestFields DEF CommitAccept
    <3>2. Stored(req[r].made) \in Seq(NormalHost) /\ NormalHost \subseteq Host
      BY <3>1, StoredIsNormal DEF NormalHost
    <3>3. Stored(req[r].made) \in Seq(Host)
      BY <3>2
    <3>4. QED
      BY <2>1, <3>1, <3>3
  <2>4. ASSUME NEW r \in Requests, CommitEdit(r), req[r].id \in Live
        PROVE  (assets \in [Ids -> Asset \cup {Unused, Gone}])'
    <3>1. req[r].id \in Ids /\ assets[req[r].id] \in Asset
      BY <1>1, <2>4 DEF TypeOK, Live
    <3>2. req[r].host \in Host /\ req[r].old \in Host
      BY <1>1, <2>4, RequestFields DEF CommitEdit
    <3>3. \E h \in Host : assets' = [assets EXCEPT ![req[r].id].host = h]
      BY <2>4, <3>1, <3>2 DEF CommitEdit, Host, Asset
    <3>4. QED
      BY <1>1, <3>1, <3>3 DEF TypeOK, Asset
  <2>5. ASSUME NEW r \in Requests, CommitDelete(r) PROVE (assets \in [Ids -> Asset \cup {Unused, Gone}])'
    BY <1>1, <2>5 DEF CommitDelete, TypeOK
  <2>6. CASE assets' = assets
    BY <1>1, <2>6 DEF TypeOK
  <2>7. ASSUME NEW r \in Requests, CommitEdit(r), req[r].id \notin Live PROVE assets' = assets
    BY <2>7 DEF CommitEdit
  <2>8. QED
    BY <1>1, <2>2, <2>3, <2>4, <2>5, <2>6, <2>7, AssetsChange DEF Writes
<1>5. (req \in [Requests -> RequestType])'
  <2>1. req' = [q \in Requests |-> req'[q]]
    BY <1>1, RequestsStayTable
  <2>2. QED
    BY <2>1, NextRequests
<1>6. (since \in [Requests -> SUBSET Ids])'
  BY <1>1, SinceGrows DEF TypeOK, Tables
<1>7. QED
  BY <1>2, <1>3, <1>4, <1>5, <1>6 DEF TypeOK, AccountsTypeOK, RequestType

-----------------------------------------------------------------------------
LEMMA InitIInv == Init => IInv
<1> SUFFICES ASSUME Init PROVE IInv
  OBVIOUS
<1>1. Registered = {} /\ Live = {} /\ \A r \in Requests : req[r] = New
  BY DEF Init, AccountsInit, Registered, Live
<1>2. \A r \in Requests : req[r].pc \notin {"register", "create", "edit", "delete", "accept"}
  BY <1>1 DEF New
<1>3. TypeOK
  BY <1>1, AccountsAssumption DEF TypeOK, AccountsTypeOK, Init, AccountsInit
<1>4. QED
  BY <1>1, <1>2, <1>3 DEF IInv, GrantsAreChecked, AccountsAreGranted, MakersMay, ChangersMay, StoresNormal, LookedUp, Apart

LEMMA NextIInv == ASSUME IInv, [Next]_vars PROVE IInv'
BY NextTypeOK, NextGrants, NextMakersMay, NextChangersMay, NextStoresNormal, NextLookedUp DEF IInv

LEMMA SpecIInv == Spec => []IInv
BY InitIInv, NextIInv, PTL DEF Spec

-----------------------------------------------------------------------------
\* The tables and the requests always have their types; every account of a
\* tenant has an organization (AuthService.register).
THEOREM TypeCorrect == Spec => []TypeOK
<1>1. IInv => TypeOK
  BY DEF IInv
<1>2. QED
  BY <1>1, SpecIInv, PTL

\* Every account was granted by somebody entitled to grant it, whatever
\* registrations overlap (AuthService.register).
THEOREM GrantsHold == Spec => []AccountsAreGranted
<1>1. IInv => AccountsAreGranted
  BY DEF IInv
<1>2. QED
  BY <1>1, SpecIInv, PTL

\* The step of TenantsStayApart.
LEMMA ApartStep ==
  ASSUME IInv, [Next]_vars, NEW i \in Ids, assets'[i] # assets[i]
  PROVE  \E r \in Requests :
           /\ req'[r] = Done /\ req[r].pc \in {"create", "edit", "delete", "accept"}
           /\ CanAccess(users[req[r].actor], IF i \in Live THEN assets[i].org ELSE assets'[i].org)
<1>1. TypeOK /\ Tables /\ MakersMay /\ ChangersMay /\ StoresNormal
  BY TypesAreTables DEF IInv
<1>2. PICK r \in Requests : Writes(r) /\ req'[r] = Done
  BY <1>1, AssetsChange
<1>3. CASE CommitCreate(r)
  <2>0. <<req[r].host>> \in Seq(NormalHost) /\ Insert(req[r].org, req[r].actor, <<req[r].host>>)
    BY <1>1, <1>3 DEF CommitCreate, StoresNormal
  <2>1. PICK hosts \in Seq(NormalHost) : Insert(req[r].org, req[r].actor, hosts)
    BY <2>0, Zenon
  <2>2. assets[i] = Unused /\ assets'[i].org = req[r].org
    BY <2>1, InsertRows
  <2>3. req[r].pc = "create" /\ CanAccess(users[req[r].actor], req[r].org)
    BY <1>1, <1>3 DEF CommitCreate, MakersMay
  <2>4. QED
    BY <1>2, <2>2, <2>3 DEF Live
<1>4. CASE CommitAccept(r)
  <2>1. assets[i] = Unused /\ assets'[i].org = req[r].org
    <3>1. Stored(req[r].made) \in Seq(NormalHost) /\ Insert(req[r].org, req[r].actor, Stored(req[r].made))
      BY <1>1, <1>4, StoredIsNormal DEF CommitAccept, StoresNormal
    <3>2. QED
      BY <3>1, InsertRows
  <2>2. req[r].pc = "accept" /\ CanAccess(users[req[r].actor], req[r].org)
    BY <1>1, <1>4 DEF CommitAccept, MakersMay
  <2>3. QED
    BY <1>2, <2>1, <2>2 DEF Live
<1>5. CASE CommitEdit(r)
  <2>1. i = req[r].id /\ i \in Live /\ req[r].pc = "edit"
    BY <1>1, <1>5 DEF CommitEdit, Tables
  <2>2. QED
    BY <1>1, <1>2, <2>1 DEF ChangersMay
<1>6. CASE CommitDelete(r)
  <2>1. i = req[r].id /\ req[r].pc = "delete" /\ assets'[i] = Gone
    BY <1>1, <1>6 DEF CommitDelete, Tables
  <2>2. assets[i] # Unused
    BY <1>1, <2>1 DEF ChangersMay
  <2>3. i \in Live
    BY <2>1, <2>2 DEF Live
  <2>4. QED
    BY <1>1, <1>2, <2>1, <2>3 DEF ChangersMay
<1>7. QED
  BY <1>2, <1>3, <1>4, <1>5, <1>6 DEF Writes

\* Whatever accounts are granted and however requests overlap, an asset is
\* made, edited or deleted only by an account of its organization or by a
\* super admin (resolve_tenant_context, _get_or_raise, require_organization_id).
THEOREM TenantsApart == Spec => TenantsStayApart
<1>1. IInv /\ [Next]_vars =>
        [\A i \in Ids : assets'[i] # assets[i] =>
           \E r \in Requests :
             /\ req'[r] = Done /\ req[r].pc \in {"create", "edit", "delete", "accept"}
             /\ CanAccess(users[req[r].actor], IF i \in Live THEN assets[i].org ELSE assets'[i].org)]_vars
  BY ApartStep
<1>2. QED
  BY <1>1, SpecIInv, PTL DEF Spec, TenantsStayApart

\* An acceptance adds, once, what the list of discovered hosts shows as new,
\* whatever part of the inventory is loaded for it; only a name in another form
\* than the stored one, or a change that overlaps, makes a second asset for a
\* host (accept_hosts, _find_duplicate, _match_asset).
THEOREM NewAreAccepted == Spec => []AcceptedAreNew
<1>1. ASSUME IInv, NEW r \in Requests, req[r].pc = "accept", NEW n \in DOMAIN req[r].made,
             InStoredForm(req[r].made[n]), NEW part \in Loadable(req[r].org)
      PROVE  ~MatchAsset(req[r].made[n], {assets[i].host : i \in part \ since[r]})
  <2> DEFINE h == req[r].made[n]
  <2>1. StoresNormal /\ LookedUp /\ h \in Host
    BY <1>1 DEF IInv, StoresNormal
  <2>2. SUFFICES ASSUME NEW i \in part \ since[r], MatchAsset(h, {assets[i].host}) PROVE FALSE
    BY DEF MatchAsset
  <2>3. i \in Live \ since[r] /\ assets[i].org = req[r].org
    BY <2>2 DEF Loadable
  <2>4. ~FindDuplicate(h, {assets[i].host})
    BY <1>1, <2>1, <2>3 DEF LookedUp, Apart
  <2>5. assets[i].host \in Host /\ (assets[i].host.name # None => Normal[assets[i].host.name] = assets[i].host.name)
    BY <2>1, <2>3 DEF StoresNormal, NormalHost
  <2>6. \A x \in Names : Normal[x] = x => Lower[x] = x
    BY InventoryAssumption
  <2>7. h.name # None => h.name \in Names /\ Lower[h.name] = h.name
    BY <1>1, <2>1, <2>6 DEF InStoredForm, Host
  <2>8. assets[i].host.name # None => Lower[assets[i].host.name] = assets[i].host.name
    BY <2>5, <2>6 DEF Host
  <2> HIDE DEF h
  <2>9. QED
    BY <2>2, <2>4, <2>7, <2>8 DEF MatchAsset, FindDuplicate
<1>2. ASSUME IInv PROVE AcceptedAreNew
  <2>1. LookedUp
    BY <1>2 DEF IInv
  <2>2. QED
    BY <1>1, <1>2, <2>1 DEF AcceptedAreNew, LookedUp, Apart
<1>3. QED
  BY <1>2, SpecIInv, PTL
=============================================================================
