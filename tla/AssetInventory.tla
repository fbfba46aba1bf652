--------------------------- MODULE AssetInventory ---------------------------
(***************************************************************************)
(* The assets of the tenants: created, edited and deleted by hand          *)
(* (AssetService), or accepted from the hosts an nmap scan discovered      *)
(* (ScanDiscoveryService), while accounts and organizations change.        *)
(*                                                                         *)
(* A host name is kept in the form the AssetCreate and AssetUpdate         *)
(* validators give it (lower case, no trailing dot), but looked up in the  *)
(* form it was sent in; the list of discovered hosts ignores its case.     *)
(***************************************************************************)
EXTENDS Accounts, Sequences, FiniteSets

CONSTANTS
  Ids,          \* bound: primary keys of the assets table
  Ips, Names,   \* addresses, and host names as people and scanners write them
  BadIps,       \* those that are no addresses
  Normal,       \* Normal[n]: the name the validators store for n
  Lower,        \* Lower[n]: n in lower case
  ScannedOrgs,  \* organizations with a finished nmap scan
  Hosts,        \* bound: the hosts a request may name
  Payloads,     \* bound: the host lists an acceptance may send
  AcceptLimit,  \* how many hosts an acceptance looks at (100)
  ViewLimit     \* how many assets the list of discovered hosts loads (2000)

Host == [ip : Ips \cup {None}, name : Names \cup {None}]

ASSUME InventoryAssumption ==
  /\ Normal \in [Names -> Names]
  /\ \A n \in Names : Normal[Normal[n]] = Normal[n]
  /\ Lower \in [Names -> Names]
  /\ \A n \in Names : Lower[Normal[n]] = Normal[n]
  /\ BadIps \subseteq Ips
  /\ None \notin Ips \cup Names \cup {"gone"}
  /\ ScannedOrgs \subseteq Orgs
  /\ Hosts \subseteq Host /\ Payloads \subseteq Seq(Hosts)
  /\ AcceptLimit \in Nat /\ ViewLimit \in Nat

VARIABLES
  assets,  \* the assets table
  since    \* since[r]: what has changed while acceptance r was under way (history)

vars == <<users, orgs, req, assets, since>>

Asset == [org : Orgs, host : Host, by : Emails]  \* by: created_by_id
Unused == [org |-> None]
Gone == [org |-> "gone"]  \* deleted; a primary key is not used again

Live == {i \in Ids : assets[i] \notin {Unused, Gone}}

AssetRequest ==
  [pc : {"create"}, actor : Emails, org : Orgs, host : Host]
  \cup [pc : {"edit"}, actor : Emails, id : Ids, old : Host, host : Host]
  \cup [pc : {"delete"}, actor : Emails, id : Ids]
  \* made: the hosts to be added, as they were sent
  \cup [pc : {"accept"}, actor : Emails, org : Orgs, todo : Seq(Host), made : Seq(Host)]

TypeOK ==
  /\ AccountsTypeOK
  /\ assets \in [Ids -> Asset \cup {Unused, Gone}]
  /\ req \in [Requests -> {New, Done} \cup AccountRequest \cup AssetRequest]
  /\ since \in [Requests -> SUBSET Ids]

-----------------------------------------------------------------------------
(* What the schemas make of a payload. *)

\* AssetCreate, AssetUpdate: _normalize_domain_like
Validated(h) == [h EXCEPT !.name = IF @ = None THEN None ELSE Normal[@]]
Stored(hosts) == [n \in 1 .. Len(hosts) |-> Validated(hosts[n])]
Accepted(h) == h.ip \notin BadIps

Witnessed(r) ==
  since' = [q \in Requests |-> since[q] \cup (IF q # r /\ req[q].pc = "accept"
                                              THEN {i \in Ids : assets'[i] # assets[i]} ELSE {})]

-----------------------------------------------------------------------------
(* By hand. *)

AskCreate(r, actor, header, h) ==
  /\ Arrives(r)
  /\ Permitted(users[actor], TestersUp)
  /\ h.ip # None \/ h.name # None
  /\ Accepted(h)
  /\ \E o \in OneOrg(users[actor], header) :
       /\ orgs[o] # "absent"
       /\ req' = [req EXCEPT ![r] = [pc |-> "create", actor |-> actor, org |-> o,
                                     host |-> Validated(h)]]
  /\ UNCHANGED <<users, orgs, assets, since>>

\* _get_or_raise: the asset, if it is one of the scope's.
Found(actor, header, i) ==
  /\ i \in Live
  /\ \E s \in Scope(users[actor], header) : Visible(s, assets[i].org)

AskEdit(r, actor, header, i, h) ==
  /\ Arrives(r)
  /\ Permitted(users[actor], TestersUp)
  /\ Found(actor, header, i) /\ Accepted(h)
  /\ req' = [req EXCEPT ![r] = [pc |-> "edit", actor |-> actor, id |-> i,
                                old |-> assets[i].host, host |-> Validated(h)]]
  /\ UNCHANGED <<users, orgs, assets, since>>

AskDelete(r, actor, header, i) ==
  /\ Arrives(r)
  /\ Permitted(users[actor], TestersUp)
  /\ Found(actor, header, i)
  /\ req' = [req EXCEPT ![r] = [pc |-> "delete", actor |-> actor, id |-> i]]
  /\ UNCHANGED <<users, orgs, assets, since>>

\* The next primary keys, one for each row of the session.
Insert(org, by, hosts) ==
  \E at \in [1 .. Len(hosts) -> {i \in Ids : assets[i] = Unused}] :
    /\ \A m, n \in DOMAIN at : m < n => at[m] < at[n]
    /\ \A i \in Ids : (assets[i] = Unused /\ \E n \in DOMAIN at : i < at[n]) => \E n \in DOMAIN at : at[n] = i
    /\ assets' = [i \in Ids |-> IF \E n \in DOMAIN at : at[n] = i
                                THEN [org |-> org, by |-> by,
                                      host |-> hosts[CHOOSE n \in DOMAIN at : at[n] = i]]
                                ELSE assets[i]]

CommitCreate(r) ==
  LET q == req[r] IN
  /\ q.pc = "create"
  /\ Insert(q.org, q.actor, <<q.host>>)
  /\ req' = [req EXCEPT ![r] = Done]
  /\ Witnessed(r)
  /\ UNCHANGED <<users, orgs>>

\* Only columns that differ from what was loaded are written; an UPDATE or a
\* DELETE of a row that is gone fails.
CommitEdit(r) ==
  LET q == req[r]
      row == assets[q.id]
      Column(f) == IF q.host[f] = q.old[f] THEN row.host[f] ELSE q.host[f]
  IN
  /\ q.pc = "edit"
  /\ assets' = IF q.id \in Live
               THEN [assets EXCEPT ![q.id].host = [ip |-> Column("ip"), name |-> Column("name")]]
               ELSE assets
  /\ req' = [req EXCEPT ![r] = Done]
  /\ Witnessed(r)
  /\ UNCHANGED <<users, orgs>>

CommitDelete(r) ==
  /\ req[r].pc = "delete"
  /\ assets' = [assets EXCEPT ![req[r].id] = Gone]
  /\ req' = [req EXCEPT ![r] = Done]
  /\ Witnessed(r)
  /\ UNCHANGED <<users, orgs>>

-----------------------------------------------------------------------------
(* Hosts of an nmap scan. *)

Inventory(org) == {assets[i].host : i \in {j \in Live : assets[j].org = org}}

\* _match_asset, for the list of discovered hosts: names without their case
MatchAsset(h, inventory) ==
  \E a \in inventory :
    \/ h.ip # None /\ a.ip = h.ip
    \/ h.name # None /\ a.name # None /\ Lower[a.name] = Lower[h.name]

\* discovered_hosts looks at as many assets of the tenant as its LIMIT allows,
\* in no order: any of these parts of the inventory.
Loadable(org) ==
  LET all == {i \in Live : assets[i].org = org} IN
  {part \in SUBSET all : \/ part = all /\ Cardinality(all) <= ViewLimit
                         \/ Cardinality(part) = ViewLimit /\ Cardinality(all) > ViewLimit}

\* A bug: only addresses are looked up.
FindAddress(h, inventory) == \E a \in inventory : h.ip # None /\ a.ip = h.ip

\* _find_duplicate, for an acceptance: the name as it was sent
FindDuplicate(h, inventory) ==
  \E a \in inventory :
    \/ h.ip # None /\ a.ip = h.ip
    \/ h.name # None /\ a.name = h.name

LookedAt(hosts) == IF Len(hosts) > AcceptLimit THEN AcceptLimit ELSE Len(hosts)

AskAccept(r, actor, header, hosts) ==
  /\ Arrives(r)
  /\ Permitted(users[actor], TestersUp)
  /\ \E o \in OneOrg(users[actor], header) \cap ScannedOrgs :
       /\ orgs[o] # "absent"
       /\ req' = [req EXCEPT ![r] = [pc |-> "accept", actor |-> actor, org |-> o,
                                     todo |-> SubSeq(hosts, 1, LookedAt(hosts)), made |-> <<>>]]
  /\ UNCHANGED <<users, orgs, assets, since>>

\* One host: looked up among what is committed and what this session has made.
AcceptHost(r) ==
  LET q == req[r]
      h == Head(q.todo)
      known == Inventory(q.org) \cup {Validated(q.made[n]) : n \in DOMAIN q.made}
      skipped == (h.ip = None /\ h.name = None) \/ FindDuplicate(h, known) \/ ~Accepted(h)
  IN
  /\ q.pc = "accept" /\ q.todo # <<>>
  /\ req' = [req EXCEPT ![r].todo = Tail(@),
                        ![r].made = IF skipped THEN @ ELSE Append(@, h)]
  /\ UNCHANGED <<users, orgs, assets, since>>

CommitAccept(r) ==
  LET q == req[r] IN
  /\ q.pc = "accept" /\ q.todo = <<>>
  /\ Insert(q.org, q.actor, Stored(q.made))
  /\ req' = [req EXCEPT ![r] = Done]
  /\ Witnessed(r)
  /\ UNCHANGED <<users, orgs>>

-----------------------------------------------------------------------------
Next ==
  \/ AccountsNext /\ UNCHANGED <<assets, since>>
  \/ \E r \in Requests :
       \/ \E actor \in Registered, header \in Orgs \cup {None} :
            \/ \E h \in Hosts : AskCreate(r, actor, header, h)
            \/ \E i \in Ids : AskDelete(r, actor, header, i)
            \/ \E i \in Ids, h \in Hosts : AskEdit(r, actor, header, i, h)
            \/ \E hosts \in Payloads : AskAccept(r, actor, header, hosts)
       \/ CommitCreate(r) \/ CommitEdit(r) \/ CommitDelete(r)
       \/ AcceptHost(r) \/ CommitAccept(r)

Init == AccountsInit /\ assets = [i \in Ids |-> Unused] /\ since = [r \in Requests |-> {}]

Spec == Init /\ [][Next]_vars

-----------------------------------------------------------------------------
(* Properties. *)

\* Tenants stay apart: whatever accounts were granted and however requests
\* overlap, an asset is made, edited or deleted only by an account of its own
\* organization or by a super admin (resolve_tenant_context, _get_or_raise,
\* register).
TenantsStayApart ==
  [][\A i \in Ids : assets'[i] # assets[i] =>
       \E r \in Requests :
         /\ req'[r] = Done /\ req[r].pc \in {"create", "edit", "delete", "accept"}
         /\ CanAccess(users[req[r].actor], IF i \in Live THEN assets[i].org ELSE assets'[i].org)]_vars

\* The name of h, if any, is in the form it is stored in.
InStoredForm(h) == h.name = None \/ Normal[h.name] = h.name

\* An acceptance adds a host only if the list of discovered hosts shows it as
\* new, whatever part of the inventory it happens to load, and adds it once: two
\* assets for one host come from a name sent in another form than the stored
\* one, or from a change that overlapped the acceptance, for which nothing but a
\* look-up keeps hosts apart (accept_hosts, _find_duplicate, _match_asset).
AcceptedAreNew ==
  \A r \in Requests : req[r].pc = "accept" =>
    LET made == req[r].made IN
    \A n \in DOMAIN made : InStoredForm(made[n]) =>
      /\ \A part \in Loadable(req[r].org) :
           ~MatchAsset(made[n], {assets[i].host : i \in part \ since[r]})
      /\ \A m \in 1 .. n - 1 : ~FindDuplicate(made[n], {Validated(made[m])})
=============================================================================
