SPECIFICATION Spec
CONSTANTS
  None = None
  ip = ip
  web = web
  WEB = WEB
  web_dot = web_dot
  bad = bad
  Emails = {e1, e2, e3}
  Orgs = {default, acme}
  DefaultOrg = default
  MaxRequests = 5
  Ids = {1, 2}
  Ips = {ip, bad}
  BadIps = {bad}
  Names = {web, WEB, web_dot}
  Normal <- OneName
  Lower <- LowerCase
  ScannedOrgs = {acme}
  Hosts <- Sent
  Payloads <- Lists
  AcceptLimit = 2
  ViewLimit = 1
SYMMETRY AnyAccount
INVARIANTS
  AccountsAreGranted
  AcceptedAreNew
PROPERTY
  TenantsStayApart
CHECK_DEADLOCK FALSE
