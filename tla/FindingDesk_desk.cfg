SPECIFICATION FairSpec
CONSTANTS
  None = None
  rce = rce
  hdr = hdr
  groq = groq
  console = console
  vault = vault
  Keys = {k1}
  Masked = masked
  Bases = {groq, console}
  Api <- ApiOf
  EnvKey = None
  EnvBase = console
  Admins = {adm}
  Procs = {p1}
  Findings = {rce, hdr}
  Severity <- SeverityOf
  Owasp <- OwaspOf
  Traits <- TraitsOf
  Tags <- TagsOf
  Decisions = {"confirmed", "resolved"}
  Requests = {r1, r2}
  Batches <- Pairs
  Configs <- Deployments
  Intents <- Questions
  Limit = 1
  PostureLimit = 1
  ScanLists <- Loaded
INVARIANTS
  TypeOK
  NoSilentTemplate
  SilentReportIsClean
  ReadersAgree
  SavingTheViewIsNeutral
PROPERTIES
  AdvisoryOnly
  RequestsEnd
CHECK_DEADLOCK FALSE
