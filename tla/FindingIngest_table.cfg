SPECIFICATION FairSpec
CONSTANTS
  xss = xss
  tls = tls
  nucleiScan = nucleiScan
  zapScan = zapScan
  None = None
  Findings = {xss, tls}
  Scans = {nucleiScan, zapScan}
  Report <- OverlappingReports
  Analysts = {ana}
  Kev = {xss, tls}
  EnrichLimit = 1
  MaxRuns = 2
  MaxTriages = 1
  MaxAborts = 1
INVARIANTS
  TypeOK
  ReportsAreKept
  EvidenceIsCommitted
PROPERTY
  KevIsPromoted
CHECK_DEADLOCK FALSE
