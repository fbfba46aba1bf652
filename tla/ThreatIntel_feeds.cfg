SPECIFICATION FairSpec
CONSTANTS
  None = None
  log4shell = log4shell
  xss = xss
  java = java
  web = web
  beat = beat
  admin = admin
  Findings = {java, web}
  Cve <- CveOf
  Own <- OwnOf
  Cvss <- CvssOf
  Cves = {log4shell, xss}
  Nvd <- Pages
  Epss <- Scores
  Kev = {log4shell}
  Listed = {}
  Ransom = {log4shell}
  Beat = {beat}
  Manual = {admin}
  WithNvd = {beat, admin}
  Syncs = {kev}
  Limit <- Limits
  Budget = 1
  MaxFeeds = 1
  MaxScans = 2
  MaxFails = 1
INVARIANTS
  FlagsAreFounded
PROPERTIES
  ExposureIsKept
  EnrichmentConverges
CHECK_DEADLOCK FALSE
