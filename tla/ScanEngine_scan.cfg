SPECIFICATION FairEngineSpec
CONSTANTS
  web = web
  db = db
  Hosts = {web, db}
  Work <- TwoHosts
  Threshold = 2
  MaxConcurrent = 2
  Burst = 2
  MaxRecoveries = 1
INVARIANTS
  DeadHostIsSpared
PROPERTY
  EveryProbeEnds
CHECK_DEADLOCK FALSE
