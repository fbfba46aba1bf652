SPECIFICATION FairSpec
CONSTANTS
  None = None
  disc = disc
  solo = solo
  va = va
  Scans <- AllScans
  Follow <- PipelineFollow
  Workers = {w1, w2}
  Clients = {c1}
  MaxPublish <- OncePublished
  MaxCrashes = 1
  MaxAborts = 1
INVARIANTS
  RowBeforeTask
  CompletedHasFindings
  TriggeredAfterDiscovery
  OneRunPerScan
PROPERTIES
  LocksReleased
  FollowUpProceeds
CHECK_DEADLOCK FALSE
