SPECIFICATION FairToolSpec
CONSTANTS
  Configs <- AllConfigs
  Sites <- AllSites
  MaxCrashes = 1
  MaxRestarts = 1
INVARIANTS
  NoSilentMock
  EvidenceIsSound
PROPERTIES
  EveryTaskSettles
CHECK_DEADLOCK FALSE
