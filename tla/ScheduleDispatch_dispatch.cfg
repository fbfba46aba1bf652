SPECIFICATION FairDispatchSpec
CONSTANTS
  nightly = nightly
  weekly = weekly
  None = None
  Schedules = {nightly, weekly}
  Dispatchers = {d1, d2}
  BatchLimit = 1
  MaxScans = 2
  MaxTicks = 2
  MaxUpsets = 1
INVARIANTS
  DispatchTypeOK
  StackingIsExcused
PROPERTY DueIsHandled
CHECK_DEADLOCK FALSE
