SPECIFICATION Spec
CONSTANTS
  rce = rce
  None = None
  Findings = {rce}
  Severity <- RceIsCritical
  Imported = {}
  Analysts = {ana}
  Workers = {w1}
  Callers = {c1}
  Decisions = {"confirmed", "remediated", "dismissed"}
  MaxTriages = 1
  MaxTickets = 2
  MaxCrashes = 0
  MaxFails = 0
INVARIANTS
  ClosedIsRetested
CHECK_DEADLOCK FALSE
