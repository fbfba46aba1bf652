SPECIFICATION FairSpec
CONSTANTS
  rce = rce
  None = None
  Findings = {rce}
  Severity <- RceIsCritical
  Imported = {rce}
  Analysts = {ana}
  Workers = {w1}
  Callers = {c1}
  Decisions = {"confirmed", "remediated", "dismissed"}
  MaxTriages = 2
  MaxTickets = 2
  MaxCrashes = 1
  MaxFails = 1
INVARIANTS
  TicketsAreAccounted
  AlertsAreCommitted
PROPERTIES
  TriageIsKept
  TicketFollows
CHECK_DEADLOCK FALSE
