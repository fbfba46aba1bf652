SPECIFICATION Spec
CONSTANTS
  scanA = scanA
  lead = lead
  admin = admin
  None = None
  Wide = Wide
  Scans = {scanA}
  Admins = {lead, admin}
  Creator <- MadeByLead
  Changes = {c1}
  Exports = {e1}
  MaxApprovals = 1
INVARIANT
  ClientReportIsReal
CHECK_DEADLOCK FALSE
