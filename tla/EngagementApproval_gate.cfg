SPECIFICATION Spec
CONSTANTS
  scanA = scanA
  lead = lead
  admin = admin
  None = None
  Wide = Wide
  Scans = {scanA}
  Admins = {lead, admin}
  Creator <- MadeByLead
  Changes = {c1, c2, c3}
  Exports = {e1}
  MaxApprovals = 3
INVARIANTS
  OneActiveApproval
PROPERTY
  ImplementsDualControl
SYMMETRY AnyRequest
CHECK_DEADLOCK FALSE
