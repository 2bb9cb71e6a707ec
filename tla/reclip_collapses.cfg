SPECIFICATION ReclipSpec
CONSTANTS
  p1 = p1
  p2 = p2
  c1 = c1
  a1 = a1
  NoPlayer = NoPlayer
  NoJob = NoJob
  Players = {p1, p2}
  Jobs <- TwoJobs
  Calls = {c1}
  Leases = {1}
  Admins = {a1}
SYMMETRY Symmetry
INVARIANTS
  ReclipTypeOK
  LinkedIsListed
  RenderedTogether
PROPERTIES
  Collapses
CONSTRAINT OneClean
CHECK_DEADLOCK FALSE
