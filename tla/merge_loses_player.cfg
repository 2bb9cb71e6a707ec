SPECIFICATION Spec
CONSTANTS
  p1 = p1
  p2 = p2
  p3 = p3
  c1 = c1
  c2 = c2
  l1 = l1
  l2 = l2
  NoPlayer = NoPlayer
  NoJob = NoJob
  Players = {p1, p2, p3}
  Jobs <- TwoJobs
  Calls = {c1, c2}
  Leases = {l1, l2}
INVARIANTS
  LinkedIsTrusted
