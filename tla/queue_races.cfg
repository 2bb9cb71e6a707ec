SPECIFICATION Spec
CONSTANTS
  w1 = w1
  w2 = w2
  c1 = c1
  c2 = c2
  NoWorker = NoWorker
  NoJob = NoJob
  Jobs <- OneJob
  Workers = {w1, w2}
  Calls = {c1, c2}
  Sweeps = {1}
  MaxAttempts = 2
  SweepLimit = 100
  Requests <- AllRequests
SYMMETRY Symmetry
INVARIANTS
  TypeOK
  ClaimConsistent
PROPERTIES
  CancelSticks
  HolderUndisturbed
  ResultKept
  ImplementsLease
