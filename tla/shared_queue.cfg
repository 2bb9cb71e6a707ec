SPECIFICATION SharedSpec
CONSTANTS
  p1 = p1
  p2 = p2
  w1 = w1
  w2 = w2
  c1 = c1
  e1 = e1
  e2 = e2
  NoWorker = NoWorker
  NoJob = NoJob
  NoPlayer = NoPlayer
  Jobs <- OneJob
  Workers = {w1, w2}
  Calls = {c1}
  Sweeps = {1}
  MaxAttempts = 2
  SweepLimit = 100
  Requests <- CancelAndDelete
  Players = {p1, p2}
  Enqueues = {e1, e2}
SYMMETRY Symmetry
INVARIANTS
  SharedTypeOK
  HolderRendersPayload
  ResultServesLinked
  PayloadMatchesLinks
  LinkedIsRendered
PROPERTIES
  ImplementsEnqueue
