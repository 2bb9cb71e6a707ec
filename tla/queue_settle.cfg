SPECIFICATION FairSpec
CONSTANTS
  w1 = w1
  w2 = w2
  c1 = c1
  c2 = c2
  NoWorker = NoWorker
  NoJob = NoJob
  Jobs <- OneJob
  Workers = {w1, w2}
  Calls = {c1}
  Sweeps = {1}
  MaxAttempts = 3
  SweepLimit = 100
  Requests <- AllRequests
PROPERTIES
  EveryJobSettles
