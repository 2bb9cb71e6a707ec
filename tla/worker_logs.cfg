SPECIFICATION Spec
CONSTANTS
  n1 = n1
  t1 = t1
  t2 = t2
  c1 = c1
  c2 = c2
  Names = {n1}
  Tokens = {t1, t2}
  MaxWorkers = 2
  MaxLines = 2
  Limit = 2
  MaxBatch = 2
  MaxId = 4
  Calls = {c1, c2}
  NoName = NoName
  NoToken = NoToken
SYMMETRY Symmetry
INVARIANTS
  TypeOK
  NewestKept
  TailBounded
  GapsExplained
CHECK_DEADLOCK FALSE
