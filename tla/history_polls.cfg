SPECIFICATION LiveSpec
CONSTANTS
  c1 = c1
  c2 = c2
  Calls = {c1, c2}
  MaxGames = 3
  MaxAuths = 2
  MaxUpsets = 2
  SeedCount = 1
  PollPages = 2
  WalkPages = 3
  MaxPerDay = 1
INVARIANTS
  TypeOK
  TipOwesNothing
  DailyCap
PROPERTIES
  ReauthRequired
  BacklogEmpties
