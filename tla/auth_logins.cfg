SPECIFICATION Spec
CONSTANTS
  p1 = p1
  p2 = p2
  i1 = i1
  i2 = i2
  s1 = s1
  s2 = s2
  t1 = t1
  t2 = t2
  c1 = c1
  c2 = c2
  People = {p1, p2}
  Invites = {i1, i2}
  MaxUses <- OneUse
  States = {s1, s2}
  Tokens = {t1, t2}
  Calls = {c1, c2}
  NoInvite = NoInvite
  NoState = NoState
  NoToken = NoToken
  Nobody = Nobody
SYMMETRY Symmetry
INVARIANTS
  TypeOK
  UsesPaid
  StateUsedOnce
  SessionsEarned
CHECK_DEADLOCK FALSE
