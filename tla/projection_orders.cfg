SPECIFICATION Spec
CONSTANTS
  p1 = p1
  p2 = p2
  k1 = k1
  k2 = k2
  k3 = k3
  c1 = c1
  c2 = c2
  NoPlayer = NoPlayer
  NoCode = NoCode
  Players = {p1, p2}
  Creator = p1
  Files <- TwoFiles
  SteamId <- BothPlayers
  Codes = {k1, k2, k3}
  Calls = {c1, c2}
  Movable = {p1}
SYMMETRY Symmetry
INVARIANTS
  TypeOK
  MatchesAgree
  ClipsOwned
PROPERTIES
  RenderedStays
  CodesStick
