SPECIFICATION Spec
CONSTANTS
  f1 = f1
  m1 = m1
  m2 = m2
  c1 = c1
  c2 = c2
  video = video
  poster = poster
  Files = {f1}
  Parts = {video, poster}
  Video = video
  Matches = {m1, m2}
  Owner <- OwnerOfOne
  Calls = {c1, c2}
  MaxCodes = 2
  Attempts = 2
  NoMatch = NoMatch
SYMMETRY Symmetry
INVARIANTS
  TypeOK
  NothingLeaks
  AnnouncedOnce
PROPERTIES
  ObjectsSpared
