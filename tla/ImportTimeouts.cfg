SPECIFICATION Spec
CONSTANTS
  Users = {u1}
  Files = {f1, f2}
  Accounts = {a1, a2}
  ConvIds = {c1, c2, c3}
  MsgIds = {m1}
  Texts = {t1, t2}
  Requests = {r1, r2}
  Workers = {w1, w2}
  Uploaded <- MCCrossingUploaded
  Parsed <- MCCrossing
  Unreadable = Unreadable
  None = None
  c1 = c1
  c2 = c2
  c3 = c3
  m1 = m1
  m2 = m2
  t1 = t1
  t2 = t2
  f1 = f1
  f2 = f2
  MaxTag = 2
  MaxReembeds = 0
  MaxTimeouts = 1
  Expires = TRUE
  MaxKills = 0
  MaxLosses = 1
  MaxOutages = 0
  MaxMoves = 0
SYMMETRY MCSymmetry
INVARIANTS
  WritesAreExclusive
  SettledMeansSearchable
PROPERTIES
  NoJobIsLost
  NoIndexingIsLost
