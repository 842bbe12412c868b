SPECIFICATION Spec
CONSTANTS
  Users = {u1}
  Files = {f1}
  Accounts = {a1}
  ConvIds = {c1}
  MsgIds <- MCPlaces
  Texts = {t1, t2}
  Requests = {r1}
  Workers = {w1, w2}
  Uploaded <- MCUploaded
  Parsed <- MCParsed
  Unreadable = Unreadable
  None = None
  c1 = c1
  c2 = c2
  c3 = c3
  m1 = m1
  m2 = m2
  t1 = t1
  t2 = t2
  f1 = f1
  f2 = f2
  MaxTag = 1
  MaxReembeds = 0
  MaxTimeouts = 0
  Expires = FALSE
  MaxKills = 0
  MaxLosses = 0
  MaxOutages = 1
  MaxMoves = 0
SYMMETRY MCSymmetry
INVARIANTS
  FailureIsPersisted
