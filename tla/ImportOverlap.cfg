SPECIFICATION Spec
CONSTANTS
  Users = {u1, u2}
  Files = {f1, f2, f3}
  Accounts = {a1}
  ConvIds = {c1}
  MsgIds <- MCPlaces
  Texts = {t1, t2}
  Requests = {r1, r2}
  Workers = {w1, w2}
  Uploaded <- MCUploaded
  Parsed <- MCParsed
  Unreadable = Unreadable
  None = None
  c1 = c1
  c2 = c2
  c3 = c3
  m1 = m1
  m2 = m2
  t1 = t1
  t2 = t2
  f1 = f1
  f2 = f2
  MaxTag = 1
  MaxReembeds = 1
  MaxTimeouts = 0
  Expires = FALSE
  MaxKills = 0
  MaxLosses = 0
  MaxOutages = 1
  MaxMoves = 1
SYMMETRY MCSymmetry
INVARIANTS
  OneJobPerUpload
  CompletedMeansImported
  OnlyCompletedIsVisible
  EmbeddedTextWasImported
  DuplicatesBoundedByWorkers
PROPERTIES
  NothingIsTakenBack
  ImplementsLedger
