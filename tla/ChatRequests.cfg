SPECIFICATION Spec
CONSTANTS
  Sends = {s1, s2}
  Patches = {p1}
  Deletes = {d1, d2}
  Owner = u1
  Target = u2
  Orgs = {o1}
  None = None
  HistoryLimit = 1
  MaxMoves = 1
  MaxFailures = 1
SYMMETRY MCSymmetry
INVARIANTS
  ChatInv
  WholeExchanges
  SequencesAlternate
  NoOrphans
  OutcomeIsTrue
  HistoryIsClosed
  NoCircle
PROPERTIES
  ImplementsLog
