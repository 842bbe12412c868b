SPECIFICATION Spec
CONSTANTS
  Members = {m1}
  Registers = {r1}
  Logins = {l1, l2}
  Edits = {d1}
  Deletes = {}
  Mailboxes = {b1, b2}
  Spellings = {"lower"}
  Providers = {p1}
  Subjects = {s1, s2}
  None = None
SYMMETRY MCSymmetry
INVARIANTS
  AccountsInv
  LoginIsLinked
  NobodyIsLockedOut
