SPECIFICATION FairSpec
CONSTANTS
  Members = {m1}
  Registers = {}
  Logins = {l1, l2}
  Edits = {d1}
  Deletes = {x1}
  Mailboxes = {b1, b2}
  Spellings = {"lower"}
  Providers = {p1}
  Subjects = {s1}
  None = None
PROPERTIES
  RequestsEnd
