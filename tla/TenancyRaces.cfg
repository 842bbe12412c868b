SPECIFICATION Spec
CONSTANTS
  Users = {1, 2}
  Orgs = {o1}
  None = None
  Joins = {j1}
  Assigns = {a1}
  OrgDeletes = {d1}
  UserDeletes = {e1}
  Inserts = {i1}
SYMMETRY MCSymmetry
INVARIANTS
  TenancyInv
  ReferencesResolve
  NoCircle
