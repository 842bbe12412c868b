SPECIFICATION Spec
CONSTANTS
  Users = {1, 2}
  Orgs = {o1, o2}
  None = None
  Joins = {j1}
  Assigns = {}
  OrgDeletes = {d1}
  UserDeletes = {}
  Inserts = {}
SYMMETRY MCSymmetry
PROPERTIES
  MembersBlockDeletion
