SPECIFICATION FairSpec
CONSTANTS
  Users = {u1, u2}
  Orgs = {o1}
  Threads = {t1}
  Addresses = {Old, New}
  Old = Old
  New = New
  Containers = {c1, c2}
  Operator = Operator
  None = None
  MaxDowngrades = 1
  MaxFailures = 1
INVARIANTS
  RowsFitSchema
PROPERTIES
  AccountsSurvive
  ContainersComeUp
