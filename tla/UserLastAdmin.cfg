\* Two administrators, each deleting or demoting the other.
SPECIFICATION Spec
CONSTANTS
  Users = {a, v}
  FirstUsers = {a, v}
  FirstAdmins = {a, v}
  Owner = v
  Root = a
  r1 = r1
  r2 = r2
  Requests = {r1, r2}
  Scenarios <- Accounts
  OrphanDelete = FALSE
  OtherRefs = 1
  MassFloor = 2
  MaxFaults = 0
INVARIANTS AdminRemains
