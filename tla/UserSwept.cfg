\* A staged image is attached to a receipt while a sweep reads its references,
\* and no fault.  With OrphanDelete = FALSE, the default, the image is lost when it
\* is attached after the sweep of staged images has listed it.
SPECIFICATION Spec
CONSTANTS
  Users = {a, v}
  FirstUsers = {a, v}
  FirstAdmins = {a}
  Owner = v
  Root = a
  r1 = r1
  r2 = r2
  Requests = {r1, r2}
  Scenarios <- Deletions
  OrphanDelete = TRUE
  OtherRefs = 1
  MassFloor = 2
  MaxFaults = 0
INVARIANTS ReferencedKept
