\* LiveDirKept: the query for live sessions fails once.
\* CompletedIsPurged, in its place: the purge of a deletion fails once.
SPECIFICATION Spec
CONSTANTS
  Users = {a, v}
  FirstUsers = {a, v}
  FirstAdmins = {a}
  Owner = v
  Root = a
  r1 = r1
  r2 = r2
  Requests = {r1, r2}
  Scenarios <- Deletions
  OrphanDelete = FALSE
  OtherRefs = 1
  MassFloor = 2
  MaxFaults = 1
INVARIANTS LiveDirKept
