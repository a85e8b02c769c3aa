\* One account is deleted, with one fault, while it scans, stages an image and
\* attaches it, or makes a backup, and the cleanup loop runs; two deletions at
\* once; and one change of an account.
SPECIFICATION FairSpec
CONSTANTS
  Users = {a, v, n}
  FirstUsers = {a, v}
  FirstAdmins = {a}
  Owner = v
  Root = a
  r1 = r1
  r2 = r2
  Requests = {r1, r2}
  Scenarios <- Deletions
  OrphanDelete = TRUE
  OtherRefs = 1
  MassFloor = 2
  MaxFaults = 1
INVARIANTS LiveKept CompletedIsGone
PROPERTIES DataGoes OpsEnd
