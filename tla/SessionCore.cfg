SPECIFICATION Spec
CONSTANTS
    r1 = r1
    r2 = r2
    t1 = t1
    Items = {0}
    Requests = {r1, r2}
    Reaper = reaper
    Tasks = {t1}
    Ops = {"process", "dispatch", "retry", "delete", "reap"}
    MaxUploads = 1
    MaxFaults = 1
INVARIANTS
    HeldHasFile
    ReviewHasReceipt
SYMMETRY Symmetry
CHECK_DEADLOCK FALSE
