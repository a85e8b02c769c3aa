SPECIFICATION Spec
CONSTANTS
    r1 = r1
    r2 = r2
    t1 = t1
    t2 = t2
    Items = {0, 1}
    Requests = {r1, r2}
    Reaper = reaper
    Tasks = {t1, t2}
    Ops = {"process", "dispatch"}
    MaxUploads = 1
    MaxFaults = 1
INVARIANTS
    TypeOK
    HeldNotDone
    DispatchedOnce
SYMMETRY Symmetry
CHECK_DEADLOCK FALSE
