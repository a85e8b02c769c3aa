SPECIFICATION Spec
CONSTANTS
    r1 = r1
    t1 = t1
    Items = {0}
    Requests = {r1}
    Reaper = reaper
    Tasks = {t1}
    Ops = {"process", "reap"}
    MaxUploads = 1
    MaxFaults = 0
PROPERTIES
    HeldSurvives
CHECK_DEADLOCK FALSE
