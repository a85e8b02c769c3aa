SPECIFICATION FairSpec
CONSTANTS
    r1 = r1
    t1 = t1
    Items = {0}
    Requests = {r1}
    Reaper = reaper
    Tasks = {t1}
    Ops = {"process", "dispatch", "reap"}
    MaxUploads = 1
    MaxFaults = 1
PROPERTIES
    ItemsSettle
CHECK_DEADLOCK FALSE
