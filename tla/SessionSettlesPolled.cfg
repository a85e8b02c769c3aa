SPECIFICATION FairPollSpec
CONSTANTS
    r1 = r1
    t1 = t1
    t2 = t2
    Items = {0}
    Requests = {r1}
    Reaper = reaper
    Tasks = {t1, t2}
    Ops = {"process", "dispatch", "poll", "reap", "redeliver"}
    MaxUploads = 1
    MaxFaults = 1
PROPERTIES
    ItemsSettle
CHECK_DEADLOCK FALSE
