SPECIFICATION Spec
CONSTANTS
    m1 = m1
    m2 = m2
    Items = {0, 1, 2}
    Known = {0}
    Mains = {m1}
    Group <- OneDispatch
    Retries = {}
    Kinds = {}
    Answers = {"receipts", "account", "json", "transient"}
    ChunkSize = 2
    Concurrency = 2
    MaxPosts = 1
    MaxFaults = 1
INVARIANTS
    NoneForgotten
    LateCalls
CHECK_DEADLOCK FALSE
