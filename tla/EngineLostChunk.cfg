SPECIFICATION Spec
CONSTANTS
    m1 = m1
    m2 = m2
    Items = {0, 1}
    Known = {}
    Mains = {m1}
    Group <- OneDispatch
    Retries = {}
    Kinds = {}
    Answers = {"receipts", "transient"}
    ChunkSize = 1
    Concurrency = 2
    MaxPosts = 1
    MaxFaults = 0
INVARIANTS
    ChunkReported
CHECK_DEADLOCK FALSE
