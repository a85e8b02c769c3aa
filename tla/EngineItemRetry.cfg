SPECIFICATION FairSpec
CONSTANTS
    m1 = m1
    m2 = m2
    q1 = q1
    q2 = q2
    Items = {0, 1}
    Known = {0}
    Mains = {m1}
    Group <- OneDispatch
    Retries = {q1, q2}
    Kinds = {"item"}
    Answers = {"receipts", "account", "json", "transient"}
    ChunkSize = 2
    Concurrency = 1
    MaxPosts = 1
    MaxFaults = 0
PROPERTIES
    Answered
CHECK_DEADLOCK FALSE
