SPECIFICATION Spec
CONSTANTS
    m1 = m1
    m2 = m2
    q1 = q1
    q2 = q2
    q3 = q3
    Items = {0, 1}
    Known = {0}
    Mains = {m1}
    Group <- OneDispatch
    Retries = {q1, q2, q3}
    Kinds = {"chunk"}
    Answers = {"receipts", "account", "json", "transient"}
    ChunkSize = 2
    Concurrency = 1
    MaxPosts = 1
    MaxFaults = 1
INVARIANTS
    RetryCap
    ChunkReported
SYMMETRY Symmetry
CHECK_DEADLOCK FALSE
