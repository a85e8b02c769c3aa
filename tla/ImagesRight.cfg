SPECIFICATION Spec
CONSTANTS
    None = None
    Receipts = {x1}
    Contents = {c1, c2}
    Uploads <- OneOrTwo
    Requests = {p1, p2}
    Ops = {"create", "update"}
    MaxImages = 2
    MaxFaults = 2
    MAX_RECEIPT_IMAGES = 2
INVARIANTS
    RightImage
SYMMETRY Symmetry
CHECK_DEADLOCK FALSE
