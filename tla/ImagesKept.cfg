SPECIFICATION Spec
CONSTANTS
    None = None
    Receipts = {x1, x2}
    Contents = {c1, c2}
    Uploads <- OneOrTwo
    Requests = {p1, p2}
    Ops = {"create", "update", "scan", "delete", "stage", "discard", "view"}
    MaxImages = 2
    MaxFaults = 2
    MAX_RECEIPT_IMAGES = 2
INVARIANTS
    Readable
    OneReceiptPerImage
PROPERTIES
    HealConverges
SYMMETRY Symmetry
CHECK_DEADLOCK FALSE
