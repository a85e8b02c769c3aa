SPECIFICATION Spec
CONSTANTS
    u1 = u1
    x1 = x1
    None = None
    Admins = {a1, a2}
    Users = {u1}
    Receipts = {x1}
    Owner <- OwnerOf
    Templates = {"receipt_question"}
    Requests = {r1, r2}
    ListLimit = 1
    MaxSends = 2
INVARIANTS
    HandWrittenKept
    BadgeIsReachable
    OneThreadPerReceipt
SYMMETRY Symmetry
CHECK_DEADLOCK FALSE
