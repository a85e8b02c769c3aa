SPECIFICATION Spec
CONSTANTS
    Requests = {r1, r2}
    Owner = owner
    Admins = {admin}
    MaxFaults = 0
SYMMETRY Symmetry
PROPERTY ApprovedIsReadOnly
