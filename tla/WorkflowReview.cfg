SPECIFICATION Spec
CONSTANTS
    Requests = {r1, r2, r3}
    Owner = owner
    Admins = {admin}
    MaxFaults = 1
SYMMETRY Symmetry
INVARIANT TypeOK
INVARIANT OnePerSubmission
INVARIANT TrailBalances
INVARIANT ImagesStay
PROPERTY OnlyAdminsFinish
