CONSTANTS
    Requests = {r1, r2}
    Payments = {p1, p2, p3}
    Unpaid = Unpaid
    Faces = {2, 3}
    TopUps = {1}
    MaxEdits = 1
    MaxCrashes = 1
SPECIFICATION Spec
CHECK_DEADLOCK FALSE
SYMMETRY Symmetry
INVARIANTS
    FaceArrived
