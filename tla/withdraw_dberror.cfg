CONSTANTS
    Requests = {r1, r2}
    Tokens = {t1, t2, t3}
    Orders = {o1}
    Errors = {"rejection", "transport"}
    TokenLife = 1
    Window = 2
    MaxClock = 2
    MaxDbErrors = 1
SPECIFICATION Spec
CHECK_DEADLOCK FALSE
SYMMETRY Symmetry
INVARIANTS
    NoSilentRepeat
