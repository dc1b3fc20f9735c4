SPECIFICATION Spec
CONSTANTS
    Admins = {a1, a2}
    Requests = {r1, r2}
    None = None
INVARIANT LastAdminStays
CHECK_DEADLOCK FALSE
