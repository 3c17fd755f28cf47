SPECIFICATION Spec
CONSTANTS
    Requests = {r1, r2}
    MaxProven = 2
    MaxLinks = 1
    MaxResets = 1
SYMMETRY Symmetry
CHECK_DEADLOCK FALSE
INVARIANTS
    ResetRevokes
