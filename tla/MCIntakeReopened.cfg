SPECIFICATION Spec
CONSTANTS
    olga = olga
    rui = rui
    Nobody = Nobody
    Users = {olga, rui}
    Founder = olga
    Requests = {r1, r2}
    Grantable = {"reviewer", "viewer"}
    Services = {s1}
    Tickets = {t1}
    Given = {"in_progress", "resolved"}
    MaxMessages = 4
    MaxRevision = 4
SYMMETRY Symmetry
CHECK_DEADLOCK FALSE
INVARIANTS
    AssignedIsStaff
