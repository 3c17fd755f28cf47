SPECIFICATION Spec
CONSTANTS
    Accounts = {acme, beta}
    Authorizations = {a1, a2}
    Contracts = {c1}
    Requests = {r1, r2}
    MaxRefreshes = 1
    MaxDeletions = 1
SYMMETRY Symmetry
CHECK_DEADLOCK FALSE
INVARIANTS
    ErasedForGood
