SPECIFICATION Spec
CONSTANTS
    Organizations = {o1, o2}
    Requests = {r1, r2}
    MaxTokens = 2
    Consents = {c1}
    MaxJoins = 2
    MaxOwned = 1
SYMMETRY Symmetry
CHECK_DEADLOCK FALSE
INVARIANTS
    ConnectedWhereAsked
    AccessEndsWithMembership
    OwnedLimit
