SPECIFICATION Spec
CONSTANTS
    olga = olga
    rui = rui
    eva = eva
    Users = {olga, rui, eva}
    Founder = olga
    MaxProvisioned = 1
    MaxDisabled = 1
    Invitations = {i1, i2}
    Requests = {r1, r2}
    Grantable = {"viewer"}
    MaxMembers = 2
SYMMETRY Symmetry
CHECK_DEADLOCK FALSE
INVARIANTS
    OwnerIsAdmin
    MemberLimit
    OneOpenInvitation
PROPERTIES
    OwnershipHandedOver
    MembershipsAreGranted
