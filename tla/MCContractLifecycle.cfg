SPECIFICATION Spec
CONSTANTS
    olga = olga
    rui = rui
    eva = eva
    Anybody = Anybody
    Users = {olga, rui, eva}
    OrgOwner = olga
    Contracts = {c1, c2}
    Texts = {t1}
    Assignable <- EditorOnProbation
    Workflows <- Chains
    Anyone = Anybody
    Requests = {r1, r2}
    MaxContracts = 1
    MaxVersion = 2
    MaxRevision = 6
SYMMETRY Symmetry
CHECK_DEADLOCK FALSE
INVARIANTS
    ApprovalChain
    OneApprovalPerStep
    SentVersionApproved
    ReturnedStaysReturned
    VersionsMatch
    ContractQuota
PROPERTIES
    DecidedOnRowReplaced
    CreatedByEditor
    ImplementsApprovalProtocol
