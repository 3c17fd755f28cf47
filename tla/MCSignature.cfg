SPECIFICATION FairSpec
CONSTANTS
    Unknown = Unknown
    Contracts = {c1}
    Foreign = {x1}
    Senders = {s1, s2}
    Reconcilers = {r1}
    Copies = {1}
    MaxRevision = 5

CHECK_DEADLOCK FALSE
INVARIANTS
    OneEnvelope
    EnvelopeOnRecord
    RowsInStep
    TruthfulOutcome
PROPERTIES
    ArchiveIsFinal
    OutcomeShown
    LostAnswerRecovered
    ImplementsSigningProtocol
