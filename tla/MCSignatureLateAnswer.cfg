SPECIFICATION FairSpec
CONSTANTS
    Unknown = Unknown
    Contracts = {c1}
    Foreign = {x1}
    Senders = {s1}
    Reconcilers = {r1}
    Copies = {1}
    MaxRevision = 8

CHECK_DEADLOCK FALSE
PROPERTIES
    TerminalNotRegressed
