SPECIFICATION FairSpec
CONSTANTS
    m1 = m1
    m2 = m2
    Messages = {m1, m2}
    Drainers = {d1, d2}
    MaxAttempts = 2
    BatchSize = 2
    MaxMishaps <- TwoOfTheFirst
CHECK_DEADLOCK FALSE
INVARIANTS
    OneCarrier
    DeliveredOnce
    BodyKeptUntilSent
    AttemptsBounded
PROPERTIES
    Settled
