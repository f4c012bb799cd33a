SPECIFICATION Spec
CONSTANTS
    Records <- ThreeRecords
    W = 2
    Home <- Homes
    BatchSize = 2
    Modes = {"fail", "individual", "partial"}
    MaxVector = 3
    MaxAttempts = 2
INVARIANTS
    InOnePlace
    HolesOnlyInErrorMode
    QueueBelowBatch
    StoredAtHome
    CountIsConfirmed
PROPERTIES
    FlushEmptiesQueues
    CallEnds
