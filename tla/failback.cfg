SPECIFICATION FairSpec
CONSTANTS
    t1 = t1
    t2 = t2
    Threads <- OneThread
    Main = t1
    NoThread = NoThread
    N = 3
    Primary = 0
    FailoverOptions = {TRUE, FALSE}
    Kinds = {"head", "hm"}
INVARIANTS
    TypeOK
    PollerFlagInv
PROPERTIES
    PollerFinishes
    DestroyEnds
    RequestEnds
