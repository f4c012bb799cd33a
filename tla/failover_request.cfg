SPECIFICATION FairSpec
CONSTANTS
    t1 = t1
    t2 = t2
    Threads <- OneThread
    Main = t1
    NoThread = NoThread
    N = 4
    Primary = 4
    FailoverOptions = {TRUE, FALSE}
    Kinds = {"head", "hm"}
INVARIANTS
    UnavailableMeansAllTried
PROPERTIES
    RequestEnds
    AbstractSpec
