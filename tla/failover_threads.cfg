SPECIFICATION Spec
CONSTANTS
    t1 = t1
    t2 = t2
    Threads <- TwoThreads
    Main = t1
    NoThread = NoThread
    N = 3
    Primary = 3
    FailoverOptions = {TRUE, FALSE}
    Kinds = {"head", "hm"}
INVARIANTS
    MutexInv
PROPERTIES
    WalkUndisturbed
    AcceptedWasProbed
    NeverBackToOriginal
