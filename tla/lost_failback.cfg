SPECIFICATION Spec
CONSTANTS
    t1 = t1
    t2 = t2
    Threads <- OneThread
    Main = t1
    NoThread = NoThread
    N = 2
    Primary = 0
    FailoverOptions = {FALSE}
    Kinds = {"head"}
INVARIANTS
    BackupHasPoller
