SPECIFICATION Spec
CONSTANT MaxRecords = 6
CONSTANT MaxThreads = 4
INVARIANT SameAsSequential
INVARIANT NoSharedRecord
