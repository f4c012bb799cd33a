SPECIFICATION Spec
CONSTANT MaxChunks = 3
INVARIANT ResponseIsWhole
INVARIANT TimedOutIsLate
INVARIANT Guarded
PROPERTY SendEnds
CHECK_DEADLOCK FALSE
