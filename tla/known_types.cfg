SPECIFICATION Spec
CONSTANTS
    t1 = t1
    t2 = t2
    ty1 = ty1
    ty2 = ty2
    d1 = d1
    d2 = d2
    Threads <- TwoThreads
    TypeIds <- TwoTypes
    UserDecoders <- TwoDecoders
    None = None
    MaxMade = 3
INVARIANTS
    RegisteredStays
    OneDecoderForAll
PROPERTIES
    AtomicSpec
