SPECIFICATION Spec
CONSTANTS
    c1 = c1
    c2 = c2
    c3 = c3
    Clusters <- ThreeClusters
    NoCluster = NoCluster
    MaxUrls = 3
INVARIANTS
    RingConsistent
    GivenClusterKept
    NoDuplicates
    
