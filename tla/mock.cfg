SPECIFICATION MockFairSpec
CONSTANTS
    p1 = p1  p2 = p2
    c1 = c1  c2 = c2
    v1 = v1  v2 = v2
    n1 = n1  nsA = nsA  nsB = nsB
    k1 = k1  s1 = s1
    NULL = NULL
    Pod = {p1}
    PVC = {c1}
    PV = {v1}
    Name = {n1}
    Namespace = {nsA, nsB}
    Container = {k1}
    Source = {s1}
    NameOf <- OneName
    NamespaceOf <- OneNamespace
    MountsOf <- MountN1
    SourceOf <- OneExported
    EditsOf <- Unmoved
    Tick = 1
    Stamped = {p1}
    MaxIndex = 4
    MaxCompacted = 0
    Overlap = {0}
    Watched = {"pods", "persistentvolumeclaims", "persistentvolumes"}
    MaxDrops = 1
    MaxCrashes = 0
CHECK_DEADLOCK FALSE
INVARIANTS MockTypeOK MapsConverge UpdatesFindEntries DeletionsSeen
PROPERTY EventuallyCurrent
