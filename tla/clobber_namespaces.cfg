SPECIFICATION Spec
CONSTANTS
    p1 = p1  p2 = p2
    c1 = c1  c2 = c2
    v1 = v1  v2 = v2
    n1 = n1  nsA = nsA  nsB = nsB
    k1 = k1  s1 = s1  s2 = s2
    NULL = NULL
    Pod = {p1}
    PVC = {c1, c2}
    PV = {}
    Name = {n1}
    Namespace = {nsA, nsB}
    Container = {k1}
    Source = {s1}
    NameOf <- OneName
    NamespaceOf <- TwoNamespaces
    MountsOf <- MountN1
    SourceOf <- OneExported
    EditsOf <- Unmoved
    Stamped <- AllStamped
    Watched = {"pods", "persistentvolumeclaims"}
    Tick = 1
    Overlap = {0}
    MaxIndex = 5
    MaxCompacted = 0
    MaxDrops = 0
    MaxCrashes = 0
CHECK_DEADLOCK FALSE
PROPERTY LegitEntriesKept
