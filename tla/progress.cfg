SPECIFICATION FairSpec
CONSTANTS
    p1 = p1  p2 = p2
    c1 = c1  c2 = c2
    v1 = v1  v2 = v2
    n1 = n1  nsA = nsA  nsB = nsB
    k1 = k1  s1 = s1  s2 = s2
    NULL = NULL
    Pod = {}
    PVC = {c1}
    PV = {v1, v2}
    Name = {n1}
    Namespace = {nsA, nsB}
    Container = {k1}
    Source = {s1}
    NameOf <- OneName
    NamespaceOf <- OneNamespace
    MountsOf <- NoneMounted
    SourceOf <- OneExported
    EditsOf <- NoneEdited
    Stamped <- AllStamped
    Watched = {"persistentvolumes"}
    Tick = 1
    Overlap = {0, 1}
    MaxIndex = 5
    MaxCompacted = 2
    MaxDrops = 1
    MaxCrashes = 1
CHECK_DEADLOCK FALSE
INVARIANT IInv
PROPERTY EventuallyRecorded
