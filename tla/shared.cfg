SPECIFICATION Spec
CONSTANTS
    c1 = c1  v1 = v1  v2 = v2
    g1 = g1  g2 = g2
    n1 = n1  nsA = nsA
    s1 = s1  s2 = s2  s3 = s3
    NULL = NULL
    Pod = {}
    PVC = {c1}
    PV = {v1, v2}
    Name = {n1}
    Namespace = {nsA}
    Container = {}
    Source = {s1, s2, s3}
    NameOf <- OneName
    NamespaceOf <- OneNamespace
    MountsOf <- NoSpec
    SourceOf <- CreatedWith
    EditsOf <- EditedTo
    Tick = 1
    Stamped = {}
    MaxIndex = 4
    MaxCompacted = 0
    Goroutine = {g1, g2}
    NFS = {s1, s2}
    Like <- Wildcard
    MaxFaults = 1
SYMMETRY Interchangeable
CHECK_DEADLOCK FALSE
INVARIANTS TypeOK SourceResolves FewDuplicates SharedVersionCovers RowsCurrent
