SPECIFICATION FairSpec
CONSTANTS
    pods = pods  pvcs = pvcs  pvs = pvs
    Goroutine = {pods, pvcs, pvs}
    Calls <- AllCalls
    Rejected = {}
    Faults = {"deadlock", "timeout", "disconnect", "crash"}
    MaxFaults = 3
CHECK_DEADLOCK FALSE
INVARIANTS TypeOK DamageContained
PROPERTIES AllStored ImplementsAtomicCalls
