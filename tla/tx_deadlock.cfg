SPECIFICATION Spec
CONSTANTS
    pods = pods  pvcs = pvcs  pvs = pvs
    Goroutine = {pods, pvcs}
    Calls <- MountCalls
    Rejected = {}
    Faults = {"deadlock"}
    MaxFaults = 1
CHECK_DEADLOCK FALSE
INVARIANT VersionCovers
