SPECIFICATION FairSpec
CONSTANTS
    pods = pods  pvcs = pvcs  pvs = pvs
    Goroutine = {pvcs}
    Calls <- UpdateCalls
    Rejected = {"row"}
    Faults = {}
    MaxFaults = 0
CHECK_DEADLOCK FALSE
PROPERTY CallsEnd
