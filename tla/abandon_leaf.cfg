SPECIFICATION Spec
CONSTANTS
    a1 = a1
    Apps = {a1}
    Streamers = {}
    Nodes <- ChainNodes
    InNodes <- ChainInNodes
    Targets = {"t1", "t2"}
    TargetOf <- ChainTargetOf
    Callbacks = {"n2"}
    Abandoners = {"n2"}
    ParamNode = "n1"
    Depth = 2
    Mode = "NORMAL"
    MaxBatch = 1
    MaxRequests = 4
CHECK_DEADLOCK FALSE
INVARIANTS
    AbandonReported
