SPECIFICATION Spec
CONSTANTS
    a1 = a1
    Apps = {a1}
    Streamers = {}
    Nodes <- ChainNodes
    InNodes <- ChainInNodes
    Targets = {"t1", "t2"}
    TargetOf <- ChainTargetOf
    Callbacks = {"n1"}
    Abandoners = {"n1"}
    ParamNode = "n1"
    Depth = 1
    Mode = "MANUAL"
    MaxBatch = 2
    MaxRequests = 4
CHECK_DEADLOCK FALSE
INVARIANTS
    InputRefsBacked
