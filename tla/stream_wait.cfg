SPECIFICATION FairStreamSpec
CONSTANTS
    Apps = {"stream", "a1"}
    Streamers = {"stream"}
    Streamer = "stream"
    Nodes <- ChainNodes
    InNodes <- ChainInNodes
    Targets = {"t1", "t2"}
    TargetOf <- ChainTargetOf
    Callbacks = {"n1"}
    Abandoners = {}
    ParamNode = "n1"
    Trigger = "n1"
    Depth = 2
    Mode = "NORMAL"
    MaxBatch = 1
    MaxRequests = 5
    NumElems = 3
CHECK_DEADLOCK FALSE
PROPERTIES
    StopReturns
