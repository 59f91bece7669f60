SPECIFICATION FairStreamSpec
CONSTANTS
    Apps = {"stream"}
    Streamers = {"stream"}
    Streamer = "stream"
    Nodes <- ChainNodes
    InNodes <- ChainInNodes
    Targets = {"t1", "t2"}
    TargetOf <- ChainTargetOf
    Callbacks = {"n1"}
    Abandoners = {"n1"}
    ParamNode = "n1"
    Trigger = "n1"
    Depth = 2
    Mode = "NORMAL"
    MaxBatch = 1
    MaxRequests = 5
    NumElems = 2
CHECK_DEADLOCK FALSE
INVARIANTS
    OneNextExecution
    StoppedMeansIdle
PROPERTIES
    StopReturns
    ImplementsChannel
