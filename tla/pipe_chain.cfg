SPECIFICATION FairPipeSpec
CONSTANTS
    a1 = a1
    Apps = {a1}
    Streamers = {}
    Nodes <- ChainNodes
    InNodes <- ChainInNodes
    Callbacks = {}
    Abandoners = {}
    ParamNode = "n1"
    Depth = 2
    Mode = "AUTO"
    MaxBatch = 1
    MaxRequests = 3
    Targets = {"t1", "t2"}
    TargetOf <- ChainTargetOf
    HeadNodes <- HeadN1
    OutNodes <- ChainOutNodes
    Data <- ChainData
    Params <- ChainParams
    Writer <- ChainWriter
    NumBufs <- ChainBufs
    UserData = {"in", "out"}
    Param0 = "in"
    MaxBlocked = 8
    MaxJobs = 96
CHECK_DEADLOCK FALSE
INVARIANTS
    PipeTypeOK
    BuffersConserved
    ParkedIsWoken
    DequeuerIsWoken
    FramesInOrder
PROPERTIES
    ImplementsSchedule
    FramesDelivered
