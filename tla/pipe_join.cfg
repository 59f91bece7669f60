SPECIFICATION PipeSpec
CONSTANTS
    a1 = a1
    Apps = {a1}
    Streamers = {}
    Nodes <- JoinNodes
    InNodes <- JoinInNodes
    Callbacks = {}
    Abandoners = {}
    ParamNode = "n1"
    Depth = 2
    Mode = "AUTO"
    MaxBatch = 1
    MaxRequests = 2
    Targets = {"t1", "t2"}
    TargetOf <- JoinTargetOf
    HeadNodes <- HeadN1
    OutNodes <- JoinOutNodes
    Data <- JoinData
    Params <- JoinParams
    Writer <- JoinWriter
    NumBufs <- JoinBufs
    UserData = {"in", "out"}
    Param0 = "in"
    MaxBlocked = 8
    MaxJobs = 96
CHECK_DEADLOCK FALSE
INVARIANTS
    BuffersConserved
    RunsAfterInputs
    TriggeredOnce
    FramesInOrder
