SPECIFICATION FairSpec
CONSTANTS
    a1 = a1
    a2 = a2
    Apps = {a1, a2}
    Streamers = {}
    Nodes <- ChainNodes
    InNodes <- ChainInNodes
    Targets = {"t1", "t2"}
    TargetOf <- ChainTargetOf
    Callbacks = {}
    Abandoners = {}
    ParamNode = "n1"
    Depth = 2
    Mode = "AUTO"
    MaxBatch = 2
    MaxRequests = 3
CHECK_DEADLOCK FALSE
INVARIANTS
    TypeOK
    DescriptorsConserved
    NoLostSchedule
    CompletedEventMeansIdle
    PendingMeansFull
    RunningIffSubmitted
    InputRefsBacked
PROPERTIES
    WaitCoversEarlierCalls
    AcceptedCompletes
    WaitReleased
    ImplementsService
