SPECIFICATION Spec
CONSTANTS
    a1 = a1
    a2 = a2
    a3 = a3
    Apps = {a1, a2, a3}
    Streamers = {}
    Nodes <- JoinNodes
    InNodes <- JoinInNodes
    Targets = {"t1", "t2"}
    TargetOf <- JoinTargetOf
    Callbacks = {"n1"}
    Abandoners = {"n1"}
    ParamNode = "n1"
    Depth = 2
    Mode = "NORMAL"
    MaxBatch = 1
    MaxRequests = 3
SYMMETRY AppSymmetry
CHECK_DEADLOCK FALSE
INVARIANTS
    LeafCounts
    NoLostSchedule
    AbandonIsOwn
    AbandonReported
