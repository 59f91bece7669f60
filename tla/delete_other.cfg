SPECIFICATION KSpec
CONSTANTS
    Callers = {"n1", "n2"}
    Patient = {"n2"}
    Targets = {"t1", "host"}
    Host = "host"
    Commands = {"create", "control", "delete"}
    NumObjects = 4
    MaxSendErrors = 0
    TargetOf <- OneTarget
    KernelOf <- SameKernel
    NumSlots = 2
    Unsound = {"n1"}
    MaxCalls <- OneEach
CHECK_DEADLOCK FALSE
PROPERTIES
    DeleteIsOwn
