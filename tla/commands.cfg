SPECIFICATION FairKSpec
CONSTANTS
    Callers = {"n1", "n2"}
    Patient = {"n2"}
    Targets = {"t1", "host"}
    Host = "host"
    Commands = {"create", "control", "delete"}
    NumObjects = 2
    MaxSendErrors = 1
    TargetOf <- OneTarget
    KernelOf <- OwnKernels
    NumSlots = 1
    Unsound = {"n1"}
    MaxCalls <- TwoAndOne
CHECK_DEADLOCK FALSE
INVARIANTS
    KernelsTypeOK
    FreedIsUnused
    FreeIsQuiet
    AnswerIsOwn
    ExecutedAtMostOnce
    InstancesReleased
    VerifiedIsBacked
PROPERTIES
    ExecutedInOrder
    DeleteIsOwn
    CallReturns
