SPECIFICATION PartsSpec
CONSTANTS
    Keys = {k1, k2}
    NoKey = NoKey
    Timeout = 1
    HardTimeout = 3
    MaxQueueAge = 2
    MaxSeq = 3
    MaxClientTime = 5
    MaxTime = 8
    CommandHorizon = 4
    MaxQueue = 2
    MaxStates = 4
INVARIANTS
    DisplacedOwnersAreFenced
    QueueAgeIsBacklog
    WriteOwnsFront
    NoForbiddenOverlap
PROPERTIES
    NoPreemption
    SilentOwnerIsRetired
    AtMostOneLateFrame
    CloseTerminates
    NewestStateDelivered
CHECK_DEADLOCK FALSE
