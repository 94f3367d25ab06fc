SPECIFICATION TrafficSpec
CONSTANTS
    Workloads <- MCWorkloads
    MaxNpc = 3
    Decision = 1
    SearchPause = 1
    ChangePause = 1
    Patience = 1
    Increment = 2
    Reserve = 1
    Limit = 2
    AccidentLimit = 3
    Window = 2
    Noise = 2
    Presentation = 3
    Reaction = 3
    Onset = 3
    Disabling = 6
    MinimumHold = 1
    HoldPerUnit = 1
    Boarding = 1
    MaxEvents = 2
    Trials <- MCTrials
INVARIANTS
    RetreatIsLimited
    ResumesOnlyAfterRest
    CarDamageMatchesBlows
PROPERTIES
    TurnsComeRound
    PlansEndOnALane
CHECK_DEADLOCK FALSE
