\* A pole that gave way is shown where it is, or not.
SPECIFICATION Spec
CONSTANTS
    Period = 2
    MaxOverruns = 2
    Times <- MCTimes
    Window = 2
    Onset = 1
    Full = 3
    Workloads <- MCImpact
    Profiles = {sedan, truck}
    FirstProfile = sedan
    Inputs = {go}
    SafeInput = stop
    Impulse = {0, 2, 3, 4}
    Start = 0
    Worlds = {w1, w2}
    FirstWorld = w1
    Unavailable = none
INVARIANTS
    LoosePoleIsShown
CHECK_DEADLOCK FALSE
