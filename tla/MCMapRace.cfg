SPECIFICATION Spec
CONSTANTS
    Classes = {sedan}
    Loadouts = {standard}
    FirstClass = sedan
    NoLoadout = standard
    Maps = {map1, map2}
    FirstMap = map1
    NotReady = none
    MaxGen = 5
    MaxTasks = 1
    MaxUp = 1
    MaxDown = 2
    MaxFaults = 2
    MaxPicks = 0
    MaxSeq = 12
INVARIANT
    CommittedMapIsAccepted
CHECK_DEADLOCK FALSE
