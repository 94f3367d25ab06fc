SPECIFICATION FairSpec
CONSTANTS
    Classes = {sedan, truck}
    Loadouts = {standard, sport}
    FirstClass = sedan
    NoLoadout = standard
    Maps = {map1, map2}
    FirstMap = map1
    NotReady = none
    MaxGen = 8
    MaxTasks = 1
    MaxUp = 1
    MaxDown = 2
    MaxFaults = 1
    MaxPicks = 1
    MaxSeq = 12
INVARIANTS
    ShownStateIsCurrent
    HudNeverOverstates
    GivesUpOnlyOverMap
PROPERTIES
    ClientRecovers
CHECK_DEADLOCK FALSE
