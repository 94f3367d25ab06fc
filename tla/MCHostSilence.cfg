SPECIFICATION FairSpec
CONSTANTS
    Sources = {s1}
    Sessions = {c1, c2}
    Plays = {p1}
    NoKey = NoKey
    NoPlay = NoPlay
    Classes = {sedan, unspecified}
    Unspecified = unspecified
    Sedan = sedan
    Loadouts = {default}
    DefaultLoadout = default
    Catalog <- MCCatalog
    Maps = {m1}
    FirstMap = m1
    NoMap = NoMap
    Inputs = {drive}
    SafeInput = safe
    Timeout = 1
    HardTimeout = 2
    MaxQueueAge = 1
    MaxHellos = 2
    MaxPlays = 2
    MaxGeneration = 2
    MaxSeq = 4
    ClientTimes = {1}
    HelloSeqs = {1}
    EStopSeqs = {2, 3}
    MaxTime = 4
    FrameHorizon = 1
    Workloads <- MCSilence
PROPERTIES
    SilentControllerStops
CHECK_DEADLOCK FALSE
