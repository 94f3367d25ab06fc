SPECIFICATION Spec
CONSTANTS
    Sources = {s1}
    Sessions = {c1, c2}
    Plays = {p1, p2, p3}
    NoKey = NoKey
    NoPlay = NoPlay
    Classes = {sedan, unspecified}
    Unspecified = unspecified
    Sedan = sedan
    Loadouts = {default, sport}
    DefaultLoadout = default
    Catalog <- MCCatalog
    Maps = {m1, m2}
    FirstMap = m1
    NoMap = NoMap
    Inputs = {drive}
    SafeInput = safe
    Timeout = 1
    HardTimeout = 2
    MaxQueueAge = 1
    MaxHellos = 2
    MaxPlays = 2
    MaxGeneration = 3
    MaxSeq = 3
    ClientTimes = {1}
    HelloSeqs = {1}
    EStopSeqs = {2, 3}
    MaxTime = 3
    FrameHorizon = 3
    Workloads <- MCWorkloads
INVARIANTS
    DrivenOnlyWhenActive
    LeaseMatchesLifecycle
    FencedConnectionsCannotReturn
    EachPlayStartsOnce
    NoCommandReplay
PROPERTIES
    ImplementsAuthority
SYMMETRY Symmetry
CHECK_DEADLOCK FALSE
