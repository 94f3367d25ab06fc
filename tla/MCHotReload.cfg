\* Bakes that race with polls and fail half way, with and without a traffic
\* network that changes too.
SPECIFICATION FairReloadSpec
CONSTANTS
    Contents = {a, b}
    FirstContent = a
    Networks = {n}
    NoBytes = NoBytes
    NoMap = NoMap
    NoTraffic = NoTraffic
    Workloads <- MCWorkloads
    MaxFaults = 1
INVARIANTS
    NoMixedPackage
PROPERTIES
    NewestPackageRuns
    NewestTrafficRuns
CHECK_DEADLOCK FALSE
