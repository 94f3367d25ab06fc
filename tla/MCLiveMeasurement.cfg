SPECIFICATION FairSpec
CONSTANTS
    Lifetime = 2
    Interval = 1
    Workloads <- MCWorkloads
INVARIANTS
    StepsUseOneWorld
    WorldIsRecent
    RevisionsAgree
PROPERTIES
    WorldBecomesKnown
