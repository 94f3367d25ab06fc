SPECIFICATION Spec
CONSTANTS
    Networks <- MCConflicts
    Tick = 2
    Reach = 1
    Back = 2
    Approach = 4
    Connector = 2
    Front = 2
    Margin = 1
    Width = 3
    Clearance = 2
    MaxDark = 1
INVARIANTS
    NetworkThatLoadsCanBeSent
CHECK_DEADLOCK FALSE
