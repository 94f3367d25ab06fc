SPECIFICATION RoadSpec
CONSTANTS
    Networks <- MCNetworks
    Tick = 2
    Reach = 1
    Back = 2
    Approach = 4
    Connector = 2
    Front = 2
    Margin = 1
    Width = 3
    Clearance = 2
    MaxDark = 1
    TileLifetime = 2
    Pin = 1
    Retry = 1
    MaximumTiles = 3
    MaximumDemands = 1
    Scenes <- MCScenes
INVARIANTS
    OverLineIsCommitted
    TrafficStandsOnThisWorld
PROPERTIES
    CrossingIsClear
    PlayerIsNotHeldForever
