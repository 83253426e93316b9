CONSTANTS
    N = 3
    Keys = 2
    MaxZoom = 2
    Leaf = 1
    HashMod = 4
    LabelMod = 8
    Bins = 4
    MaxRows = 2
    None = None
    Datasets <- TripDatasets
    Categories <- NoDimensions
    Buckets <- NoDimensions
    Queries <- TripQueries
SPECIFICATION QuerySpec
INVARIANTS
    TilesHoldTheirRecords
    QuadtreeCovers
    RegionsAreComplete
    RegionsAreTight
CHECK_DEADLOCK FALSE
