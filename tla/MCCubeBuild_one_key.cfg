CONSTANTS
    N = 4
    Keys = 1
    MaxZoom = 2
    Leaf = 1
    HashMod = 8
    LabelMod = 8
    None = None
    Datasets <- OneKeyDatasets
    Categories <- OneCategory
    Buckets <- TwoDayBucket
SPECIFICATION Spec
INVARIANTS
    TypeOK
    ResponseCovers
    PartsHoldTheirRecords
    NodesAligned
PROPERTIES
    RecordsStayInside
    RefinesPartition
    Terminates
CHECK_DEADLOCK FALSE
