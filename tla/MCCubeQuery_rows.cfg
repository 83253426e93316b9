CONSTANTS
    N = 3
    Keys = 1
    MaxZoom = 2
    Leaf = 2
    HashMod = 4
    LabelMod = 8
    Bins = 4
    MaxRows = 2
    None = None
    Datasets <- SampleDatasets
    Categories <- TwoCategories
    Buckets <- DayBucket
    Queries <- ClientQueries
SPECIFICATION QuerySpec
INVARIANTS
    RowsMatchQuery
CHECK_DEADLOCK FALSE
