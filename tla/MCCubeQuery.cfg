CONSTANTS
    N = 3
    Keys = 1
    MaxZoom = 2
    Leaf = 2
    HashMod = 8
    LabelMod = 8
    Bins = 4
    MaxRows = 2
    None = None
    Datasets <- SampleDatasets
    Categories <- TwoCategories
    Buckets <- DayBucket
    Queries <- ClientQueries
SPECIFICATION QuerySpec
INVARIANTS
    CursorOnNode
    AnswerIsCount
    RowsMatchQuery
    EveryRecordIsDrawn
PROPERTY
    Answered
CHECK_DEADLOCK FALSE
