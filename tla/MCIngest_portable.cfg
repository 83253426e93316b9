CONSTANTS
    None = None
    Formats = {"trips", "snap", "delay", "performance", "dmp"}
    Columns <- Keys
    Ints = {"cat0"}
    Passes <- TwoPasses
    IntWords = 1
    Percent = 100
    Threads = {"t1", "t2"}
    Datasets <- ByLoader
SPECIFICATION Spec
INVARIANTS
    TypeOK
    ColumnsAligned
    WrittenOnce
    DescriptorLast
    ReadsBack
CHECK_DEADLOCK FALSE
