CONSTANTS
    None = None
    Clients = {"p"}
    Kinds = {"rest", "file", "listing", "garbled"}
    MaxRequests = 2
    FileChunks = 2
    Room = 2
SPECIFICATION Spec
INVARIANT LinksAlive
PROPERTIES
    RefinesExchange
    AnswersEnd
    ThreadsEnd
CHECK_DEADLOCK FALSE
