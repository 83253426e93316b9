CONSTANTS
    None = None
    Cubes <- Names
    Schemas <- TwoSchemas
    PageCube = "b"
    Conns = {"page", "c"}
    Requests <- Sent
    Benchmarks = 1
SPECIFICATION Spec
INVARIANTS
    TypeOK
    LogLinesWhole
    CacheIsFinal
PROPERTIES
    RegistryUndisturbed
    PageStarts
    RequestsEnd
    StopEnds
CHECK_DEADLOCK FALSE
