CONSTANTS
    None = None
    Views = {"count", "time-series", "binned-scatterplot", "tile"}
    Rects = {"r", "s"}
    Wheres = {"all", "some"}
    Intervals = {"long", "short"}
    Whole = "long"
    Short = {"short"}
    Resolutions = {8, 9}
    Zooms = {3, 4}
    MaxRequests = 2
    MaxPolls = 2
SPECIFICATION Spec
INVARIANTS
    PanelsShowSelection
    TilesShowSelection
CHECK_DEADLOCK FALSE
