CONSTANTS
    None = None
    Cubes = {"cube"}
    Keys = 2
    Sizes <- MCSizes
    Menu <- MCMenu
    Timelines <- MCTimelines
    Zoom = 0
    Unclear = {0, 30}
    Mantissa = 3
    Schemata <- MCSchemata
    Bins <- MCBins
    LogLines <- MCLogLines
    Selections <- MCSelections
SPECIFICATION Spec
INVARIANTS
    Understood
    PrintsBack
CHECK_DEADLOCK FALSE
