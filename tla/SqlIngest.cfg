CONSTANTS
    None = None
    Lines = 4
    Failures = {"exec", "text"}
SPECIFICATION Spec
INVARIANTS
    TypeOK
    RowsMatchColumns
    NumberingAgrees
CHECK_DEADLOCK FALSE
