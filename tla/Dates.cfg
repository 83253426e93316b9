CONSTANTS
    First = 1899
    Last = 2101
    Word = 262144
SPECIFICATION Spec
INVARIANT
    CalendarsAgree
CHECK_DEADLOCK FALSE
