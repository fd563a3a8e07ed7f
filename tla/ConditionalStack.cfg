SPECIFICATION CondSpec
CONSTANTS
    Lenient = FALSE
    MaxNesting = 4
INVARIANTS ActiveIffAllSelected
PROPERTIES ImplementsGroups
CHECK_DEADLOCK FALSE
