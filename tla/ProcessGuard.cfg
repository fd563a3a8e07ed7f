SPECIFICATION Spec
CONSTANTS
    Pid = {p1, p2}
    Limits = {0, 1, 2}
    None = none
INVARIANTS
    
    RefusalJustified
