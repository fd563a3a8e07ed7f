SPECIFICATION Spec
CONSTANTS
    Texts <- MCTexts
    SilentSteps = 18
    SWITCH_STACK_MAX = 2
CHECK_DEADLOCK FALSE
INVARIANTS
    ParsedAsWritten
    ConstraintsDiagnosed
    
    LoweringFollowsText
    WellFormedCode
    ReturnsOnEveryPath
    WarnedNeverRuns
