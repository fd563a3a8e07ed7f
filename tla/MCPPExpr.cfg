SPECIFICATION Spec
CONSTANTS
    Width = 4
    ResultWidth = 2
    Literal <- Literals
    Identifier = {"A", "B"}
    Keyword = {"int"}
    Macros = {"A"}
    Seed <- Seeds
    Follow <- Tokens
INVARIANTS
    AcceptsExactly
    
CHECK_DEADLOCK FALSE
