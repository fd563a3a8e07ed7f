CONSTANTS
    Name = {"x", "y", "f"}
    Base = {"int", "char"}
    Promoted = {"int"}
    Hash <- MCHash
    InitialBuckets = 1
    Jobs <- MCJobs
SPECIFICATION Spec
INVARIANTS
    
    LinkedFromAll
    
    TempsRemoved
    ObjectsMatchStatus
    DiagnosticsComplete
