SPECIFICATION Spec
CONSTANTS
    Identifier <- Identifiers
    Paste <- PasteOf
    NoToken = "invalid"
    Name <- Names
    Definition <- ExpansionDefinitions
    Unit <- ExpansionUnits
    Compared <- ComparedUnits
    Undefined = "undefined"
    ExpansionLimit = 3
    MaxMutations = 4
    MaxCounter = 1
INVARIANTS
    
    
    FailureJustified
    ErrorsSurface
PROPERTIES
    ImplementsTable
CHECK_DEADLOCK FALSE
