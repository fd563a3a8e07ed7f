SPECIFICATION Spec
CONSTANTS
    Name = {n1, n2, n3}
    Definition = {d1, d2}
    Undefined = undefined
    RawRange = {n1, n2}
    ExpansionLimit = 2
    MaxMutations = 5
INVARIANTS
    MemoSound
PROPERTIES
    ImplementsMap
