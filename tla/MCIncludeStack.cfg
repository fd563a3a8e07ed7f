CONSTANTS
    Path <- MCPath
    NoPath = NoPath
    Hash <- MCHash
    InitialCapacity = 4
    MaxDepth = 5
SPECIFICATION FairSpec
INVARIANTS ProbeTerminates ContainsExact
PROPERTIES PushCompletes
CHECK_DEADLOCK TRUE
