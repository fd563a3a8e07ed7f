SPECIFICATION Spec
CONSTANTS
    Ptr <- Addresses
    NULL = "null"
    Hash <- HashOf
    Capacity = 2
    Site <- Sites
    Request <- Requests
    Policy <- Policies
    Foreign <- Library
    MaxEvents = 5
    MaxHooks = 1
INVARIANTS TracksLiveBlocks FinalReportIsCurrent
PROPERTY RemembersFreed
CHECK_DEADLOCK FALSE
