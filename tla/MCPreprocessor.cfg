SPECIFICATION FairSpec
CONSTANTS
  File <- Files
  Root <- Main
  Macro <- Macros
  Empty = "empty"
  Function = "function"
  Undefined = "undefined"
  Program <- AllPrograms
  MaxDepth = 4
INVARIANTS MatchesReading FailureJustified
PROPERTY PreprocessingEnds
CHECK_DEADLOCK FALSE
