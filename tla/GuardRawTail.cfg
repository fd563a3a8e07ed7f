SPECIFICATION Spec
CONSTANTS
  File <- Files
  Root <- Main
  Macro <- Macros
  Empty = "empty"
  Function = "function"
  Undefined = "undefined"
  Program <- RawTailPrograms
  MaxDepth = 4
INVARIANT GuardedCycleAccepted
CHECK_DEADLOCK FALSE
