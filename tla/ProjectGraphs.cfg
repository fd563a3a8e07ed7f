SPECIFICATION Spec
CONSTANTS
  Paths <- MCPaths
  CanonicalNames <- MCCanonicalNames
  Domains <- MCDomains
  Roles <- MCRoles
  Dimensions <- MCDimensions
  Units <- MCUnits
  Texts <- MCTexts
  Plans <- MCPlans
  Plan <- MCPlan
CHECK_DEADLOCK FALSE
INVARIANTS
  
  SemanticGraphExact
  PhysicalGraphExact
  HardwareGraphExact
  FreshWhenRead
