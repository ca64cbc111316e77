SPECIFICATION FairSpec

CONSTANTS
  None = None
  MaxNodes = 3
  Data <- MCData
  Templates <- MCTemplates
  Calls <- MCCalls

INVARIANTS
  TypeOK
  Expanded
  ColumnTracked
  Aligned

PROPERTIES
  OthersIntact
  ReplaceEnds

CHECK_DEADLOCK FALSE
