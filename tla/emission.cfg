SPECIFICATION EmissionSpec

CONSTANTS
  MaxDirectives = 4
  MaxMembers = 3
  MaxFunctions = 2

INVARIANTS
  ListsWellFormed
  TextPlaced

CHECK_DEADLOCK FALSE
