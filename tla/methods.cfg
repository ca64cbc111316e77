SPECIFICATION Spec

CONSTANTS
  MaxParams = 3
  Functions <- MCFunctions

INVARIANTS
  DefaultsExact
  CallAgrees
  OverloadsDistinct
  CombinedFits

CHECK_DEADLOCK FALSE
