SPECIFICATION Spec

CONSTANTS
  Bits = {declaration, unique, vectorAllocator}

INVARIANTS
  Inv
  KeepsWhatAgrees
  AsksForAll
