SPECIFICATION FairSpec

CONSTANTS
  MaxDirectives = 6

INVARIANTS
  TypeOK
  ContextMatches
  SearchAround
  KeepsCommon

PROPERTIES
  NavigationEnds
