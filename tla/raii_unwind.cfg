SPECIFICATION FairSpec

CONSTANTS
  Null = Null
  Dev = Dev
  N = 3
  CarefulClient = TRUE
  Handles <- MCHandles
  ClassOf <- MCClassOf
  Used = {"Image", "StatsString"}
  Allocators = {a1}
  Pools = {}
  Memories = {m1}
  Contexts = {c1}
  Blocks = {v1}
  VirtualAllocations = {w1}
  Strings = {s1}
  Buffers = {}
  Images = {i1}

INVARIANTS
  NoFault

PROPERTIES
  UnwindsToNothing

CHECK_DEADLOCK FALSE
