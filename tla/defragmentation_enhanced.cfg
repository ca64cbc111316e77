SPECIFICATION PassSpec

CONSTANTS
  Null = Null
  Enhanced = TRUE
  Cells = {x1}
  Used = {"Allocation"}
  MaxLive = 4
  Mixes <- MCMixes
  Handles <- MCHandles
  ClassOf <- MCClassOf
  Allocators = {a1}
  Pools = {}
  Memories = {m1}
  DefragmentationContexts = {c1}
  Blocks = {}
  VirtualAllocations = {}
  Buffers = {}
  Images = {}

SYMMETRY Symmetry

INVARIANTS
  MovesDelivered

CHECK_DEADLOCK FALSE
