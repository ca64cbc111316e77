SPECIFICATION PassSpec

CONSTANTS
  Null = Null
  Enhanced = FALSE
  Cells = {x1, x2, x3, x4}
  Used = {"Allocation"}
  MaxLive = 4
  Mixes <- MCMixes
  Handles <- MCHandles
  ClassOf <- MCClassOf
  Allocators = {a1}
  Pools = {p1}
  Memories = {m1, m2}
  DefragmentationContexts = {c1}
  Blocks = {v1}
  VirtualAllocations = {w1}
  Buffers = {b1}
  Images = {i1}

SYMMETRY Symmetry

INVARIANTS
  UInv
  MemoryLast

