SPECIFICATION Spec

CONSTANTS
  Null = Null
  Dev = Dev
  N = 2
  CarefulClient = FALSE
  Handles <- MCHandles
  ClassOf <- MCClassOf
  Used = {}
  Allocators = {a1}
  Pools = {}
  Memories = {}
  Contexts = {c1}
  Blocks = {}
  VirtualAllocations = {}
  Strings = {}
  Buffers = {}
  Images = {}

INVARIANTS
  WrappedIsLive

CHECK_DEADLOCK FALSE
