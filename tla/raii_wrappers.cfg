SPECIFICATION Spec

CONSTANTS
  Null = Null
  Dev = Dev
  N = 4
  CarefulClient = TRUE
  Handles <- MCHandles
  ClassOf <- MCClassOf
  Used = {"Buffer"}
  Allocators = {a1, a2}
  Pools = {p1}
  Memories = {m1}
  Contexts = {}
  Blocks = {}
  VirtualAllocations = {}
  Strings = {}
  Buffers = {b1}
  Images = {}

SYMMETRY Symmetry

INVARIANTS
  TypeOK
  IInv
  OneOwner
  UsersFirst

PROPERTIES
  CombinedWhole
  LifetimeSpec

CHECK_DEADLOCK FALSE
