SPECIFICATION Spec

CONSTANTS
  Allocator = Allocator
  Pool = Pool
  Allocation = Allocation
  Buffer = Buffer
  Handles = {Allocator, Pool, Allocation, Buffer}
  VkHandles = {Buffer}
  Other = Other
  MaxFunctions = 4
  Sources <- MCSources

INVARIANTS
  TypeOK
  OwnersFound
  DestructorsFound
  RejectsContradictions

CHECK_DEADLOCK FALSE
