SPECIFICATION Spec

CONSTANTS
  Memories = {m1, m2, m3}
  Resources = {r1}
  MaxSize = 3

INVARIANTS
  TypeOK
  OnePlace
  NativeArgsHeld

PROPERTIES
  PagePerElement
  AtomicSpec

CHECK_DEADLOCK FALSE
