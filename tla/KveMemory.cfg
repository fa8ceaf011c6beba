CONSTANTS
  MemSize = 20
  Accessible = 19
  PageSize = 8
  ChunkSize = 4
  ClipSize = 1
  KeyBuffer = 3
  Blank = 255
  MishapLimit = 0
  Key <- ThreeKeys
  Value <- TwoValues
SPECIFICATION Spec
INVARIANTS
  ForeachVisitsEachOnce
PROPERTIES
  ImplementsStore
