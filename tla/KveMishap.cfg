CONSTANTS
  MemSize = 17
  Accessible = 16
  PageSize = 8
  ChunkSize = 4
  ClipSize = 1
  KeyBuffer = 3
  Blank = 255
  MishapLimit = 1
  Key <- MCKey
  Value <- TwoValues
SPECIFICATION Spec
INVARIANTS
  TableIsSound
PROPERTIES
  DeleteIsAtomic
  MishapsAreContained
