SPECIFICATION Spec
CONSTANTS
  Objs = {o1, o2, o3, o4, o5}
  None = None
  BlockSize = 2
  MaxBlocks = 2
  Shift = 3
INVARIANTS
  TypeOK
  FreeListSound
  LookupRight
  Found
PROPERTIES
  MapSpec
