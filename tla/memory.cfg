SPECIFICATION Spec
CONSTANTS
  SIZEOF_STRUCT_MEM = 3
  MIN_SIZE_ALIGNED = 3
  MemSize = 18
  Sizes = {0, 1, 4, 11}
  Shrinks = {TRUE, FALSE}
  Users = {u, v}
  RbSize = 4
  Byte = {0, 1}
  Junk = Junk
  Datas <- MCDatas
  Lengths = {1, 2, 5}
  AnyForce = FALSE
INVARIANTS HpListSound HpBlocksApart HpFindsRoom
PROPERTIES RbImplements
