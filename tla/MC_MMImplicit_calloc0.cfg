\* Expected violation: calloc(0, size) divides by zero in its overflow test.
CONSTANTS
  SIZE_T_MOD = 65536
  chunksize = 32
  MAX_HEAP = 80
  i1 = i1
  i2 = i2
  i3 = i3
  Ids <- MC_Ids
  Requests = {1}
  CallocNmemb = {0, 2}
  CallocSize = {4}
SYMMETRY MC_Symmetry
SPECIFICATION Spec
INVARIANT NoTrap
