\* Expected violation: a 24-byte block puts the next payload at 8 mod 16.
CONSTANTS
  SIZE_T_MOD = 65536
  chunksize = 32
  MAX_HEAP = 80
  i1 = i1
  i2 = i2
  i3 = i3
  Ids <- MC_Ids
  Requests = {1, 9}
  CallocNmemb = {2}
  CallocSize = {4}
SYMMETRY MC_Symmetry
SPECIFICATION Spec
INVARIANT Aligned16
