\* calloc of a product that wraps size_t.
CONSTANTS
  SIZE_T_MOD = 65536
  chunksize = 64
  MAX_HEAP = 680
  i1 = i1
  i2 = i2
  Ids <- MC_Ids
  Requests = {40}
  ReallocRequests = {40}
  CallocNmemb = {2}
  CallocSize = {32772}
SYMMETRY MC_Symmetry
SPECIFICATION Spec
INVARIANT PayloadFits
