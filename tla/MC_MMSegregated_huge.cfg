\* malloc of a size within tsize of SIZE_MAX.
CONSTANTS
  SIZE_T_MOD = 65536
  chunksize = 64
  MAX_HEAP = 680
  i1 = i1
  i2 = i2
  Ids <- MC_Ids
  Requests = {65528}
  ReallocRequests = {40}
  CallocNmemb = {2}
  CallocSize = {4}
SYMMETRY MC_Symmetry
SPECIFICATION Spec
INVARIANT PayloadFits
