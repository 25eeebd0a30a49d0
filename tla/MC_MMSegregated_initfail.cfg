\* Expected violation: a backing region too small for the 552-byte prefix
\* makes mm_init fail, and malloc goes on to read the NULL seglist.
CONSTANTS
  SIZE_T_MOD = 65536
  chunksize = 64
  MAX_HEAP = 544
  i1 = i1
  i2 = i2
  Ids <- MC_Ids
  Requests = {40}
  ReallocRequests = {40}
  CallocNmemb = {2}
  CallocSize = {4}
SYMMETRY MC_Symmetry
SPECIFICATION Spec
INVARIANT NoTrap
