\* The segregated allocator under every sequence of malloc, free, realloc
\* (shrinking in place included) and calloc calls on two slots: the heap
\* invariants, no allocator write into a live payload, and the refinement
\* of the client contract MMAlloc.
CONSTANTS
  SIZE_T_MOD = 65536
  chunksize = 64
  MAX_HEAP = 680
  i1 = i1
  i2 = i2
  Ids <- MC_Ids
  Requests = {40}
  ReallocRequests = {1, 40}
  CallocNmemb = {2}
  CallocSize = {4}
SYMMETRY MC_Symmetry
SPECIFICATION Spec
INVARIANTS
  TypeOK
  HeapWellFormed
  FreeListsExact
  Ownership
  PayloadFits
  SegLayout
PROPERTIES
  ClientDataPreserved
  AllocSpec
