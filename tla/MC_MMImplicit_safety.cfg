\* The implicit allocator under every sequence of malloc, free, realloc and
\* calloc calls on three slots, with request sizes below, at and above a chunk:
\* the heap invariants and the refinement of the client contract MMAlloc.
CONSTANTS
  SIZE_T_MOD = 65536
  chunksize = 32
  MAX_HEAP = 80
  i1 = i1
  i2 = i2
  i3 = i3
  Ids <- MC_Ids
  Requests = {1, 9, 40}
  CallocNmemb = {2}
  CallocSize = {4}
SYMMETRY MC_Symmetry
SPECIFICATION Spec
INVARIANTS
  TypeOK
  HeapWellFormed
  NoAdjacentFree
  Ownership
  PayloadFits
  ImplLayout
PROPERTY
  AllocSpec
