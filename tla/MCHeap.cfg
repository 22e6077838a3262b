SPECIFICATION Spec
CONSTANTS
  c1 = c1 c2 = c2
  Callers <- MCCallers
  ucHeap = 8
  xTotalHeapSize = 190
  Align = 16
  xHeapStructSize = 16
  Pointer = 8
  Word = 1024
  Requests <- MCRequests
  Aligns <- MCAligns
INVARIANTS FreeListExact Tiled FreeBytesExact CallerMemory
