SPECIFICATION Spec
CONSTANTS
  N = 2
  IDX_MOD = 4
  Bufs = {b1, b2, b3}
  NULL = NULL
INVARIANTS Exclusive IInv
PROPERTIES ImplementsFifo
