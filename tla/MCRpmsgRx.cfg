SPECIFICATION Spec
CONSTANTS
  Bufs = {b1, b2}
  TxBufs = 1
  Contexts = {"task"}
  NULL = null
  EarlyRelease = FALSE
  TICKS = 1
  MaxMsgs = 3
INVARIANTS OneOwner InOrder
PROPERTIES BufferReturns
