SPECIFICATION Spec
CONSTANTS
  IrqResults = {TRUE, FALSE}
  EarlyKicks = TRUE
  WAIT_LOOPS = 2
  FifoDepth = 2
  MaxMsgs = 2
  MaxResets = 2
INVARIANTS FeaturesAgree NothingDropped
PROPERTIES StartServes
CHECK_DEADLOCK FALSE
