SPECIFICATION MboxSpec
CONSTANTS
  RxId = 2
  OtherIds = {0}
  FifoDepth = 3
  MaxLoops = 2
  Relatch = {TRUE, FALSE}
INVARIANTS NoLostKick
PROPERTIES MessageReceived
