SPECIFICATION NotifySpec
CONSTANTS
  N = 3
  IDX_MOD = 8
  MaxBatch = 7
INVARIANTS NoLostWakeup
PROPERTIES EveryEntryTaken
