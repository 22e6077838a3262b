SPECIFICATION RprocSpec
CONSTANTS
  t1 = t1
  t2 = t2
  Threads = {t1, t2}
  NoThread = NoThread
  ANY = ANY
  BITS = 5
  MaxOps = 6
  Tables <- MCTables
INVARIANTS OneDevice IdsReserved StoppedUnlessIgnored ReadyWhenGiven
CHECK_DEADLOCK FALSE
