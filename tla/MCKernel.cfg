SPECIFICATION Spec
CONSTANTS
  t1 = t1 t2 = t2 t3 = t3 q1 = q1 m1 = m1 m2 = m2 g1 = g1 ms = ms ss = ss Null = Null End = End
  Tasks <- MCTasks
  Idle = Idle
  EventLists <- MCLists
  MaxPriorities = 4
  TickMod = 4
  Queues <- MCQueues
  Mutexes = {m1, m2}
  Length <- MCLength
  Groups = {g1}
  Streams = {ms, ss}
  Messages = {ms}
  xLength <- MCxLength
  xTriggerLevelBytes <- MCTrigger
  Workloads <- MCWorkloads
  MaxPend = 1
  MaxLock = 2
  MaxNotify = 2
INVARIANTS ListsExact HighestRuns Timely NothingMissed MutexesExact StreamsIntact
PROPERTIES NoOvertaking
