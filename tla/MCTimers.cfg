SPECIFICATION Spec
CONSTANTS
  r = r o = o Null = Null
  TimerSet <- MCTimerSet
  Period <- MCPeriod
  AutoReload = {r}
  Commands <- MCCommands
  IsrCommands <- MCIsr
  Modes <- MCModes
  TickMod = 5
  QueueLength = 2
  MaxCmds = 3
  MaxLate = 2
  MaxAge = 2
INVARIANTS OnTime
PROPERTIES DueTimersFire
