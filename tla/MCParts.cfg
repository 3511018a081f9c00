\* Three items in two lists; two timers, two co-routines and two tasks, with tick
\* counts that wrap within the run; two heap regions.
CONSTANTS
  Items = {i1, i2, i3}
  Headers = {list1, list2}
  NoList = nolist
  MAX_DELAY = 2
  Timer = {timer1, timer2}
  NoTimer = notimer
  TickMod = 6
  QueueLength = 3
  Periods = {1, 3}
  StartTick = 4
  MaxClock = 12
  MaxAsked = 2
  MaxLag = 2
  CoRoutine = {cr1, cr2}
  NoCoRoutine = nocr
  CrPriorities = 2
  CrTickMod = 4
  CrLength = 1
  CrWaits = {0, 1, 2}
  MaxTicks = 5
  MaxBehind = 1
  Alignment = 2
  LinkSize = 2
  SizeMod = 32
  Regions <- MCRegions
  Requests = {0, 1, 3, 6}
  CpuTasks = {1, 2}
  MaxStack = 8
  MaxNest = 1
SPECIFICATION PartsSpec
INVARIANTS TimersInTime CoRoutinesInTime HeapSound ContextKept
PROPERTIES RingImplements
CHECK_DEADLOCK FALSE
