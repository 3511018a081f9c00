SPECIFICATION Spec
CONSTANTS
  low = low
  mid = mid
  high = high
  idle = idle
  none = none
  Idle = idle
  NoTask = none
  NoQueue = 0
  configMAX_PRIORITIES = 4
  TickMod = 16
  PendedMod = 256
  MaxCount = 2
  Queues <- MCQueues
  EventLists <- MCEventLists
  Tasks <- MCTasks
  Payloads <- MCPayloads
  Scenarios <- MCScenarios
INVARIANTS
  ListsSound
  HighestRuns
  WakeNotLate
  WaitsItsTime
  NoLostWakeup
  PriorityInheritance
PROPERTY ImplementsQueue
CHECK_DEADLOCK FALSE
