\* One timer of the period that makes its restart come late, and a queue with room.
CONSTANTS
  Timer = {timer1}
  NoTimer = notimer
  TickMod = 6
  QueueLength = 3
  Periods = {1, 3}
  StartTick = 4
  MaxClock = 12
  MaxAsked = 2
  MaxLag = 2
SPECIFICATION TimersSpec
INVARIANT StoppedTimersRest
CHECK_DEADLOCK FALSE
