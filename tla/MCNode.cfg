\* The dispatcher with assertions disabled, so that full queues are answered with a
\* nack; the machine "as built" of MCNode has them.
CONSTANTS
  MaxFrames = 4
  DISPATCHER_QUEUE_LEN = 2
  QueueLen <- MCQueueLen
  AssertStops = FALSE
  None = none
  TM_QUEUE_LEN = 2
  Period = 3
  ChannelMod = 8
  UtmMin = 1
  UtmMax = 4
  Channels = {0, 2, 4, 5}
  REDUNDANCY_PERIOD = 2
  REDUNDANCY_MAX_MISSES = 2
  REDUNDANCY_MAX_SWITCHES = 3
  BeatInterval = 3
  MaxQueued = 2
  MaxMoves = 2
  Commands = {0, 257, 682, 1023}
  Sources = {0, 85, 128, 255}
  Types = {0, 1, 2, 3, 4, 5, 6, 7}
  Destinations = {0, 1, 2, 128, 129, 170, 192}
  CANTS_NODE_ID = 128
  CANTS_KEEPALIVE_ID = 1
  CANTS_TIME_ID = 0
  FilterMask = 264241152
  SOC_CLOCK = 18000000
  Rates = {10000, 20000, 50000, 100000, 125000, 250000, 500000, 800000, 1000000}
  SamplePoints = {0, 700, 750, 800}
SPECIFICATION NodeSpec
INVARIANTS InOnePlace CommandsCarriedOut MessagesArrive ExactRateFound
PROPERTIES TelecommandsAnswered KeepAlivesSent KeepAlivesInOrder SwitchesJustified FindsMaster
CHECK_DEADLOCK FALSE
