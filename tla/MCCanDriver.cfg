\* Upper bounds; MCCanDriver gives each instance its own.
CONSTANTS
  Controllers = {can0, can1}
  Primary = can0
  Senders = {t1, t2}
  MaxFrames = 3
  MaxArrivals = 2
  MaxErrors = 1
  MaxSwitches = 2
  CAN_SEND_QUEUE_LEN = 2
  DISPATCHER_QUEUE_LEN = 2
  Empty = empty
  AssertStops = TRUE
SPECIFICATION MCSpec
INVARIANTS FramesConserved QueueNotStranded InboxInOrder
PROPERTIES SendsWhatItAccepts ImplementsFifo
CHECK_DEADLOCK FALSE
