\* A transmission ends inside the critical section of a sender.
CONSTANTS
  Controllers = {can0, can1}
  Primary = can0
  Senders = {t1, t2}
  MaxFrames = 2
  MaxArrivals = 1
  MaxErrors = 0
  MaxSwitches = 0
  CAN_SEND_QUEUE_LEN = 2
  DISPATCHER_QUEUE_LEN = 1
  Empty = empty
  AssertStops = TRUE
SPECIFICATION Spec
INVARIANTS NothingLost
CHECK_DEADLOCK FALSE
