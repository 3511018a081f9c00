\* One session in orderly traffic that sends its blocks one burst at a time.
CONSTANTS
  Sources = {nodeA}
  NoSource = noNode
  MAX_GB_SESSIONS = 1
  MaxSeq = 3
  BlockLen = 1
  BYTE = 2
  MaskBytes = 2
  ADDRESS_SIZE = 1
  ADDRESS_MOD = 16
  Addresses = {0}
  MEM_SIZE = 3
  MaxWrites = 0
  GB_TIMEOUT = 3
  GB_BURST_INTERVAL = 1
  GB_BURST_SIZE = 1
  MAX_DELAY = 4
  MaxLast = 2
  MaxLength = 2
  MaxSilence = 4
  MaxQuiet = 2
  SendFails = FALSE
SPECIFICATION Spec
INVARIANTS SessionsEndInTime
