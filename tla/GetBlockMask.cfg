\* A mask one byte longer than the session needs.
CONSTANTS
  Sources = {nodeA}
  NoSource = noNode
  MAX_GB_SESSIONS = 1
  MaxSeq = 1
  BlockLen = 1
  BYTE = 1
  MaskBytes = 2
  ADDRESS_SIZE = 1
  ADDRESS_MOD = 16
  Addresses = {0}
  MEM_SIZE = 2
  MaxWrites = 0
  GB_TIMEOUT = 2
  GB_BURST_INTERVAL = 1
  GB_BURST_SIZE = 1
  MAX_DELAY = 3
  MaxLast = 1
  MaxLength = 2
  MaxSilence = 0
  MaxQuiet = 2
  SendFails = FALSE
SPECIFICATION Spec
PROPERTIES HigherBitsRefused
