\* The bounds of all instances; what each has less of is in MCGetBlock.
CONSTANTS
  nodeA = nodeA
  nodeB = nodeB
  Sources = {nodeA, nodeB}
  NoSource = noNode
  MAX_GB_SESSIONS = 2
  MaxSeq = 3
  BlockLen = 1
  BYTE = 2
  MaskBytes = 2
  ADDRESS_SIZE = 1
  ADDRESS_MOD = 16
  Addresses = {0, 1}
  MEM_SIZE = 3
  MaxWrites = 1
  GB_TIMEOUT = 3
  GB_BURST_INTERVAL = 2
  GB_BURST_SIZE = 1
  MAX_DELAY = 4
  MaxLast = 3
  MaxLength = 2
  MaxSilence = 0
  MaxQuiet = 3
  SendFails = TRUE
SPECIFICATION MCSpec
SYMMETRY Nodes
INVARIANTS MarkedSentOnce BurstsOnTime
PROPERTIES BurstPacing ImplementsService
