\* Three nodes share two slots: the bounds of the instances "sessions" and
\* "deadline", of which MCSetBlock takes less for each; "data" has its own.
CONSTANTS
  Sources = {nodeA, nodeB, nodeC}
  NoSource = noNode
  nodeA = nodeA
  p1 = p1
  p2 = p2
  MAX_SB_SESSIONS = 2
  MaxSeq = 0
  BlockLen = 1
  ADDRESS_SIZE = 1
  ADDRESS_MOD = 8
  Addresses = {0}
  MEM_SIZE = 1
  Payloads = {p1}
  Blank = blank
  SB_TIMEOUT = 2
  SB_WRITING_INTERVAL = 1
  MAX_DELAY = 3
  AsyncWrite = TRUE
  AbortWhileWriting = TRUE
  Prompt = FALSE
  StrayFrames = TRUE
SPECIFICATION MCSpec
INVARIANTS TypeOK OneSessionPerSource TimersAgree SessionsEndInTime DoneMeansStored
PROPERTIES NeverExpiredEarly SlotsBecomeFree StoresTransfers
