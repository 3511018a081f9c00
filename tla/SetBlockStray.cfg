\* Two nodes and a prompt task, with frames that match no session state.
CONSTANTS
  Sources = {nodeA, nodeB}
  NoSource = noNode
  MAX_SB_SESSIONS = 2
  MaxSeq = 1
  BlockLen = 1
  ADDRESS_SIZE = 1
  ADDRESS_MOD = 8
  Addresses = {0}
  MEM_SIZE = 2
  Payloads = {p1}
  Blank = blank
  SB_TIMEOUT = 3
  SB_WRITING_INTERVAL = 1
  MAX_DELAY = 4
  AsyncWrite = FALSE
  AbortWhileWriting = TRUE
  Prompt = TRUE
  StrayFrames = TRUE
SPECIFICATION Spec
INVARIANTS ExpiredInTime
