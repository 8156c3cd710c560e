SPECIFICATION Spec
CONSTANTS
  StartConfigs <- BasicConfigs
  ChunkSizes <- TwoSizes
  Texts = {t1}
  NoText = NoText
  NoResult = NoResult
  ClientTypes = {"start", "audio", "finalize", "cancel", "ping", "pong", "close", "malformed"}
  MaxMessages = 5
  MaxInbox = 2
  Disciplined = FALSE
  Stateful = TRUE
  DecodesFail = TRUE
  ClientLeaves = TRUE
  SendsFail = TRUE
INVARIANTS FinalCoversUtterance RecognizerReleased
CHECK_DEADLOCK FALSE
