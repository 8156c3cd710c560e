SPECIFICATION FairSpec
CONSTANTS
  StartConfigs <- BasicConfigs
  ChunkSizes <- OneSize
  Texts = {t1}
  NoText = NoText
  NoResult = NoResult
  ClientTypes = {"start", "audio", "cancel"}
  MaxMessages = 4
  MaxInbox = 2
  Disciplined = TRUE
  Stateful = TRUE
  DecodesFail = FALSE
  ClientLeaves = TRUE
  SendsFail = TRUE
PROPERTY DisconnectReleases
CHECK_DEADLOCK FALSE
