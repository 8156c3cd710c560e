SPECIFICATION FairSpec
CONSTANTS
  StartConfigs <- ReuseConfigs
  ChunkSizes <- OneSize
  Texts = {t1}
  NoText = NoText
  NoResult = NoResult
  ClientTypes = {"start", "audio", "finalize", "cancel", "ping", "close"}
  MaxMessages = 5
  MaxInbox = 2
  Disciplined = TRUE
  Stateful = TRUE
  DecodesFail = TRUE
  ClientLeaves = TRUE
  SendsFail = FALSE

PROPERTIES DisciplinedNeverRejected FinalizeAnswered PingAnswered DisconnectReleases
