SPECIFICATION Spec
CONSTANTS
  StartConfigs <- RollingConfigs
  ChunkSizes <- TwoSizes
  Texts = {t1, t2}
  NoText = NoText
  NoResult = NoResult
  ClientTypes = {"start", "audio", "finalize", "cancel", "ping", "pong", "close", "malformed"}
  MaxMessages = 5
  MaxInbox = 2
  Disciplined = FALSE
  Stateful = FALSE
  DecodesFail = TRUE
  ClientLeaves = TRUE
  SendsFail = FALSE
INVARIANTS TypeOK NoLostWakeup FinalCoversUtterance OutcomeIsLast RevisionsIncrease JoinHasSender
PROPERTY LifecycleSpec
