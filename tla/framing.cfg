SPECIFICATION FairSpec
CONSTANTS
  HeaderBytes = 2
  MaxPayload = 2
  Shapes <- SmallShapes
  CleanEnd = TRUE
  MaxFrames = 3
  InterruptedAt = {"header"}
  MaxInterrupts = 1
INVARIANTS CleanEndLosesNothing DecoderAgrees
PROPERTIES ChannelSpec FramesReceived
CHECK_DEADLOCK FALSE
