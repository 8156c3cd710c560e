SPECIFICATION Spec
CONSTANTS
  HeaderBytes = 2
  MaxPayload = 2
  Shapes <- SmallShapes
  CleanEnd = TRUE
  MaxFrames = 3
  InterruptedAt = {"payload"}
  MaxInterrupts = 1
PROPERTY ChannelSpec
CHECK_DEADLOCK FALSE
